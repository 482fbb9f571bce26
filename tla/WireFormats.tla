---------------------------- MODULE WireFormats ----------------------------
(***************************************************************************)
(* The byte formats the registry's answers come in, and their parsers:     *)
(* watch records (parse_watch_events, registry.rs), value records          *)
(* (parse_value_records) and value data (Data, registry/data.rs).          *)
(*                                                                         *)
(* A buffer is a sequence of cells.  A length, a depth, a count or a type  *)
(* takes one cell whatever its width, as a byte does.  The kernel appends  *)
(* records; a defect may then change a cell or cut the buffer, and the     *)
(* parsers must tell.                                                      *)
(***************************************************************************)
EXTENDS Integers, Sequences, SequencesExt

CONSTANTS Events,      \* watch events the kernel writes: [kind, name, path, ext]
          Records,     \* value records: [name, type, data]
          Cells,       \* what a cell can hold
          Stored,      \* value data programs store, as Data
          Loose,       \* value data programs store as bytes
          Garbled,     \* cells that are not UTF-8
          MaxRecords   \* bound: records in one buffer

VARIABLES
    form,       \* "watch", "values" or "data": what the buffer holds
    sent,       \* the records the kernel wrote, or the data that was stored
    buf,        \* the bytes as they are read
    tag,        \* the type they are stored as (data only)
    defect      \* a cell was changed, the buffer cut, or bytes stored as such
wireVars == <<form, sent, buf, tag, defect>>

NUL == 0
Malformed == [ok |-> FALSE, out |-> <<>>]
Parsed(out) == [ok |-> TRUE, out |-> out]
Take(b, n) == SubSeq(b, 1, n)
Drop(b, n) == SubSeq(b, n + 1, Len(b))

----------------------------------------------------------------------------
(* Records as the kernel writes them.  A subtree watch's record has an     *)
(* extension: the depth, and the components of the path with their         *)
(* lengths.  A direct watch's has none.                                    *)
PathBytes(path) == FlattenSeq([i \in DOMAIN path |-> <<Len(path[i])>> \o path[i]])
Extension(e) == IF e.ext THEN <<Len(e.path)>> \o PathBytes(e.path) ELSE <<>>
WatchRecord(e) ==
    LET tail == e.name \o Extension(e)
    IN <<3 + Len(tail), e.kind, Len(e.name)>> \o tail
ValueRecord(r) == <<Len(r.name)>> \o (r.name \o (<<r.type, Len(r.data)>> \o r.data))

----------------------------------------------------------------------------
(* decode_watch_component refuses a NUL.                                   *)
decode_watch_component(b) == NUL \notin ToSet(b)

(* parse_watch_path: depth components, and nothing behind the last one.    *)
PathParts[depth \in Nat] == [rest \in Seq(Cells) |->
    IF depth = 0 THEN IF rest = <<>> THEN Parsed(<<>>) ELSE Malformed
    ELSE IF rest = <<>> \/ Len(rest) - 1 < rest[1] THEN Malformed
    ELSE LET part == Take(Tail(rest), rest[1])
             more == PathParts[depth - 1][Drop(Tail(rest), rest[1])]
         IN IF decode_watch_component(part) /\ more.ok
            THEN Parsed(<<part>> \o more.out) ELSE Malformed]
parse_watch_path(ext) == IF ext = <<>> THEN Parsed(<<>>) ELSE PathParts[ext[1]][Tail(ext)]

\* A bug: a name may run past its record, into the next one.
RecordUnbounded(b) ==
    LET name == Take(Drop(b, 3), b[3])
        path == parse_watch_path(Drop(Drop(Take(b, b[1]), 3), b[3]))
    IN IF 3 + b[3] <= Len(b) /\ decode_watch_component(name) /\ path.ok
       THEN Parsed([kind |-> b[2], name |-> name, path |-> path.out]) ELSE Malformed

(* The first record of b, whose length is known to fit: its name ends      *)
(* inside it, and the path is what is behind the name.                     *)
WatchEvent(b) ==
    LET body == Drop(Take(b, b[1]), 3)
        name == Take(body, b[3])
        path == parse_watch_path(Drop(body, b[3]))
    IN IF b[3] <= Len(body) /\ decode_watch_component(name) /\ path.ok
       THEN Parsed([kind |-> b[2], name |-> name, path |-> path.out]) ELSE Malformed

(* parse_watch_events: every record of the buffer, or EINVAL.              *)
parse_watch_events[rest \in Seq(Cells)] ==
    IF rest = <<>> THEN Parsed(<<>>)
    ELSE IF Len(rest) < 3 \/ rest[1] < 3 \/ rest[1] > Len(rest) THEN Malformed
    ELSE LET first == WatchEvent(rest)
             more == parse_watch_events[Drop(rest, rest[1])]
         IN IF first.ok /\ more.ok THEN Parsed(<<first.out>> \o more.out) ELSE Malformed

(* parse_value_records: as many records as the kernel says there are, each *)
(* a name, then a type and the data.                                       *)
ValueRecords[count \in Nat] == [rest \in Seq(Cells) |->
    IF count = 0 THEN Parsed(<<>>)
    ELSE IF rest = <<>> \/ Len(rest) < rest[1] + 3 THEN Malformed
    ELSE LET behind == Drop(Tail(rest), rest[1])
             record == [name |-> Take(Tail(rest), rest[1]), type |-> behind[1],
                        data |-> Take(Drop(behind, 2), behind[2])]
             more == ValueRecords[count - 1][Drop(Drop(behind, 2), behind[2])]
         IN IF behind[2] + 2 <= Len(behind) /\ more.ok
            THEN Parsed(<<record>> \o more.out) ELSE Malformed]
parse_value_records(count, b) == ValueRecords[count][b]

----------------------------------------------------------------------------
(* Data: a kind and its value.  A number's value is its little-endian      *)
(* bytes; Raw keeps the type with the bytes.                               *)
Width == [DWORD |-> 2, DWORD_BIG_ENDIAN |-> 2, QWORD |-> 4]
Utf8(b) == ToSet(b) \cap Garbled = {}

\* What is before the first NUL.
FirstRun(b) == Take(b, CHOOSE n \in 0 .. Len(b) :
                   (n < Len(b) => b[n + 1] = NUL) /\ \A i \in 1 .. n : b[i] # NUL)

\* A bug: a string ends at its first NUL, as C reads it.
TrimmedAtFirst(b) == FirstRun(b)

(* A string's bytes without the NULs it ends with.                         *)
Trimmed(b) == Take(b, CHOOSE n \in 0 .. Len(b) :
                  (n > 0 => b[n] # NUL) /\ \A i \in n + 1 .. Len(b) : b[i] = NUL)

(* Data::encode.                                                           *)
encode(d) ==
    CASE d.kind \in {"SZ", "EXPAND_SZ"} -> Append(d.value, NUL)
      [] d.kind = "MULTI_SZ" -> FlattenSeq([i \in DOMAIN d.value |-> Append(d.value[i], NUL)]) \o <<NUL>>
      [] d.kind = "DWORD_BIG_ENDIAN" -> Reverse(d.value)
      [] OTHER -> d.value

(* strings: the runs of bytes between NULs that are not empty.             *)
strings[b \in Seq(Cells)] ==
    IF b = <<>> THEN <<>>
    ELSE LET run == FirstRun(b)  more == strings[Drop(b, Len(run) + 1)]
         IN IF run = <<>> THEN more ELSE <<run>> \o more

Is(ty, value) == [kind |-> ty, value |-> value, ty |-> ty]
Raw(ty, b) == [kind |-> "Raw", value |-> b, ty |-> ty]
Fits(ty, b) ==
    CASE ty = "NONE" -> b = <<>>
      [] ty \in {"SZ", "EXPAND_SZ"} -> Utf8(b) /\ NUL \notin ToSet(Trimmed(b))
      [] ty = "LINK" -> Utf8(b) /\ NUL \notin ToSet(b)
      [] ty = "MULTI_SZ" -> Utf8(b)
      [] ty \in DOMAIN Width -> Len(b) = Width[ty]
      [] ty = "BINARY" -> TRUE
      [] OTHER -> FALSE

(* Data::decode: bytes that do not fit their type stay Raw.                *)
decode(ty, b) ==
    IF ~Fits(ty, b) THEN Raw(ty, b)
    ELSE Is(ty, CASE ty \in {"SZ", "EXPAND_SZ"} -> Trimmed(b)
                  [] ty = "MULTI_SZ" -> strings[b]
                  [] ty = "DWORD_BIG_ENDIAN" -> Reverse(b)
                  [] OTHER -> b)

----------------------------------------------------------------------------
(* The kernel's records fit their length fields, and its names and paths   *)
(* hold no NUL.  Data that programs store is of its kind: no NUL inside a  *)
(* string, no empty string in a list, Raw only what does not decode.       *)
Text == Seq(Cells \ {NUL})
Utf8Text == Seq(Cells \ (Garbled \cup {NUL}))
Storable(d) ==
    \/ d = Raw(d.ty, d.value) /\ d.value \in Seq(Cells) /\ ~Fits(d.ty, d.value)
    \/ /\ d = Is(d.ty, d.value)
       /\ CASE d.ty \in {"SZ", "EXPAND_SZ"} -> d.value \in Utf8Text
            [] d.ty = "MULTI_SZ" -> d.value \in Seq(Utf8Text \ {<<>>})
            [] OTHER -> d.value \in Seq(Cells) /\ Fits(d.ty, d.value)

ASSUME WireAssumption ==
    /\ NUL \in Cells /\ Cells \subseteq Nat /\ NUL \notin Garbled
    /\ \A e \in Events : /\ e \in [kind : Cells, name : Text, path : Seq(Text), ext : BOOLEAN]
                         /\ WatchRecord(e) \in Seq(Cells)
    /\ \A r \in Records : /\ r \in [name : Seq(Cells), type : Cells, data : Seq(Cells)]
                          /\ ValueRecord(r) \in Seq(Cells)
    /\ \A d \in Stored : Storable(d)
    /\ Loose \subseteq Seq(Cells)
    /\ MaxRecords \in Nat

WireInit ==
    /\ form \in {"watch", "values", "data"}
    /\ sent = <<>> /\ buf = <<>> /\ tag = "NONE" /\ defect = FALSE

(* The kernel writes a record.                                             *)
Write ==
    /\ ~defect /\ Len(sent) < MaxRecords
    /\ \/ /\ form = "watch"
          /\ \E e \in Events : sent' = Append(sent, e) /\ buf' = buf \o WatchRecord(e)
       \/ /\ form = "values"
          /\ \E r \in Records : sent' = Append(sent, r) /\ buf' = buf \o ValueRecord(r)
    /\ UNCHANGED <<form, tag, defect>>

(* A record that is not as the protocol says: a cell changed, or the end   *)
(* missing.                                                                *)
Damage ==
    /\ form # "data" /\ ~defect /\ defect' = TRUE
    /\ \/ \E i \in DOMAIN buf, c \in Cells : buf' = [buf EXCEPT ![i] = c]
       \/ \E n \in 0 .. Len(buf) - 1 : buf' = SubSeq(buf, 1, n)
    /\ UNCHANGED <<form, sent, tag>>

(* A program stores a value: Data, as its type; or bytes under any tag,    *)
(* which the kernel does not check (data.rs:3-4).                          *)
Store ==
    /\ form = "data" /\ ~defect /\ sent = <<>>
    /\ \/ \E d \in Stored : sent' = <<d>> /\ buf' = encode(d) /\ tag' = d.ty /\ defect' = FALSE
       \/ \E b \in Loose, ty \in {d.ty : d \in Stored} :
             sent' = <<>> /\ buf' = b /\ tag' = ty /\ defect' = TRUE
    /\ UNCHANGED form

WireNext == Write \/ Damage \/ Store

WireSpec == WireInit /\ [][WireNext]_wireVars

----------------------------------------------------------------------------
Path(e) == IF e.ext THEN e.path ELSE <<>>

(* A read of watch records gives exactly the events the kernel wrote, or   *)
(* EINVAL: it never invents, merges, shortens or drops one, and when the   *)
(* buffer is damaged what it does return accounts for every cell of the    *)
(* buffer and holds no NUL (registry.rs:1073-1140).                        *)
WatchParseIsExact ==
    form = "watch" =>
        LET parsed == parse_watch_events[buf] IN
        /\ ~defect => parsed = Parsed([i \in DOMAIN sent |->
               [kind |-> sent[i].kind, name |-> sent[i].name, path |-> Path(sent[i])]])
        /\ parsed.ok =>
             /\ \A i \in DOMAIN parsed.out :
                  parsed.out[i].name \in Text /\ parsed.out[i].path \in Seq(Text)
             /\ \E ext \in [DOMAIN parsed.out -> BOOLEAN] :
                  buf = FlattenSeq([i \in DOMAIN parsed.out |-> WatchRecord(
                      [kind |-> parsed.out[i].kind, name |-> parsed.out[i].name,
                       path |-> parsed.out[i].path, ext |-> ext[i]])])

(* A read of value records gives the values the kernel counted, or EINVAL: *)
(* what it returns is what the buffer starts with, record by record        *)
(* (registry.rs:1309-1343).                                                *)
ValuesParseIsExact ==
    form = "values" =>
        LET parsed == parse_value_records(Len(sent), buf) IN
        /\ ~defect => parsed = Parsed(sent)
        /\ parsed.ok => /\ Len(parsed.out) = Len(sent)
                        /\ IsPrefix(FlattenSeq([i \in DOMAIN sent |-> ValueRecord(parsed.out[i])]), buf)

(* What the kernel's records are parsed to is what it wrote, for watches   *)
(* and for values, or EINVAL: the two properties above together.           *)
ParseIsExact == WatchParseIsExact /\ ValuesParseIsExact

\* The bytes that are not NULs.
Others[b \in Seq(Cells)] ==
    IF b = <<>> THEN <<>>
    ELSE IF b[1] = NUL THEN Others[Tail(b)] ELSE <<b[1]>> \o Others[Tail(b)]

(* Data that a program stored decodes to itself.  Bytes stored under any   *)
(* tag lose nothing by being decoded and stored again but terminating      *)
(* NULs, and a list its empty strings; and the second decoding gives what  *)
(* the first gave (registry/data.rs:15-24, 52-137).                        *)
DecodeLosesNothing ==
    form = "data" =>
        LET d == decode(tag, buf) IN
        /\ sent # <<>> => d = sent[1]
        /\ decode(d.ty, encode(d)) = d
        /\ IF d.kind = "MULTI_SZ"
           THEN Others[encode(d)] = Others[buf]
           ELSE IF d.kind \in {"SZ", "EXPAND_SZ"}
                THEN IsPrefix(d.value, buf) /\ ToSet(Drop(buf, Len(d.value))) \subseteq {NUL}
           ELSE encode(d) = buf
============================================================================
