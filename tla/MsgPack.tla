------------------------------ MODULE MsgPack ------------------------------
(***************************************************************************)
(* MessagePack (msgpack.rs): the Writer, whose first error latches, the    *)
(* Reader's cursor and the check that a buffer is one value.               *)
(*                                                                         *)
(* A buffer is a sequence of items: a scalar, or the header of an array or *)
(* a map, whose values follow it.  An item's encoding is libpeios'.        *)
(***************************************************************************)
EXTENDS Integers, Sequences, SequencesExt

CONSTANTS Scalars,     \* types of the items without values of their own
          Counts,      \* counts a header may announce
          MaxItems     \* bound: items in one buffer

ASSUME MsgAssumption == "str" \in Scalars /\ Counts \subseteq Nat /\ MaxItems \in Nat

VARIABLES
    items, failed,   \* Writer: what libpeios took since new or reset, its latched error
    packed,          \* the bytes to_bytes handed out, or none
    input,           \* the buffer a Reader was made over
    cursor,          \* items it has consumed
    dealt            \* history: the items the program was given, told of or skipped

writerVars == <<items, failed, packed>>
readerVars == <<input, cursor, dealt>>
mpVars == <<items, failed, packed, input, cursor, dealt>>

Item == [type : Scalars, n : {0}, utf8 : {TRUE}] \cup [type : {"array", "map"}, n : Counts, utf8 : {TRUE}]
\* A str that is not UTF-8: a &str never is, bytes from elsewhere may be.
BadStr == [type |-> "str", n |-> 0, utf8 |-> FALSE]
NoBytes == <<>>

MsgInit ==
    /\ items = <<>> /\ failed = FALSE /\ packed = NoBytes
    /\ input = <<>> /\ cursor = 0 /\ dealt = {}

----------------------------------------------------------------------------
(* The values an item is followed by; a map's come in pairs.               *)
Values(item) == IF item.type = "map" THEN 2 * item.n ELSE item.n

(* The values still owed after items i .. j, one being owed before them.   *)
Owed(seq, i, j) == FoldLeft(LAMBDA owed, item : owed - 1 + Values(item), 1, SubSeq(seq, i, j))

(* Items i .. j are one value: it is complete at j, and not before.        *)
OneValue(seq, i, j) == Owed(seq, i, j) = 0 /\ \A k \in i .. j - 1 : Owed(seq, i, k) > 0

(* validate: exactly one value, with UTF-8 strings.                        *)
validate(seq) == seq # <<>> /\ OneValue(seq, 1, Len(seq)) /\ \A i \in DOMAIN seq : seq[i].utf8

----------------------------------------------------------------------------
Reset ==
    /\ items' = <<>> /\ failed' = FALSE
    /\ UNCHANGED <<packed, readerVars>>

(* Every write_*, write_raw included: libpeios takes the item or latches.  *)
WriteItem(item, taken) ==
    /\ input = <<>> /\ Len(items) < MaxItems
    /\ failed' = (failed \/ ~taken)
    /\ items' = IF taken /\ ~failed THEN Append(items, item) ELSE items
    /\ UNCHANGED <<packed, readerVars>>

(* Writer::to_bytes: the latched error, or one whole value.                *)
to_bytes ==
    /\ packed' = IF ~failed /\ validate(items) THEN items ELSE NoBytes
    /\ UNCHANGED <<items, failed, readerVars>>

----------------------------------------------------------------------------
(* Reader::new over what a writer made or over any other items: the kernel *)
(* checks payloads, a file or a socket nobody.  The writer is done with:   *)
(* it and a reader share nothing.                                          *)
Over ==
    /\ \/ packed # NoBytes /\ input' = packed
       \/ input' \in {<<BadStr>>} \cup
              {<<pair, BadStr, item>> : pair \in {i \in Item : i.type = "array" /\ i.n = 2},
                                        item \in Item}
    /\ cursor' = 0 /\ dealt' = {}
    /\ items' = <<>> /\ failed' = FALSE /\ packed' = NoBytes

AtEnd == cursor = Len(input)
Next_ == input[cursor + 1]

\* A bug: the item is consumed before its type is looked at.
ReadConsumes(type) ==
    /\ ~AtEnd
    /\ cursor' = cursor + 1
    /\ dealt' = IF Next_.type = type THEN dealt \cup {cursor + 1} ELSE dealt
    /\ UNCHANGED <<input, writerVars>>

(* Reader::read_*: an item of another type leaves the cursor where it is.  *)
read(type) ==
    /\ ~AtEnd /\ Next_.type = type
    /\ cursor' = cursor + 1
    /\ dealt' = IF Next_.utf8 THEN dealt \cup {cursor + 1} ELSE dealt
    /\ UNCHANGED <<input, writerVars>>

(* Reader::skip: one value with everything inside it, or EINVAL.           *)
skip ==
    /\ \E last \in cursor + 1 .. Len(input) :
          /\ OneValue(input, cursor + 1, last)
          /\ cursor' = last
          /\ dealt' = dealt \cup (cursor + 1 .. last)
    /\ UNCHANGED <<input, writerVars>>

MsgNext ==
    \/ Reset \/ to_bytes \/ Over \/ skip
    \/ \E item \in Item \cup {BadStr}, taken \in BOOLEAN : WriteItem(item, taken)
    \/ \E type \in Scalars \cup {"array", "map"} : read(type)

MsgSpec == MsgInit /\ [][MsgNext]_mpVars

----------------------------------------------------------------------------
(* The only item a reader passes that the program is neither given nor     *)
(* asked to skip is a string that is not UTF-8, which read_str consumes    *)
(* before it reports it: none of what to_bytes handed out, where every     *)
(* string is UTF-8.  After any other failure the item is still there, and  *)
(* skip passes over whole values only (msgpack.rs:219-223, 293-361).       *)
OnlyBadStringsAreLost ==
    \A i \in 1 .. cursor : i \notin dealt => input[i].type = "str" /\ ~input[i].utf8

=============================================================================
