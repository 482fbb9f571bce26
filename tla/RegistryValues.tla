--------------------------- MODULE RegistryValues ---------------------------
(***************************************************************************)
(* The values of one registry key (registry.rs): SetValue with its         *)
(* compare-and-swap guard, query_value, delete_value, the Values iterator, *)
(* and a program that keeps a copy of the values fresh with notify and     *)
(* read_watch_events.                                                      *)
(*                                                                         *)
(* The kernel's side is external: a sequence number that every write       *)
(* advances, a watch queue of limited length with its Overflow record, and *)
(* an enumeration in a fixed order.  An update adds its writer's mark to   *)
(* what the writer read, so that a lost update is one whose mark is gone.  *)
(***************************************************************************)
EXTENDS Integers, Sequences, FiniteSets, Positions

CONSTANTS Clients,     \* threads that read, modify and write a value
          Names,       \* the key's value names, numbers in enumeration order
          QueueLength, \* watch records the kernel keeps
          MaxWrites,   \* bound: changes of the store
          MaxFaults    \* bound: reads that meet a malformed record

ASSUME RegistryAssumption ==
    /\ Names \subseteq Nat /\ IsFiniteSet(Names) /\ Names # {}
    /\ QueueLength \in Nat \ {0}
    /\ MaxWrites \in Nat /\ MaxFaults \in Nat

VARIABLES
    store,      \* store[n]: the value's data (a set of marks) and sequence; 0: none
    writes,     \* changes so far: the last sequence number
    kept,       \* history: kept[n], the marks of updates whose call returned Ok
    client,     \* client[c]: what c read and is about to write
    queue,      \* watch records the kernel holds for the watcher
    watcher,    \* the watching program: its step, its copy, the records it has read
    faults,
    walk,       \* a Values iterator: index, done, what it gave, and if it gave an error
    through, removed, added  \* history: the values there ever since the walk began,
                             \* and whether one was removed or added since

keyVars == <<store, writes, kept>>
walkVars == <<walk, through, removed, added>>
regVars == <<store, writes, kept, client, queue, watcher, faults, walk, through, removed, added>>

AnyName == CHOOSE n \in Names : TRUE
Absent == [data |-> {}, seq |-> 0]
Idle == [step |-> "idle", name |-> AnyName, read |-> Absent]

RegInit ==
    /\ store = [n \in Names |-> Absent] /\ writes = 0 /\ kept = [n \in Names |-> {}]
    /\ client = [c \in Clients |-> Idle]
    /\ queue = <<>> /\ faults = 0
    \* The watching program and the iterator do not meet: one of them, or none.
    /\ \E step \in {"start", "off"}, done \in BOOLEAN :
         /\ step = "off" \/ done
         /\ watcher = [step |-> step, copy |-> store, records |-> <<>>]
         /\ walk = [index |-> 0, done |-> done, gave |-> <<>>, failed |-> FALSE]
    /\ through = {} /\ removed = FALSE /\ added = FALSE

----------------------------------------------------------------------------
(* Every change of the key's values is queued for an armed watch.  When    *)
(* only one place is left it takes the Overflow record, and what follows   *)
(* is not recorded.                                                        *)
Queued(code, n) ==
    IF watcher.step \in {"start", "off"} \/ Len(queue) = QueueLength THEN queue
    ELSE IF Len(queue) = QueueLength - 1
    THEN Append(queue, [type |-> "REG_WATCH_OVERFLOW", name |-> n])
    ELSE Append(queue, [type |-> code, name |-> n])

Put(n, data) ==
    /\ writes < MaxWrites /\ writes' = writes + 1
    /\ store' = [store EXCEPT ![n] = [data |-> data, seq |-> writes + 1]]
    /\ queue' = Queued("REG_WATCH_VALUE_SET", n)
    /\ added' = (added \/ store[n] = Absent)
    /\ UNCHANGED <<walk, through, removed, watcher, faults>>

(* Key::query_value before an update: ENOENT gives no sequence number.     *)
Query(c, n) ==
    /\ client[c].step = "idle"
    /\ client' = [client EXCEPT ![c] = [step |-> "read", name |-> n, read |-> store[n]]]
    /\ UNCHANGED <<keyVars, queue, watcher, faults, walkVars>>

Update(c) == client[c].read.data \cup {c}

\* A bug: call() hands 0 to the kernel, not what expect_seq was given.
CallUnguarded(c) ==
    LET n == client[c].name IN
    /\ client[c].step = "read"
    /\ Put(n, Update(c))
    /\ kept' = [kept EXCEPT ![n] = IF client[c].read.seq = 0 THEN {c} ELSE @ \cup {c}]
    /\ client' = [client EXCEPT ![c] = Idle]

(* SetValue::expect_seq and call: the write, if the value's sequence is    *)
(* the one read.  0 stands for no guard: an update of a value that was not *)
(* there is written over whatever is there by now.                         *)
call(c) ==
    LET n == client[c].name  seq == client[c].read.seq IN
    /\ client[c].step = "read" /\ seq \in {0, store[n].seq}
    /\ Put(n, Update(c))
    /\ kept' = [kept EXCEPT ![n] = IF seq = 0 THEN {c} ELSE @ \cup {c}]
    /\ client' = [client EXCEPT ![c] = Idle]

(* EAGAIN: the update starts again, or is given up.                        *)
Again(c) ==
    /\ client[c].step = "read" /\ client[c].read.seq \notin {0, store[client[c].name].seq}
    /\ client' = [client EXCEPT ![c] = Idle]
    /\ UNCHANGED <<keyVars, queue, watcher, faults, walkVars>>

(* Key::delete_value: idempotent.                                          *)
delete_value(n) ==
    /\ store[n] # Absent
    /\ writes < MaxWrites /\ writes' = writes + 1
    /\ store' = [store EXCEPT ![n] = Absent]
    /\ kept' = [kept EXCEPT ![n] = {}]
    /\ queue' = Queued("REG_WATCH_VALUE_DELETED", n)
    /\ removed' = TRUE /\ through' = through \ {n}
    /\ UNCHANGED <<client, watcher, faults, walk, added>>

(* Changes of the key that are not of its values are queued all the same,  *)
(* kinds this version of the crate has no name for among them.             *)
ChangeElsewhere ==
    /\ writes < MaxWrites /\ writes' = writes + 1
    /\ \E code \in {"REG_WATCH_SD_CHANGED", "unnamed"} : queue' = Queued(code, AnyName)
    /\ UNCHANGED <<store, kept, client, watcher, faults, walkVars>>

----------------------------------------------------------------------------
(* Key::notify arms the watch before the first snapshot is taken.          *)
Arm ==
    /\ watcher.step = "start"
    /\ watcher' = [watcher EXCEPT !.step = "stale"]
    /\ UNCHANGED <<keyVars, client, queue, faults, walkVars>>

(* Key::query_values_batch: the whole key at once.                         *)
Snapshot ==
    /\ watcher.step = "stale"
    /\ watcher' = [step |-> "watching", copy |-> store, records |-> <<>>]
    /\ UNCHANGED <<keyVars, client, queue, faults, walkVars>>

WatchKinds == [REG_WATCH_VALUE_SET |-> "ValueSet", REG_WATCH_VALUE_DELETED |-> "ValueDeleted",
          REG_WATCH_SUBKEY_CREATED |-> "SubkeyCreated",
          REG_WATCH_SUBKEY_DELETED |-> "SubkeyDeleted",
          REG_WATCH_SD_CHANGED |-> "SecurityDescriptorChanged",
          REG_WATCH_KEY_DELETED |-> "KeyDeleted", REG_WATCH_OVERFLOW |-> "Overflow"]

\* A bug: the overflow record is a kind without a name.
FromRawNoOverflow(raw) ==
    IF raw \in DOMAIN WatchKinds \ {"REG_WATCH_OVERFLOW"} THEN WatchKinds[raw] ELSE "Other"

(* WatchEventType::from_raw.                                               *)
from_raw(raw) == IF raw \in DOMAIN WatchKinds THEN WatchKinds[raw] ELSE "Other"

\* A bug: the records behind the first of a read are dropped.
ReadsOne ==
    /\ watcher.step = "watching" /\ watcher.records = <<>> /\ queue # <<>>
    /\ \E n \in 1 .. Len(queue) :
         /\ watcher' = [watcher EXCEPT !.records = <<[queue[1] EXCEPT !.type = from_raw(@)]>>]
         /\ queue' = SubSeq(queue, n + 1, Len(queue))
    /\ UNCHANGED <<keyVars, client, faults, walkVars>>

(* Key::read_watch_events: the records that fit the caller's buffer.  On a *)
(* nonblocking descriptor an empty queue gives no records and no change.   *)
read_watch_events ==
    /\ watcher.step = "watching" /\ watcher.records = <<>> /\ queue # <<>>
    /\ \E n \in 1 .. Len(queue) :
         /\ watcher' = [watcher EXCEPT !.records =
                           [i \in 1 .. n |-> [queue[i] EXCEPT !.type = from_raw(@)]]]
         /\ queue' = SubSeq(queue, n + 1, Len(queue))
    /\ UNCHANGED <<keyVars, client, faults, walkVars>>

(* EINVAL: every record of the read is gone, and the program refreshes.    *)
ReadFails ==
    /\ watcher.step = "watching" /\ watcher.records = <<>> /\ queue # <<>>
    /\ faults < MaxFaults /\ faults' = faults + 1
    /\ \E n \in 1 .. Len(queue) : queue' = SubSeq(queue, n + 1, Len(queue))
    /\ watcher' = [watcher EXCEPT !.step = "stale"]
    /\ UNCHANGED <<keyVars, client, walkVars>>

(* The program takes a record: it reads the value the record names, or     *)
(* refreshes as the Overflow record asks (registry.rs:95).                 *)
Apply ==
    /\ watcher.step = "watching" /\ watcher.records # <<>>
    /\ LET r == Head(watcher.records) IN
       watcher' = IF r.type = "Overflow" THEN [watcher EXCEPT !.step = "stale"]
                  ELSE IF r.type \in {"ValueSet", "ValueDeleted"}
                  THEN [watcher EXCEPT !.copy[r.name] = store[r.name], !.records = Tail(@)]
                  ELSE [watcher EXCEPT !.records = Tail(@)]
    /\ UNCHANGED <<keyVars, client, queue, faults, walkVars>>

----------------------------------------------------------------------------
(* Key::enum_value: the value at a dense index, in the enumeration's order *)
(* (Ok(Some)), or Ok(None) behind the last one.  Any call may fail, with   *)
(* an errno of its own or with ERANGE for a value that grew each time.     *)
There == {n \in Names : store[n] # Absent}
enum_value(index) ==
    {[answer |-> "err", name |-> AnyName],
     IF index < Cardinality(There)
     THEN [answer |-> "some", name |-> Nth(There, Below(Names), index)]
     ELSE [answer |-> "none", name |-> AnyName]}

\* What a walk's first call starts to be compared with.
Begin == IF walk.index = 0
         THEN through' = There /\ removed' = FALSE /\ added' = FALSE
         ELSE UNCHANGED <<through, removed, added>>

\* A bug: an error is taken for the end of the values.
NextTakesErrorForEnd ==
    /\ ~walk.done
    /\ \E r \in enum_value(walk.index) :
         \/ /\ r.answer = "some"
            /\ walk' = [walk EXCEPT !.gave = Append(@, r.name), !.index = @ + 1]
         \/ r.answer # "some" /\ walk' = [walk EXCEPT !.done = TRUE]
    /\ Begin
    /\ UNCHANGED <<keyVars, client, queue, watcher, faults>>

(* Values::next: each call looks at the key as it is by then.  An error is *)
(* given to the caller, and ends the walk too.                             *)
next ==
    /\ ~walk.done
    /\ \E r \in enum_value(walk.index) :
         \/ /\ r.answer = "some"
            /\ walk' = [walk EXCEPT !.gave = Append(@, r.name), !.index = @ + 1]
         \/ r.answer = "none" /\ walk' = [walk EXCEPT !.done = TRUE]
         \/ r.answer = "err" /\ walk' = [walk EXCEPT !.done = TRUE, !.failed = TRUE]
    /\ Begin
    /\ UNCHANGED <<keyVars, client, queue, watcher, faults>>

RegNext ==
    \/ \E c \in Clients : call(c) \/ Again(c) \/ \E n \in Names : Query(c, n)
    \/ ChangeElsewhere \/ \E n \in Names : delete_value(n)
    \/ Arm \/ Snapshot \/ read_watch_events \/ ReadFails \/ Apply
    \/ next

Watching == Arm \/ Snapshot \/ read_watch_events \/ Apply
RegSpec == RegInit /\ [][RegNext]_regVars /\ WF_regVars(Watching)

----------------------------------------------------------------------------
(* No update is lost: as long as nobody writes a value blindly or deletes  *)
(* it, it holds the mark of every update whose call returned Ok, however   *)
(* the reads and writes of the threads interleave; expect_seq(0), which is *)
(* all an update of a value that was not there can say, is a blind write   *)
(* (registry.rs:1163-1168).                                                *)
NoLostUpdate == \A n \in Names : store[n].data = kept[n]

(* A program that arms the watch, takes a snapshot and follows the records *)
(* has the key's values whenever it has nothing left to read: records that *)
(* were dropped are covered by Overflow, and those of a read that failed   *)
(* by its error (registry.rs:926-947).                                     *)
CopyIsFresh ==
    watcher.step = "watching" /\ watcher.records = <<>> /\ queue = <<>> => watcher.copy = store

(* A walk that ends without an error has given each value that was there   *)
(* throughout, once and in order, unless another was removed or added      *)
(* meanwhile: only a removal can hide a value, only an addition can repeat *)
(* one (registry.rs:1209-1239).  One that ended with an error has given    *)
(* the values up to some place in that order and leaves out the rest.      *)
WalkGivesAll ==
    LET Given(n) == \E i \in DOMAIN walk.gave : walk.gave[i] = n
        Behind(n) == \A i \in DOMAIN walk.gave : walk.gave[i] < n
    IN  walk.done =>
          /\ ~removed /\ ~walk.failed => \A n \in through : Given(n)
          /\ ~added => \A i, j \in DOMAIN walk.gave : i < j => walk.gave[i] < walk.gave[j]
          /\ ~removed /\ ~added => \A n \in through : Given(n) \/ Behind(n)

(* Once the writers stop, the copy comes to be right and stays right.      *)
CopyBecomesFresh == [](watcher.step = "off") \/ <>[](watcher.copy = store)

=============================================================================
