---------------------------- MODULE Descriptors ----------------------------
(***************************************************************************)
(* Who owns a descriptor: socket::send_message, recv_message and peer_pidfd*)
(* (socket.rs) and OpenOptions::create (file.rs), through util::check_fd.  *)
(*                                                                         *)
(* The kernel puts a descriptor into the process's table and the crate     *)
(* wraps its number into a value that closes it when it is dropped.  A     *)
(* number that is wrapped twice, or after it was closed, names another     *)
(* object once the kernel hands it out again.  Sockets, the table and the  *)
(* file system are external.                                               *)
(***************************************************************************)
EXTENDS Integers, Sequences, FiniteSets, SequencesExt, FiniteSetsExt, Positions

CONSTANTS
  Fds,        \* the descriptor numbers the process may have open
  Files,      \* files by path
  Tokens,     \* tokens another process may attach
  CountLimit, \* 2^32: descriptor counts are passed as u32
  MaxWire,    \* bound: messages under way
  MaxHandOuts \* bound: descriptors handed out in a behaviour

ASSUME DescriptorAssumption ==
  /\ Fds \subseteq Nat /\ IsFiniteSet(Fds) /\ Files \cap Tokens = {}
  /\ CountLimit \in Nat \ {0} /\ MaxWire \in Nat /\ MaxHandOuts \in Nat

VARIABLES
  table,     \* the process's open descriptors: what each names
  values,    \* the program's values: the numbers they own, the objects they stand for
  wire,      \* messages sent and not yet received
  exists,    \* files that exist
  handedOut, \* descriptors handed out so far
  answer      \* what the last call answered

fdVars == <<table, values, wire, exists, handedOut, answer>>

NoObject == "none"

FdInit ==
  /\ table = <<>> /\ values = {} /\ wire = <<>>
  /\ exists \in SUBSET Files
  /\ handedOut = 0 /\ answer = "none"

Free == Fds \ DOMAIN table

(* The kernel opens an object for each of the given numbers.               *)
Opened(fds, objects) ==
  /\ handedOut + Len(fds) <= MaxHandOuts /\ handedOut' = handedOut + Len(fds)
  /\ table' = [n \in DOMAIN table \cup ToSet(fds) |->
                 IF n \in ToSet(fds) THEN objects[CHOOSE i \in DOMAIN fds : fds[i] = n]
                 ELSE table[n]]

(* Numbers for k new descriptors: the lowest that are free, in order.      *)
Numbers(k) == [i \in 1..k |-> Nth(Free, Below(Fds), i - 1)]

Owning(fds, objects) == values' = values \cup {[fds |-> fds, names |-> objects]}

----------------------------------------------------------------------------
(* send_message: the descriptors are borrowed, the message takes what they *)
(* name and the caller keeps its own.  More than a u32 counts is EINVAL;   *)
(* the kernel may refuse the message (a token the sender may not act as).  *)
send_message(token, fds, refused) ==
  /\ Len(wire) < MaxWire
  /\ IF Len(fds) >= CountLimit \/ refused
     THEN answer' = "err" /\ UNCHANGED wire
     ELSE /\ answer' = "ok"
          /\ wire' = Append(wire, [token |-> token, objects |-> [i \in DOMAIN fds |-> table[fds[i]]]])
  /\ UNCHANGED <<table, values, exists, handedOut>>

\* Another process sends: a token of its own and any objects.
PeerSends(token, objects) ==
  /\ Len(wire) < MaxWire
  /\ wire' = Append(wire, [token |-> token, objects |-> objects])
  /\ UNCHANGED <<table, values, exists, handedOut, answer>>

(* What the kernel delivers of a message: its token if a number is free,   *)
(* then its objects up to the caller's capacity and to the numbers free.   *)
(* What does not fit is closed (MSG_CTRUNC).                               *)
TokenFits(m) == m.token # NoObject /\ Free # {}
Fitting(m, max_fds) ==
  LET room == Cardinality(Free) - (IF TokenFits(m) THEN 1 ELSE 0) IN
  Min({max_fds, Len(m.objects), room})

Delivered(m, max_fds) ==
  (IF TokenFits(m) THEN <<m.token>> ELSE <<>>) \o SubSeq(m.objects, 1, Fitting(m, max_fds))

(* recv_message: an array of -1 for the numbers, the call, and, once its   *)
(* result is known, the token if there is one and the first fd_count       *)
(* numbers, wrapped.  The value is one: the token goes with the message.   *)
recv_message(max_fds) ==
  /\ wire # <<>> /\ max_fds < CountLimit
  /\ LET objects == Delivered(Head(wire), max_fds)
         fds == Numbers(Len(objects)) IN
     Opened(fds, objects) /\ Owning(fds, objects)
  /\ wire' = Tail(wire) /\ answer' = "ok"
  /\ UNCHANGED exists

\* EINVAL for more descriptors than a u32 counts, or an error of the kernel:
\* nothing is consumed.
ReceiveFails == answer' = "err" /\ UNCHANGED <<table, values, wire, exists, handedOut>>

----------------------------------------------------------------------------
(* The kernel's answer to an open by disposition: what becomes of the file *)
(* and the status, one that this version of the crate does not know among  *)
(* them; or none, the open fails.                                          *)
Known == {"Opened", "Created", "Overwritten", "Superseded"}
Statuses(disposition, there) ==
  CASE disposition = "Open"        -> IF there THEN {"Opened", "a later one"} ELSE {}
    [] disposition = "Create"      -> IF there THEN {} ELSE {"Created", "a later one"}
    [] disposition = "OpenIf"      -> IF there THEN {"Opened"} ELSE {"Created"}
    [] disposition = "Overwrite"   -> IF there THEN {"Overwritten"} ELSE {}
    [] disposition = "OverwriteIf" -> IF there THEN {"Overwritten"} ELSE {"Created"}
    [] disposition = "Supersede"   -> IF there THEN {"Superseded"} ELSE {"Created"}
Dispositions == {"Open", "Create", "OpenIf", "Overwrite", "OverwriteIf", "Supersede"}

\* A bug: the status is looked at before the descriptor is owned.
CreateOwnsLate(f, disposition) ==
  /\ Free # {}
  /\ \E status \in Statuses(disposition, f \in exists) :
       /\ Opened(Numbers(1), <<f>>) /\ exists' = exists \cup {f}
       /\ IF status \in Known THEN answer' = status /\ Owning(Numbers(1), <<f>>)
          ELSE answer' = "err" /\ UNCHANGED values
  /\ UNCHANGED wire

(* OpenOptions::create: check_fd owns the descriptor, and only then is the *)
(* status looked at; an unknown one is EINVAL, the descriptor is closed,   *)
(* and a file that was created stays.                                      *)
create(f, disposition) ==
  /\ Free # {}
  /\ \E status \in Statuses(disposition, f \in exists) :
       /\ exists' = exists \cup {f}
       /\ IF status \in Known
          THEN answer' = status /\ Opened(Numbers(1), <<f>>) /\ Owning(Numbers(1), <<f>>)
          ELSE answer' = "err" /\ UNCHANGED <<table, values, handedOut>>
  /\ UNCHANGED wire

\* The open fails: -1, no descriptor.
CreateFails(f, disposition) ==
  /\ Statuses(disposition, f \in exists) = {}
  /\ answer' = "err" /\ UNCHANGED <<table, values, wire, exists, handedOut>>

(* peer_pidfd: check_fd of a descriptor on the process at the other end.   *)
peer_pidfd ==
  /\ Free # {}
  /\ Opened(Numbers(1), <<"peer">>) /\ Owning(Numbers(1), <<"peer">>)
  /\ answer' = "ok" /\ UNCHANGED <<wire, exists>>

(* A value is dropped: OwnedFd closes each of its numbers.                 *)
Drop(v) ==
  /\ values' = values \ {v}
  /\ table' = [n \in DOMAIN table \ ToSet(v.fds) |-> table[n]]
  /\ UNCHANGED <<wire, exists, handedOut, answer>>

Borrowed == {<<n>> : n \in DOMAIN table} \cup {<<n, n>> : n \in DOMAIN table} \cup {<<>>}

FdNext ==
  \/ \E fds \in Borrowed, refused \in BOOLEAN : send_message(NoObject, fds, refused)
  \/ \E t \in Tokens \cup {NoObject}, f \in Files :
        PeerSends(t, <<>>) \/ PeerSends(t, <<f>>) \/ PeerSends(t, <<f, f>>)
  \/ (\E max_fds \in 0 .. CountLimit : recv_message(max_fds)) \/ ReceiveFails
  \/ \E f \in Files, d \in Dispositions : create(f, d) \/ CreateFails(f, d)
  \/ peer_pidfd \/ \E v \in values : Drop(v)

FdSpec == FdInit /\ [][FdNext]_fdVars

----------------------------------------------------------------------------
(* Every descriptor the kernel opened in the process is owned by exactly   *)
(* one value, and every value's numbers still name what it was made for:   *)
(* nothing leaks on an early return, nothing is closed twice, no number    *)
(* is wrapped that the kernel did not hand out (socket.rs:71-124,          *)
(* file.rs:247-273, util.rs:23-33).                                        *)
EveryDescriptorHasOneOwner ==
  /\ \A v \in values : \A i \in DOMAIN v.fds :
        v.fds[i] \in DOMAIN table /\ table[v.fds[i]] = v.names[i]
  /\ \A n \in DOMAIN table : Cardinality({v \in values : n \in ToSet(v.fds)}) = 1
  /\ \A v \in values : IsInjective(v.fds)
============================================================================
