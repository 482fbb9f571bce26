------------------------------ MODULE MCTokens ------------------------------
(* The token's builder, a live token's masks and its scope and owner, and   *)
(* the threads that impersonate, for TLC.  They share no state: a behaviour *)
(* is of one of them.  A mask has two words of two bits, and the token has  *)
(* as many groups: their indices cross the words' boundary, and the last is *)
(* past them.  Of the three privilege bits one has no name.  The service    *)
(* may write the guarded object, client c1 only read it, client c2 neither. *)
EXTENDS TokenBuilder, TokenAdjust, Impersonation, TLC

CONSTANTS c1, c2, p1, p2, p3
VARIABLE part
MCPlain == {"user", "add_group"}
MCErrnos == {"EINVAL", "ENOMEM"}
MCLUIDs == {p1, p2, p3}
MCNAMES == <<[name |-> "SeTcbPrivilege", bit |-> p1], [name |-> "SeAuditPrivilege", bit |-> p2]>>
MCClients == {c1, c2}
MCRights == {"read", "write"}
MCHeld == [k \in MCClients \cup {Self} |->
             IF k = c1 THEN {"read"} ELSE IF k = c2 THEN {} ELSE {"write"}]
MCSymmetry == Permutations(Threads) \cup Permutations(Users)

TokensInit ==
    /\ Init /\ AdjustInit /\ ThreadInit /\ part \in {"build", "groups", "privs", "set", "thread"}
    /\ part # "thread" => handle = [t \in Threads |-> NoToken]
TokensNext ==
    \/ part = "build" /\ Next /\ UNCHANGED <<adjustVars, threadVars, part>>
    \/ part = "groups" /\ GroupsNext /\ UNCHANGED <<vars, threadVars, part>>
    \/ part = "privs" /\ PrivsNext /\ UNCHANGED <<vars, threadVars, part>>
    \/ part = "set" /\ SetNext /\ UNCHANGED <<vars, threadVars, part>>
    \/ part = "thread" /\ ThreadNext /\ UNCHANGED <<vars, adjustVars, part>>
TokensSpec == TokensInit /\ [][TokensNext]_<<vars, adjustVars, threadVars, part>>
=============================================================================
