---------------------------- MODULE TokenAdjust ----------------------------
(***************************************************************************)
(* Adjusting a live token through its handles (token.rs): groups and       *)
(* privileges are switched with a previous mask handed back, a caller      *)
(* restores what it changed from that mask, and the scope and the default  *)
(* owner are replaced.  The token is the kernel's, shared by every handle  *)
(* on it; what a call does to it is external, what goes in and how the     *)
(* answer is decoded is this crate's.                                      *)
(***************************************************************************)
EXTENDS Integers, Sequences, FiniteSets

CONSTANTS Users,        \* callers with a handle on the token
          LastGroup,    \* group indices are 0 (the user SID) .. LastGroup
          WordBits, MaskWords,   \* 64 and GROUP_MASK_WORDS
          LUIDs,        \* privilege bits
          NAMES,        \* mask.rs's table: names, each with its bit
          U16, U32      \* 2^16 and 2^32: indices are u16, the scope is u32

Indices == 0 .. LastGroup

ASSUME AdjustAssumption ==
    /\ LastGroup \in Nat /\ WordBits \in Nat \ {0} /\ MaskWords \in Nat
    /\ NAMES \in Seq([name : STRING, bit : LUIDs])
    \* The tests of mask.rs: no name and no bit stands in the table twice.
    /\ \A e, f \in DOMAIN NAMES :
         NAMES[e].name = NAMES[f].name \/ NAMES[e].bit = NAMES[f].bit => e = f
    /\ U16 \in Nat \ {0} /\ U32 \in Nat \ {0}

Named == {NAMES[e].bit : e \in DOMAIN NAMES}

VARIABLES
    enabled,    \* the group indices enabled on the token
    present, active, default,  \* its privilege words: present, enabled, enabled by default
    scope, owner,   \* its interactivity scope and default owner index
    saved,      \* saved[u]: the previous masks u was handed, and what they stood for
    restored,   \* the last restore: what was to be restored, what it found and left
    asked_of    \* the last scope or owner set, as its caller asked, and the answer

privVars == <<present, active, default>>
adjustVars == <<enabled, present, active, default, scope, owner, saved, restored, asked_of>>

NoMask == [w \in 0 .. MaskWords - 1 |-> {}]
Unsaved == [groups |-> NoMask, privs |-> {}, was |-> {}, kind |-> "none"]
NotRestored == [kind |-> "none", was |-> {}, found |-> {}, is |-> {}]
NotAsked == [kind |-> "none", old |-> 0, want |-> 0, ok |-> FALSE]

AdjustInit ==
    /\ enabled = Indices
    /\ present = LUIDs /\ active = LUIDs /\ default = LUIDs
    /\ scope = 0 /\ owner = 0
    /\ saved = [u \in Users |-> Unsaved]
    /\ restored = NotRestored /\ asked_of = NotAsked

(* Another caller's adjustment makes what u saved about the kind stale.    *)
Stale(kind, u) == [v \in Users |-> IF v # u /\ saved[v].kind = kind THEN Unsaved ELSE saved[v]]

----------------------------------------------------------------------------
(* The mask the kernel writes back: one bit per index, in words.  With     *)
(* index 0 for the user SID a token with as many groups as the mask has    *)
(* bits has one index more than that.                                      *)
Mask(S) == [w \in 0 .. MaskWords - 1 |-> {b \in 0 .. WordBits - 1 : w * WordBits + b \in S}]

\* A bug: the mask is read as if its bits were numbered from the first group.
IsEnabledOneOff(mask, index) ==
    LET word == (index + 1) \div WordBits  bit == (index + 1) % WordBits
    IN word \in DOMAIN mask /\ bit \in mask[word]

(* GroupMask::is_enabled.                                                  *)
is_enabled(mask, index) ==
    LET word == index \div WordBits  bit == index % WordBits
    IN word \in DOMAIN mask /\ bit \in mask[word]

(* adjust_groups: the entries switch their groups; the answer is the mask  *)
(* from before.                                                            *)
SwitchGroups(on, off) == enabled' = (enabled \cup on) \ off

adjust_groups(u, on, off) ==
    /\ SwitchGroups(on, off)
    /\ saved' = [Stale("groups", u) EXCEPT ![u] =
                    [groups |-> Mask(enabled), privs |-> {}, was |-> enabled, kind |-> "groups"]]
    /\ restored' = NotRestored
    /\ UNCHANGED <<privVars, scope, owner, asked_of>>

(* A caller puts back what its adjustment found, reading the mask index by *)
(* index.                                                                  *)
RestoreGroups(u) ==
    /\ saved[u].kind = "groups"
    /\ LET on == {i \in Indices : is_enabled(saved[u].groups, i)}
       IN SwitchGroups(on, Indices \ on)
    /\ restored' = [kind |-> "groups", was |-> saved[u].was, found |-> enabled,
                    is |-> enabled']
    /\ saved' = [Stale("groups", u) EXCEPT ![u] = Unsaved]
    /\ UNCHANGED <<privVars, scope, owner, asked_of>>

reset_groups(u) ==
    /\ enabled' = Indices
    /\ saved' = [Stale("groups", u) EXCEPT ![u] = Unsaved]
    /\ restored' = NotRestored
    /\ UNCHANGED <<privVars, scope, owner, asked_of>>

----------------------------------------------------------------------------
(* PrivilegeAdjustment::remove, enable and disable: the attribute word the *)
(* entry carries.                                                          *)
Attributes(how) == CASE how = "remove" -> {"REMOVED"} [] how = "enable" -> {"ENABLED"}
                     [] how = "disable" -> {}

(* adjust_privileges with one entry; the answer is the enabled mask from   *)
(* before, bits without a name in it too (from_bits_retain).               *)
Adjusted(l, attrs) ==
    /\ present' = IF "REMOVED" \in attrs THEN present \ {l} ELSE present
    /\ default' = IF "REMOVED" \in attrs THEN default \ {l} ELSE default
    /\ active' = IF "ENABLED" \in attrs /\ l \in present THEN active \cup {l} ELSE active \ {l}

adjust_privileges(u, l, how) ==
    /\ Adjusted(l, Attributes(how))
    /\ saved' = [Stale("privs", u) EXCEPT ![u] =
                    [groups |-> NoMask, privs |-> active, was |-> active, kind |-> "privs"]]
    /\ restored' = NotRestored
    /\ UNCHANGED <<enabled, scope, owner, asked_of>>

(* Privileges::canonical_names: the names of the table whose bit is in a   *)
(* mask; a bit without a name is skipped.                                  *)
canonical_names(mask) ==
    {NAMES[e].name : e \in {d \in DOMAIN NAMES : NAMES[d].bit \in mask}}

(* Privileges::parse_name: the bit of the first entry with the name, or    *)
(* None.                                                                   *)
parse_name(name) ==
    LET known == {e \in DOMAIN NAMES : NAMES[e].name = name} IN
    IF known = {} THEN {}
    ELSE {NAMES[CHOOSE e \in known : \A d \in known : e <= d].bit}

Parsed(names) == UNION {parse_name(name) : name \in names}

(* A caller puts back the privileges it found, bit by bit from the mask;   *)
(* one that is no longer present stays off.                                *)
RestorePrivileges(u) ==
    /\ saved[u].kind = "privs"
    /\ active' = saved[u].privs \cap present
    /\ restored' = [kind |-> "privs", was |-> saved[u].was \cap present, found |-> active,
                    is |-> active']
    /\ saved' = [Stale("privs", u) EXCEPT ![u] = Unsaved]
    /\ UNCHANGED <<enabled, present, default, scope, owner, asked_of>>

(* A service that keeps the names in its configuration switches every      *)
(* privilege it can name back to what the names say, in one call.          *)
RestoreByName(u) ==
    /\ saved[u].kind = "privs"
    /\ LET on == Parsed(canonical_names(saved[u].privs))
       IN active' = (active \cup (on \cap present)) \ (Named \ on)
    /\ restored' = [kind |-> "names", was |-> saved[u].was \cap present, found |-> active,
                    is |-> active']
    /\ saved' = [Stale("privs", u) EXCEPT ![u] = Unsaved]
    /\ UNCHANGED <<enabled, present, default, scope, owner, asked_of>>

reset_privileges(u) ==
    /\ active' = default
    /\ saved' = [Stale("privs", u) EXCEPT ![u] = Unsaved]
    /\ restored' = NotRestored
    /\ UNCHANGED <<enabled, present, default, scope, owner, asked_of>>

----------------------------------------------------------------------------
Asked(kind, old, want, ok) ==
    asked_of' = [kind |-> kind, old |-> old, want |-> want, ok |-> ok]

\* A bug: the value is cut to the kernel's width.
SetSessionIdCuts(v) ==
    /\ scope' = v % U32
    /\ Asked("scope", scope, v, TRUE)
    /\ UNCHANGED <<enabled, privVars, owner, saved, restored>>

(* set_session_id, the old name of set_interactivity_scope, takes a u64: a *)
(* value that does not fit the kernel's u32 is refused before the call.    *)
set_session_id(v) ==
    /\ scope' = IF v < U32 THEN v ELSE scope
    /\ Asked("scope", scope, v, v < U32)
    /\ UNCHANGED <<enabled, privVars, owner, saved, restored>>

(* adjust_default: an index of None travels as 0xFFFF, which the kernel    *)
(* takes as "leave it", so that Some(0xFFFF) leaves it too; an index past  *)
(* the groups is refused by the kernel.                                    *)
Sentinel == U16 - 1
adjust_default(index) ==
    LET ok == index = Sentinel \/ index \in Indices IN
    /\ owner' = IF ok /\ index # Sentinel THEN index ELSE owner
    /\ Asked("owner", owner, index, ok)
    /\ UNCHANGED <<enabled, privVars, scope, saved, restored>>

GroupsNext ==
    \E u \in Users :
        \/ \E on \in SUBSET Indices, off \in SUBSET Indices :
              on \cap off = {} /\ Cardinality(on \cup off) = 1 /\ adjust_groups(u, on, off)
        \/ RestoreGroups(u) \/ reset_groups(u)

PrivsNext ==
    \E u \in Users :
        \/ \E l \in LUIDs, how \in {"remove", "enable", "disable"} : adjust_privileges(u, l, how)
        \/ RestorePrivileges(u) \/ RestoreByName(u) \/ reset_privileges(u)

SetNext ==
    \/ \E v \in 0 .. U32 + 1 : set_session_id(v)
    \/ \E index \in 0 .. U16 - 1 : adjust_default(index)

AdjustNext == GroupsNext \/ PrivsNext \/ SetNext

AdjustSpec == AdjustInit /\ [][AdjustNext]_adjustVars

----------------------------------------------------------------------------
(* Whoever adjusts groups or privileges and then restores them from the    *)
(* mask it was handed, with no adjustment by another in between, leaves    *)
(* the token as it found it, but for what a mask or a name cannot say.  A  *)
(* group is never read at a neighbour's bit where the mask passes from one *)
(* word to the next; one past the last word comes back disabled.           *)
(* Privileges restored from the mask are all back; restored by name, those *)
(* with a name are, and those without stay as they were by then.           *)
(* (token.rs:497-518, 652-674, 713-724; mask.rs:178-224.)                  *)
RestoreIsExact ==
    LET was == restored.was  is == restored.is IN
    /\ restored.kind = "groups" => is = {i \in was : i < WordBits * MaskWords}
    /\ restored.kind = "privs" => is = was
    /\ restored.kind = "names" => is = (was \cap Named) \cup (restored.found \ Named)

(* "A token group enabled-state bitmask: one bit per group index"          *)
(* (token.rs:713): is_enabled says of every index whether it was enabled.  *)
OneBitPerIndex ==
    \A u \in Users : saved[u].kind = "groups" =>
        \A i \in Indices : is_enabled(saved[u].groups, i) <=> i \in saved[u].was

(* What a setter reports as done is what was asked for, and what it        *)
(* refuses changes nothing: a wide session id is never stored cut off, and *)
(* an owner index is stored as given unless it is the sentinel             *)
(* (token.rs:607-613, 676-697).                                            *)
SetOrUntouched ==
    LET now == IF asked_of.kind = "scope" THEN scope ELSE owner IN
    asked_of.kind # "none" =>
        IF asked_of.ok /\ ~(asked_of.kind = "owner" /\ asked_of.want = Sentinel)
        THEN now = asked_of.want ELSE now = asked_of.old

============================================================================
