--------------------------- MODULE SecurityProofs ---------------------------
(***************************************************************************)
(* Tokens, identities and access lists: the token builder answers for what *)
(* it was asked, adjustments are restored exactly, no identity outlives    *)
(* its guards and access is decided for the right one, a rebuilt list      *)
(* keeps every entry and a stored descriptor is open only when asked: for  *)
(* every set of threads, groups, rights, entries and editors and every     *)
(* number of calls.                                                        *)
(***************************************************************************)
EXTENDS TokenBuilder, TokenAdjust, Impersonation, SecurityDescriptors,
        SequenceTheorems, TLAPS

-----------------------------------------------------------------------------
(* What the C builder does with an argument keeps the part of BuilderInv   *)
(* that relates what it holds to what was asked for.                       *)
LEMMA HandPreserves ==
    ASSUME BuilderInv, NEW f \in Setters, Called(f), Hand(f),
           UNCHANGED <<pending, answer>>
    PROVE  BuilderInv'
<1>1. content' \in Seq(Setters) /\ asked' \in Seq(Setters)
      /\ Len(asked') = Len(asked) + 1
  <2>1. content \in Seq(Setters) /\ asked \in Seq(Setters)
    BY DEF BuilderInv, TypeOK
  <2>2. asked' \in Seq(Setters) /\ Len(asked') = Len(asked) + 1
    BY <2>1 DEF Called
  <2>3. content' = Append(content, f) \/ content' = content
    BY DEF Hand
  <2>4. content' \in Seq(Setters)
    BY <2>1, <2>3
  <2> QED
    BY <2>2, <2>4
<1>2. CASE sticky = None /\ content' = Append(content, f)
           /\ UNCHANGED <<sticky, first>>
  BY <1>1, <1>2 DEF BuilderInv, TypeOK, BuiltAsAsked, ErrorIffRefused, error, Called
<1>3. CASE sticky = None /\ UNCHANGED content
           /\ \E e \in Errnos : sticky' = e /\ Refused(e)
  <2>1. PICK e \in Errnos : sticky' = e /\ Refused(e)
    BY <1>3
  <2>2. e # None /\ first' # None /\ first' \in Errnos \union {EINVAL, None}
    BY <2>1, TokenBuilderAssumption DEF Refused, BuilderInv, TypeOK
  <2>3. error' # None
    BY <2>1, <2>2, TokenBuilderAssumption DEF error, BuilderInv, TypeOK
  <2> QED
    BY <1>1, <1>3, <2>1, <2>2, <2>3
       DEF BuilderInv, TypeOK, BuiltAsAsked, ErrorIffRefused
<1>4. CASE sticky # None /\ UNCHANGED <<content, sticky, first>>
  <2>1. first # None
    BY <1>4 DEF BuilderInv, TypeOK, ErrorIffRefused, error
  <2> QED
    BY <1>1, <1>4, <2>1
       DEF BuilderInv, TypeOK, BuiltAsAsked, ErrorIffRefused, error
<1> QED
  BY <1>2, <1>3, <1>4 DEF Hand

(* A setting refused in Rust is latched, so it is not forgotten. *)
LEMMA LatchPreserves ==
    ASSUME BuilderInv, NEW f \in Setters, Called(f), latch(EINVAL),
           Refused(EINVAL), UNCHANGED <<content, sticky, answer>>
    PROVE  BuilderInv'
<1>1. asked' \in Seq(Setters) /\ Len(asked') = Len(asked) + 1
  BY DEF BuilderInv, TypeOK, Called
<1>2. pending' = EINVAL /\ pending' # None
  BY TokenBuilderAssumption DEF latch, BuilderInv, TypeOK
<1>3. first' # None /\ first' \in Errnos \union {EINVAL, None}
  BY TokenBuilderAssumption DEF Refused, BuilderInv, TypeOK
<1> QED
  BY <1>1, <1>2, <1>3
     DEF BuilderInv, TypeOK, BuiltAsAsked, ErrorIffRefused, error

(* Handing out a spec or a token, or refusing to, keeps the invariant: it  *)
(* happens only with no error latched, when content and asked agree.       *)
LEMMA AnswerPreserves ==
    ASSUME BuilderInv, to_bytes \/ create
    PROVE  BuilderInv'
<1>1. CASE Err
  BY <1>1 DEF Err, NoAnswer, to_bytes, create, BuilderInv, TypeOK, BuiltAsAsked,
              ErrorIffRefused, error
<1>2. ASSUME NEW k \in {"bytes", "token"}, error = None, Answer(k)
      PROVE  BuilderInv'
  <2>1. content = asked
    BY <1>2 DEF BuilderInv, ErrorIffRefused
  <2> QED
    BY <1>2, <2>1 DEF Answer, to_bytes, create, BuilderInv, TypeOK, BuiltAsAsked,
                      ErrorIffRefused, error
<1> QED
  BY <1>1, <1>2 DEF to_bytes, create

(* BuilderInv is inductive: every setter, reset, to_bytes and create keeps *)
(* it, so it holds of the builder whatever the chain of calls.             *)
THEOREM BuilderCorrect == Spec => []BuilderInv
<1>1. Init => BuilderInv
  BY DEF Init, NoAnswer, BuilderInv, TypeOK, BuiltAsAsked, ErrorIffRefused, error
<1>2. BuilderInv /\ [Next]_vars => BuilderInv'
  <2> SUFFICES ASSUME BuilderInv, [Next]_vars PROVE BuilderInv'
    OBVIOUS
  <2>1. ASSUME NEW f \in Plain, PlainSetter(f) PROVE BuilderInv'
    BY <2>1, HandPreserves DEF PlainSetter, Setters
  <2>2. ASSUME NEW fits \in BOOLEAN, source(fits) PROVE BuilderInv'
    BY <2>2, HandPreserves, LatchPreserves DEF source, Setters
  <2>3. ASSUME NEW fits \in BOOLEAN, with_claim(fits) PROVE BuilderInv'
    BY <2>3, HandPreserves, LatchPreserves DEF with_claim, Setters
  <2>4. ASSUME NEW fits \in BOOLEAN, lcs_credentials(fits) PROVE BuilderInv'
    BY <2>4, HandPreserves, LatchPreserves DEF lcs_credentials, Setters
  <2>5. CASE reset
    BY <2>5 DEF reset, BuilderInv, TypeOK, BuiltAsAsked, ErrorIffRefused, error
  <2>6. CASE to_bytes \/ create
    BY <2>6, AnswerPreserves
  <2>7. CASE UNCHANGED vars
    BY <2>7 DEF vars, BuilderInv, TypeOK, BuiltAsAsked, ErrorIffRefused, error
  <2> QED
    BY <2>1, <2>2, <2>3, <2>4, <2>5, <2>6, <2>7 DEF Next
<1> QED
  BY <1>1, <1>2, PTL DEF Spec

(* A token or spec that is handed out is what was asked for. *)
THEOREM BuiltCorrect == Spec => []BuiltAsAsked
<1>1. BuilderInv => BuiltAsAsked
  BY DEF BuilderInv
<1> QED
  BY <1>1, BuilderCorrect, PTL

(* error() speaks exactly when a setter since the last reset was refused. *)
THEOREM ErrorCorrect == Spec => []ErrorIffRefused
<1>1. BuilderInv => ErrorIffRefused
  BY DEF BuilderInv
<1> QED
  BY <1>1, BuilderCorrect, PTL

-----------------------------------------------------------------------------
(* Adjusting a live token.  What a caller was handed says what it stood    *)
(* for, and no privilege is active that is not present.                    *)
SavedIsWhole(s) ==
    /\ s.kind \in {"none", "groups", "privs"}
    /\ s.kind = "groups" => s.was \subseteq Indices /\ s.groups = Mask(s.was)
    /\ s.kind = "privs" => s.was \subseteq LUIDs /\ s.privs = s.was

AdjustInv ==
    /\ enabled \subseteq Indices
    /\ present \subseteq LUIDs /\ active \subseteq present /\ default \subseteq present
    /\ saved = [u \in Users |-> saved[u]]
    /\ \A u \in Users : SavedIsWhole(saved[u])

(* The bit of an index is in the word is_enabled looks at, at every word   *)
(* boundary: reading the mask index by index gives what was put in, up to  *)
(* the end of the last word.                                               *)
LEMMA MaskIsExact ==
  ASSUME NEW S, NEW i \in Indices
  PROVE  is_enabled(Mask(S), i) <=> i \in S /\ i < WordBits * MaskWords
<1> DEFINE w == i \div WordBits
           b == i % WordBits
<1>1. i \in Nat /\ WordBits \in Nat \ {0} /\ MaskWords \in Nat
  BY AdjustAssumption DEF Indices
<1>2. w \in Nat /\ b \in 0 .. WordBits - 1 /\ i = WordBits * w + b /\ w * WordBits + b = i
  BY <1>1
<1>3. DOMAIN Mask(S) = 0 .. MaskWords - 1
  BY DEF Mask
<1>4. is_enabled(Mask(S), i) <=> w \in DOMAIN Mask(S) /\ b \in Mask(S)[w]
  BY DEF is_enabled
<1> HIDE DEF w, b
<1>5. w \in DOMAIN Mask(S) => (b \in Mask(S)[w] <=> i \in S)
  BY <1>2, <1>3 DEF Mask
<1>6. WordBits * w \in Nat /\ WordBits * MaskWords \in Nat
  BY <1>1, <1>2
<1>7. w < MaskWords => i < WordBits * MaskWords
  <2> SUFFICES ASSUME w < MaskWords PROVE i < WordBits * MaskWords
    OBVIOUS
  <2>1. PICK d \in Nat : MaskWords = w + 1 + d
    <3>1. MaskWords - w - 1 \in Nat /\ MaskWords = w + 1 + (MaskWords - w - 1)
      BY <1>1, <1>2
    <3>2. QED BY <3>1
  <2>2. WordBits * MaskWords = WordBits * w + WordBits + WordBits * d /\ WordBits * d \in Nat
    BY <1>1, <1>2, <2>1
  <2>3. QED BY <1>1, <1>2, <1>6, <2>2
<1>8. w >= MaskWords => ~(i < WordBits * MaskWords)
  <2> SUFFICES ASSUME w >= MaskWords PROVE ~(i < WordBits * MaskWords)
    OBVIOUS
  <2>1. PICK d \in Nat : w = MaskWords + d
    <3>1. w - MaskWords \in Nat /\ w = MaskWords + (w - MaskWords)
      BY <1>1, <1>2
    <3>2. QED BY <3>1
  <2>2. WordBits * w = WordBits * MaskWords + WordBits * d /\ WordBits * d \in Nat
    BY <1>1, <2>1
  <2>3. QED BY <1>1, <1>2, <1>6, <2>2
<1>9. w \in DOMAIN Mask(S) <=> i < WordBits * MaskWords
  BY <1>1, <1>2, <1>3, <1>7, <1>8
<1>10. QED BY <1>4, <1>5, <1>9

(* What an entry of the table calls its bit is parsed as that bit.         *)
LEMMA NameIsParsed ==
  ASSUME NEW e \in DOMAIN NAMES
  PROVE  parse_name(NAMES[e].name) = {NAMES[e].bit}
<1> DEFINE known == {d \in DOMAIN NAMES : NAMES[d].name = NAMES[e].name}
<1>1. known = {e}
  BY AdjustAssumption
<1>2. known # {}
  BY <1>1
<1>3. e <= e
  BY AdjustAssumption
<1>4. \E x \in known : \A d \in known : x <= d
  BY <1>1, <1>3
<1> HIDE DEF known
<1>5. (CHOOSE x \in known : \A d \in known : x <= d) = e
  BY <1>1, <1>4
<1>6. QED BY <1>2, <1>5 DEF parse_name, known

(* Bits go to names and back, and lose only those that have none.          *)
LEMMA NamesAreExact ==
  ASSUME NEW mask
  PROVE  Parsed(canonical_names(mask)) = mask \cap Named
<1> DEFINE hits == {d \in DOMAIN NAMES : NAMES[d].bit \in mask}
<1>1. canonical_names(mask) = {NAMES[e].name : e \in hits}
  BY DEF canonical_names
<1>2. Parsed(canonical_names(mask)) = UNION {parse_name(NAMES[e].name) : e \in hits}
  BY <1>1 DEF Parsed
<1>3. \A e \in hits : parse_name(NAMES[e].name) = {NAMES[e].bit}
  BY NameIsParsed
<1>4. UNION {parse_name(NAMES[e].name) : e \in hits} = {NAMES[e].bit : e \in hits}
  BY <1>3
<1>5. {NAMES[e].bit : e \in hits} = mask \cap Named
  BY DEF Named
<1>6. QED BY <1>2, <1>4, <1>5

(* What others saved may become stale, and never becomes wrong.            *)
LEMMA StaleKeeps ==
  ASSUME AdjustInv, NEW u \in Users, NEW kind, NEW s, SavedIsWhole(s),
         saved' = [Stale(kind, u) EXCEPT ![u] = s]
  PROVE  /\ saved' = [v \in Users |-> saved'[v]]
         /\ \A v \in Users : SavedIsWhole(saved'[v])
<1>1. SavedIsWhole(Unsaved)
  BY DEF SavedIsWhole, Unsaved
<1>2. saved' = [v \in Users |-> IF v = u THEN s
                                ELSE IF v # u /\ saved[v].kind = kind THEN Unsaved ELSE saved[v]]
  BY DEF Stale
<1>3. \A v \in Users : saved'[v] \in {s, Unsaved, saved[v]}
  BY <1>2
<1>4. \A v \in Users : SavedIsWhole(saved'[v])
  BY <1>1, <1>3 DEF AdjustInv
<1>5. QED BY <1>2, <1>4

\* At the start nothing is saved and nothing restored.
LEMMA AdjustStarts == AdjustInit => AdjustInv /\ RestoreIsExact
BY DEF AdjustInit, AdjustInv, SavedIsWhole, Unsaved, RestoreIsExact, NotRestored

\* No caller's adjustment makes what another saved wrong.
LEMMA AdjustKept ==
  AdjustInv /\ RestoreIsExact /\ [AdjustNext]_adjustVars => AdjustInv' /\ RestoreIsExact'
<1> SUFFICES ASSUME AdjustInv, RestoreIsExact, [AdjustNext]_adjustVars
             PROVE  AdjustInv' /\ RestoreIsExact'
  OBVIOUS
<1>1. SavedIsWhole(Unsaved) /\ NotRestored.kind = "none"
  BY DEF SavedIsWhole, Unsaved, NotRestored
<1>2. ASSUME NEW u \in Users, NEW on \in SUBSET Indices, NEW off \in SUBSET Indices,
             adjust_groups(u, on, off)
      PROVE  AdjustInv' /\ RestoreIsExact'
  <2> DEFINE s == [groups |-> Mask(enabled), privs |-> {}, was |-> enabled, kind |-> "groups"]
  <2>1. SavedIsWhole(s)
    BY DEF SavedIsWhole, AdjustInv
  <2>2. saved' = [Stale("groups", u) EXCEPT ![u] = s] /\ UNCHANGED privVars
        /\ enabled' = (enabled \cup on) \ off /\ restored' = NotRestored
    BY <1>2 DEF adjust_groups, SwitchGroups
  <2> HIDE DEF s
  <2>3. QED BY <1>1, <2>1, <2>2, StaleKeeps DEF AdjustInv, RestoreIsExact, privVars
<1>3. ASSUME NEW u \in Users, RestoreGroups(u) PROVE AdjustInv' /\ RestoreIsExact'
  <2> DEFINE on == {i \in Indices : is_enabled(saved[u].groups, i)}
  <2>1. on = {i \in saved[u].was : i < WordBits * MaskWords}
    <3>1. saved[u].was \subseteq Indices /\ saved[u].groups = Mask(saved[u].was)
      BY <1>3 DEF RestoreGroups, AdjustInv, SavedIsWhole
    <3>2. \A i \in Indices : is_enabled(saved[u].groups, i) <=>
                                i \in saved[u].was /\ i < WordBits * MaskWords
      BY <3>1, MaskIsExact
    <3>3. QED BY <3>1, <3>2
  <2>2. /\ enabled' = (enabled \cup on) \ (Indices \ on)
        /\ restored' = [kind |-> "groups", was |-> saved[u].was, found |-> enabled,
                        is |-> enabled']
        /\ saved' = [Stale("groups", u) EXCEPT ![u] = Unsaved] /\ UNCHANGED privVars
    BY <1>3 DEF RestoreGroups, SwitchGroups
  <2>3. on \subseteq Indices
    OBVIOUS
  <2> HIDE DEF on
  <2>4. enabled' = on
    BY <2>2, <2>3 DEF AdjustInv
  <2>5. RestoreIsExact'
    BY <2>1, <2>2, <2>4 DEF RestoreIsExact
  <2>6. QED BY <1>1, <2>2, <2>3, <2>4, <2>5, StaleKeeps DEF AdjustInv, privVars
<1>4. ASSUME NEW u \in Users, reset_groups(u) PROVE AdjustInv' /\ RestoreIsExact'
  <2>1. /\ enabled' = Indices /\ saved' = [Stale("groups", u) EXCEPT ![u] = Unsaved]
        /\ restored' = NotRestored /\ UNCHANGED privVars
    BY <1>4 DEF reset_groups
  <2>2. QED BY <1>1, <2>1, StaleKeeps DEF AdjustInv, RestoreIsExact, privVars
<1>5. ASSUME NEW u \in Users, NEW l \in LUIDs, NEW how \in {"remove", "enable", "disable"},
             adjust_privileges(u, l, how)
      PROVE  AdjustInv' /\ RestoreIsExact'
  <2> DEFINE s == [groups |-> NoMask, privs |-> active, was |-> active, kind |-> "privs"]
  <2>1. SavedIsWhole(s)
    BY DEF SavedIsWhole, AdjustInv
  <2>2. /\ Adjusted(l, Attributes(how)) /\ enabled' = enabled /\ restored' = NotRestored
        /\ saved' = [Stale("privs", u) EXCEPT ![u] = s]
    BY <1>5 DEF adjust_privileges
  <2> HIDE DEF s
  <2>3. "REMOVED" \in Attributes(how) => "ENABLED" \notin Attributes(how)
    BY DEF Attributes
  <2>4. present' \subseteq LUIDs /\ active' \subseteq present' /\ default' \subseteq present'
    BY <2>2, <2>3 DEF Adjusted, AdjustInv
  <2>5. QED BY <1>1, <2>1, <2>2, <2>4, StaleKeeps DEF AdjustInv, RestoreIsExact
<1>6. ASSUME NEW u \in Users, RestoreByName(u) PROVE AdjustInv' /\ RestoreIsExact'
  <2> DEFINE on == saved[u].was \cap Named
  <2>1. Parsed(canonical_names(saved[u].privs)) = on
    BY <1>6, NamesAreExact DEF RestoreByName, AdjustInv, SavedIsWhole
  <2>2. /\ active' = (active \cup (on \cap present)) \ (Named \ on)
        /\ restored' = [kind |-> "names", was |-> saved[u].was \cap present,
                        found |-> active, is |-> active']
        /\ saved' = [Stale("privs", u) EXCEPT ![u] = Unsaved]
        /\ UNCHANGED <<enabled, present, default>>
    BY <1>6, <2>1 DEF RestoreByName
  <2>3. /\ active' \subseteq present
        /\ active' = (saved[u].was \cap present \cap Named) \cup (active \ Named)
    BY <2>2 DEF AdjustInv
  <2>4. RestoreIsExact'
    BY <2>2, <2>3 DEF RestoreIsExact
  <2>5. QED BY <1>1, <2>2, <2>3, <2>4, StaleKeeps DEF AdjustInv
<1>7. ASSUME NEW u \in Users, reset_privileges(u) PROVE AdjustInv' /\ RestoreIsExact'
  <2>1. /\ active' = default /\ saved' = [Stale("privs", u) EXCEPT ![u] = Unsaved]
        /\ restored' = NotRestored /\ UNCHANGED <<enabled, present, default>>
    BY <1>7 DEF reset_privileges
  <2>2. QED BY <1>1, <2>1, StaleKeeps DEF AdjustInv, RestoreIsExact
<1>8. ASSUME NEW u \in Users, RestorePrivileges(u) PROVE AdjustInv' /\ RestoreIsExact'
  <2>1. saved[u].privs = saved[u].was
    BY <1>8 DEF RestorePrivileges, AdjustInv, SavedIsWhole
  <2>2. /\ active' = saved[u].was \cap present
        /\ restored' = [kind |-> "privs", was |-> saved[u].was \cap present,
                        found |-> active, is |-> active']
        /\ saved' = [Stale("privs", u) EXCEPT ![u] = Unsaved]
        /\ UNCHANGED <<enabled, present, default>>
    BY <1>8, <2>1 DEF RestorePrivileges
  <2>3. RestoreIsExact'
    BY <2>2 DEF RestoreIsExact
  <2>4. QED BY <1>1, <2>2, <2>3, StaleKeeps DEF AdjustInv
<1>9. CASE UNCHANGED <<enabled, privVars, saved, restored>>
  BY <1>9 DEF AdjustInv, RestoreIsExact, privVars
<1>10. CASE SetNext
  BY <1>9, <1>10 DEF SetNext, set_session_id, adjust_default
<1>11. CASE UNCHANGED adjustVars
  BY <1>9, <1>11 DEF adjustVars, privVars
<1>12. QED
  BY <1>2, <1>3, <1>4, <1>5, <1>6, <1>7, <1>8, <1>10, <1>11
  DEF AdjustNext, GroupsNext, PrivsNext

(* What a restore gives back and what it does not, for every number of     *)
(* groups and of mask words, every width of the words, every set of        *)
(* privileges and every table of names without a duplicate, whatever other *)
(* callers do.                                                             *)
THEOREM RestoreCorrect == AdjustSpec => []RestoreIsExact
<1>1. QED BY AdjustStarts, AdjustKept, PTL DEF AdjustSpec

(* The last set was stored as asked, or changed nothing, and nothing else  *)
(* touches what is set.                                                    *)
THEOREM SetCorrect == AdjustSpec => []SetOrUntouched
<1>1. AdjustInit => SetOrUntouched
  BY DEF AdjustInit, NotAsked, SetOrUntouched
<1>2. SetOrUntouched /\ [AdjustNext]_adjustVars => SetOrUntouched'
  <2> SUFFICES ASSUME SetOrUntouched, [AdjustNext]_adjustVars PROVE SetOrUntouched'
    OBVIOUS
  <2>1. ASSUME NEW v \in 0 .. U32 + 1, set_session_id(v) PROVE SetOrUntouched'
    BY <2>1 DEF set_session_id, Asked, SetOrUntouched
  <2>2. ASSUME NEW index \in 0 .. U16 - 1, adjust_default(index) PROVE SetOrUntouched'
    BY <2>2 DEF adjust_default, Asked, SetOrUntouched
  <2>3. CASE UNCHANGED <<scope, owner, asked_of>>
    BY <2>3 DEF SetOrUntouched
  <2>4. CASE GroupsNext \/ PrivsNext
    BY <2>3, <2>4 DEF GroupsNext, PrivsNext, adjust_groups, RestoreGroups, reset_groups,
                      adjust_privileges, RestorePrivileges, RestoreByName, reset_privileges
  <2>5. QED BY <2>1, <2>2, <2>3, <2>4 DEF AdjustNext, SetNext, adjustVars
<1>3. QED BY <1>1, <1>2, PTL DEF AdjustSpec

-----------------------------------------------------------------------------
(* The guard made last names the identity in force until t reverts, drops  *)
(* any guard or adopts a token: then `fresh` is off.                       *)
NewestGuard == \A t \in Threads :
    fresh[t] => Len(guards[t]) > 0 /\ imp[t] = Last(guards[t])

(* Appending to a sequence makes its argument the last element. *)
LEMMA LastAppended ==
  ASSUME NEW S, NEW s \in Seq(S), NEW e \in S
  PROVE  /\ Append(s, e) \in Seq(S) /\ Len(Append(s, e)) > 0
         /\ Last(Append(s, e)) = e /\ e \in ToSet(Append(s, e))
<1>1. /\ Append(s, e) \in Seq(S) /\ Len(Append(s, e)) = Len(s) + 1
      /\ Append(s, e)[Len(s) + 1] = e
  OBVIOUS
<1>2. Len(s) + 1 \in DOMAIN Append(s, e)
  OBVIOUS
<1>3. QED BY <1>1, <1>2 DEF Last, ToSet

(* Dropping one of the guards leaves a sequence of guards. *)
LEMMA GuardsAfterDrop ==
  ASSUME NEW S, NEW s \in Seq(S), NEW i \in 1 .. Len(s)
  PROVE  RemoveAt(s, i) \in Seq(S)
<1>1. SubSeq(s, 1, i - 1) \in Seq(S)
  <2>1. \A j \in 1 .. i - 1 : s[j] \in S
    OBVIOUS
  <2>2. QED BY <2>1
<1>2. SubSeq(s, i + 1, Len(s)) \in Seq(S)
  <2>1. \A j \in i + 1 .. Len(s) : s[j] \in S
    OBVIOUS
  <2>2. QED BY <2>1
<1>3. QED BY <1>1, <1>2 DEF RemoveAt

-----------------------------------------------------------------------------
(* The types hold in every reachable state. *)
THEOREM ThreadTypeCorrect == ThreadSpec => []ThreadTypeOK
<1> USE IdentityAssumption
<1>1. ThreadInit => ThreadTypeOK
  BY DEF ThreadInit, ThreadTypeOK, NewCheck, Identities
<1>2. ThreadTypeOK /\ [ThreadNext]_threadVars => ThreadTypeOK'
  <2> SUFFICES ASSUME ThreadTypeOK, [ThreadNext]_threadVars PROVE ThreadTypeOK'
    OBVIOUS
  <2> USE DEF ThreadTypeOK
  <2>1. ASSUME NEW t \in Threads, NEW who \in Identities \cup {NoToken}, Open(t, who)
        PROVE  ThreadTypeOK'
    BY <2>1 DEF Open, Call, identity
  <2>2. ASSUME NEW t \in Threads, NEW c \in Clients, Adopt(t, c)
        PROVE  ThreadTypeOK'
    BY <2>2 DEF Adopt, Call
  <2>3. ASSUME NEW t \in Threads, NEW ok \in BOOLEAN, impersonate_scoped(t, ok)
        PROVE  ThreadTypeOK'
    <3>1. CASE ok
      <4>1. handle[t] \in Clients /\ Append(guards[t], handle[t]) \in Seq(Clients)
        BY <2>3, <3>1, LastAppended DEF impersonate_scoped
      <4>2. guards' \in [Threads -> Seq(Clients)]
        BY <2>3, <3>1, <4>1 DEF impersonate_scoped
      <4>3. imp' \in [Threads -> Clients \cup {NoToken}] /\ fresh' \in [Threads -> BOOLEAN]
        BY <2>3, <3>1, <4>1 DEF impersonate_scoped
      <4>4. QED BY <2>3, <4>2, <4>3 DEF impersonate_scoped, Call
    <3>2. CASE ~ok
      BY <2>3, <3>2 DEF impersonate_scoped, Call
    <3>3. QED BY <3>1, <3>2
  <2>4. ASSUME NEW t \in Threads, NEW ok \in BOOLEAN, Reverted(t, ok)
        PROVE  /\ imp' \in [Threads -> Clients \cup {NoToken}]
               /\ adopted' \in [Threads -> Clients \cup {NoToken}]
               /\ overstay' \in [Threads -> Clients \cup {NoToken}]
               /\ fresh' \in [Threads -> BOOLEAN]
    BY <2>4 DEF Reverted
  <2>5. ASSUME NEW t \in Threads, NEW ok \in BOOLEAN, revert(t, ok)
        PROVE  ThreadTypeOK'
    BY <2>4, <2>5 DEF revert, Call
  <2>6. ASSUME NEW t \in Threads, NEW i \in 1 .. Len(guards[t]), NEW ok \in BOOLEAN,
               DropGuard(t, i, ok)
        PROVE  ThreadTypeOK'
    <3>1. RemoveAt(guards[t], i) \in Seq(Clients)
      BY GuardsAfterDrop
    <3>2. guards' \in [Threads -> Seq(Clients)]
      BY <2>6, <3>1 DEF DropGuard
    <3>3. QED BY <2>4, <2>6, <3>2 DEF DropGuard, Call
  <2>7. ASSUME NEW t \in Threads, NEW tok \in {NoToken, handle[t]},
               NEW want \in SUBSET Rights, Configure(t, tok, want)
        PROVE  ThreadTypeOK'
    BY <2>7 DEF Configure, Call, identity
  <2>8. ASSUME NEW t \in Threads, NEW n \in 1 .. Word + 1, NEW done \in BOOLEAN,
               Check(t, n, done)
        PROVE  ThreadTypeOK'
    BY <2>8 DEF Check, Call, identity
  <2>9. CASE UNCHANGED threadVars
    BY <2>9 DEF threadVars
  <2>10. ASSUME NEW t \in Threads, NEW real \in BOOLEAN, open_self(t, real)
         PROVE  ThreadTypeOK'
    BY <2>1, <2>10 DEF open_self, Effective, Identities
  <2>11. QED
    BY <2>1, <2>2, <2>3, <2>5, <2>6, <2>7, <2>8, <2>9, <2>10
    DEF ThreadNext, open_peer, impersonate, impersonate_peer, Identities
<1>3. QED BY <1>1, <1>2, PTL DEF ThreadSpec

-----------------------------------------------------------------------------
(* NeverOverstays is inductive over the typed states: every step that      *)
(* installs a token records why it may stay, and the steps that take such  *)
(* a record away clear the thread's identity or record it anew.            *)
THEOREM IdentityCorrect == ThreadSpec => []NeverOverstays
<1>1. ThreadInit => NeverOverstays
  BY DEF ThreadInit, NeverOverstays
<1>2. ThreadTypeOK /\ NeverOverstays /\ [ThreadNext]_threadVars => NeverOverstays'
  <2> SUFFICES ASSUME ThreadTypeOK, NeverOverstays, [ThreadNext]_threadVars,
                      NEW u \in Threads
               PROVE  (imp[u] \in ToSet(guards[u]) \cup {NoToken, adopted[u], overstay[u]})'
    BY DEF NeverOverstays
  <2>1. ASSUME UNCHANGED identity
        PROVE  (imp[u] \in ToSet(guards[u]) \cup {NoToken, adopted[u], overstay[u]})'
    BY <2>1 DEF identity, NeverOverstays
  <2>2. ASSUME NEW t \in Threads, NEW c \in Clients, Adopt(t, c)
        PROVE  (imp[u] \in ToSet(guards[u]) \cup {NoToken, adopted[u], overstay[u]})'
    BY <2>2 DEF Adopt, NeverOverstays, ThreadTypeOK
  <2>3. ASSUME NEW t \in Threads, NEW ok \in BOOLEAN, impersonate_scoped(t, ok)
        PROVE  (imp[u] \in ToSet(guards[u]) \cup {NoToken, adopted[u], overstay[u]})'
    <3>1. CASE ok /\ u = t
      <4>1. handle[t] \in Clients /\ handle[t] \in ToSet(Append(guards[t], handle[t]))
        BY <2>3, <3>1, LastAppended DEF impersonate_scoped, ThreadTypeOK
      <4>2. QED BY <2>3, <3>1, <4>1 DEF impersonate_scoped, ThreadTypeOK
    <3>2. CASE ~(ok /\ u = t)
      BY <2>3, <3>2 DEF impersonate_scoped, ThreadTypeOK, NeverOverstays
    <3>3. QED BY <3>1, <3>2
  <2>4. ASSUME NEW t \in Threads, NEW ok \in BOOLEAN, Reverted(t, ok),
               u # t => guards'[u] = guards[u]
        PROVE  (imp[u] \in ToSet(guards[u]) \cup {NoToken, adopted[u], overstay[u]})'
    BY <2>4 DEF Reverted, ThreadTypeOK, NeverOverstays
  <2>5. ASSUME NEW t \in Threads, NEW ok \in BOOLEAN, revert(t, ok)
        PROVE  (imp[u] \in ToSet(guards[u]) \cup {NoToken, adopted[u], overstay[u]})'
    BY <2>4, <2>5 DEF revert
  <2>6. ASSUME NEW t \in Threads, NEW i \in 1 .. Len(guards[t]), NEW ok \in BOOLEAN,
               DropGuard(t, i, ok)
        PROVE  (imp[u] \in ToSet(guards[u]) \cup {NoToken, adopted[u], overstay[u]})'
    BY <2>4, <2>6 DEF DropGuard, ThreadTypeOK
  <2>7. QED
    BY <2>1, <2>2, <2>3, <2>5, <2>6
    DEF ThreadNext, open_self, open_peer, impersonate, impersonate_peer, Open, Configure,
        Check, threadVars, identity
<1>3. QED BY <1>1, <1>2, ThreadTypeCorrect, PTL DEF ThreadSpec

(* A guard just made is the newest, and its client the one in force. *)
LEMMA NewestGuardCorrect == ThreadSpec => []NewestGuard
<1>1. ThreadInit => NewestGuard
  BY DEF ThreadInit, NewestGuard
<1>2. ThreadTypeOK /\ NewestGuard /\ [ThreadNext]_threadVars => NewestGuard'
  <2> SUFFICES ASSUME ThreadTypeOK, NewestGuard, [ThreadNext]_threadVars,
                      NEW u \in Threads, fresh'[u]
               PROVE  Len(guards'[u]) > 0 /\ imp'[u] = Last(guards'[u])
    BY DEF NewestGuard
  <2>1. ASSUME UNCHANGED identity
        PROVE  Len(guards'[u]) > 0 /\ imp'[u] = Last(guards'[u])
    BY <2>1 DEF identity, NewestGuard
  <2>2. ASSUME NEW t \in Threads, NEW c \in Clients, Adopt(t, c)
        PROVE  Len(guards'[u]) > 0 /\ imp'[u] = Last(guards'[u])
    BY <2>2 DEF Adopt, NewestGuard, ThreadTypeOK
  <2>3. ASSUME NEW t \in Threads, NEW ok \in BOOLEAN, impersonate_scoped(t, ok)
        PROVE  Len(guards'[u]) > 0 /\ imp'[u] = Last(guards'[u])
    <3>1. CASE ok /\ u = t
      <4>1. /\ handle[t] \in Clients /\ Len(Append(guards[t], handle[t])) > 0
            /\ Last(Append(guards[t], handle[t])) = handle[t]
        BY <2>3, <3>1, LastAppended DEF impersonate_scoped, ThreadTypeOK
      <4>2. imp'[u] = handle[t] /\ guards'[u] = Append(guards[t], handle[t])
        BY <2>3, <3>1 DEF impersonate_scoped, ThreadTypeOK
      <4>3. QED BY <4>1, <4>2
    <3>2. CASE ~(ok /\ u = t)
      <4>1. fresh'[u] = fresh[u] /\ imp'[u] = imp[u] /\ guards'[u] = guards[u]
        BY <2>3, <3>2 DEF impersonate_scoped, ThreadTypeOK
      <4>2. QED BY <4>1 DEF NewestGuard
    <3>3. QED BY <3>1, <3>2
  <2>4. ASSUME NEW t \in Threads, NEW ok \in BOOLEAN, Reverted(t, ok),
               u # t => guards'[u] = guards[u]
        PROVE  Len(guards'[u]) > 0 /\ imp'[u] = Last(guards'[u])
    <3>1. u # t /\ fresh[u] /\ imp'[u] = imp[u]
      BY <2>4 DEF Reverted, ThreadTypeOK
    <3>2. QED BY <2>4, <3>1 DEF NewestGuard
  <2>5. ASSUME NEW t \in Threads, NEW ok \in BOOLEAN, revert(t, ok)
        PROVE  Len(guards'[u]) > 0 /\ imp'[u] = Last(guards'[u])
    BY <2>4, <2>5 DEF revert
  <2>6. ASSUME NEW t \in Threads, NEW i \in 1 .. Len(guards[t]), NEW ok \in BOOLEAN,
               DropGuard(t, i, ok)
        PROVE  Len(guards'[u]) > 0 /\ imp'[u] = Last(guards'[u])
    BY <2>4, <2>6 DEF DropGuard, ThreadTypeOK
  <2>7. QED
    BY <2>1, <2>2, <2>3, <2>5, <2>6
    DEF ThreadNext, open_self, open_peer, impersonate, impersonate_peer, Open, Configure,
        Check, threadVars, identity
<1>3. QED BY <1>1, <1>2, ThreadTypeCorrect, PTL DEF ThreadSpec

(* The identity a caller has in mind is the one the kernel decides for. *)
LEMMA ExpectedIsSubject ==
  ASSUME ThreadTypeOK, NeverOverstays, NewestGuard, NEW t \in Threads, NEW a,
         a.token = check[t].token,
         a.guard = (IF fresh[t] THEN Last(guards[t]) ELSE NoToken),
         a.alone = (guards[t] = <<>> /\ adopted[t] = NoToken /\ overstay[t] = NoToken),
         NEW who \in Expected(a)
  PROVE  who = Subject(t)
<1>1. CASE a.token # NoToken
  BY <1>1 DEF Expected, Subject
<1>2. CASE a.token = NoToken /\ a.guard # NoToken
  <2>1. who = a.guard
    BY <1>2 DEF Expected
  <2>2. a.guard = imp[t] /\ imp[t] # NoToken
    BY <1>2 DEF NewestGuard
  <2>3. QED BY <1>2, <2>1, <2>2 DEF Subject, Effective
<1>3. CASE a.token = NoToken /\ a.guard = NoToken
  <2>1. who = Self /\ a.alone
    BY <1>3 DEF Expected
  <2>2. guards[t] = <<>> /\ adopted[t] = NoToken /\ overstay[t] = NoToken
    BY <2>1
  <2>3. ToSet(guards[t]) = {}
    BY <2>2 DEF ToSet
  <2>4. imp[t] = NoToken
    BY <2>2, <2>3 DEF NeverOverstays
  <2>5. QED BY <1>3, <2>1, <2>4 DEF Subject, Effective
<1>4. QED BY <1>1, <1>2, <1>3

(* An access check decides for the identity its caller has in mind.  The   *)
(* invariant needs both others: a bare thread impersonates nobody, and the *)
(* newest guard's client is the one in force.                              *)
THEOREM DecisionCorrect == ThreadSpec => []DecidedForRightSubject
<1>1. ThreadInit => DecidedForRightSubject
  BY DEF ThreadInit, DecidedForRightSubject
<1>2. /\ ThreadTypeOK /\ NeverOverstays /\ NewestGuard /\ DecidedForRightSubject
      /\ [ThreadNext]_threadVars
      => DecidedForRightSubject'
  <2> SUFFICES ASSUME ThreadTypeOK, NeverOverstays, NewestGuard, DecidedForRightSubject,
                      [ThreadNext]_threadVars
               PROVE  DecidedForRightSubject'
    OBVIOUS
  <2>1. CASE UNCHANGED decision
    BY <2>1 DEF DecidedForRightSubject, Expected
  <2>2. ASSUME NEW t \in Threads, NEW n \in 1 .. Word + 1, NEW done \in BOOLEAN,
               Check(t, n, done)
        PROVE  DecidedForRightSubject'
    <3> SUFFICES ASSUME NEW u \in Threads, decision'[u] # Unanswered,
                        NEW who \in Expected(decision'[u])
                 PROVE  /\ decision'[u].allowed \subseteq Held[who]
                        /\ \A i \in DOMAIN decision'[u].granted :
                              decision'[u].granted[i] \subseteq Held[who]
      BY DEF DecidedForRightSubject, Expected
    <3>1. CASE u # t \/ t \notin DOMAIN decision
      <4>1. decision'[u] = decision[u]
        BY <2>2, <3>1 DEF Check
      <4>2. QED BY <4>1 DEF DecidedForRightSubject
    <3>2. CASE u = t /\ t \in DOMAIN decision
      <4> DEFINE granted == Granted(t, done)
      <4>1. /\ decision'[u].granted = [i \in 1 .. n |-> IF i <= n % Word THEN granted ELSE {}]
            /\ decision'[u].allowed = (IF n = 1 /\ granted = check[t].desired /\ done
                                       THEN check[t].desired ELSE {})
            /\ decision'[u].token = check[t].token
            /\ decision'[u].guard = (IF fresh[t] THEN Last(guards[t]) ELSE NoToken)
            /\ decision'[u].alone = (guards[t] = <<>> /\ adopted[t] = NoToken
                                     /\ overstay[t] = NoToken)
        BY <2>2, <3>2 DEF Check
      <4>2. who = Subject(t)
        BY <4>1, ExpectedIsSubject
      <4>3. granted \subseteq Held[who]
        BY <4>2 DEF Granted
      <4> HIDE DEF granted
      <4>4. QED BY <4>1, <4>3
    <3>3. QED BY <3>1, <3>2
  <2>3. QED
    BY <2>1, <2>2
    DEF ThreadNext, open_self, open_peer, impersonate, impersonate_peer, Open, Adopt,
        impersonate_scoped, revert, DropGuard, Configure, threadVars
<1>3. QED
  BY <1>1, <1>2, ThreadTypeCorrect, IdentityCorrect, NewestGuardCorrect, PTL DEF ThreadSpec

-----------------------------------------------------------------------------
(* Access lists.  As long as libpeios refused nothing its builder holds    *)
(* what it was given, and it has latched exactly when something was        *)
(* refused: what the promise about finished lists rests on.                *)
BuilderHolds ==
    /\ given \in Seq(FoundAce) /\ latched \in BOOLEAN /\ refused = latched
    /\ ~latched => aces = given

\* An entry's specification is the entry.
LEMMA AceSpecIsWhole == \A ace \in FoundAce : AceSpec(ace) = ace
  BY DEF AceSpec, FoundAce

\* What a builder is given can be found in a list.
LEMMA AceIsFound == Ace \subseteq FoundAce
  BY DEF Ace, FoundAce

(* A view that can be read is rebuilt entry by entry.                      *)
LEMMA ToAclIsWhole ==
  ASSUME NEW view \in Lists, NEW bad
  PROVE  to_acl(view, bad).ok => to_acl(view, bad).got = to_acl(view, bad).want
<1>1. view \in Seq(FoundAce)
  BY AclAssumption
<1>2. \A i \in DOMAIN view : AceSpec(Entry(view, i)) = view[i]
  <2> SUFFICES ASSUME NEW i \in DOMAIN view PROVE AceSpec(Entry(view, i)) = view[i]
    OBVIOUS
  <2>1. view[i] \in FoundAce
    BY <1>1
  <2>2. Entry(view, i) = view[i]
    BY <2>1 DEF Entry, FoundAce
  <2> QED
    BY <2>1, <2>2, AceSpecIsWhole
<1>3. [i \in DOMAIN view |-> AceSpec(Entry(view, i))] = view
  <2>1. view = [i \in DOMAIN view |-> view[i]]
    BY <1>1
  <2> QED
    BY <1>2, <2>1
<1> QED
  BY <1>3 DEF to_acl, NoAcl

(* A list that is handed out, by a builder or by to_acl, holds every entry *)
(* it had to hold.                                                         *)
THEOREM ListCorrect == AclSpec => []RebuildKeepsEveryAce
<1> DEFINE Inv == BuilderHolds /\ RebuildKeepsEveryAce
<1>1. AclInit => Inv
  <2> SUFFICES ASSUME AclInit PROVE Inv
    OBVIOUS
  <2>1. given \in Seq(FoundAce) /\ aces = given
    BY DEF AclInit
  <2>2. latched \in BOOLEAN /\ refused = latched
    BY DEF AclInit
  <2>3. RebuildKeepsEveryAce
    BY DEF AclInit, RebuildKeepsEveryAce, NoAcl
  <2> QED
    BY <2>1, <2>2, <2>3 DEF BuilderHolds
<1>2. Inv /\ [AclNext]_aclVars => Inv'
  <2> SUFFICES ASSUME Inv, [AclNext]_aclVars PROVE Inv'
    OBVIOUS
  <2>1. CASE AclReset
    <3>1. given' \in Seq(FoundAce) /\ aces' = given'
      BY <2>1 DEF AclReset
    <3>2. latched' \in BOOLEAN /\ refused' = latched'
      BY <2>1 DEF AclReset
    <3> QED
      BY <2>1, <3>1, <3>2 DEF AclReset, BuilderHolds, RebuildKeepsEveryAce
  <2>2. CASE Build
    <3>1. BuilderHolds'
      BY <2>2 DEF Build, BuilderHolds
    <3>2. CASE latched
      BY <2>2, <3>1, <3>2 DEF Build, RebuildKeepsEveryAce, NoAcl
    <3>3. CASE ~latched
      BY <2>2, <3>1, <3>3 DEF Build, BuilderHolds, RebuildKeepsEveryAce
    <3> QED
      BY <3>2, <3>3
  <2>3. ASSUME NEW ace \in Ace, NEW taken \in BOOLEAN, Add(ace, taken) PROVE Inv'
    <3>1. ace \in FoundAce /\ AceSpec(ace) = ace
      BY AceIsFound, AceSpecIsWhole
    <3>2. given' \in Seq(FoundAce)
      BY <2>3, <3>1 DEF Add, BuilderHolds
    <3>3. latched' \in BOOLEAN /\ refused' = latched'
      BY <2>3 DEF Add, BuilderHolds
    <3>4. ~latched' => aces' = given'
      BY <2>3, <3>1 DEF Add, BuilderHolds
    <3> QED
      BY <2>3, <3>2, <3>3, <3>4 DEF Add, BuilderHolds, RebuildKeepsEveryAce
  <2>4. ASSUME NEW dacl \in Lists \cup {NoList}, NEW bad \in 1 .. MaxAces + 1,
               parse_acl(dacl, bad)
        PROVE  Inv'
    <3>1. BuilderHolds'
      BY <2>4 DEF parse_acl, BuilderHolds
    <3>2. CASE dacl = NoList
      BY <2>4, <3>1, <3>2 DEF parse_acl, RebuildKeepsEveryAce, NoAcl
    <3>3. CASE dacl # NoList
      BY <2>4, <3>1, <3>3, ToAclIsWhole DEF parse_acl, RebuildKeepsEveryAce
    <3> QED
      BY <3>2, <3>3
  <2>5. CASE UNCHANGED aclVars
    BY <2>5 DEF aclVars, BuilderHolds, RebuildKeepsEveryAce
  <2> QED
    BY <2>1, <2>2, <2>3, <2>4, <2>5 DEF AclNext
<1> QED
  BY <1>1, <1>2, PTL DEF AclSpec

----------------------------------------------------------------------------
(* Stored descriptors.  An absent DACL that an editor has read or chosen   *)
(* is accounted for before it is ever written.                             *)
HandsHonest ==
    \A e \in Editors :
        "dacl" \in hand[e].info /\ hand[e].sd.dacl = NoList => opened

(* No order of reads and writes with selections opens the object, unless   *)
(* somebody selected a DACL that is not there.                             *)
THEOREM StoreCorrect == StoreSpec => []OpenOnlyWhenAsked
<1> DEFINE Inv == /\ hand \in [Editors -> [info : SUBSET Components,
                                          sd : [owner : Owners \cup {NoOwner}, dacl : Lists \cup {NoList}]]]
                  /\ object \in [owner : Owners \cup {NoOwner}, dacl : Lists \cup {NoList}]
                  /\ opened \in BOOLEAN
                  /\ HandsHonest /\ OpenOnlyWhenAsked
<1>1. StoreInit => Inv
  <2> SUFFICES ASSUME StoreInit PROVE Inv
    OBVIOUS
  <2>1. opened \in BOOLEAN /\ OpenOnlyWhenAsked
    BY DEF StoreInit, OpenOnlyWhenAsked
  <2>2. HandsHonest
    BY DEF StoreInit, Unread, HandsHonest
  <2> QED
    BY <2>1, <2>2 DEF StoreInit, Unread, Components
<1>2. Inv /\ [StoreNext]_storeVars => Inv'
  <2> SUFFICES ASSUME Inv, [StoreNext]_storeVars PROVE Inv'
    OBVIOUS
  <2>1. ASSUME NEW e \in Editors, NEW info \in SUBSET Components, get_sd(e, info) PROVE Inv'
    BY <2>1 DEF get_sd, HandsHonest, OpenOnlyWhenAsked, Components
  <2>2. ASSUME NEW e \in Editors, NEW info \in SUBSET Components, set_sd(e, info) PROVE Inv'
    BY <2>2 DEF set_sd, HandsHonest, OpenOnlyWhenAsked, Components
  <2>3. ASSUME NEW e \in Editors, NEW info \in SUBSET Components, NEW own \in Owners,
               NEW dacl \in Lists \cup {NoList}, SdBuilder(e, info, own, dacl)
        PROVE  Inv'
    BY <2>3 DEF SdBuilder, HandsHonest, OpenOnlyWhenAsked, Components
  <2>4. CASE UNCHANGED storeVars
    BY <2>4 DEF storeVars, HandsHonest, OpenOnlyWhenAsked
  <2> QED
    BY <2>1, <2>2, <2>3, <2>4 DEF StoreNext
<1> QED
  BY <1>1, <1>2, PTL DEF StoreSpec
=============================================================================
