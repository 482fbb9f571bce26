------------------------ MODULE SecurityDescriptors ------------------------
(***************************************************************************)
(* Access lists and security descriptors: AclBuilder, AclView and to_acl   *)
(* (security/acl.rs), SdBuilder and SdView (security/sd.rs), the SDDL      *)
(* entries (security/sddl.rs), and the calls that read and write an        *)
(* object's descriptor (file.rs).                                          *)
(*                                                                         *)
(* Serialising, parsing and the kernel's replacement of the selected       *)
(* components are external.  A list is a sequence of ACEs; NoList is the   *)
(* DACL that is not there, which grants everyone everything, where the     *)
(* empty list grants nobody anything.                                      *)
(***************************************************************************)
EXTENDS Naturals, Sequences

CONSTANTS AceTypes, Masks, Sids, AppData, NoSid, NoData,
          Lists,       \* the DACLs found in descriptors and in SDDL text
          NoList,
          Editors, Owners, NoOwner,
          MaxAces      \* bound: entries a builder is given

Ace == [type : AceTypes, mask : Masks, sid : Sids, data : AppData \cup {NoData}]
(* An entry of a descriptor may lack a trustee.                            *)
FoundAce == [type : AceTypes, mask : Masks, sid : Sids \cup {NoSid}, data : AppData \cup {NoData}]

ASSUME AclAssumption == Lists \subseteq Seq(FoundAce) /\ NoList \notin Lists /\ MaxAces \in Nat

Components == {"owner", "dacl"}

VARIABLES
    aces, latched,    \* AclBuilder: the entries libpeios has taken, its sticky error
    given, refused,   \* history: the entries given since new or reset, whether one was refused
    list,             \* the last Acl handed out, and what it had to hold
    object,           \* the descriptor of the kernel's object
    hand,             \* hand[e]: a descriptor e holds, and the components it selected for it
    opened            \* history: an editor asked for the absent DACL

aclVars == <<aces, latched, given, refused, list>>
storeVars == <<object, hand, opened>>

NoAcl == [ok |-> FALSE, want |-> <<>>, got |-> <<>>]
Unread == [info |-> {}, sd |-> [owner |-> NoOwner, dacl |-> NoList]]

AclInit == aces = <<>> /\ latched = FALSE /\ given = <<>> /\ refused = FALSE /\ list = NoAcl

----------------------------------------------------------------------------
AclReset ==
    /\ aces' = <<>> /\ latched' = FALSE /\ given' = <<>> /\ refused' = FALSE
    /\ UNCHANGED list

(* What AclBuilder::add hands to libpeios of an Ace: every field, an       *)
(* absent one as NULL.  allow, deny, audit and label are fixed types.      *)
AceSpec(ace) == [type |-> ace.type, mask |-> ace.mask, sid |-> ace.sid, data |-> ace.data]

Add(ace, taken) ==
    /\ Len(given) < MaxAces
    /\ given' = Append(given, ace)
    /\ refused' = (refused \/ ~taken)
    /\ latched' = (latched \/ ~taken)
    /\ aces' = IF taken /\ ~latched THEN Append(aces, AceSpec(ace)) ELSE aces
    /\ UNCHANGED list

(* AclBuilder::build: the latched error, or every entry.                   *)
Build ==
    /\ list' = IF latched THEN NoAcl ELSE [ok |-> TRUE, want |-> given, got |-> aces]
    /\ UNCHANGED <<aces, latched, given, refused>>

(* AclView::ace and the accessors of AceView: entry i, unless libpeios     *)
(* cannot read it (bad is the first it cannot).                            *)
Entry(view, i) == [type |-> view[i].type, mask |-> view[i].mask,
                   sid |-> view[i].sid, data |-> view[i].data]
Readable(view, bad) == {i \in DOMAIN view : i < bad /\ Entry(view, i).sid # NoSid}

\* A bug: the list is rebuilt from iter(), which ends at an unreadable entry.
ToAclFromIter(view, bad) ==
    [ok |-> TRUE, want |-> view, got |-> [i \in Readable(view, bad) |-> AceSpec(Entry(view, i))]]

(* AclView::to_acl: an entry that cannot be read, or has no trustee,       *)
(* refuses the whole list.                                                 *)
to_acl(view, bad) ==
    IF Readable(view, bad) = DOMAIN view
    THEN [ok |-> TRUE, want |-> view, got |-> [i \in DOMAIN view |-> AceSpec(Entry(view, i))]]
    ELSE NoAcl

(* sddl::parse_acl and SdView::dacl: a descriptor's DACL as an owned list; *)
(* one that is absent is refused.                                          *)
parse_acl(dacl, bad) ==
    /\ list' = IF dacl = NoList THEN NoAcl ELSE to_acl(dacl, bad)
    /\ UNCHANGED <<aces, latched, given, refused>>

AclNext ==
    \/ AclReset \/ Build
    \/ \E ace \in Ace, taken \in BOOLEAN : Add(ace, taken)
    \/ \E dacl \in Lists \cup {NoList}, bad \in 1 .. MaxAces + 1 : parse_acl(dacl, bad)

AclSpec == AclInit /\ [][AclNext]_aclVars

----------------------------------------------------------------------------
StoreInit ==
    /\ object \in [owner : Owners, dacl : Lists \cup {NoList}]
    /\ hand = [e \in Editors |-> Unread]
    /\ opened = (object.dacl = NoList)

(* get_sd, fd_get_sd, sysv_get_sd: a descriptor with the selected          *)
(* components only; the others are absent in it.                           *)
get_sd(e, info) ==
    /\ hand' = [hand EXCEPT ![e] = [info |-> info, sd |->
           [owner |-> IF "owner" \in info THEN object.owner ELSE NoOwner,
            dacl |-> IF "dacl" \in info THEN object.dacl ELSE NoList]]]
    /\ UNCHANGED <<object, opened>>

(* SdBuilder: owner, dacl and dacl_grant_all; a component not set is       *)
(* absent.  sddl::parse gives the same descriptors.                        *)
SdBuilder(e, info, owner, dacl) ==
    /\ hand' = [hand EXCEPT ![e] = [info |-> info, sd |->
           [owner |-> IF "owner" \in info THEN owner ELSE NoOwner,
            dacl |-> IF "dacl" \in info THEN dacl ELSE NoList]]]
    /\ opened' = (opened \/ ("dacl" \in info /\ dacl = NoList))
    /\ UNCHANGED object

\* A bug: the selection stays behind, and the whole descriptor is written.
SetSdUnselected(e, info) ==
    /\ object' = [owner |-> IF hand[e].sd.owner # NoOwner THEN hand[e].sd.owner ELSE object.owner,
                  dacl |-> hand[e].sd.dacl]
    /\ opened' = (opened \/ ("dacl" \in info /\ hand[e].sd.dacl = NoList))
    /\ UNCHANGED hand

(* set_sd, fd_set_sd, sysv_set_sd: the kernel replaces the components the  *)
(* caller selects and preserves the rest; it refuses to remove the owner.  *)
(* Nothing compares the selection with what the descriptor was read with:  *)
(* to select a DACL that was not read is to ask for the absent one.        *)
set_sd(e, info) ==
    /\ "owner" \in info => hand[e].sd.owner # NoOwner
    /\ object' = [owner |-> IF "owner" \in info THEN hand[e].sd.owner ELSE object.owner,
                  dacl |-> IF "dacl" \in info THEN hand[e].sd.dacl ELSE object.dacl]
    /\ opened' = (opened \/ ("dacl" \in info /\ "dacl" \notin hand[e].info))
    /\ UNCHANGED hand

StoreNext == \E e \in Editors, info \in SUBSET Components :
    \/ get_sd(e, info) \/ set_sd(e, info)
    \/ \E owner \in Owners, dacl \in Lists \cup {NoList} : SdBuilder(e, info, owner, dacl)

StoreSpec == StoreInit /\ [][StoreNext]_storeVars

----------------------------------------------------------------------------
(* A list that is handed out holds what it had to hold, entry by entry and *)
(* field by field: the entries given to a builder since its last reset,    *)
(* or a view's, conditions included.  None is skipped because it could not *)
(* be read or was refused, and an absent DACL never comes out as an empty  *)
(* one (acl.rs:194-206, 259-294; sddl.rs:35-60).                           *)
RebuildKeepsEveryAce == list.ok => list.got = list.want

(* The object is open to everyone only if it was from the start, or an     *)
(* editor selected the DACL of a descriptor that has none: editors who     *)
(* read and write other components, or write back what they read, never    *)
(* open it, in whatever order they do (file.rs:298-318, 408-550).          *)
OpenOnlyWhenAsked == object.dacl = NoList => opened

============================================================================
