----------------------------- MODULE MCContents ----------------------------
(* What a program reads and writes, one per behaviour: access lists,        *)
(* stored descriptors, wire formats, MessagePack, and a key's values.  Two  *)
(* names give a walk by position a place to skip and one to repeat.         *)
EXTENDS SecurityDescriptors, WireFormats, MsgPack, RegistryValues

CONSTANTS c1, c2
VARIABLE part

MCClients == {c1, c2}
MCLists == {<<>>} \cup {<<[type |-> "allow", mask |-> "m", sid |-> s, data |-> d]>> : s \in Sids \cup {NoSid}, d \in AppData \cup {NoData}}
            \cup {<<[type |-> "allow", mask |-> "m", sid |-> s, data |-> NoData], [type |-> "audit", mask |-> "m", sid |-> s, data |-> d]>> : s \in Sids, d \in AppData}
MCNames == {<<>>, <<2>>, <<2, 1>>}
MCEvents == [kind : {1}, name : MCNames, path : {<<>>, << <<2>> >>, << <<1>>, <<2, 2>> >>}, ext : BOOLEAN]
MCRecords == [name : MCNames, type : {1}, data : {<<>>, <<0>>, <<2, 3>>}]
MCTexts == {<<>>, <<1>>, <<2, 1>>}
MCStored == {Is(ty, b) : ty \in {"SZ", "EXPAND_SZ", "LINK", "BINARY"}, b \in MCTexts}
            \cup {Is("MULTI_SZ", l) : l \in {<<>>, << <<1>> >>, << <<2, 1>>, <<2>> >>}}
            \cup {Is(ty, <<1, 0>>) : ty \in {"DWORD", "DWORD_BIG_ENDIAN"}}
            \cup {Is("NONE", <<>>), Is("QWORD", <<1, 0, 2, 9>>), Raw("TOMBSTONE", <<1, 0>>)}
MCLoose == UNION {[1 .. n -> {0, 1, 9}] : n \in 0 .. 5}

MCVars == <<aclVars, storeVars, wireVars, mpVars, regVars, part>>
MCInit == /\ part \in {"acl", "store", "wire", "msgpack", "values"}
          /\ AclInit /\ StoreInit /\ WireInit /\ MsgInit /\ RegInit
          /\ part # "store" => object = [owner |-> CHOOSE o \in Owners : TRUE, dacl |-> NoList]
          /\ part # "wire" => form = "data"
          /\ part # "values" => watcher.step = "off" /\ walk.done
MCNext == /\ UNCHANGED part
          /\ \/ part = "acl" /\ AclNext /\ UNCHANGED <<storeVars, wireVars, mpVars, regVars>>
             \/ part = "store" /\ StoreNext /\ UNCHANGED <<aclVars, wireVars, mpVars, regVars>>
             \/ part = "wire" /\ WireNext /\ UNCHANGED <<aclVars, storeVars, mpVars, regVars>>
             \/ part = "msgpack" /\ MsgNext /\ UNCHANGED <<aclVars, storeVars, wireVars, regVars>>
             \/ part = "values" /\ RegNext /\ UNCHANGED <<aclVars, storeVars, wireVars, mpVars>>
MCSpec == MCInit /\ [][MCNext]_MCVars /\ WF_regVars(Watching)
============================================================================
