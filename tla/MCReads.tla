------------------------------ MODULE MCReads ------------------------------
(* The reads of what others replace, and the descriptors of a process, for *)
(* TLC.  Sizes 0 .. 5 let an object or a template outgrow all four reads;  *)
(* three numbers let a message's token and two descriptors meet a full     *)
(* table, and a number be handed out again.                                *)
EXTENDS SizeProbe, MountPolicy, Descriptors
VARIABLE part
MCSizes == 0 .. 5
MCVars == <<vars, mountVars, fdVars, part>>
MCInit == /\ part \in {"probe", "mount", "descriptors"}
          /\ Init /\ MountInit /\ FdInit
          /\ part # "probe" => len = 0
          /\ part # "mount" => template_sd_len = 0
          /\ part # "descriptors" => exists = {}
MCNext == /\ UNCHANGED part
          /\ \/ part = "probe" /\ Next /\ UNCHANGED <<mountVars, fdVars>>
             \/ part = "mount" /\ MountNext /\ UNCHANGED <<vars, fdVars>>
             \/ part = "descriptors" /\ FdNext /\ UNCHANGED <<vars, mountVars>>
MCSpec == MCInit /\ [][MCNext]_MCVars
=============================================================================
