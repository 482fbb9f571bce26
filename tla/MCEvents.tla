----------------------------- MODULE MCEvents -----------------------------
(* Emission by policy, emission in batches and the event reader for TLC.   *)
EXTENDS EventEmit, EmitBatch, EventReader
VARIABLE part
MCVars == <<vars, batchVars, readerState, part>>
MCInit == /\ part \in {"emit", "batch", "reader"}
          /\ Init /\ BatchInit /\ ReaderInit
          /\ part # "emit" => setting = "unset"
          /\ part # "batch" => entries = <<>>
          /\ mode = IF part = "reader" THEN "drain" ELSE "off"
MCNext == /\ UNCHANGED part
          /\ \/ part = "emit" /\ Next /\ UNCHANGED <<batchVars, readerState>>
             \/ part = "batch" /\ BatchNext /\ UNCHANGED <<vars, readerState>>
             \/ part = "reader" /\ ReaderNext /\ UNCHANGED <<vars, batchVars>>
MCSpec == MCInit /\ [][MCNext]_MCVars /\ Fairness
=============================================================================
