---------------------------- MODULE MCDeleteTree ----------------------------
EXTENDS DeleteTree
\* 0 is the hive; 1 is deleted, with 2, 5 and 7 under it, 3 under 2 and 4
\* under 5; 4 is a link to 6, which is elsewhere.
MCParent == [k \in 0..7 |-> CASE k \in {0, 1, 6} -> 0 [] k \in {2, 5, 7} -> 1
                              [] k = 3 -> 2 [] k = 4 -> 5]
MCLink == [k \in 0..7 |-> IF k = 4 THEN 6 ELSE k]
=============================================================================
