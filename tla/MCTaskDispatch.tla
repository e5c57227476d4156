--------------------------- MODULE MCTaskDispatch ---------------------------
(* Small instances of TaskDispatch.  Task tij is repository i built for    *)
(* option j, so t11 and t12 are siblings; builder bj serves option j.      *)
EXTENDS LedgerRefinement

CONSTANTS t11, t12, t21, r1, r2, o1, o2, b1, b2

MCRepoOf == [t \in Tasks |-> IF t = t21 THEN r2 ELSE r1]
MCOptOf  == [t \in Tasks |-> IF t = t12 THEN o2 ELSE o1]
MCServes == [b \in Builders |-> IF b = b2 THEN o2 ELSE o1]
=============================================================================
