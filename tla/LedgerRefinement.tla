-------------------------- MODULE LedgerRefinement --------------------------
(* TaskDispatch implements TaskLedger: the row's status is read as a       *)
(* result, INIT and PROCESSING as none.                                    *)
EXTENDS TaskDispatch

ResultOf(t) == IF Settled(t) THEN buildStatus[t] ELSE "open"

Ledger == INSTANCE TaskLedger WITH
    handed <- published,
    tries  <- taken,
    result <- [t \in Tasks |-> ResultOf(t)]

(* The whole traffic of dispatchers, queues, builders and consumers, with  *)
(* its faults, does to a row only what the ledger allows: no result        *)
(* without an attempt that had it or a sibling's failure, none revised but *)
(* in the two cases the ledger names.                                      *)
ImplementsLedger == Ledger!Spec
=============================================================================
