----------------------------- MODULE TaskLedger -----------------------------
(***************************************************************************)
(* What the coordinator and its builders promise of the table b_status,    *)
(* whatever is lost, repeated or restarted between them: a task is handed  *)
(* to the broker, begun by builders any number of times, each time with an *)
(* outcome or none, and the row's result is one of the task's outcomes or  *)
(* the failure of a task of the same repository.  A result is final, but   *)
(* for two cases: the task was begun more than once, or the result is the  *)
(* failure of another task of the repository.                              *)
(*                                                                         *)
(* Module LedgerRefinement shows that TaskDispatch, with its queues,       *)
(* threads and faults, does no more than this.                             *)
(***************************************************************************)
EXTENDS Naturals

CONSTANTS Tasks, Repos, RepoOf

VARIABLES
    handed,     \* tasks the broker was given
    tries,      \* how often a builder has begun a task
    built, broken, uncloned, dropped,   \* outcomes: of the build, of the clone, or none
    result      \* the result in the row, if any

outcomes == <<built, broken, uncloned, dropped>>
vars == <<handed, tries, outcomes, result>>

Init ==
    /\ handed = {}
    /\ tries = [t \in Tasks |-> 0]
    /\ built = {} /\ broken = {} /\ uncloned = {} /\ dropped = {}
    /\ result = [t \in Tasks |-> "open"]

Siblings(t) == {s \in Tasks \ {t} : RepoOf[s] = RepoOf[t]}

HandOver(t) ==
    /\ handed' = handed \cup {t}
    /\ UNCHANGED <<tries, outcomes, result>>

Begin(t) ==
    /\ t \in handed
    /\ tries' = [tries EXCEPT ![t] = @ + 1]
    /\ UNCHANGED <<handed, outcomes, result>>

(* Every outcome has an attempt. *)
End(t) ==
    /\ tries[t] > 0
    /\ \/ built' = built \cup {t} /\ UNCHANGED <<broken, uncloned, dropped>>
       \/ broken' = broken \cup {t} /\ UNCHANGED <<built, uncloned, dropped>>
       \/ uncloned' = uncloned \cup {t} /\ UNCHANGED <<built, broken, dropped>>
       \/ dropped' = dropped \cup {t} /\ UNCHANGED <<built, broken, uncloned>>
    /\ UNCHANGED <<handed, tries, result>>

Warranted(t) ==
    {"open"} \cup (IF t \in built THEN {"SUCCESS"} ELSE {})
             \cup (IF t \in broken THEN {"FAILED"} ELSE {})

Revisable(t) ==
    \/ result[t] = "open"
    \/ tries[t] >= 2
    \/ result[t] = "FAILED" /\ Siblings(t) \cap broken # {}

Record(t) ==
    /\ tries[t] > 0
    /\ \E r \in Warranted(t) :
          /\ r = result[t] \/ Revisable(t)
          /\ result' = [result EXCEPT ![t] = r]
    /\ UNCHANGED <<handed, tries, outcomes>>

(* A failed build fails tasks of its repository that have no result.       *)
FailSiblings(t) ==
    /\ t \in broken
    /\ \E S \in SUBSET {s \in Siblings(t) : result[s] = "open"} :
          result' = [s \in Tasks |-> IF s \in S THEN "FAILED" ELSE result[s]]
    /\ UNCHANGED <<handed, tries, outcomes>>

Next ==
    \E t \in Tasks : HandOver(t) \/ Begin(t) \/ End(t) \/ Record(t) \/ FailSiblings(t)

Spec == Init /\ [][Next]_vars
=============================================================================
