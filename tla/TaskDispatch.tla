---------------------------- MODULE TaskDispatch ----------------------------
(***************************************************************************)
(* The life of a build task between the coordinator and the builders.      *)
(*                                                                         *)
(* A task is one b_status row: one repository for one build option.  One   *)
(* dispatcher thread per build option selects rows, publishes them on the  *)
(* option's durable queue and marks them; builders acknowledge a delivery  *)
(* before working on it and report on the queues `clone` and `build`; two  *)
(* consumer threads of the coordinator write the reports into the rows.    *)
(*                                                                         *)
(* The rows, the dispatchers, the builders and the two consumers share     *)
(* nothing but the database and the broker, so every step below is one     *)
(* database transaction, one broker operation, or the outcome of one phase *)
(* of a builder's work.                                                    *)
(*                                                                         *)
(* Bound: MaxFaults limits the faults (lost confirms and acks, handlers    *)
(* that raise, crashes of builders and, if MayRestart, restarts of the     *)
(* coordinator).                                                           *)
(***************************************************************************)
EXTENDS Integers, Sequences, FiniteSets

CONSTANTS
    Tasks,          \* the rows of b_status
    Repos,
    Opts,           \* build options, each with its queue build_opt_{id}
    Builders,
    RepoOf,         \* RepoOf[t], OptOf[t]: the foreign keys of row t
    OptOf,
    Serves,         \* Serves[b]: the build option builder b registered for
    Recycling,      \* the builders that may reach _RECYCLE_AFTER_TASKS
    Blocked,        \* repositories the blocklist excludes
    Threshold,      \* COORDINATOR_REPO_REQUEST_THRESHOLD
    NoTask,
    MaxFaults,
    MayRestart      \* whether the coordinator may restart

ASSUME DispatchAssumption ==
    /\ RepoOf \in [Tasks -> Repos]
    /\ OptOf \in [Tasks -> Opts]
    /\ Serves \in [Builders -> Opts]
    /\ Recycling \subseteq Builders
    /\ Blocked \subseteq Repos
    /\ Threshold \in Nat
    /\ NoTask \notin Tasks
    /\ MaxFaults \in Nat
    /\ MayRestart \in BOOLEAN

VARIABLES
    cloneStatus,    \* b_status.clone_status
    buildStatus,    \* b_status.build_status
    pace,           \* where each dispatcher thread stands in dispatch_step
    candidate,      \* the row it selected
    taskQueue,      \* build_opt_{id}: the messages ready for delivery
    linked,         \* builders whose consumer connection is up
    prefetched,     \* the unacknowledged delivery waiting at a builder
    phase,          \* where each builder stands in run_task
    working,        \* the task it works on
    cloneQueue,     \* queue `clone`
    buildQueue,     \* queue `build`
    failing,        \* the build consumer is between its two transactions
    faults,
    published,      \* history: tasks whose message reached the broker
    taken,          \* history: how often a builder has begun a task
    built,          \* history: tasks some builder built
    broken,         \* history: tasks some builder failed to build
    uncloned,       \* history: tasks whose clone a builder reported failed
    dropped         \* history: tasks abandoned after the early ack

rowVars     == <<cloneStatus, buildStatus>>
dispVars    == <<pace, candidate>>
builderVars == <<linked, prefetched, phase, working>>
reportVars  == <<cloneQueue, buildQueue>>
outcomes    == <<built, broken, uncloned>>
history     == <<published, taken, outcomes, dropped>>
vars == <<rowVars, dispVars, taskQueue, builderVars, reportVars, failing, faults, history>>

CloneStatus == {"NOT_STARTED", "PROCESSING", "FAILED", "SUCCESS"}
BuildStatus == {"INIT", "PROCESSING", "FAILED", "SUCCESS"}
CloneReport(S) == [task : S, status : {"FAILED", "SUCCESS"}]
BuildReport(S) == [task : S, status : {"PROCESSING", "FAILED", "SUCCESS"}]

Working(b) == phase[b] \in {"acquire", "cloned", "build"}

-----------------------------------------------------------------------------
Fault == faults < MaxFaults /\ faults' = faults + 1

NoFault == UNCHANGED faults

(* Publisher.publish returns once the broker confirmed the message.  When  *)
(* the connection dies before the confirm, it publishes again and the      *)
(* queue may hold the message twice.                                       *)
Twice(queue, m) == Append(Append(queue, m), m)

-----------------------------------------------------------------------------
Init ==
    /\ cloneStatus = [t \in Tasks |-> "NOT_STARTED"]
    /\ buildStatus = [t \in Tasks |-> "INIT"]
    /\ pace = [o \in Opts |-> "off"]
    /\ candidate = [o \in Opts |-> NoTask]
    /\ taskQueue = [o \in Opts |-> <<>>]
    /\ linked = {}
    /\ prefetched = [b \in Builders |-> NoTask]
    /\ phase = [b \in Builders |-> "down"]
    /\ working = [b \in Builders |-> NoTask]
    /\ cloneQueue = <<>>
    /\ buildQueue = <<>>
    /\ failing = FALSE
    /\ faults = 0
    /\ published = {}
    /\ taken = [t \in Tasks |-> 0]
    /\ built = {}
    /\ broken = {}
    /\ uncloned = {}
    /\ dropped = {}

-----------------------------------------------------------------------------
(* The dispatcher of option o: DispatcherService.dispatch_step.            *)

(* Reads the queue's message count, which excludes unacknowledged ones.    *)
CheckDepth(o) ==
    /\ pace[o] = "depth"
    /\ Len(taskQueue[o]) <= Threshold
    /\ pace' = [pace EXCEPT ![o] = "select"]
    /\ UNCHANGED <<rowVars, candidate, taskQueue, builderVars, reportVars,
                   failing, faults, history>>

(* Mutant: the query forgets clone_status. *)
AnyInitRow(o) ==
    {t \in Tasks : OptOf[t] = o /\ buildStatus[t] = "INIT" /\ RepoOf[t] \notin Blocked}

Dispatchable(o) ==
    {t \in Tasks : /\ OptOf[t] = o
                   /\ cloneStatus[t] = "NOT_STARTED"
                   /\ buildStatus[t] = "INIT"
                   /\ RepoOf[t] \notin Blocked}

(* next_dispatchable: any row that qualifies, the query has no order.      *)
Select(o) ==
    /\ pace[o] = "select"
    /\ \E t \in Dispatchable(o) : candidate' = [candidate EXCEPT ![o] = t]
    /\ pace' = [pace EXCEPT ![o] = "publish"]
    /\ UNCHANGED <<rowVars, taskQueue, builderVars, reportVars, failing,
                   faults, history>>

(* No row qualifies: the option's starvation flag (read by the scraper      *)
(* request service only, outside this module) is set and the loop restarts.*)
Starve(o) ==
    /\ pace[o] = "select"
    /\ Dispatchable(o) = {}
    /\ pace' = [pace EXCEPT ![o] = "depth"]
    /\ UNCHANGED <<rowVars, candidate, taskQueue, builderVars, reportVars, failing,
                   faults, history>>

(* Mutant: a publish that fails silently, as before the rewrite. *)
PublishSilently(o) ==
    /\ pace[o] = "publish"
    /\ NoFault
    /\ \/ /\ taskQueue' = [taskQueue EXCEPT ![o] = Append(@, candidate[o])]
          /\ published' = published \union {candidate[o]}
       \/ UNCHANGED <<taskQueue, published>>
    /\ pace' = [pace EXCEPT ![o] = "mark"]
    /\ UNCHANGED <<rowVars, candidate, builderVars, reportVars, failing,
                   taken, outcomes, dropped>>

PublishTask(o) ==
    /\ pace[o] = "publish"
    /\ \/ NoFault /\ taskQueue' = [taskQueue EXCEPT ![o] = Append(@, candidate[o])]
       \/ Fault /\ taskQueue' = [taskQueue EXCEPT ![o] = Twice(@, candidate[o])]
    /\ published' = published \union {candidate[o]}
    /\ pace' = [pace EXCEPT ![o] = "mark"]
    /\ UNCHANGED <<rowVars, candidate, builderVars, reportVars, failing,
                   taken, outcomes, dropped>>

(* mark_clone_processing writes whatever the row holds by now.             *)
MarkProcessing(o) ==
    /\ pace[o] = "mark"
    /\ cloneStatus' = [cloneStatus EXCEPT ![candidate[o]] = "PROCESSING"]
    /\ pace' = [pace EXCEPT ![o] = "depth"]
    /\ candidate' = [candidate EXCEPT ![o] = NoTask]
    /\ UNCHANGED <<buildStatus, taskQueue, builderVars, reportVars, failing,
                   faults, history>>

(* A PublishError, or a database error that makes the supervisor restart   *)
(* the service: dispatch_step starts over and has forgotten its candidate. *)
DispatcherFails(o) ==
    /\ pace[o] \in {"select", "publish", "mark"}
    /\ Fault
    /\ pace' = [pace EXCEPT ![o] = "depth"]
    /\ candidate' = [candidate EXCEPT ![o] = NoTask]
    /\ UNCHANGED <<rowVars, taskQueue, builderVars, reportVars, failing, history>>

-----------------------------------------------------------------------------
(* The builder b: BuilderApp.run, ConsumerLoop with ack_early, run_task.   *)

(* The registration handshake, in one step (module Registration details    *)
(* it): the coordinator starts the option's dispatcher unless it runs.     *)
Register(b) ==
    /\ phase[b] = "down"
    /\ phase' = [phase EXCEPT ![b] = "idle"]
    /\ linked' = linked \union {b}
    /\ pace' = [pace EXCEPT ![Serves[b]] = IF @ = "off" THEN "depth" ELSE @]
    /\ UNCHANGED <<rowVars, candidate, taskQueue, prefetched, working, reportVars,
                   failing, faults, history>>

(* prefetch = 1: the broker hands a linked builder one message it has not  *)
(* acknowledged yet, even while its handler still works on another one.    *)
Deliver(b) ==
    LET o == Serves[b] IN
    /\ b \in linked
    /\ prefetched[b] = NoTask
    /\ taskQueue[o] # <<>>
    /\ prefetched' = [prefetched EXCEPT ![b] = Head(taskQueue[o])]
    /\ taskQueue' = [taskQueue EXCEPT ![o] = Tail(@)]
    /\ UNCHANGED <<rowVars, dispVars, linked, phase, working, reportVars, failing, faults,
                   history>>

(* What the broker requeues when b's connection is gone goes back to the   *)
(* head of the queue.                                                      *)
Returned(b) ==
    IF prefetched[b] = NoTask
    THEN taskQueue
    ELSE [taskQueue EXCEPT ![Serves[b]] = <<prefetched[b]>> \o @]

(* The handler blocks the connection's thread, so a build longer than the  *)
(* heartbeat (or the broker's consumer timeout) loses the connection.      *)
Disconnect(b) ==
    /\ b \in linked
    /\ Working(b)
    /\ linked' = linked \ {b}
    /\ taskQueue' = Returned(b)
    /\ prefetched' = [prefetched EXCEPT ![b] = NoTask]
    /\ UNCHANGED <<rowVars, dispVars, phase, working, reportVars, failing, faults, history>>

(* Mutant: the consumer does not come back. *)
StayDeaf(b) ==
    /\ phase[b] = "idle"
    /\ b \notin linked
    /\ UNCHANGED vars

(* ConsumerLoop.run reconnects once the handler has returned.              *)
Reconnect(b) ==
    /\ phase[b] = "idle"
    /\ b \notin linked
    /\ linked' = linked \union {b}
    /\ UNCHANGED <<rowVars, dispVars, taskQueue, prefetched, phase, working, reportVars,
                   failing, faults, history>>

(* _on_message under ack_early: the ack, then the handler.  If the ack is  *)
(* lost with the connection the broker requeues a task that is being built.*)
Begin(b) ==
    /\ phase[b] = "idle"
    /\ b \in linked
    /\ prefetched[b] # NoTask
    /\ \/ NoFault /\ UNCHANGED <<taskQueue, linked>>
       \/ Fault /\ taskQueue' = Returned(b) /\ linked' = linked \ {b}
    /\ working' = [working EXCEPT ![b] = prefetched[b]]
    /\ prefetched' = [prefetched EXCEPT ![b] = NoTask]
    /\ phase' = [phase EXCEPT ![b] = "acquire"]
    /\ taken' = [taken EXCEPT ![prefetched[b]] = @ + 1]
    /\ UNCHANGED <<rowVars, dispVars, reportVars, failing, published, outcomes, dropped>>

ReportClone(b, status) ==
    LET m == [task |-> working[b], status |-> status] IN
    /\ \/ NoFault /\ cloneQueue' = Append(cloneQueue, m)
       \/ Fault /\ cloneQueue' = Twice(cloneQueue, m)
    /\ UNCHANGED buildQueue

ReportBuild(b, status) ==
    LET m == [task |-> working[b], status |-> status] IN
    /\ \/ NoFault /\ buildQueue' = Append(buildQueue, m)
       \/ Fault /\ buildQueue' = Twice(buildQueue, m)
    /\ UNCHANGED cloneQueue

(* The handler is through with its task.  The consumer loop goes on, or it *)
(* was the last of _RECYCLE_AFTER_TASKS and the builder exits, to be       *)
(* started anew by its container.                                          *)
Release(b) ==
    /\ working' = [working EXCEPT ![b] = NoTask]
    /\ \/ /\ phase' = [phase EXCEPT ![b] = "idle"]
          /\ UNCHANGED <<taskQueue, linked, prefetched>>
       \/ /\ b \in Recycling
          /\ phase' = [phase EXCEPT ![b] = "down"]
          /\ linked' = linked \ {b}
          /\ taskQueue' = Returned(b)
          /\ prefetched' = [prefetched EXCEPT ![b] = NoTask]

(* acquire_source failed: one clone report, and nothing on `build`.        *)
CloneFails(b) ==
    /\ phase[b] = "acquire"
    /\ ReportClone(b, "FAILED")
    /\ uncloned' = uncloned \union {working[b]}
    /\ Release(b)
    /\ UNCHANGED <<rowVars, dispVars, failing, published, taken, built, broken, dropped>>

CloneSucceeds(b) ==
    /\ phase[b] = "acquire"
    /\ ReportClone(b, "SUCCESS")
    /\ phase' = [phase EXCEPT ![b] = "cloned"]
    /\ UNCHANGED <<rowVars, dispVars, taskQueue, linked, prefetched, working, failing, history>>

ReportProcessing(b) ==
    /\ phase[b] = "cloned"
    /\ ReportBuild(b, "PROCESSING")
    /\ phase' = [phase EXCEPT ![b] = "build"]
    /\ UNCHANGED <<rowVars, dispVars, taskQueue, linked, prefetched, working, failing, history>>

(* Mutant: a failed build reports nothing, as a failed clone does.         *)
FinishSilently(b) ==
    /\ phase[b] = "build"
    /\ \/ /\ ReportBuild(b, "SUCCESS")
          /\ built' = built \union {working[b]}
          /\ UNCHANGED broken
       \/ /\ NoFault
          /\ broken' = broken \union {working[b]}
          /\ UNCHANGED <<reportVars, built>>
    /\ Release(b)
    /\ UNCHANGED <<rowVars, dispVars, failing, published, taken, uncloned, dropped>>

(* Prepare, build, extract, persist, and the final report.                 *)
FinishBuild(b) ==
    /\ phase[b] = "build"
    /\ \/ /\ ReportBuild(b, "SUCCESS")
          /\ built' = built \union {working[b]}
          /\ UNCHANGED broken
       \/ /\ ReportBuild(b, "FAILED")
          /\ broken' = broken \union {working[b]}
          /\ UNCHANGED built
    /\ Release(b)
    /\ UNCHANGED <<rowVars, dispVars, failing, published, taken, uncloned, dropped>>

(* Any exception of run_task (a report that cannot be published, a failed  *)
(* upload) is only logged: the delivery is acknowledged already.           *)
HandlerRaises(b) ==
    /\ Working(b)
    /\ Fault
    /\ dropped' = dropped \union {working[b]}
    /\ phase' = [phase EXCEPT ![b] = "idle"]
    /\ working' = [working EXCEPT ![b] = NoTask]
    /\ UNCHANGED <<rowVars, dispVars, taskQueue, linked, prefetched, reportVars, failing,
                   published, taken, outcomes>>

(* The process dies; its container restarts it and it registers again.     *)
BuilderCrashes(b) ==
    /\ phase[b] # "down"
    /\ Fault
    /\ dropped' = IF Working(b) THEN dropped \union {working[b]} ELSE dropped
    /\ taskQueue' = Returned(b)
    /\ prefetched' = [prefetched EXCEPT ![b] = NoTask]
    /\ linked' = linked \ {b}
    /\ phase' = [phase EXCEPT ![b] = "down"]
    /\ working' = [working EXCEPT ![b] = NoTask]
    /\ UNCHANGED <<rowVars, dispVars, reportVars, failing, published, taken, outcomes>>

-----------------------------------------------------------------------------
(* The coordinator's consumers of `clone` and `build`.  A consumer that    *)
(* handled the head of its queue acknowledges it; when the ack is lost the *)
(* broker delivers the same message again.                                 *)
AckClone ==
    \/ NoFault /\ cloneQueue' = Tail(cloneQueue)
    \/ Fault /\ UNCHANGED cloneQueue

AckBuild ==
    \/ NoFault /\ buildQueue' = Tail(buildQueue)
    \/ Fault /\ UNCHANGED buildQueue

IngestClone ==
    /\ cloneQueue # <<>>
    /\ LET m == Head(cloneQueue) IN
          cloneStatus' = [cloneStatus EXCEPT ![m.task] = m.status]
    /\ AckClone
    /\ UNCHANGED <<buildStatus, dispVars, taskQueue, builderVars, buildQueue, failing, history>>

(* Mutant: any final result goes on to the siblings. *)
IngestFinal ==
    /\ buildQueue # <<>>
    /\ ~failing
    /\ LET m == Head(buildQueue) IN
          /\ buildStatus' = [buildStatus EXCEPT ![m.task] = m.status]
          /\ IF m.status # "PROCESSING"
             THEN failing' = TRUE /\ NoFault /\ UNCHANGED buildQueue
             ELSE UNCHANGED failing /\ AckBuild
    /\ UNCHANGED <<cloneStatus, dispVars, taskQueue, builderVars, cloneQueue, history>>

(* handle_build_status, first transaction: the row itself.  Only a FAILED  *)
(* result goes on to the siblings; any other is acknowledged.              *)
IngestBuild ==
    /\ buildQueue # <<>>
    /\ ~failing
    /\ LET m == Head(buildQueue) IN
          /\ buildStatus' = [buildStatus EXCEPT ![m.task] = m.status]
          /\ IF m.status = "FAILED"
             THEN failing' = TRUE /\ NoFault /\ UNCHANGED buildQueue
             ELSE /\ UNCHANGED failing
                  /\ AckBuild
    /\ UNCHANGED <<cloneStatus, dispVars, taskQueue, builderVars, cloneQueue, history>>

(* Mutant: the update does not ask for build_status INIT. *)
AllSiblings(t) == {s \in Tasks \ {t} : RepoOf[s] = RepoOf[t]}

InitSiblings(t) ==
    {s \in Tasks \ {t} : RepoOf[s] = RepoOf[t] /\ buildStatus[s] = "INIT"}

(* Mutant: the ack precedes the second transaction. *)
FailSiblingsLate ==
    /\ failing
    /\ AckBuild
    /\ UNCHANGED <<rowVars, failing, dispVars, taskQueue, builderVars, cloneQueue, history>>

(* Second transaction: fail_sibling_statuses, then the ack.                *)
FailSiblings ==
    /\ failing
    /\ LET siblings == InitSiblings(Head(buildQueue).task) IN
          buildStatus' = [t \in Tasks |-> IF t \in siblings THEN "FAILED" ELSE buildStatus[t]]
    /\ failing' = FALSE
    /\ AckBuild
    /\ UNCHANGED <<cloneStatus, dispVars, taskQueue, builderVars, cloneQueue, history>>

(* The second transaction raises: the loop requeues the delivery.          *)
SiblingsRaise ==
    /\ failing
    /\ Fault
    /\ failing' = FALSE
    /\ UNCHANGED <<rowVars, dispVars, taskQueue, builderVars, reportVars, history>>

(* The coordinator restarts: queues and rows survive, threads do not.  A   *)
(* dispatcher comes back only with the next registration.                  *)
CoordinatorRestarts ==
    /\ MayRestart
    /\ Fault
    /\ pace' = [o \in Opts |-> "off"]
    /\ candidate' = [o \in Opts |-> NoTask]
    /\ failing' = FALSE
    /\ UNCHANGED <<rowVars, taskQueue, builderVars, reportVars, history>>

-----------------------------------------------------------------------------
Dispatcher(o) ==
    \/ CheckDepth(o) \/ Select(o) \/ Starve(o) \/ PublishTask(o) \/ MarkProcessing(o)

BuilderWork(b) ==
    \/ Begin(b) \/ CloneFails(b) \/ CloneSucceeds(b) \/ ReportProcessing(b) \/ FinishBuild(b)

Next ==
    \/ \E o \in Opts : Dispatcher(o) \/ DispatcherFails(o)
    \/ \E b \in Builders :
          \/ Register(b) \/ Deliver(b) \/ Disconnect(b) \/ Reconnect(b)
          \/ BuilderWork(b) \/ HandlerRaises(b) \/ BuilderCrashes(b)
    \/ IngestClone \/ IngestBuild \/ FailSiblings \/ SiblingsRaise
    \/ CoordinatorRestarts

(* The supervisor keeps every thread running and the broker delivers what  *)
(* is ready.  Faults, disconnections and restarts are never owed, nor is a *)
(* registration: behind a dead one at the head of builder_reg it may wait  *)
(* for ever (module Registration, Wedged).                                 *)
Fairness ==
    /\ \A o \in Opts : WF_vars(Dispatcher(o))
    /\ \A b \in Builders :
          /\ WF_vars(Deliver(b))
          /\ WF_vars(Reconnect(b))
          /\ WF_vars(BuilderWork(b))
    /\ WF_vars(IngestClone)
    /\ WF_vars(IngestBuild)
    /\ WF_vars(FailSiblings)

Spec == Init /\ [][Next]_vars

FairSpec == Spec /\ Fairness

-----------------------------------------------------------------------------
(* Properties. *)

(* Every variable has its type.  FlowOf(S): the tasks on their way through *)
(* the queues and the builders, and those reported on, are members of S.   *)
RowTypes ==
    /\ cloneStatus \in [Tasks -> CloneStatus]
    /\ buildStatus \in [Tasks -> BuildStatus]

DispatchTypes ==
    /\ pace \in [Opts -> {"off", "depth", "select", "publish", "mark"}]
    /\ candidate \in [Opts -> Tasks \union {NoTask}]
    /\ \A o \in Opts : pace[o] \in {"publish", "mark"} => candidate[o] \in Tasks

FlowOf(S) ==
    /\ taskQueue \in [Opts -> Seq(S)]
    /\ prefetched \in [Builders -> S \union {NoTask}]
    /\ working \in [Builders -> S \union {NoTask}]
    /\ \A b \in Builders : Working(b) => working[b] \in S
    /\ cloneQueue \in Seq(CloneReport(S))
    /\ buildQueue \in Seq(BuildReport(S))

PhaseTypes ==
    /\ linked \in SUBSET Builders
    /\ phase \in [Builders -> {"down", "idle", "acquire", "cloned", "build"}]
    /\ failing \in BOOLEAN
    /\ failing => buildQueue # <<>>
    /\ faults \in 0..MaxFaults

HistoryTypes ==
    /\ published \in SUBSET Tasks
    /\ taken \in [Tasks -> Nat]
    /\ built \in SUBSET Tasks
    /\ broken \in SUBSET Tasks
    /\ uncloned \in SUBSET Tasks
    /\ dropped \in SUBSET Tasks

TypeOK ==
    /\ RowTypes
    /\ DispatchTypes
    /\ FlowOf(Tasks)
    /\ PhaseTypes
    /\ HistoryTypes

(* Publish first, mark after (dispatch.py: "only now is the task really in *)
(* flight"): a row leaves NOT_STARTED only when its message reached the    *)
(* broker, whatever crashes, so that no row is marked in progress with     *)
(* nobody to work on it.                                                   *)
PublishedBeforeMarked ==
    \A t \in Tasks : cloneStatus[t] # "NOT_STARTED" => t \in published

(* A recorded result has a cause: SUCCESS is only written for a task some  *)
(* builder built, FAILED only if a builder failed that task or a sibling   *)
(* of the same repository (handle_build_status).                           *)
ResultsHaveCause ==
    \A t \in Tasks :
        /\ buildStatus[t] = "SUCCESS" => t \in built
        /\ buildStatus[t] = "FAILED" => \E s \in broken : RepoOf[s] = RepoOf[t]

Queued(t) == \E i \in 1..Len(taskQueue[OptOf[t]]) : taskQueue[OptOf[t]][i] = t

AtBuilder(t) ==
    \E b \in Builders : prefetched[b] = t \/ (Working(b) /\ working[b] = t)

ResultPending(t) ==
    \E i \in 1..Len(buildQueue) :
        buildQueue[i].task = t /\ buildQueue[i].status \in {"SUCCESS", "FAILED"}

Settled(t) == buildStatus[t] \in {"SUCCESS", "FAILED"}

(* Nothing vanishes but by the documented early ack: a row that was        *)
(* dispatched and has no result is queued, at a builder, or its result     *)
(* waits on `build`, or else its clone failed or a builder abandoned it    *)
(* after acknowledging it (INSTALL.md, "Tasks vanish across a restart").   *)
NothingVanishes ==
    \A t \in Tasks :
        cloneStatus[t] # "NOT_STARTED" /\ ~Settled(t) =>
            Queued(t) \/ AtBuilder(t) \/ ResultPending(t) \/ t \in uncloned \union dropped

(* As long as nothing fails, no task is begun twice: the one dispatcher of *)
(* an option marks a row before it selects again, and no later write turns *)
(* the row back to NOT_STARTED (dispatch_step, next_dispatchable).         *)
SingleBuildWithoutFaults ==
    faults = 0 => \A t \in Tasks : taken[t] <= 1

BuildersOf(o) == {b \in Builders : Serves[b] = o}

(* The depth check bounds the backlog of an option's queue by the          *)
(* threshold, one message more because the check admits the threshold      *)
(* itself, what its builders may hand back, and duplicates.                *)
BacklogBounded ==
    \A o \in Opts :
        Len(taskQueue[o]) + Cardinality({b \in BuildersOf(o) : prefetched[b] # NoTask})
            <= Threshold + 1 + Cardinality(BuildersOf(o)) + faults

(* The option has a dispatcher (a restarted coordinator waits for the next *)
(* registration: INSTALL.md, the stranded fleet).                          *)
HasDispatcher(o) == pace[o] # "off"

(* The option has a builder that got through its handshake.                *)
HasBuilder(o) == \E b \in BuildersOf(o) : phase[b] # "down"

(* Every task of a repository that is not blocked ends with a result, with *)
(* a failed clone, or abandoned after the early ack, and stays so, provided*)
(* that its option has a dispatcher in the end, and a builder again and    *)
(* again: recycled or crashed ones may, or may not, get through another    *)
(* handshake.  The dispatcher threads, the broker, the builders and the    *)
(* consumers make progress together whatever transient fault hits them.    *)
EveryTaskSettles ==
    \A t \in Tasks :
        /\ RepoOf[t] \notin Blocked
        /\ <>[]HasDispatcher(OptOf[t])
        /\ []<>HasBuilder(OptOf[t])
        => <>[](Settled(t) \/ t \in uncloned \union dropped)

=============================================================================
