------------------------- MODULE TaskDispatch_proofs -------------------------
(***************************************************************************)
(* Proofs about TaskDispatch, for any set of rows, builders and options    *)
(* and any number of faults: its types and its two simpler invariants; the *)
(* flow of tasks, by which nothing vanishes, nothing is begun twice while  *)
(* nothing fails, and no queue grows beyond its bound; and that it         *)
(* implements TaskLedger.                                                  *)
(***************************************************************************)
EXTENDS LedgerRefinement, SequenceTheorems, FiniteSetTheorems, TLAPS

-----------------------------------------------------------------------------
(* What the helpers of the specification return. *)

(* Publishing once or twice keeps a queue a queue of the same messages.    *)
LEMMA TwiceType ==
    ASSUME NEW S, NEW queue \in Seq(S), NEW m \in S
    PROVE  /\ Append(queue, m) \in Seq(S)
           /\ Append(queue, m) # <<>>
           /\ Twice(queue, m) \in Seq(S)
           /\ Twice(queue, m) # <<>>
BY DEF Twice

(* What the broker takes back from a builder are tasks.                    *)
LEMMA ReturnedType ==
    ASSUME NEW S, taskQueue \in [Opts -> Seq(S)],
           prefetched \in [Builders -> S \union {NoTask}], NEW b \in Builders
    PROVE  Returned(b) \in [Opts -> Seq(S)]
<1>1. CASE prefetched[b] = NoTask
  BY <1>1 DEF Returned
<1>2. CASE prefetched[b] # NoTask
  <2>1. prefetched[b] \in S
    BY <1>2
  <2>2. Serves[b] \in Opts
    BY DispatchAssumption
  <2>3. <<prefetched[b]>> \o taskQueue[Serves[b]] \in Seq(S)
    BY <2>1, <2>2, ConcatProperties
  <2> QED BY <1>2, <2>2, <2>3 DEF Returned
<1> QED BY <1>1, <1>2

(* A builder through with its task keeps its next one or hands it back.    *)
LEMMA ReleaseType ==
    ASSUME NEW S, taskQueue \in [Opts -> Seq(S)],
           prefetched \in [Builders -> S \union {NoTask}],
           working \in [Builders -> S \union {NoTask}], NEW b \in Builders, Release(b)
    PROVE  /\ taskQueue' \in [Opts -> Seq(S)]
           /\ prefetched' \in [Builders -> S \union {NoTask}]
           /\ working' \in [Builders -> S \union {NoTask}]
<1>1. Returned(b) \in [Opts -> Seq(S)]
  BY ReturnedType
<1> QED BY <1>1 DEF Release

(* A clone report appended by ReportClone speaks of the task at hand.      *)
LEMMA ReportCloneType ==
    ASSUME NEW S, cloneQueue \in Seq(CloneReport(S)),
           NEW b \in Builders, working[b] \in S,
           NEW status \in {"FAILED", "SUCCESS"}, ReportClone(b, status)
    PROVE  cloneQueue' \in Seq(CloneReport(S))
<1> DEFINE m == [task |-> working[b], status |-> status]
<1>1. m \in CloneReport(S)
  BY DEF CloneReport
<1> HIDE DEF m
<1>2. cloneQueue' = Append(cloneQueue, m) \/ cloneQueue' = Twice(cloneQueue, m)
  BY DEF ReportClone, m
<1> QED BY <1>1, <1>2, TwiceType

(* So does a build report, and the queue is not empty then.                *)
LEMMA ReportBuildType ==
    ASSUME NEW S, buildQueue \in Seq(BuildReport(S)),
           NEW b \in Builders, working[b] \in S,
           NEW status \in {"PROCESSING", "FAILED", "SUCCESS"}, ReportBuild(b, status)
    PROVE  /\ buildQueue' \in Seq(BuildReport(S))
           /\ buildQueue' # <<>>
<1> DEFINE m == [task |-> working[b], status |-> status]
<1>1. m \in BuildReport(S)
  BY DEF BuildReport
<1> HIDE DEF m
<1>2. buildQueue' = Append(buildQueue, m) \/ buildQueue' = Twice(buildQueue, m)
  BY DEF ReportBuild, m
<1> QED BY <1>1, <1>2, TwiceType

-----------------------------------------------------------------------------
(* The flow of tasks.  For a fixed set P, a step that publishes only       *)
(* members of P keeps every queue and every builder on members of P.  With *)
(* P the set of all tasks this is typing, with P the published tasks it is *)
(* the heart of PublishedBeforeMarked.                                     *)
LEMMA FlowStep ==
    ASSUME NEW P, DispatchTypes, PhaseTypes, FlowOf(P), [Next]_vars,
           \A o \in Opts : PublishTask(o) => candidate[o] \in P
    PROVE  FlowOf(P)'
<1> USE DEF FlowOf, Working
<1> DEFINE Flow == <<taskQueue, prefetched, working, phase, cloneQueue, buildQueue>>
<1>1. ASSUME UNCHANGED Flow PROVE FlowOf(P)'
  BY <1>1
<1>2. ASSUME NEW o \in Opts, PublishTask(o) PROVE FlowOf(P)'
  <2>1. taskQueue[o] \in Seq(P) /\ candidate[o] \in P
    BY <1>2
  <2>2. /\ Append(taskQueue[o], candidate[o]) \in Seq(P)
        /\ Twice(taskQueue[o], candidate[o]) \in Seq(P)
    BY <2>1, TwiceType
  <2>3. taskQueue' \in [Opts -> Seq(P)]
    BY <1>2, <2>2 DEF PublishTask
  <2> QED BY <1>2, <2>3 DEF PublishTask, builderVars, reportVars
<1>3. ASSUME NEW b \in Builders, Register(b) PROVE FlowOf(P)'
  BY <1>3 DEF Register, reportVars
<1>4. ASSUME NEW b \in Builders, Deliver(b) PROVE FlowOf(P)'
  <2>1. Serves[b] \in Opts /\ taskQueue[Serves[b]] \in Seq(P)
    BY DispatchAssumption
  <2>2. /\ Head(taskQueue[Serves[b]]) \in P
        /\ Tail(taskQueue[Serves[b]]) \in Seq(P)
    BY <1>4, <2>1, HeadTailProperties DEF Deliver
  <2> QED BY <1>4, <2>1, <2>2 DEF Deliver, reportVars
<1>5. ASSUME NEW b \in Builders, Disconnect(b) PROVE FlowOf(P)'
  <2>1. taskQueue' \in [Opts -> Seq(P)]
    BY <1>5, ReturnedType DEF Disconnect
  <2> QED BY <1>5, <2>1 DEF Disconnect, reportVars
<1>6. ASSUME NEW b \in Builders, Begin(b) PROVE FlowOf(P)'
  <2>1. taskQueue' \in [Opts -> Seq(P)]
    BY <1>6, ReturnedType DEF Begin
  <2>2. /\ working' \in [Builders -> P \union {NoTask}]
        /\ prefetched' \in [Builders -> P \union {NoTask}]
    BY <1>6 DEF Begin
  <2>3. (\A c \in Builders : Working(c) => working[c] \in P)'
    BY <1>6 DEF Begin, PhaseTypes
  <2>4. UNCHANGED <<cloneQueue, buildQueue>>
    BY <1>6 DEF Begin, reportVars
  <2> QED BY <2>1, <2>2, <2>3, <2>4
<1>7. ASSUME NEW b \in Builders, CloneFails(b) PROVE FlowOf(P)'
  <2>1. cloneQueue' \in Seq(CloneReport(P))
    BY <1>7, ReportCloneType DEF CloneFails
  <2>2. /\ taskQueue' \in [Opts -> Seq(P)]
        /\ working' \in [Builders -> P \union {NoTask}]
        /\ prefetched' \in [Builders -> P \union {NoTask}]
    BY <1>7, ReleaseType DEF CloneFails
  <2>3. (\A c \in Builders : Working(c) => working[c] \in P)'
    BY <1>7 DEF CloneFails, Release, PhaseTypes
  <2> QED BY <1>7, <2>1, <2>2, <2>3 DEF CloneFails, ReportClone
<1>8. ASSUME NEW b \in Builders, CloneSucceeds(b) PROVE FlowOf(P)'
  <2>1. cloneQueue' \in Seq(CloneReport(P))
    BY <1>8, ReportCloneType DEF CloneSucceeds
  <2> QED BY <1>8, <2>1 DEF CloneSucceeds, ReportClone
<1>9. ASSUME NEW b \in Builders, ReportProcessing(b) PROVE FlowOf(P)'
  <2>1. buildQueue' \in Seq(BuildReport(P))
    BY <1>9, ReportBuildType DEF ReportProcessing
  <2> QED BY <1>9, <2>1 DEF ReportProcessing, ReportBuild
<1>10. ASSUME NEW b \in Builders, FinishBuild(b) PROVE FlowOf(P)'
  <2>1. buildQueue' \in Seq(BuildReport(P))
    BY <1>10, ReportBuildType DEF FinishBuild
  <2>2. /\ taskQueue' \in [Opts -> Seq(P)]
        /\ working' \in [Builders -> P \union {NoTask}]
        /\ prefetched' \in [Builders -> P \union {NoTask}]
    BY <1>10, ReleaseType DEF FinishBuild
  <2>3. (\A c \in Builders : Working(c) => working[c] \in P)'
    BY <1>10 DEF FinishBuild, Release, PhaseTypes
  <2> QED BY <1>10, <2>1, <2>2, <2>3 DEF FinishBuild, ReportBuild
<1>11. ASSUME NEW b \in Builders, HandlerRaises(b) PROVE FlowOf(P)'
  <2>1. /\ working' \in [Builders -> P \union {NoTask}]
        /\ prefetched' \in [Builders -> P \union {NoTask}]
    BY <1>11 DEF HandlerRaises
  <2>2. (\A c \in Builders : Working(c) => working[c] \in P)'
    BY <1>11 DEF HandlerRaises, PhaseTypes
  <2> QED BY <1>11, <2>1, <2>2 DEF HandlerRaises, reportVars
<1>12. ASSUME NEW b \in Builders, BuilderCrashes(b) PROVE FlowOf(P)'
  <2>1. taskQueue' \in [Opts -> Seq(P)]
    BY <1>12, ReturnedType DEF BuilderCrashes
  <2>2. /\ working' \in [Builders -> P \union {NoTask}]
        /\ prefetched' \in [Builders -> P \union {NoTask}]
    BY <1>12 DEF BuilderCrashes
  <2>3. (\A c \in Builders : Working(c) => working[c] \in P)'
    BY <1>12 DEF BuilderCrashes, PhaseTypes
  <2> QED BY <1>12, <2>1, <2>2, <2>3 DEF BuilderCrashes, reportVars
<1>13. ASSUME IngestClone PROVE FlowOf(P)'
  <2>1. cloneQueue' \in Seq(CloneReport(P))
    BY <1>13, HeadTailProperties DEF IngestClone, AckClone
  <2> QED BY <1>13, <2>1 DEF IngestClone, builderVars
<1>14. ASSUME IngestBuild \/ FailSiblings PROVE FlowOf(P)'
  <2>1. buildQueue # <<>>
    BY <1>14 DEF IngestBuild, FailSiblings, PhaseTypes
  <2>2. Tail(buildQueue) \in Seq(BuildReport(P))
    BY <2>1, HeadTailProperties
  <2> QED BY <1>14, <2>2 DEF IngestBuild, FailSiblings, AckBuild, builderVars
<1>15. ASSUME NEW o \in Opts,
              \/ CheckDepth(o) \/ Select(o) \/ Starve(o)
              \/ MarkProcessing(o) \/ DispatcherFails(o)
       PROVE  UNCHANGED Flow
  BY <1>15 DEF CheckDepth, Select, Starve, MarkProcessing, DispatcherFails,
               builderVars, reportVars
<1>16. ASSUME \/ \E b \in Builders : Reconnect(b)
              \/ SiblingsRaise \/ CoordinatorRestarts \/ UNCHANGED vars
       PROVE  UNCHANGED Flow
  BY <1>16 DEF Reconnect, SiblingsRaise, CoordinatorRestarts, vars, builderVars, reportVars
<1> QED
  BY <1>1, <1>2, <1>3, <1>4, <1>5, <1>6, <1>7, <1>8, <1>9, <1>10, <1>11, <1>12,
     <1>13, <1>14, <1>15, <1>16 DEF Next, Dispatcher, BuilderWork

-----------------------------------------------------------------------------
(* Type correctness. *)

(* The first state has the types.                                          *)
LEMMA TypeInit == Init => TypeOK
<1> SUFFICES ASSUME Init PROVE TypeOK
  OBVIOUS
<1>1. RowTypes
  BY DEF Init, RowTypes, CloneStatus, BuildStatus
<1>2. DispatchTypes
  BY DEF Init, DispatchTypes
<1>3. FlowOf(Tasks)
  <2>1. taskQueue \in [Opts -> Seq(Tasks)]
    BY EmptySeq DEF Init
  <2>2. cloneQueue \in Seq(CloneReport(Tasks)) /\ buildQueue \in Seq(BuildReport(Tasks))
    BY EmptySeq DEF Init
  <2>3. \A b \in Builders : ~Working(b)
    BY DEF Init, Working
  <2>4. /\ prefetched \in [Builders -> Tasks \union {NoTask}]
        /\ working \in [Builders -> Tasks \union {NoTask}]
    BY DEF Init
  <2> QED BY <2>1, <2>2, <2>3, <2>4 DEF FlowOf
<1>4. PhaseTypes
  <2>1. faults \in 0..MaxFaults
    BY DispatchAssumption DEF Init
  <2>2. failing \in BOOLEAN /\ ~failing
    BY DEF Init
  <2>3. linked \in SUBSET Builders
    BY DEF Init
  <2>4. phase \in [Builders -> {"down", "idle", "acquire", "cloned", "build"}]
    BY DEF Init
  <2> QED BY <2>1, <2>2, <2>3, <2>4 DEF PhaseTypes
<1>5. HistoryTypes
  <2>1. taken \in [Tasks -> Nat]
    BY DEF Init
  <2> QED BY <2>1 DEF Init, HistoryTypes
<1> QED BY <1>1, <1>2, <1>3, <1>4, <1>5 DEF TypeOK

(* A step writes a status of the enumeration into a row.                   *)
LEMMA RowStep == TypeOK /\ [Next]_vars => RowTypes'
<1> SUFFICES ASSUME TypeOK, [Next]_vars PROVE RowTypes'
  OBVIOUS
<1>1. RowTypes /\ DispatchTypes /\ FlowOf(Tasks) /\ PhaseTypes
  BY DEF TypeOK
<1> USE DEF RowTypes, rowVars
<1>2. ASSUME UNCHANGED rowVars PROVE RowTypes'
  BY <1>1, <1>2
<1>3. ASSUME NEW o \in Opts, MarkProcessing(o) PROVE RowTypes'
  BY <1>1, <1>3 DEF MarkProcessing, CloneStatus
<1>4. ASSUME IngestClone PROVE RowTypes'
  <2>1. Head(cloneQueue) \in CloneReport(Tasks)
    BY <1>1, <1>4, HeadTailProperties DEF IngestClone, FlowOf
  <2>2. Head(cloneQueue).status \in CloneStatus
    BY <2>1 DEF CloneReport, CloneStatus
  <2> QED BY <1>1, <1>4, <2>2 DEF IngestClone
<1>5. ASSUME IngestBuild PROVE RowTypes'
  <2>1. Head(buildQueue) \in BuildReport(Tasks)
    BY <1>1, <1>5, HeadTailProperties DEF IngestBuild, FlowOf
  <2>2. Head(buildQueue).status \in BuildStatus
    BY <2>1 DEF BuildReport, BuildStatus
  <2> QED BY <1>1, <1>5, <2>2 DEF IngestBuild
<1>6. ASSUME FailSiblings PROVE RowTypes'
  BY <1>1, <1>6 DEF FailSiblings, BuildStatus
<1>7. ASSUME NEW o \in Opts,
             CheckDepth(o) \/ Select(o) \/ Starve(o) \/ PublishTask(o) \/ DispatcherFails(o)
      PROVE  UNCHANGED rowVars
  BY <1>7 DEF CheckDepth, Select, Starve, PublishTask, DispatcherFails
<1>8. ASSUME NEW b \in Builders,
             \/ Register(b) \/ Deliver(b) \/ Disconnect(b) \/ Reconnect(b)
             \/ BuilderWork(b) \/ HandlerRaises(b) \/ BuilderCrashes(b)
      PROVE  UNCHANGED rowVars
  BY <1>8 DEF Register, Deliver, Disconnect, Reconnect, BuilderWork, HandlerRaises,
              BuilderCrashes, Begin, CloneFails, CloneSucceeds, ReportProcessing, FinishBuild
<1>9. ASSUME SiblingsRaise \/ CoordinatorRestarts \/ UNCHANGED vars
      PROVE  UNCHANGED rowVars
  BY <1>9 DEF SiblingsRaise, CoordinatorRestarts, vars
<1> QED
  BY <1>2, <1>3, <1>4, <1>5, <1>6, <1>7, <1>8, <1>9 DEF Next, Dispatcher

(* A dispatcher that publishes or marks holds a candidate.                 *)
LEMMA DispatchStep == TypeOK /\ [Next]_vars => DispatchTypes'
<1> SUFFICES ASSUME TypeOK, [Next]_vars PROVE DispatchTypes'
  OBVIOUS
<1>1. DispatchTypes
  BY DEF TypeOK
<1> USE DEF DispatchTypes, dispVars
<1>2. ASSUME UNCHANGED dispVars PROVE DispatchTypes'
  BY <1>1, <1>2
<1>3. ASSUME NEW o \in Opts, CheckDepth(o) \/ Starve(o) PROVE DispatchTypes'
  BY <1>1, <1>3 DEF CheckDepth, Starve
<1>4. ASSUME NEW o \in Opts, Select(o) PROVE DispatchTypes'
  BY <1>1, <1>4 DEF Select, Dispatchable
<1>5. ASSUME NEW o \in Opts, PublishTask(o) PROVE DispatchTypes'
  BY <1>1, <1>5 DEF PublishTask
<1>6. ASSUME NEW o \in Opts, MarkProcessing(o) \/ DispatcherFails(o) PROVE DispatchTypes'
  BY <1>1, <1>6 DEF MarkProcessing, DispatcherFails
<1>7. ASSUME NEW b \in Builders, Register(b) PROVE DispatchTypes'
  BY <1>1, <1>7, DispatchAssumption DEF Register
<1>8. ASSUME CoordinatorRestarts PROVE DispatchTypes'
  BY <1>1, <1>8 DEF CoordinatorRestarts
<1>9. ASSUME NEW b \in Builders,
             \/ Deliver(b) \/ Disconnect(b) \/ Reconnect(b)
             \/ BuilderWork(b) \/ HandlerRaises(b) \/ BuilderCrashes(b)
      PROVE  UNCHANGED dispVars
  BY <1>9 DEF Deliver, Disconnect, Reconnect, BuilderWork, HandlerRaises,
              BuilderCrashes, Begin, CloneFails, CloneSucceeds, ReportProcessing, FinishBuild
<1>10. ASSUME IngestClone \/ IngestBuild \/ FailSiblings \/ SiblingsRaise \/ UNCHANGED vars
       PROVE  UNCHANGED dispVars
  BY <1>10 DEF IngestClone, IngestBuild, FailSiblings, SiblingsRaise, vars
<1> QED
  BY <1>2, <1>3, <1>4, <1>5, <1>6, <1>7, <1>8, <1>9, <1>10 DEF Next, Dispatcher

(* A step keeps the phases, the links and the number of faults.            *)
LEMMA PhaseStep == TypeOK /\ [Next]_vars => PhaseTypes'
<1> SUFFICES ASSUME TypeOK, [Next]_vars PROVE PhaseTypes'
  OBVIOUS
<1>1. PhaseTypes /\ FlowOf(Tasks)
  BY DEF TypeOK
<1>2. faults' \in 0..MaxFaults
  <2>1. ASSUME Fault PROVE faults' \in 0..MaxFaults
    BY <1>1, <2>1, DispatchAssumption DEF PhaseTypes, Fault
  <2>2. ASSUME UNCHANGED faults PROVE faults' \in 0..MaxFaults
    BY <1>1, <2>2 DEF PhaseTypes
  <2>3. ASSUME Next PROVE Fault \/ UNCHANGED faults
    BY <2>3 DEF Next, Dispatcher, BuilderWork, CheckDepth, Select, Starve, PublishTask,
       MarkProcessing, DispatcherFails, Register, Deliver, Disconnect, Reconnect, Begin,
       CloneFails, CloneSucceeds, ReportProcessing, FinishBuild, HandlerRaises,
       BuilderCrashes, IngestClone, IngestBuild, FailSiblings, SiblingsRaise,
       CoordinatorRestarts, AckClone, AckBuild, ReportClone, ReportBuild, NoFault
  <2> QED BY <2>1, <2>2, <2>3 DEF vars
<1>3. linked' \in SUBSET Builders
  BY <1>1 DEF PhaseTypes, Next, vars, Dispatcher, BuilderWork, CheckDepth, Select, Starve,
     PublishTask, MarkProcessing, DispatcherFails, Register, Deliver, Disconnect, Reconnect,
     Begin, CloneFails, CloneSucceeds, ReportProcessing, FinishBuild, HandlerRaises,
     BuilderCrashes, IngestClone, IngestBuild, FailSiblings, SiblingsRaise,
     CoordinatorRestarts, Release, builderVars
<1>4. phase' \in [Builders -> {"down", "idle", "acquire", "cloned", "build"}]
  BY <1>1 DEF PhaseTypes, Next, vars, Dispatcher, BuilderWork, CheckDepth, Select, Starve,
     PublishTask, MarkProcessing, DispatcherFails, Register, Deliver, Disconnect, Reconnect,
     Begin, CloneFails, CloneSucceeds, ReportProcessing, FinishBuild, HandlerRaises,
     BuilderCrashes, IngestClone, IngestBuild, FailSiblings, SiblingsRaise,
     CoordinatorRestarts, Release, builderVars
<1> DEFINE HeldReport == failing \in BOOLEAN /\ (failing => buildQueue # <<>>)
<1>5. HeldReport'
  <2>1. HeldReport
    BY <1>1 DEF PhaseTypes
  <2>2. ASSUME UNCHANGED <<failing, buildQueue>> PROVE HeldReport'
    BY <2>1, <2>2
  <2>3. ASSUME NEW b \in Builders, ReportProcessing(b) PROVE HeldReport'
    <3>1. working[b] \in Tasks
      BY <1>1, <2>3 DEF ReportProcessing, FlowOf, Working
    <3>2. buildQueue' # <<>>
      BY <1>1, <2>3, <3>1, ReportBuildType DEF ReportProcessing, FlowOf
    <3> QED BY <2>1, <2>3, <3>2 DEF ReportProcessing
  <2>4. ASSUME NEW b \in Builders, FinishBuild(b) PROVE HeldReport'
    <3>1. working[b] \in Tasks
      BY <1>1, <2>4 DEF FinishBuild, FlowOf, Working
    <3>2. buildQueue' # <<>>
      BY <1>1, <2>4, <3>1, ReportBuildType DEF FinishBuild, FlowOf
    <3> QED BY <2>1, <2>4, <3>2 DEF FinishBuild
  <2>5. ASSUME IngestBuild PROVE HeldReport'
    BY <2>1, <2>5 DEF IngestBuild
  <2>6. ASSUME FailSiblings \/ SiblingsRaise \/ CoordinatorRestarts PROVE HeldReport'
    BY <2>6 DEF FailSiblings, SiblingsRaise, CoordinatorRestarts
  <2>7. ASSUME NEW o \in Opts, Dispatcher(o) \/ DispatcherFails(o)
        PROVE  UNCHANGED <<failing, buildQueue>>
    BY <2>7 DEF Dispatcher, CheckDepth, Select, Starve, PublishTask, MarkProcessing,
                DispatcherFails, reportVars
  <2>8. ASSUME NEW b \in Builders,
               \/ Register(b) \/ Deliver(b) \/ Disconnect(b) \/ Reconnect(b) \/ Begin(b)
               \/ CloneFails(b) \/ CloneSucceeds(b) \/ HandlerRaises(b) \/ BuilderCrashes(b)
        PROVE  UNCHANGED <<failing, buildQueue>>
    BY <2>8 DEF Register, Deliver, Disconnect, Reconnect, Begin, CloneFails, CloneSucceeds,
                HandlerRaises, BuilderCrashes, ReportClone, reportVars
  <2>9. ASSUME IngestClone \/ UNCHANGED vars
        PROVE  UNCHANGED <<failing, buildQueue>>
    BY <2>9 DEF IngestClone, vars, reportVars
  <2> QED
    BY <2>2, <2>3, <2>4, <2>5, <2>6, <2>7, <2>8, <2>9 DEF Next, BuilderWork
<1> QED BY <1>2, <1>3, <1>4, <1>5 DEF PhaseTypes

(* HistoryTypes: the history grows by tasks a dispatcher or builder holds.  *)
LEMMA HistoryStep == TypeOK /\ [Next]_vars => HistoryTypes'
<1> SUFFICES ASSUME TypeOK, [Next]_vars PROVE HistoryTypes'
  OBVIOUS
<1>1. HistoryTypes /\ DispatchTypes /\ FlowOf(Tasks)
  BY DEF TypeOK
<1> USE DEF HistoryTypes, history, outcomes
<1>2. ASSUME UNCHANGED history PROVE HistoryTypes'
  BY <1>1, <1>2
<1>3. ASSUME NEW o \in Opts, PublishTask(o) PROVE HistoryTypes'
  BY <1>1, <1>3 DEF PublishTask, DispatchTypes
<1>4. ASSUME NEW b \in Builders, Begin(b) PROVE HistoryTypes'
  <2>1. prefetched[b] \in Tasks
    BY <1>1, <1>4 DEF Begin, FlowOf
  <2> QED BY <1>1, <1>4, <2>1 DEF Begin
<1>5. ASSUME NEW b \in Builders, CloneFails(b) \/ FinishBuild(b) \/ HandlerRaises(b)
      PROVE  HistoryTypes'
  <2>1. working[b] \in Tasks
    BY <1>1, <1>5 DEF CloneFails, FinishBuild, HandlerRaises, FlowOf, Working
  <2> QED BY <1>1, <1>5, <2>1 DEF CloneFails, FinishBuild, HandlerRaises
<1>6. ASSUME NEW b \in Builders, BuilderCrashes(b) PROVE HistoryTypes'
  BY <1>1, <1>6 DEF BuilderCrashes, FlowOf
<1>7. ASSUME NEW o \in Opts,
             \/ CheckDepth(o) \/ Select(o) \/ Starve(o)
             \/ MarkProcessing(o) \/ DispatcherFails(o)
      PROVE  UNCHANGED history
  BY <1>7 DEF CheckDepth, Select, Starve, MarkProcessing, DispatcherFails
<1>8. ASSUME NEW b \in Builders,
             \/ Register(b) \/ Deliver(b) \/ Disconnect(b) \/ Reconnect(b)
             \/ CloneSucceeds(b) \/ ReportProcessing(b)
      PROVE  UNCHANGED history
  BY <1>8 DEF Register, Deliver, Disconnect, Reconnect, CloneSucceeds, ReportProcessing
<1>9. ASSUME \/ IngestClone \/ IngestBuild \/ FailSiblings
             \/ SiblingsRaise \/ CoordinatorRestarts \/ UNCHANGED vars
      PROVE  UNCHANGED history
  BY <1>9 DEF IngestClone, IngestBuild, FailSiblings, SiblingsRaise, CoordinatorRestarts, vars
<1> QED
  BY <1>2, <1>3, <1>4, <1>5, <1>6, <1>7, <1>8, <1>9 DEF Next, Dispatcher, BuilderWork

(* The types are inductive.                                                *)
LEMMA TypeStep == TypeOK /\ [Next]_vars => TypeOK'
<1> SUFFICES ASSUME TypeOK, [Next]_vars PROVE TypeOK'
  OBVIOUS
<1>1. \A o \in Opts : PublishTask(o) => candidate[o] \in Tasks
  BY DEF TypeOK, DispatchTypes, PublishTask
<1>2. FlowOf(Tasks)'
  BY <1>1, FlowStep DEF TypeOK
<1> QED BY <1>2, RowStep, DispatchStep, PhaseStep, HistoryStep DEF TypeOK

(* Every variable has its type in every instance of the system, whatever   *)
(* the number of faults.                                                   *)
THEOREM TypeCorrect == Spec => []TypeOK
BY TypeInit, TypeStep, PTL DEF Spec

-----------------------------------------------------------------------------
(* Publish first, mark after.  The inductive invariant: only published     *)
(* tasks flow, a dispatcher that is about to mark a row has published it,  *)
(* and PublishedBeforeMarked itself.                                       *)
MarksPublished == \A o \in Opts : pace[o] = "mark" => candidate[o] \in published

PublishInv ==
    /\ TypeOK
    /\ FlowOf(published)
    /\ MarksPublished
    /\ PublishedBeforeMarked

(* The invariant holds at the start: nothing flows.                        *)
LEMMA PublishInit == Init => PublishInv
<1> SUFFICES ASSUME Init PROVE PublishInv
  OBVIOUS
<1>1. FlowOf(published)
  <2>1. taskQueue \in [Opts -> Seq(published)]
    BY EmptySeq DEF Init
  <2>2. cloneQueue \in Seq(CloneReport(published)) /\ buildQueue \in Seq(BuildReport(published))
    BY EmptySeq DEF Init
  <2>3. \A b \in Builders : ~Working(b)
    BY DEF Init, Working
  <2>4. /\ prefetched \in [Builders -> published \union {NoTask}]
        /\ working \in [Builders -> published \union {NoTask}]
    BY DEF Init
  <2> QED BY <2>1, <2>2, <2>3, <2>4 DEF FlowOf
<1>2. MarksPublished
  BY DEF Init, MarksPublished
<1>3. PublishedBeforeMarked
  BY DEF Init, PublishedBeforeMarked
<1> QED BY <1>1, <1>2, <1>3, TypeInit DEF PublishInv

(* What flows within S flows within any larger set.                        *)
LEMMA FlowMonotone ==
    ASSUME NEW S, NEW T, S \subseteq T, FlowOf(S)
    PROVE  FlowOf(T)
<1>1. taskQueue \in [Opts -> Seq(T)]
  BY SeqMonotonic DEF FlowOf
<1>2. CloneReport(S) \subseteq CloneReport(T) /\ BuildReport(S) \subseteq BuildReport(T)
  BY DEF CloneReport, BuildReport
<1>3. cloneQueue \in Seq(CloneReport(T)) /\ buildQueue \in Seq(BuildReport(T))
  BY <1>2, SeqMonotonic DEF FlowOf
<1>4. \A b \in Builders : Working(b) => working[b] \in T
  BY DEF FlowOf
<1>5. /\ prefetched \in [Builders -> T \union {NoTask}]
      /\ working \in [Builders -> T \union {NoTask}]
  BY DEF FlowOf
<1> QED BY <1>1, <1>3, <1>4, <1>5 DEF FlowOf

(* Nothing is ever taken out of the history of published tasks, and a task *)
(* that is published enters it.                                            *)
LEMMA PublishedGrows ==
    ASSUME [Next]_vars
    PROVE  /\ published \subseteq published'
           /\ \A o \in Opts : PublishTask(o) => candidate[o] \in published'
<1>1. \A o \in Opts : PublishTask(o) => published' = published \union {candidate[o]}
  BY DEF PublishTask
<1>2. published' = published \/ \E o \in Opts : PublishTask(o)
  BY DEF Next, Dispatcher, BuilderWork, CheckDepth, Select, Starve, MarkProcessing,
     DispatcherFails, Register, Deliver, Disconnect, Reconnect, Begin, CloneFails,
     CloneSucceeds, ReportProcessing, FinishBuild, HandlerRaises, BuilderCrashes,
     IngestClone, IngestBuild, FailSiblings, SiblingsRaise, CoordinatorRestarts,
     vars, history, outcomes
<1> QED BY <1>1, <1>2

(* The invariant is inductive.                                             *)
LEMMA PublishStep == PublishInv /\ [Next]_vars => PublishInv'
<1> SUFFICES ASSUME PublishInv, [Next]_vars PROVE PublishInv'
  OBVIOUS
<1>1. TypeOK /\ FlowOf(published) /\ MarksPublished /\ PublishedBeforeMarked
  BY DEF PublishInv
<1>2. RowTypes /\ DispatchTypes /\ PhaseTypes
  BY <1>1 DEF TypeOK
<1>3. /\ published \subseteq published'
      /\ \A o \in Opts : PublishTask(o) => candidate[o] \in published'
  BY PublishedGrows
<1>4. FlowOf(published)'
  <2> SUFFICES ASSUME NEW P, P = published' PROVE FlowOf(P)'
    BY DEF FlowOf
  <2>1. FlowOf(P)
    BY <1>1, <1>3, FlowMonotone
  <2> QED BY <1>2, <1>3, <2>1, FlowStep
<1>5. MarksPublished'
  <2> USE DEF MarksPublished
  <2>1. ASSUME NEW o \in Opts, PublishTask(o) PROVE MarksPublished'
    BY <1>1, <1>2, <1>3, <2>1 DEF PublishTask, DispatchTypes
  <2>2. ASSUME NEW o \in Opts,
               \/ CheckDepth(o) \/ Select(o) \/ Starve(o)
               \/ MarkProcessing(o) \/ DispatcherFails(o)
        PROVE  MarksPublished'
    BY <1>1, <1>2, <1>3, <2>2
       DEF CheckDepth, Select, Starve, MarkProcessing, DispatcherFails, DispatchTypes
  <2>3. ASSUME NEW b \in Builders, Register(b) PROVE MarksPublished'
    BY <1>1, <1>2, <1>3, <2>3, DispatchAssumption DEF Register, DispatchTypes
  <2>4. ASSUME CoordinatorRestarts PROVE MarksPublished'
    BY <2>4 DEF CoordinatorRestarts
  <2>5. ASSUME UNCHANGED dispVars PROVE MarksPublished'
    BY <1>1, <1>3, <2>5 DEF dispVars
  <2>6. ASSUME NEW b \in Builders,
               \/ Deliver(b) \/ Disconnect(b) \/ Reconnect(b)
               \/ BuilderWork(b) \/ HandlerRaises(b) \/ BuilderCrashes(b)
        PROVE  UNCHANGED dispVars
    BY <2>6 DEF Deliver, Disconnect, Reconnect, BuilderWork, HandlerRaises,
                BuilderCrashes, Begin, CloneFails, CloneSucceeds, ReportProcessing, FinishBuild
  <2>7. ASSUME IngestClone \/ IngestBuild \/ FailSiblings \/ SiblingsRaise \/ UNCHANGED vars
        PROVE  UNCHANGED dispVars
    BY <2>7 DEF IngestClone, IngestBuild, FailSiblings, SiblingsRaise, vars
  <2> QED BY <2>1, <2>2, <2>3, <2>4, <2>5, <2>6, <2>7 DEF Next, Dispatcher
<1>6. PublishedBeforeMarked'
  <2> USE DEF PublishedBeforeMarked
  <2>1. ASSUME UNCHANGED cloneStatus PROVE PublishedBeforeMarked'
    BY <1>1, <1>3, <2>1
  <2>2. ASSUME NEW o \in Opts, MarkProcessing(o) PROVE PublishedBeforeMarked'
    <3>1. candidate[o] \in published
      BY <1>1, <2>2 DEF MarkProcessing, MarksPublished
    <3> QED BY <1>1, <1>2, <1>3, <2>2, <3>1 DEF MarkProcessing, RowTypes
  <2>3. ASSUME IngestClone PROVE PublishedBeforeMarked'
    <3>1. Head(cloneQueue) \in CloneReport(published)
      BY <1>1, <2>3, HeadTailProperties DEF IngestClone, FlowOf
    <3>2. Head(cloneQueue).task \in published
      BY <3>1 DEF CloneReport
    <3> QED BY <1>1, <1>2, <1>3, <2>3, <3>2 DEF IngestClone, RowTypes
  <2>4. ASSUME NEW o \in Opts,
               CheckDepth(o) \/ Select(o) \/ Starve(o) \/ PublishTask(o) \/ DispatcherFails(o)
        PROVE  UNCHANGED cloneStatus
    BY <2>4 DEF CheckDepth, Select, Starve, PublishTask, DispatcherFails, rowVars
  <2>5. ASSUME NEW b \in Builders,
               \/ Register(b) \/ Deliver(b) \/ Disconnect(b) \/ Reconnect(b)
               \/ BuilderWork(b) \/ HandlerRaises(b) \/ BuilderCrashes(b)
        PROVE  UNCHANGED cloneStatus
    BY <2>5 DEF Register, Deliver, Disconnect, Reconnect, BuilderWork, HandlerRaises, rowVars,
                BuilderCrashes, Begin, CloneFails, CloneSucceeds, ReportProcessing, FinishBuild
  <2>6. ASSUME \/ IngestBuild \/ FailSiblings \/ SiblingsRaise
               \/ CoordinatorRestarts \/ UNCHANGED vars
        PROVE  UNCHANGED cloneStatus
    BY <2>6 DEF IngestBuild, FailSiblings, SiblingsRaise, CoordinatorRestarts, vars, rowVars
  <2> QED BY <2>1, <2>2, <2>3, <2>4, <2>5, <2>6 DEF Next, Dispatcher
<1> QED BY <1>1, <1>4, <1>5, <1>6, TypeStep DEF PublishInv

(* A row leaves NOT_STARTED only when its message has reached the broker,  *)
(* for every instance and however many connections, handlers, builders and *)
(* coordinators fail (dispatch_step publishes before it marks).            *)
THEOREM PublishedBeforeMarkedHolds == Spec => []PublishedBeforeMarked
<1>1. PublishInv => PublishedBeforeMarked
  BY DEF PublishInv
<1> QED BY <1>1, PublishInit, PublishStep, PTL DEF Spec

-----------------------------------------------------------------------------
(* A recorded result has a cause.  The inductive invariant: the reports on *)
(* their way have a cause too, and the report whose siblings are about to  *)
(* be failed is a failure.                                                 *)
CausedReport ==
    {m \in BuildReport(Tasks) : /\ m.status = "SUCCESS" => m.task \in built
                                /\ m.status = "FAILED" => m.task \in broken}

FailingHead == failing => Head(buildQueue).status = "FAILED"

CauseInv ==
    /\ TypeOK
    /\ buildQueue \in Seq(CausedReport)
    /\ FailingHead
    /\ ResultsHaveCause

(* The invariant holds at the start: nothing is reported.                  *)
LEMMA CauseInit == Init => CauseInv
<1> SUFFICES ASSUME Init PROVE CauseInv
  OBVIOUS
<1>1. buildQueue \in Seq(CausedReport)
  BY EmptySeq DEF Init
<1>2. FailingHead
  BY DEF Init, FailingHead
<1>3. ResultsHaveCause
  BY DEF Init, ResultsHaveCause
<1> QED BY <1>1, <1>2, <1>3, TypeInit DEF CauseInv

(* A report appended behind another one, once or twice, leaves the head.   *)
LEMMA AppendKeepsHead ==
    ASSUME NEW S, NEW queue \in Seq(S), NEW m \in S, queue # <<>>
    PROVE  /\ Head(Append(queue, m)) = Head(queue)
           /\ Head(Twice(queue, m)) = Head(queue)
BY DEF Twice

(* The histories of outcomes only grow.                                    *)
LEMMA OutcomesGrow ==
    ASSUME [Next]_vars
    PROVE  built \subseteq built' /\ broken \subseteq broken'
BY DEF Next, Dispatcher, BuilderWork, CheckDepth, Select, Starve, PublishTask, MarkProcessing,
   DispatcherFails, Register, Deliver, Disconnect, Reconnect, Begin, CloneFails,
   CloneSucceeds, ReportProcessing, FinishBuild, HandlerRaises, BuilderCrashes,
   IngestClone, IngestBuild, FailSiblings, SiblingsRaise, CoordinatorRestarts,
   vars, history, outcomes

(* What a builder reports is caused, and the head of the queue stays.      *)
LEMMA ReportStep ==
    ASSUME NEW C, buildQueue \in Seq(C), NEW b \in Builders, NEW status,
           [task |-> working[b], status |-> status] \in C, ReportBuild(b, status)
    PROVE  /\ buildQueue' \in Seq(C)
           /\ buildQueue # <<>> => Head(buildQueue') = Head(buildQueue)
<1> DEFINE m == [task |-> working[b], status |-> status]
<1>1. m \in C
  OBVIOUS
<1> HIDE DEF m
<1>2. buildQueue' = Append(buildQueue, m) \/ buildQueue' = Twice(buildQueue, m)
  BY DEF ReportBuild, m
<1>3. buildQueue' \in Seq(C)
  BY <1>1, <1>2, TwiceType
<1>4. ASSUME buildQueue # <<>> PROVE Head(buildQueue') = Head(buildQueue)
  BY <1>1, <1>2, <1>4, AppendKeepsHead
<1> QED BY <1>3, <1>4

(* The invariant is inductive.                                             *)
LEMMA CauseStep == CauseInv /\ [Next]_vars => CauseInv'
<1> SUFFICES ASSUME CauseInv, [Next]_vars PROVE CauseInv'
  OBVIOUS
<1>1. TypeOK /\ buildQueue \in Seq(CausedReport) /\ FailingHead /\ ResultsHaveCause
  BY DEF CauseInv
<1>2. RowTypes /\ FlowOf(Tasks) /\ PhaseTypes
  BY <1>1 DEF TypeOK
<1>3. built \subseteq built' /\ broken \subseteq broken'
  BY OutcomesGrow
<1>4. CausedReport \subseteq CausedReport'
  BY <1>3 DEF CausedReport
<1>5. buildQueue \in Seq(CausedReport')
  BY <1>1, <1>4, SeqMonotonic
<1> DEFINE Sound == /\ buildQueue \in Seq(CausedReport)
                    /\ FailingHead
                    /\ ResultsHaveCause
<1>6. ASSUME UNCHANGED <<buildQueue, failing, buildStatus>> PROVE Sound'
  <2>1. ResultsHaveCause'
    BY <1>1, <1>3, <1>6 DEF ResultsHaveCause
  <2> QED BY <1>1, <1>5, <1>6, <2>1 DEF FailingHead
<1>7. ASSUME NEW b \in Builders, ReportProcessing(b) PROVE Sound'
  <2>1. [task |-> working[b], status |-> "PROCESSING"] \in CausedReport'
    BY <1>2, <1>7 DEF ReportProcessing, FlowOf, Working, CausedReport, BuildReport
  <2>2. /\ buildQueue' \in Seq(CausedReport')
        /\ buildQueue # <<>> => Head(buildQueue') = Head(buildQueue)
    BY <1>5, <1>7, <2>1, ReportStep DEF ReportProcessing
  <2>3. UNCHANGED <<failing, buildStatus>>
    BY <1>7 DEF ReportProcessing, rowVars
  <2>4. FailingHead'
    BY <1>1, <1>2, <2>2, <2>3 DEF FailingHead, PhaseTypes
  <2>5. ResultsHaveCause'
    BY <1>1, <1>3, <2>3 DEF ResultsHaveCause
  <2> QED BY <2>2, <2>4, <2>5
<1>8. ASSUME NEW b \in Builders, FinishBuild(b) PROVE Sound'
  <2>1. PICK status \in {"SUCCESS", "FAILED"} :
           /\ ReportBuild(b, status)
           /\ status = "SUCCESS" => working[b] \in built'
           /\ status = "FAILED" => working[b] \in broken'
    <3>1. CASE ReportBuild(b, "SUCCESS") /\ built' = built \union {working[b]}
      BY <3>1
    <3>2. CASE ReportBuild(b, "FAILED") /\ broken' = broken \union {working[b]}
      BY <3>2
    <3> QED BY <1>8, <3>1, <3>2 DEF FinishBuild
  <2>2. [task |-> working[b], status |-> status] \in CausedReport'
    BY <1>2, <1>8, <2>1 DEF FinishBuild, FlowOf, Working, CausedReport, BuildReport
  <2>3. /\ buildQueue' \in Seq(CausedReport')
        /\ buildQueue # <<>> => Head(buildQueue') = Head(buildQueue)
    BY <1>5, <2>1, <2>2, ReportStep
  <2>4. UNCHANGED <<failing, buildStatus>>
    BY <1>8 DEF FinishBuild, rowVars
  <2>5. FailingHead'
    BY <1>1, <1>2, <2>3, <2>4 DEF FailingHead, PhaseTypes
  <2>6. ResultsHaveCause'
    BY <1>1, <1>3, <2>4 DEF ResultsHaveCause
  <2> QED BY <2>3, <2>5, <2>6
<1>9. ASSUME IngestBuild PROVE Sound'
  <2>1. /\ Head(buildQueue) \in CausedReport
        /\ Tail(buildQueue) \in Seq(CausedReport')
    BY <1>1, <1>5, <1>9, HeadTailProperties DEF IngestBuild
  <2>2. buildQueue' \in Seq(CausedReport')
    BY <1>5, <1>9, <2>1 DEF IngestBuild, AckBuild
  <2>3. FailingHead'
    BY <1>9 DEF IngestBuild, FailingHead
  <2>4. ResultsHaveCause'
    BY <1>1, <1>2, <1>3, <1>9, <2>1
       DEF IngestBuild, ResultsHaveCause, RowTypes, CausedReport, BuildReport
  <2> QED BY <2>2, <2>3, <2>4
<1>10. ASSUME FailSiblings PROVE Sound'
  <2>1. buildQueue # <<>> /\ Head(buildQueue).status = "FAILED"
    BY <1>1, <1>2, <1>10 DEF FailSiblings, PhaseTypes, FailingHead
  <2>2. /\ Head(buildQueue) \in CausedReport
        /\ Tail(buildQueue) \in Seq(CausedReport')
    BY <1>1, <1>5, <2>1, HeadTailProperties
  <2>3. buildQueue' \in Seq(CausedReport')
    BY <1>5, <1>10, <2>2 DEF FailSiblings, AckBuild
  <2>4. FailingHead'
    BY <1>10 DEF FailSiblings, FailingHead
  <2>5. Head(buildQueue).task \in broken'
    BY <1>3, <2>1, <2>2 DEF CausedReport
  <2>6. ResultsHaveCause'
    BY <1>1, <1>2, <1>3, <1>10, <2>5
       DEF FailSiblings, InitSiblings, ResultsHaveCause, RowTypes
  <2> QED BY <2>3, <2>4, <2>6
<1>11. ASSUME SiblingsRaise \/ CoordinatorRestarts PROVE Sound'
  <2>1. ~failing' /\ UNCHANGED <<buildQueue, buildStatus>>
    BY <1>11 DEF SiblingsRaise, CoordinatorRestarts, rowVars, reportVars
  <2>2. ResultsHaveCause'
    BY <1>1, <1>3, <2>1 DEF ResultsHaveCause
  <2> QED BY <1>5, <2>1, <2>2 DEF FailingHead
<1>12. ASSUME NEW o \in Opts, Dispatcher(o) \/ DispatcherFails(o)
       PROVE  UNCHANGED <<buildQueue, failing, buildStatus>>
  BY <1>12 DEF Dispatcher, CheckDepth, Select, Starve, PublishTask, MarkProcessing,
               DispatcherFails, reportVars, rowVars
<1>13. ASSUME NEW b \in Builders,
              \/ Register(b) \/ Deliver(b) \/ Disconnect(b) \/ Reconnect(b) \/ Begin(b)
              \/ CloneFails(b) \/ CloneSucceeds(b) \/ HandlerRaises(b) \/ BuilderCrashes(b)
       PROVE  UNCHANGED <<buildQueue, failing, buildStatus>>
  BY <1>13 DEF Register, Deliver, Disconnect, Reconnect, Begin, CloneFails, CloneSucceeds,
               HandlerRaises, BuilderCrashes, ReportClone, reportVars, rowVars
<1>14. ASSUME IngestClone \/ UNCHANGED vars
       PROVE  UNCHANGED <<buildQueue, failing, buildStatus>>
  BY <1>14 DEF IngestClone, vars, reportVars, rowVars
<1>15. Sound'
  BY <1>6, <1>7, <1>8, <1>9, <1>10, <1>11, <1>12, <1>13, <1>14 DEF Next, BuilderWork
<1> QED BY <1>1, <1>15, TypeStep DEF CauseInv

(* SUCCESS is recorded only for a task some builder built, FAILED only if  *)
(* some builder failed it or a sibling: in every instance, with duplicated *)
(* and redelivered reports and a consumer that dies between its two        *)
(* transactions (handle_build_status, fail_sibling_statuses).              *)
THEOREM ResultsHaveCauseHolds == Spec => []ResultsHaveCause
<1>1. CauseInv => ResultsHaveCause
  BY DEF CauseInv
<1> QED BY <1>1, CauseInit, CauseStep, PTL DEF Spec

-----------------------------------------------------------------------------
(* How tasks flow through TaskDispatch, for any set of rows, builders and  *)
(* options and any number of faults: nothing vanishes, nothing is begun    *)
(* twice while nothing fails, and no queue grows beyond its bound.         *)
(*                                                                         *)
(* A published task is alive while it is queued, at a builder, or given up *)
(* after the early ack.  It stops being alive in one step only, FinishBuild,*)
(* which leaves its result on `build`.  A row without a result is therefore*)
(* owed one: the task is alive or its result is pending.  A late PROCESSING*)
(* report may take a recorded result back, so the invariant says of every  *)
(* such report on the queue that a result is owed behind it.               *)
TasksOf(o) == {t \in Tasks : OptOf[t] = o}

(* Each queue, dispatcher and builder holds tasks of its own option.       *)
Placed ==
    /\ \A o \in Opts : taskQueue[o] \in Seq(TasksOf(o))
    /\ \A o \in Opts : pace[o] \in {"publish", "mark"} => candidate[o] \in TasksOf(o)
    /\ \A b \in Builders : prefetched[b] \in TasksOf(Serves[b]) \union {NoTask}

Alive(t) == Queued(t) \/ AtBuilder(t) \/ t \in uncloned \union dropped

Final == {"SUCCESS", "FAILED"}

(* Behind position k of queue q there is a result of task t.               *)
LaterResult(q, t, k) ==
    \E j \in 1..Len(q) : j > k /\ q[j].task = t /\ q[j].status \in Final

Owed(t, k) == Alive(t) \/ LaterResult(buildQueue, t, k)

RowsOwed == \A t \in published : ~Settled(t) => Owed(t, 0)

ReportsOwed ==
    \A i \in 1..Len(buildQueue), t \in Tasks :
        buildQueue[i].task = t /\ buildQueue[i].status = "PROCESSING" => Owed(t, i)

FailedHead == failing => buildStatus[Head(buildQueue).task] = "FAILED"

VanishInv ==
    /\ PublishInv
    /\ CauseInv
    /\ Placed
    /\ FailedHead
    /\ RowsOwed
    /\ ReportsOwed

(* The parts of the type invariant the lemmas below use.                   *)
LEMMA VanishTypes ==
    ASSUME TypeOK
    PROVE  /\ RowTypes /\ DispatchTypes /\ FlowOf(Tasks) /\ PhaseTypes /\ HistoryTypes
           /\ buildQueue \in Seq(BuildReport(Tasks))
BY DEF TypeOK, FlowOf

-----------------------------------------------------------------------------
(* Placement. *)

(* What the broker takes back from a builder is of the builder's option.   *)
LEMMA ReturnedPlaced ==
    ASSUME Placed, FlowOf(Tasks), NEW b \in Builders
    PROVE  \A o \in Opts : Returned(b)[o] \in Seq(TasksOf(o))
<1>1. CASE prefetched[b] = NoTask
  BY <1>1 DEF Returned, Placed
<1>2. CASE prefetched[b] # NoTask
  <2>1. prefetched[b] \in TasksOf(Serves[b]) /\ Serves[b] \in Opts
    BY <1>2, DispatchAssumption DEF Placed
  <2>2. <<prefetched[b]>> \o taskQueue[Serves[b]] \in Seq(TasksOf(Serves[b]))
    BY <2>1, ConcatProperties DEF Placed
  <2>3. taskQueue \in [Opts -> Seq(Tasks)]
    BY DEF FlowOf
  <2> QED BY <1>2, <2>1, <2>2, <2>3 DEF Returned, Placed
<1> QED BY <1>1, <1>2

LEMMA PlacedInit == Init => Placed
<1> SUFFICES ASSUME Init PROVE Placed
  OBVIOUS
<1>1. \A o \in Opts : taskQueue[o] \in Seq(TasksOf(o))
  BY EmptySeq DEF Init
<1> QED BY <1>1 DEF Init, Placed

(* Every step keeps tasks with their option.                               *)
LEMMA PlacedStep == TypeOK /\ Placed /\ [Next]_vars => Placed'
<1> SUFFICES ASSUME TypeOK, Placed, [Next]_vars PROVE Placed'
  OBVIOUS
<1>1. DispatchTypes /\ FlowOf(Tasks) /\ PhaseTypes
  BY VanishTypes
<1>2. /\ taskQueue \in [Opts -> Seq(Tasks)]
      /\ prefetched \in [Builders -> Tasks \union {NoTask}]
      /\ pace \in [Opts -> {"off", "depth", "select", "publish", "mark"}]
      /\ candidate \in [Opts -> Tasks \union {NoTask}]
  BY <1>1 DEF FlowOf, DispatchTypes
<1> DEFINE QueuePlaced == \A o \in Opts : taskQueue[o] \in Seq(TasksOf(o))
           ChoicePlaced == \A o \in Opts :
              pace[o] \in {"publish", "mark"} => candidate[o] \in TasksOf(o)
           HandPlaced == \A b \in Builders : prefetched[b] \in TasksOf(Serves[b]) \union {NoTask}
<1>3. QueuePlaced /\ ChoicePlaced /\ HandPlaced
  BY DEF Placed
<1>4. ASSUME NEW o \in Opts, Dispatcher(o) \/ DispatcherFails(o)
      PROVE  QueuePlaced' /\ ChoicePlaced' /\ HandPlaced'
  <2>1. UNCHANGED prefetched
    BY <1>4 DEF Dispatcher, CheckDepth, Select, Starve, PublishTask, MarkProcessing,
       DispatcherFails, builderVars
  <2>2. CASE PublishTask(o)
    <3>1. candidate[o] \in TasksOf(o) /\ taskQueue[o] \in Seq(TasksOf(o))
      BY <1>3, <2>2 DEF PublishTask
    <3>2. /\ Append(taskQueue[o], candidate[o]) \in Seq(TasksOf(o))
          /\ Twice(taskQueue[o], candidate[o]) \in Seq(TasksOf(o))
      BY <3>1, TwiceType
    <3>3. QueuePlaced'
      BY <1>2, <1>3, <2>2, <3>2 DEF PublishTask
    <3>4. ChoicePlaced'
      BY <1>2, <1>3, <2>2, <3>1 DEF PublishTask
    <3> QED BY <1>3, <2>1, <3>3, <3>4
  <2>3. CASE Select(o)
    <3>1. PICK t \in Dispatchable(o) : candidate' = [candidate EXCEPT ![o] = t]
      BY <2>3 DEF Select
    <3>2. t \in TasksOf(o)
      BY DEF Dispatchable, TasksOf
    <3>3. ChoicePlaced'
      BY <1>2, <1>3, <2>3, <3>1, <3>2 DEF Select
    <3> QED BY <1>3, <2>1, <2>3, <3>3 DEF Select
  <2>4. CASE CheckDepth(o) \/ Starve(o) \/ MarkProcessing(o) \/ DispatcherFails(o)
    <3>1. ChoicePlaced'
      BY <1>2, <1>3, <2>4 DEF CheckDepth, Starve, MarkProcessing, DispatcherFails
    <3>2. UNCHANGED taskQueue
      BY <2>4 DEF CheckDepth, Starve, MarkProcessing, DispatcherFails
    <3> QED BY <1>3, <2>1, <3>1, <3>2
  <2> QED BY <1>4, <2>2, <2>3, <2>4 DEF Dispatcher
<1>5. ASSUME NEW b \in Builders, Register(b)
      PROVE  QueuePlaced' /\ ChoicePlaced' /\ HandPlaced'
  <2>1. UNCHANGED <<taskQueue, prefetched>>
    BY <1>5 DEF Register
  <2>2. ChoicePlaced'
    BY <1>2, <1>3, <1>5, DispatchAssumption DEF Register
  <2> QED BY <1>3, <2>1, <2>2
<1>6. ASSUME NEW b \in Builders, Deliver(b)
      PROVE  QueuePlaced' /\ ChoicePlaced' /\ HandPlaced'
  <2>1. Serves[b] \in Opts /\ taskQueue[Serves[b]] \in Seq(TasksOf(Serves[b]))
    BY <1>3, DispatchAssumption
  <2>2. /\ Head(taskQueue[Serves[b]]) \in TasksOf(Serves[b])
        /\ Tail(taskQueue[Serves[b]]) \in Seq(TasksOf(Serves[b]))
    BY <1>6, <2>1, HeadTailProperties DEF Deliver
  <2>3. QueuePlaced'
    BY <1>2, <1>3, <1>6, <2>1, <2>2 DEF Deliver
  <2>4. HandPlaced'
    BY <1>2, <1>3, <1>6, <2>2 DEF Deliver
  <2> QED BY <1>3, <1>6, <2>3, <2>4 DEF Deliver, dispVars
<1>7. ASSUME NEW b \in Builders, \/ Disconnect(b) \/ Begin(b) \/ BuilderCrashes(b)
                                 \/ CloneFails(b) \/ FinishBuild(b)
      PROVE  QueuePlaced' /\ ChoicePlaced' /\ HandPlaced'
  <2>1. taskQueue' = taskQueue \/ taskQueue' = Returned(b)
    BY <1>7 DEF Disconnect, Begin, BuilderCrashes, CloneFails, FinishBuild, Release
  <2>2. /\ UNCHANGED prefetched \/ prefetched' = [prefetched EXCEPT ![b] = NoTask]
        /\ UNCHANGED dispVars
    BY <1>7 DEF Disconnect, Begin, BuilderCrashes, CloneFails, FinishBuild, Release
  <2>3. QueuePlaced'
    BY <1>1, <1>3, <2>1, ReturnedPlaced
  <2> QED BY <1>2, <1>3, <2>2, <2>3 DEF dispVars
<1>8. ASSUME \/ \E b \in Builders : \/ Reconnect(b) \/ CloneSucceeds(b)
                                    \/ ReportProcessing(b) \/ HandlerRaises(b)
             \/ IngestClone \/ IngestBuild \/ FailSiblings \/ SiblingsRaise \/ UNCHANGED vars
      PROVE  QueuePlaced' /\ ChoicePlaced' /\ HandPlaced'
  <2>1. UNCHANGED <<taskQueue, prefetched, pace, candidate>>
    BY <1>8 DEF Reconnect, CloneSucceeds, ReportProcessing, HandlerRaises,
       IngestClone, IngestBuild, FailSiblings, SiblingsRaise, vars,
       dispVars, builderVars
  <2> QED BY <1>3, <2>1
<1>9. ASSUME CoordinatorRestarts PROVE QueuePlaced' /\ ChoicePlaced' /\ HandPlaced'
  BY <1>2, <1>3, <1>9 DEF CoordinatorRestarts, builderVars
<1> QED BY <1>4, <1>5, <1>6, <1>7, <1>8, <1>9 DEF Next, BuilderWork, Placed

-----------------------------------------------------------------------------
(* How long a task stays alive. *)

QueuedIn(queues, t) == \E i \in 1..Len(queues[OptOf[t]]) : queues[OptOf[t]][i] = t

(* Publishing appends, once or twice.                                      *)
LEMMA TwiceKeeps ==
    ASSUME NEW S, NEW queue \in Seq(S), NEW m \in S, NEW result,
           result = Append(queue, m) \/ result = Twice(queue, m)
    PROVE  /\ result \in Seq(S)
           /\ Len(result) \in Nat
           /\ Len(result) > Len(queue)
           /\ \A i \in 1..Len(queue) : result[i] = queue[i]
           /\ \A i \in 1..Len(result) : i > Len(queue) => result[i] = m
           /\ result[Len(queue) + 1] = m
<1> DEFINE one == Append(queue, m)
<1>1. /\ one \in Seq(S) /\ Len(one) = Len(queue) + 1 /\ Len(queue) \in Nat
      /\ \A i \in 1..Len(queue) : one[i] = queue[i]
      /\ one[Len(queue) + 1] = m
  OBVIOUS
<1>2. CASE result = one
  <2>1. \A i \in 1..Len(one) : i > Len(queue) => i = Len(queue) + 1
    BY <1>1
  <2> QED BY <1>1, <1>2, <2>1
<1>3. CASE result = Append(one, m)
  <2> HIDE DEF one
  <2>1. /\ result \in Seq(S) /\ Len(result) = Len(one) + 1
        /\ \A i \in 1..Len(one) : result[i] = one[i]
        /\ result[Len(one) + 1] = m
    BY <1>1, <1>3
  <2>2. \A i \in 1..Len(result) :
           i > Len(queue) => i = Len(queue) + 1 \/ i = Len(one) + 1
    BY <1>1, <2>1
  <2>3. Len(queue) + 1 \in 1..Len(one) /\ 1..Len(queue) \subseteq 1..Len(one)
    BY <1>1
  <2> QED BY <1>1, <2>1, <2>2, <2>3
<1> QED BY <1>2, <1>3 DEF Twice

(* Appending to one queue leaves the queued tasks queued.                  *)
LEMMA AppendQueued ==
    ASSUME FlowOf(Tasks), NEW o \in Opts, NEW m \in Tasks, NEW queue \in Seq(Tasks),
           queue = Append(taskQueue[o], m) \/ queue = Twice(taskQueue[o], m),
           NEW t \in Tasks
    PROVE  /\ Queued(t) => QueuedIn([taskQueue EXCEPT ![o] = queue], t)
           /\ t = m /\ OptOf[t] = o => QueuedIn([taskQueue EXCEPT ![o] = queue], t)
<1>1. taskQueue \in [Opts -> Seq(Tasks)] /\ taskQueue[o] \in Seq(Tasks) /\ OptOf[t] \in Opts
  BY DispatchAssumption DEF FlowOf
<1>2. /\ Len(queue) > Len(taskQueue[o]) /\ Len(queue) \in Nat
      /\ \A i \in 1..Len(taskQueue[o]) : queue[i] = taskQueue[o][i]
      /\ queue[Len(taskQueue[o]) + 1] = m
  BY <1>1, TwiceKeeps
<1>3. Len(taskQueue[o]) \in Nat
  BY <1>1
<1>4. ASSUME Queued(t) PROVE QueuedIn([taskQueue EXCEPT ![o] = queue], t)
  <2>1. PICK i \in 1..Len(taskQueue[OptOf[t]]) : taskQueue[OptOf[t]][i] = t
    BY <1>4 DEF Queued
  <2>2. CASE OptOf[t] = o
    <3>1. i \in 1..Len(queue) /\ queue[i] = t
      BY <1>2, <1>3, <2>1, <2>2
    <3> QED BY <1>1, <2>2, <3>1 DEF QueuedIn
  <2>3. CASE OptOf[t] # o
    BY <1>1, <2>1, <2>3 DEF QueuedIn
  <2> QED BY <2>2, <2>3
<1>5. ASSUME t = m, OptOf[t] = o PROVE QueuedIn([taskQueue EXCEPT ![o] = queue], t)
  <2>1. Len(taskQueue[o]) + 1 \in 1..Len(queue)
    BY <1>2, <1>3
  <2> QED BY <1>1, <1>2, <1>5, <2>1 DEF QueuedIn
<1> QED BY <1>4, <1>5

(* What the broker takes back is queued, and the rest stays queued.        *)
LEMMA ReturnedQueued ==
    ASSUME FlowOf(Tasks), Placed, NEW b \in Builders, NEW t \in Tasks,
           Queued(t) \/ prefetched[b] = t
    PROVE  QueuedIn(Returned(b), t)
<1>1. taskQueue \in [Opts -> Seq(Tasks)] /\ OptOf[t] \in Opts /\ Serves[b] \in Opts
  BY DispatchAssumption DEF FlowOf
<1>2. CASE prefetched[b] = NoTask
  BY <1>2, DispatchAssumption DEF Returned, Queued, QueuedIn
<1>3. CASE prefetched[b] # NoTask
  <2> DEFINE old == taskQueue[Serves[b]]
             new == <<prefetched[b]>> \o old
  <2>1. prefetched[b] \in Tasks /\ OptOf[prefetched[b]] = Serves[b]
    BY <1>3 DEF Placed, TasksOf
  <2>2. old \in Seq(Tasks)
    BY <1>1
  <2>3. /\ Len(new) = Len(old) + 1 /\ Len(old) \in Nat
        /\ new[1] = prefetched[b]
        /\ \A i \in 1..Len(old) : new[i + 1] = old[i]
    BY <2>1, <2>2
  <2> HIDE DEF new
  <2>4. Returned(b) = [taskQueue EXCEPT ![Serves[b]] = new]
    BY <1>3 DEF Returned, new
  <2>5. CASE prefetched[b] = t
    <3>1. OptOf[t] = Serves[b] /\ 1 \in 1..Len(new)
      BY <2>1, <2>3, <2>5
    <3> QED BY <1>1, <2>3, <2>4, <2>5, <3>1 DEF QueuedIn
  <2>6. CASE Queued(t)
    <3>1. PICK i \in 1..Len(taskQueue[OptOf[t]]) : taskQueue[OptOf[t]][i] = t
      BY <2>6 DEF Queued
    <3>2. CASE OptOf[t] = Serves[b]
      <4>1. i + 1 \in 1..Len(new) /\ new[i + 1] = t
        BY <2>3, <3>1, <3>2
      <4> QED BY <1>1, <2>4, <3>2, <4>1 DEF QueuedIn
    <3>3. CASE OptOf[t] # Serves[b]
      BY <1>1, <2>4, <3>1, <3>3 DEF QueuedIn
    <3> QED BY <3>2, <3>3
  <2> QED BY <2>5, <2>6
<1> QED BY <1>2, <1>3

(* A delivery is taken from the queue into the builder's hands.            *)
LEMMA DeliverKeeps ==
    ASSUME FlowOf(Tasks), NEW b \in Builders, Deliver(b), NEW t \in Tasks, Queued(t)
    PROVE  Queued(t)' \/ prefetched'[b] = t
<1>1. /\ taskQueue \in [Opts -> Seq(Tasks)]
      /\ prefetched \in [Builders -> Tasks \union {NoTask}]
      /\ OptOf[t] \in Opts /\ Serves[b] \in Opts
  BY DispatchAssumption DEF FlowOf
<1> DEFINE old == taskQueue[Serves[b]]
<1>2. old \in Seq(Tasks) /\ old # <<>>
  BY <1>1 DEF Deliver
<1>3. /\ taskQueue' = [taskQueue EXCEPT ![Serves[b]] = Tail(old)]
      /\ prefetched' = [prefetched EXCEPT ![b] = Head(old)]
  BY DEF Deliver
<1>4. PICK i \in 1..Len(taskQueue[OptOf[t]]) : taskQueue[OptOf[t]][i] = t
  BY DEF Queued
<1>5. CASE OptOf[t] # Serves[b]
  BY <1>1, <1>3, <1>4, <1>5 DEF Queued
<1>6. CASE OptOf[t] = Serves[b] /\ i = 1
  BY <1>1, <1>2, <1>3, <1>4, <1>6
<1>7. CASE OptOf[t] = Serves[b] /\ i # 1
  <2>1. i - 1 \in 1..Len(Tail(old)) /\ Tail(old)[i - 1] = t
    BY <1>2, <1>4, <1>7
  <2> QED BY <1>1, <1>3, <1>7, <2>1 DEF Queued
<1> QED BY <1>5, <1>6, <1>7

(* A published task is alive: it is queued.                                *)
LEMMA PublishedAlive ==
    ASSUME TypeOK, Placed, NEW o \in Opts, PublishTask(o)
    PROVE  /\ \A t \in Tasks : Alive(t) => Alive(t)'
           /\ published' = published \union {candidate[o]}
           /\ candidate[o] \in Tasks /\ Alive(candidate[o])'
<1>1. FlowOf(Tasks) /\ taskQueue \in [Opts -> Seq(Tasks)]
  BY VanishTypes DEF FlowOf
<1>2. candidate[o] \in Tasks /\ OptOf[candidate[o]] = o
  BY DEF Placed, PublishTask, TasksOf
<1>3. PICK queue : /\ queue = Append(taskQueue[o], candidate[o])
                         \/ queue = Twice(taskQueue[o], candidate[o])
                   /\ taskQueue' = [taskQueue EXCEPT ![o] = queue]
  BY DEF PublishTask
<1>4. queue \in Seq(Tasks)
  BY <1>1, <1>2, <1>3, TwiceType
<1>5. UNCHANGED <<prefetched, phase, working, uncloned, dropped>>
      /\ published' = published \union {candidate[o]}
  BY DEF PublishTask, builderVars, outcomes
<1>6. \A t \in Tasks : Queued(t) => Queued(t)'
  <2>1. \A t \in Tasks : Queued(t) => QueuedIn(taskQueue', t)
    BY <1>1, <1>2, <1>3, <1>4, AppendQueued
  <2> QED BY <2>1 DEF Queued, QueuedIn
<1>7. QueuedIn(taskQueue', candidate[o])
  BY <1>1, <1>2, <1>3, <1>4, AppendQueued
<1>8. Queued(candidate[o])'
  <2>1. candidate' = candidate
    BY DEF PublishTask
  <2> QED BY <1>7, <2>1 DEF Queued, QueuedIn
<1>9. \A t \in Tasks : Alive(t) => Alive(t)'
  BY <1>5, <1>6 DEF Alive, AtBuilder, Working
<1> QED BY <1>2, <1>5, <1>8, <1>9 DEF Alive

(* Every other step keeps a task alive, but for the end of its build.      *)
LEMMA AliveStep ==
    ASSUME TypeOK, Placed, [Next]_vars, NEW t \in Tasks, Alive(t),
           \A b \in Builders : ~(FinishBuild(b) /\ working[b] = t)
    PROVE  Alive(t)'
<1>1. /\ FlowOf(Tasks)
      /\ taskQueue \in [Opts -> Seq(Tasks)]
      /\ prefetched \in [Builders -> Tasks \union {NoTask}]
      /\ working \in [Builders -> Tasks \union {NoTask}]
      /\ phase \in [Builders -> {"down", "idle", "acquire", "cloned", "build"}]
      /\ t # NoTask
  BY VanishTypes, DispatchAssumption DEF FlowOf, PhaseTypes
<1> DEFINE Hands == <<taskQueue, prefetched, phase, working, uncloned, dropped>>
<1>2. ASSUME UNCHANGED Hands PROVE Alive(t)'
  BY <1>2 DEF Alive, Queued, AtBuilder, Working
<1>3. uncloned \subseteq uncloned' /\ dropped \subseteq dropped'
  BY DEF Next, Dispatcher, BuilderWork, CheckDepth, Select, Starve, PublishTask, MarkProcessing,
     DispatcherFails, Register, Deliver, Disconnect, Reconnect, Begin, CloneFails,
     CloneSucceeds, ReportProcessing, FinishBuild, HandlerRaises, BuilderCrashes,
     IngestClone, IngestBuild, FailSiblings, SiblingsRaise, CoordinatorRestarts,
     vars, history, outcomes
<1>4. CASE t \in uncloned \union dropped
  BY <1>3, <1>4 DEF Alive
<1> DEFINE Held(c) == prefetched[c] = t \/ (Working(c) /\ working[c] = t)
<1>5. CASE Queued(t) \/ \E c \in Builders : Held(c)
  <2>1. ASSUME NEW o \in Opts, PublishTask(o) PROVE Alive(t)'
    BY <2>1, PublishedAlive
  <2>2. ASSUME NEW b \in Builders, Deliver(b) PROVE Alive(t)'
    <3>1. CASE Queued(t)
      BY <1>1, <2>2, <3>1, DeliverKeeps DEF Alive, AtBuilder
    <3>2. CASE \E c \in Builders : Held(c)
      BY <1>1, <2>2, <3>2 DEF Deliver, Alive, AtBuilder, Working
    <3> QED BY <1>5, <3>1, <3>2
  <2>3. ASSUME NEW b \in Builders, Register(b) PROVE Alive(t)'
    BY <1>1, <1>5, <2>3 DEF Register, history, outcomes, Alive, AtBuilder, Working, Queued
  <2>4. ASSUME NEW b \in Builders, Disconnect(b) \/ BuilderCrashes(b) PROVE Alive(t)'
    <3>1. /\ taskQueue' = Returned(b)
          /\ prefetched' = [prefetched EXCEPT ![b] = NoTask]
          /\ \A c \in Builders \ {b} : phase'[c] = phase[c] /\ working'[c] = working[c]
      BY <1>1, <2>4 DEF Disconnect, BuilderCrashes
    <3>2. CASE Queued(t) \/ prefetched[b] = t
      <4>1. QueuedIn(taskQueue', t)
        BY <1>1, <3>1, <3>2, ReturnedQueued
      <4> QED BY <4>1 DEF QueuedIn, Queued, Alive
    <3>3. CASE Working(b) /\ working[b] = t
      <4>1. CASE Disconnect(b)
        BY <3>3, <4>1 DEF Disconnect, Alive, AtBuilder, Working
      <4>2. CASE BuilderCrashes(b)
        BY <3>3, <4>2 DEF BuilderCrashes, Alive
      <4> QED BY <2>4, <4>1, <4>2
    <3>4. CASE \E c \in Builders \ {b} : Held(c)
      BY <1>1, <3>1, <3>4 DEF Alive, AtBuilder, Working
    <3> QED BY <1>5, <3>2, <3>3, <3>4
  <2>5. ASSUME NEW b \in Builders, Begin(b) PROVE Alive(t)'
    <3>1. /\ taskQueue' = taskQueue \/ taskQueue' = Returned(b)
          /\ prefetched' = [prefetched EXCEPT ![b] = NoTask]
          /\ working' = [working EXCEPT ![b] = prefetched[b]]
          /\ phase' = [phase EXCEPT ![b] = "acquire"]
          /\ ~Working(b)
      BY <1>1, <2>5 DEF Begin, Working
    <3>2. CASE Queued(t)
      <4>1. QueuedIn(taskQueue, t)
        BY <3>2 DEF Queued, QueuedIn
      <4>2. QueuedIn(taskQueue', t)
        BY <1>1, <3>1, <3>2, <4>1, ReturnedQueued
      <4> QED BY <4>2 DEF QueuedIn, Queued, Alive
    <3>3. CASE prefetched[b] = t
      BY <1>1, <3>1, <3>3 DEF Alive, AtBuilder, Working
    <3>4. CASE \E c \in Builders \ {b} : Held(c)
      BY <1>1, <3>1, <3>4 DEF Alive, AtBuilder, Working
    <3> QED BY <1>5, <3>1, <3>2, <3>3, <3>4
  <2>6. ASSUME NEW b \in Builders,
               \/ HandlerRaises(b)
               \/ CloneFails(b)
               \/ FinishBuild(b)
        PROVE  Alive(t)'
    <3>1. /\ \/ UNCHANGED <<taskQueue, prefetched>>
             \/ /\ taskQueue' = Returned(b)
                /\ prefetched' = [prefetched EXCEPT ![b] = NoTask]
          /\ \A c \in Builders \ {b} : phase'[c] = phase[c] /\ working'[c] = working[c]
          /\ Working(b)
      BY <1>1, <2>6 DEF CloneFails, FinishBuild, HandlerRaises, Release, Working
    <3>2. CASE Queued(t) \/ prefetched[b] = t
      <4>1. CASE UNCHANGED <<taskQueue, prefetched>>
        BY <3>2, <4>1 DEF Alive, AtBuilder, Queued
      <4>2. CASE taskQueue' = Returned(b)
        <5>1. QueuedIn(taskQueue', t)
          BY <1>1, <3>2, <4>2, ReturnedQueued
        <5> QED BY <5>1 DEF QueuedIn, Queued, Alive
      <4> QED BY <3>1, <4>1, <4>2
    <3>3. CASE working[b] = t
      <4>1. HandlerRaises(b) \/ CloneFails(b)
        BY <2>6, <3>3
      <4>2. t \in uncloned' \union dropped'
        BY <3>3, <4>1 DEF HandlerRaises, CloneFails
      <4> QED BY <4>2 DEF Alive
    <3>4. CASE \E c \in Builders \ {b} : Held(c)
      BY <1>1, <3>1, <3>4 DEF Alive, AtBuilder, Working
    <3> QED BY <1>5, <3>2, <3>3, <3>4
  <2>7. ASSUME NEW b \in Builders, CloneSucceeds(b) \/ ReportProcessing(b) PROVE Alive(t)'
    <3>1. /\ UNCHANGED <<taskQueue, prefetched, working>>
          /\ \A c \in Builders : Working(c) => Working(c)'
      BY <1>1, <2>7 DEF CloneSucceeds, ReportProcessing, Working
    <3> QED BY <1>5, <3>1 DEF Alive, AtBuilder, Queued
  <2>8. ASSUME NEW o \in Opts,
               \/ CheckDepth(o) \/ Select(o) \/ Starve(o)
               \/ MarkProcessing(o) \/ DispatcherFails(o)
        PROVE  UNCHANGED Hands
    BY <2>8 DEF CheckDepth, Select, Starve, MarkProcessing, DispatcherFails,
       builderVars, history, outcomes
  <2>9. ASSUME \/ \E b \in Builders : Reconnect(b)
               \/ IngestClone \/ IngestBuild \/ FailSiblings
               \/ SiblingsRaise \/ CoordinatorRestarts \/ UNCHANGED vars
        PROVE  UNCHANGED Hands
    BY <2>9 DEF Reconnect, IngestClone, IngestBuild, FailSiblings, SiblingsRaise,
       CoordinatorRestarts, vars, builderVars, history, outcomes
  <2> QED
    BY <1>2, <2>1, <2>2, <2>3, <2>4, <2>5, <2>6, <2>7, <2>8, <2>9
       DEF Next, Dispatcher, BuilderWork
<1> QED BY <1>4, <1>5 DEF Alive, AtBuilder

-----------------------------------------------------------------------------
(* What the queue `build` owes. *)

(* Appending reports leaves the pending results behind a position, and adds*)
(* its own.                                                                *)
LEMMA AppendLater ==
    ASSUME NEW S, NEW q \in Seq(S), NEW m \in S, NEW r,
           r = Append(q, m) \/ r = Twice(q, m),
           NEW t, NEW k \in 0..Len(q)
    PROVE  /\ LaterResult(q, t, k) => LaterResult(r, t, k)
           /\ m.task = t /\ m.status \in Final => LaterResult(r, t, k)
<1>1. /\ Len(q) \in Nat /\ Len(r) \in Nat /\ Len(r) > Len(q)
      /\ \A i \in 1..Len(q) : r[i] = q[i]
      /\ r[Len(q) + 1] = m
  BY TwiceKeeps
<1>2. 1..Len(q) \subseteq 1..Len(r) /\ Len(q) + 1 \in 1..Len(r) /\ Len(q) + 1 > k
  BY <1>1
<1>3. LaterResult(q, t, k) => LaterResult(r, t, k)
  BY <1>1, <1>2 DEF LaterResult
<1>4. m.task = t /\ m.status \in Final => LaterResult(r, t, k)
  BY <1>1, <1>2 DEF LaterResult
<1> QED BY <1>3, <1>4

(* Taking the head shifts the positions by one.                            *)
LEMMA TailLater ==
    ASSUME NEW S, NEW q \in Seq(S), q # <<>>, NEW t, NEW k \in Nat
    PROVE  LaterResult(q, t, k + 1) => LaterResult(Tail(q), t, k)
<1> SUFFICES ASSUME LaterResult(q, t, k + 1) PROVE LaterResult(Tail(q), t, k)
  OBVIOUS
<1>1. PICK j \in 1..Len(q) : j > k + 1 /\ q[j].task = t /\ q[j].status \in Final
  BY DEF LaterResult
<1>2. /\ j - 1 \in 1..Len(Tail(q))
      /\ j - 1 > k
      /\ Tail(q)[j - 1] = q[j]
  BY <1>1
<1> QED BY <1>1, <1>2 DEF LaterResult

(* What a builder reports is about the task in its hands.                  *)
LEMMA ReportOfTask ==
    ASSUME TypeOK, NEW b \in Builders, ReportProcessing(b) \/ FinishBuild(b)
    PROVE  \E m \in BuildReport(Tasks) :
              /\ buildQueue' = Append(buildQueue, m) \/ buildQueue' = Twice(buildQueue, m)
              /\ m.task = working[b]
              /\ ReportProcessing(b) => m.status = "PROCESSING"
              /\ FinishBuild(b) => m.status \in Final
<1>1. working[b] \in Tasks
  BY VanishTypes DEF FlowOf, Working, ReportProcessing, FinishBuild
<1>2. ~(ReportProcessing(b) /\ FinishBuild(b))
  BY DEF ReportProcessing, FinishBuild
<1>3. PICK status \in {"PROCESSING", "SUCCESS", "FAILED"} :
         /\ ReportBuild(b, status)
         /\ ReportProcessing(b) => status = "PROCESSING"
         /\ FinishBuild(b) => status \in Final
  BY <1>2 DEF ReportProcessing, FinishBuild, Final
<1>4. [task |-> working[b], status |-> status] \in BuildReport(Tasks)
  BY <1>1, <1>3 DEF BuildReport
<1> QED BY <1>3, <1>4 DEF ReportBuild

(* A step that takes nothing from `build` keeps every debt.                *)
LEMMA OwedStep ==
    ASSUME TypeOK, Placed, [Next]_vars, NEW t \in Tasks, NEW k \in 0..Len(buildQueue),
           Owed(t, k),
           \/ UNCHANGED buildQueue
           \/ \E b \in Builders : ReportProcessing(b) \/ FinishBuild(b)
    PROVE  Owed(t, k)'
<1>1. buildQueue \in Seq(BuildReport(Tasks))
  BY VanishTypes
<1>2. CASE LaterResult(buildQueue, t, k)
  <2>1. CASE UNCHANGED buildQueue
    BY <1>2, <2>1 DEF Owed, LaterResult
  <2>2. ASSUME NEW b \in Builders, ReportProcessing(b) \/ FinishBuild(b) PROVE Owed(t, k)'
    <3>1. LaterResult(buildQueue', t, k)
      BY <1>1, <1>2, <2>2, ReportOfTask, AppendLater
    <3> QED BY <3>1 DEF Owed, LaterResult
  <2> QED BY <2>1, <2>2
<1>3. CASE Alive(t)
  <2>1. ASSUME NEW b \in Builders, FinishBuild(b), working[b] = t PROVE Owed(t, k)'
    <3>1. LaterResult(buildQueue', t, k)
      BY <1>1, <2>1, ReportOfTask, AppendLater
    <3> QED BY <3>1 DEF Owed, LaterResult
  <2>2. CASE \A b \in Builders : ~(FinishBuild(b) /\ working[b] = t)
    BY <1>3, <2>2, AliveStep DEF Owed
  <2> QED BY <2>1, <2>2
<1> QED BY <1>2, <1>3 DEF Owed

(* The published tasks are tasks.                                          *)
LEMMA PublishedTasks == TypeOK => published \subseteq Tasks
BY DEF TypeOK, HistoryTypes

(* The dispatchers, the builders and the consumer of `clone` pay nothing   *)
(* and take nothing.                                                       *)
LEMMA OwedOthers ==
    ASSUME VanishInv, [Next]_vars, UNCHANGED buildStatus,
           \/ UNCHANGED buildQueue
           \/ \E b \in Builders : ReportProcessing(b) \/ FinishBuild(b)
    PROVE  RowsOwed' /\ ReportsOwed'
<1>1. TypeOK /\ Placed /\ RowsOwed /\ ReportsOwed
  BY DEF VanishInv, PublishInv
<1>2. buildQueue \in Seq(BuildReport(Tasks)) /\ Len(buildQueue) \in Nat
  BY <1>1, VanishTypes
<1>3. \A t \in Tasks, k \in 0..Len(buildQueue) : Owed(t, k) => Owed(t, k)'
  BY <1>1, OwedStep
<1>4. RowsOwed'
  <2> SUFFICES ASSUME NEW t \in published', ~Settled(t)' PROVE Owed(t, 0)'
    BY DEF RowsOwed
  <2>1. ~Settled(t)
    BY DEF Settled
  <2>2. CASE t \in published
    <3>1. t \in Tasks /\ Owed(t, 0)
      BY <1>1, <2>1, <2>2, PublishedTasks DEF RowsOwed
    <3> QED BY <1>2, <1>3, <3>1
  <2>3. CASE t \notin published
    <3>1. PICK o \in Opts : PublishTask(o)
      BY <2>3 DEF Next, Dispatcher, BuilderWork, CheckDepth, Select, Starve, MarkProcessing,
         DispatcherFails, Register, Deliver, Disconnect, Reconnect, Begin, CloneFails,
         CloneSucceeds, ReportProcessing, FinishBuild, HandlerRaises, BuilderCrashes,
         IngestClone, IngestBuild, FailSiblings, SiblingsRaise, CoordinatorRestarts,
         vars, history, outcomes
    <3>2. t = candidate[o]
      BY <1>1, <2>3, <3>1, PublishedAlive
    <3>3. \A s \in Tasks : s = candidate[o] => Alive(s)'
      <4>1. candidate' = candidate
        BY <3>1 DEF PublishTask
      <4> QED BY <1>1, <3>1, <4>1, PublishedAlive
    <3>4. t \in Tasks
      BY <1>1, <3>1, <3>2, PublishedAlive
    <3> QED BY <3>2, <3>3, <3>4 DEF Owed
  <2> QED BY <2>2, <2>3
<1>5. ReportsOwed'
  <2> SUFFICES ASSUME NEW i \in 1..Len(buildQueue'), NEW t \in Tasks,
                      buildQueue'[i].task = t, buildQueue'[i].status = "PROCESSING"
               PROVE  Owed(t, i)'
    BY DEF ReportsOwed
  <2>1. CASE i \in 1..Len(buildQueue) /\ buildQueue'[i] = buildQueue[i]
    <3>1. Owed(t, i)
      BY <1>1, <2>1 DEF ReportsOwed
    <3> QED BY <1>2, <1>3, <2>1, <3>1
  <2>2. CASE UNCHANGED buildQueue
    BY <2>1, <2>2
  <2>3. ASSUME NEW b \in Builders, ReportProcessing(b) \/ FinishBuild(b) PROVE Owed(t, i)'
    <3>1. PICK m \in BuildReport(Tasks) :
              /\ buildQueue' = Append(buildQueue, m) \/ buildQueue' = Twice(buildQueue, m)
              /\ m.task = working[b]
              /\ FinishBuild(b) => m.status \in Final
      BY <1>1, <2>3, ReportOfTask
    <3>2. buildQueue'[i] = m \/ (i \in 1..Len(buildQueue) /\ buildQueue'[i] = buildQueue[i])
      <4>1. /\ \A j \in 1..Len(buildQueue) : buildQueue'[j] = buildQueue[j]
            /\ \A j \in 1..Len(buildQueue') : j > Len(buildQueue) => buildQueue'[j] = m
            /\ Len(buildQueue') \in Nat
        BY <1>2, <3>1, TwiceKeeps
      <4>2. i > Len(buildQueue) \/ i \in 1..Len(buildQueue)
        BY <1>2, <4>1
      <4> QED BY <4>1, <4>2
    <3>3. CASE buildQueue'[i] = m
      <4>1. ReportProcessing(b) /\ working[b] = t
        BY <2>3, <3>1, <3>3 DEF Final
      <4>2. Working(b)' /\ working'[b] = t
        BY <1>1, <4>1, VanishTypes DEF ReportProcessing, Working, PhaseTypes
      <4>3. AtBuilder(t)'
        BY <4>2 DEF AtBuilder
      <4> QED BY <4>3 DEF Owed, Alive
    <3> QED BY <2>1, <3>2, <3>3
  <2> QED BY <2>2, <2>3
<1> QED BY <1>4, <1>5

(* The consumer of `build`.  The report it takes off the queue is a result *)
(* it has just recorded, or a PROCESSING report with a result owed behind. *)
LEMMA OwedIngest ==
    ASSUME VanishInv, [Next]_vars, IngestBuild \/ FailSiblings
    PROVE  RowsOwed' /\ ReportsOwed'
<1>1. TypeOK /\ Placed /\ RowsOwed /\ ReportsOwed /\ FailedHead
  BY DEF VanishInv, PublishInv
<1>2. buildQueue \in Seq(BuildReport(Tasks)) /\ buildQueue # <<>>
  BY <1>1, VanishTypes DEF IngestBuild, FailSiblings, PhaseTypes
<1> DEFINE m == Head(buildQueue)
<1>3. /\ m = buildQueue[1] /\ 1 \in 1..Len(buildQueue) /\ m \in BuildReport(Tasks)
      /\ m.task \in Tasks /\ m.status \in {"PROCESSING", "FAILED", "SUCCESS"}
  <2>1. m = buildQueue[1] /\ 1 \in 1..Len(buildQueue) /\ m \in BuildReport(Tasks)
    BY <1>2
  <2> QED BY <2>1 DEF BuildReport
<1>4. UNCHANGED published
  BY DEF IngestBuild, FailSiblings, history
<1>5. \A t \in Tasks : Alive(t) => Alive(t)'
  <2>1. UNCHANGED <<taskQueue, prefetched, phase, working, uncloned, dropped>>
    BY DEF IngestBuild, FailSiblings, builderVars, history, outcomes
  <2> QED BY <2>1 DEF Alive, Queued, AtBuilder, Working
<1>6. buildQueue' = buildQueue \/ buildQueue' = Tail(buildQueue)
  BY DEF IngestBuild, FailSiblings, AckBuild
<1>7. \A t \in Tasks : ~Settled(t)' =>
        \/ ~Settled(t)
        \/ m.task = t /\ m.status = "PROCESSING"
  <2> SUFFICES ASSUME NEW t \in Tasks, ~Settled(t)', Settled(t)
               PROVE  m.task = t /\ m.status = "PROCESSING"
    OBVIOUS
  <2>1. buildStatus \in [Tasks -> BuildStatus]
    BY <1>1, VanishTypes DEF RowTypes
  <2>2. CASE IngestBuild
    <3>1. buildStatus' = [buildStatus EXCEPT ![m.task] = m.status]
      BY <2>2 DEF IngestBuild
    <3> HIDE DEF m
    <3> QED BY <1>3, <2>1, <3>1 DEF Settled
  <2>3. CASE FailSiblings
    BY <2>1, <2>3 DEF FailSiblings, InitSiblings, Settled
  <2> QED BY <2>2, <2>3
<1>8. \A t \in Tasks : m.task = t /\ m.status \in Final => Settled(t)'
  <2> SUFFICES ASSUME NEW t \in Tasks, m.task = t, m.status \in Final PROVE Settled(t)'
    OBVIOUS
  <2>1. buildStatus \in [Tasks -> BuildStatus]
    BY <1>1, VanishTypes DEF RowTypes
  <2>2. CASE IngestBuild
    <3>1. buildStatus' = [buildStatus EXCEPT ![m.task] = m.status]
      BY <2>2 DEF IngestBuild
    <3> HIDE DEF m
    <3> QED BY <2>1, <3>1 DEF Settled, Final
  <2>3. CASE FailSiblings
    <3>1. buildStatus[t] = "FAILED"
      BY <1>1, <2>3 DEF FailSiblings, FailedHead
    <3> QED BY <2>1, <2>3, <3>1 DEF FailSiblings, InitSiblings, Settled
  <2> QED BY <2>2, <2>3
<1> HIDE DEF m
(* Behind the head, the debts outlive the step. *)
<1>9. ASSUME NEW t \in Tasks, NEW k \in Nat, Owed(t, k + 1)
      PROVE  /\ buildQueue' = buildQueue => Owed(t, k + 1)'
             /\ buildQueue' = Tail(buildQueue) => Owed(t, k)'
  <2>1. CASE Alive(t)
    BY <1>5, <2>1 DEF Owed
  <2>2. CASE LaterResult(buildQueue, t, k + 1)
    <3>1. buildQueue' = buildQueue => LaterResult(buildQueue', t, k + 1)
      BY <2>2
    <3>2. buildQueue' = Tail(buildQueue) => LaterResult(buildQueue', t, k)
      BY <1>2, <2>2, TailLater
    <3> QED BY <3>1, <3>2 DEF Owed, LaterResult
  <2> QED BY <1>9, <2>1, <2>2 DEF Owed
<1>10. RowsOwed'
  <2> SUFFICES ASSUME NEW t \in published', ~Settled(t)' PROVE Owed(t, 0)'
    BY DEF RowsOwed
  <2>1. t \in published /\ t \in Tasks
    BY <1>1, <1>4, PublishedTasks
  <2>2. Owed(t, 1)
    <3>1. CASE m.task = t /\ m.status = "PROCESSING"
      BY <1>1, <1>3, <2>1, <3>1 DEF ReportsOwed
    <3>2. CASE ~Settled(t)
      <4>1. Owed(t, 0) /\ ~(m.task = t /\ m.status \in Final)
        BY <1>1, <1>8, <2>1, <3>2 DEF RowsOwed
      <4>2. LaterResult(buildQueue, t, 0) => LaterResult(buildQueue, t, 1)
        BY <1>3, <4>1 DEF LaterResult
      <4> QED BY <4>1, <4>2 DEF Owed
    <3> QED BY <1>7, <2>1, <3>1, <3>2
  <2>3. CASE buildQueue' = Tail(buildQueue)
    <3>1. Owed(t, 0 + 1)
      BY <2>2
    <3> QED BY <1>9, <2>1, <2>3, <3>1
  <2>4. CASE buildQueue' = buildQueue
    <3>1. Owed(t, 0 + 1)
      BY <2>2
    <3>2. Owed(t, 0 + 1)'
      BY <1>9, <2>1, <2>4, <3>1
    <3> QED BY <3>2 DEF Owed, LaterResult
  <2> QED BY <1>6, <2>3, <2>4
<1>11. ReportsOwed'
  <2> SUFFICES ASSUME NEW i \in 1..Len(buildQueue'), NEW t \in Tasks,
                      buildQueue'[i].task = t, buildQueue'[i].status = "PROCESSING"
               PROVE  Owed(t, i)'
    BY DEF ReportsOwed
  <2>1. i \in Nat
    OBVIOUS
  <2>2. CASE buildQueue' = Tail(buildQueue)
    <3>1. i + 1 \in 1..Len(buildQueue) /\ buildQueue[i + 1] = buildQueue'[i]
      BY <1>2, <2>2
    <3>2. Owed(t, i + 1)
      BY <1>1, <3>1 DEF ReportsOwed
    <3> QED BY <1>9, <2>1, <2>2, <3>2
  <2>3. CASE buildQueue' = buildQueue
    <3>1. Owed(t, i)
      BY <1>1, <2>3 DEF ReportsOwed
    <3>2. i - 1 \in Nat /\ (i - 1) + 1 = i
      OBVIOUS
    <3> QED BY <1>9, <2>3, <3>1, <3>2
  <2> QED BY <1>6, <2>2, <2>3
<1> QED BY <1>10, <1>11

(* The report whose siblings are about to be failed has been recorded.     *)
LEMMA FailedHeadStep == VanishInv /\ [Next]_vars => FailedHead'
<1> SUFFICES ASSUME VanishInv, [Next]_vars PROVE FailedHead'
  OBVIOUS
<1>1. TypeOK /\ FailedHead
  BY DEF VanishInv, PublishInv
<1>2. /\ buildQueue \in Seq(BuildReport(Tasks))
      /\ failing => buildQueue # <<>>
      /\ buildStatus \in [Tasks -> BuildStatus]
  BY <1>1, VanishTypes DEF PhaseTypes, RowTypes
<1>3. ASSUME IngestBuild PROVE FailedHead'
  <2>1. Head(buildQueue) \in BuildReport(Tasks)
    BY <1>2, <1>3, HeadTailProperties DEF IngestBuild
  <2>2. Head(buildQueue).task \in Tasks
    BY <2>1 DEF BuildReport
  <2> QED BY <1>2, <1>3, <2>2 DEF IngestBuild, FailedHead
<1>4. ASSUME FailSiblings \/ SiblingsRaise \/ CoordinatorRestarts PROVE FailedHead'
  BY <1>4 DEF FailSiblings, SiblingsRaise, CoordinatorRestarts, FailedHead
<1>5. ASSUME NEW b \in Builders, ReportProcessing(b) \/ FinishBuild(b) PROVE FailedHead'
  <2>1. UNCHANGED <<failing, buildStatus>>
    BY <1>5 DEF ReportProcessing, FinishBuild, rowVars
  <2>2. buildQueue # <<>> => Head(buildQueue') = Head(buildQueue)
    <3>1. PICK m \in BuildReport(Tasks) :
             buildQueue' = Append(buildQueue, m) \/ buildQueue' = Twice(buildQueue, m)
      BY <1>1, <1>5, ReportOfTask
    <3> QED BY <1>2, <3>1, AppendKeepsHead
  <2>3. failing => Head(buildQueue') = Head(buildQueue)
    BY <1>2, <2>2
  <2>4. ASSUME failing' PROVE buildStatus'[Head(buildQueue').task] = "FAILED"
    <3>1. Head(buildQueue') = Head(buildQueue) /\ buildStatus' = buildStatus
      BY <2>1, <2>3, <2>4
    <3>2. buildStatus[Head(buildQueue).task] = "FAILED"
      BY <1>1, <2>1, <2>4 DEF FailedHead
    <3> QED BY <3>1, <3>2
  <2> QED BY <2>4 DEF FailedHead
<1>6. ASSUME UNCHANGED <<buildQueue, failing, buildStatus>> PROVE FailedHead'
  BY <1>1, <1>6 DEF FailedHead
<1>7. ASSUME NEW o \in Opts, Dispatcher(o) \/ DispatcherFails(o)
      PROVE  UNCHANGED <<buildQueue, failing, buildStatus>>
  BY <1>7 DEF Dispatcher, CheckDepth, Select, Starve, PublishTask, MarkProcessing,
     DispatcherFails, reportVars, rowVars
<1>8. ASSUME \/ \E b \in Builders :
                  \/ Register(b) \/ Deliver(b) \/ Disconnect(b) \/ Reconnect(b) \/ Begin(b)
                  \/ CloneFails(b) \/ CloneSucceeds(b) \/ HandlerRaises(b) \/ BuilderCrashes(b)
             \/ IngestClone \/ UNCHANGED vars
      PROVE  UNCHANGED <<buildQueue, failing, buildStatus>>
  BY <1>8 DEF Register, Deliver, Disconnect, Reconnect, Begin, CloneFails, CloneSucceeds,
     HandlerRaises, BuilderCrashes, IngestClone, vars, ReportClone, reportVars, rowVars
<1> QED BY <1>3, <1>4, <1>5, <1>6, <1>7, <1>8 DEF Next, BuilderWork

(* The invariant holds at the start: nothing is published.                 *)
LEMMA VanishInit == Init => VanishInv
<1> SUFFICES ASSUME Init PROVE VanishInv
  OBVIOUS
<1>1. Placed
  BY PlacedInit
<1>2. FailedHead /\ RowsOwed
  BY DEF Init, FailedHead, RowsOwed
<1>3. ReportsOwed
  BY DEF Init, ReportsOwed
<1> QED BY <1>1, <1>2, <1>3, PublishInit, CauseInit DEF VanishInv

(* The invariant is inductive.                                             *)
LEMMA VanishStep == VanishInv /\ [Next]_vars => VanishInv'
<1> SUFFICES ASSUME VanishInv, [Next]_vars PROVE VanishInv'
  OBVIOUS
<1>1. PublishInv' /\ CauseInv' /\ Placed' /\ FailedHead'
  BY PublishStep, CauseStep, PlacedStep, FailedHeadStep DEF VanishInv, PublishInv
<1> DEFINE Kept == UNCHANGED buildStatus /\
                   (UNCHANGED buildQueue \/
                    \E b \in Builders : ReportProcessing(b) \/ FinishBuild(b))
<1>2. ASSUME NEW o \in Opts, Dispatcher(o) \/ DispatcherFails(o) PROVE Kept
  BY <1>2 DEF Dispatcher, CheckDepth, Select, Starve, PublishTask, MarkProcessing,
     DispatcherFails, reportVars, rowVars
<1>3. ASSUME NEW b \in Builders, ReportProcessing(b) \/ FinishBuild(b) PROVE Kept
  <2>1. UNCHANGED buildStatus
    BY <1>3 DEF ReportProcessing, FinishBuild, rowVars
  <2> QED BY <1>3, <2>1
<1>4. ASSUME \/ \E b \in Builders :
                  \/ Register(b) \/ Deliver(b) \/ Disconnect(b) \/ Reconnect(b) \/ Begin(b)
                  \/ CloneFails(b) \/ CloneSucceeds(b) \/ HandlerRaises(b) \/ BuilderCrashes(b)
             \/ IngestClone \/ SiblingsRaise \/ CoordinatorRestarts \/ UNCHANGED vars
      PROVE  UNCHANGED <<buildQueue, buildStatus>>
  BY <1>4 DEF Register, Deliver, Disconnect, Reconnect, Begin, CloneFails, CloneSucceeds,
     HandlerRaises, BuilderCrashes, IngestClone, SiblingsRaise, CoordinatorRestarts, vars,
     ReportClone, reportVars, rowVars
<1>5. Kept \/ IngestBuild \/ FailSiblings
  BY <1>2, <1>3, <1>4 DEF Next, BuilderWork
<1>6. RowsOwed' /\ ReportsOwed'
  BY <1>5, OwedOthers, OwedIngest
<1> QED BY <1>1, <1>6 DEF VanishInv

(* No dispatched row without a result is forgotten, in any instance and    *)
(* however many connections, handlers, builders and coordinators fail: its *)
(* task is queued or at a builder, its result waits on `build`, its clone  *)
(* failed, or a builder gave it up after acknowledging it.                 *)
THEOREM NothingVanishesHolds == Spec => []NothingVanishes
<1>1. VanishInv => NothingVanishes
  <2> SUFFICES ASSUME VanishInv, NEW t \in Tasks,
                      cloneStatus[t] # "NOT_STARTED", ~Settled(t)
               PROVE  Alive(t) \/ ResultPending(t)
    BY DEF NothingVanishes, Alive
  <2>1. Owed(t, 0)
    BY DEF VanishInv, PublishInv, PublishedBeforeMarked, RowsOwed
  <2> QED BY <2>1 DEF Owed, LaterResult, ResultPending, Final
<1> QED BY <1>1, VanishInit, VanishStep, PTL DEF Spec

-----------------------------------------------------------------------------
(* One build of every task, as long as nothing fails.  Until then a task   *)
(* is in one place at a time: unseen by the broker, at one position of its *)
(* queue, in one builder's hand, or begun; and the dispatcher's choice is  *)
(* unseen until it is published, and marked before the next choice.        *)

Held(t) == \E b \in Builders : prefetched[b] = t

Unseen(t) == ~Queued(t) /\ ~Held(t) /\ taken[t] = 0

Once(queue) == \A i, j \in 1..Len(queue) : queue[i] = queue[j] => i = j

Apart ==
    /\ \A o \in Opts : Once(taskQueue[o])
    /\ \A t \in Tasks : Queued(t) => ~Held(t)
    /\ \A t \in Tasks : Queued(t) \/ Held(t) => taken[t] = 0
    /\ \A b, c \in Builders : prefetched[b] = prefetched[c] => b = c \/ prefetched[b] = NoTask
    /\ \A t \in Tasks : taken[t] <= 1

Chosen ==
    /\ \A o \in Opts : pace[o] = "publish" => Unseen(candidate[o])
    /\ \A t \in Tasks : cloneStatus[t] = "NOT_STARTED" =>
          Unseen(t) \/ (pace[OptOf[t]] = "mark" /\ candidate[OptOf[t]] = t)

SingleInv == TypeOK /\ Placed /\ (faults = 0 => Apart /\ Chosen)

(* What the lemmas use of the types. *)
LEMMA SingleTypes ==
    ASSUME TypeOK, Placed
    PROVE  /\ taskQueue \in [Opts -> Seq(Tasks)]
           /\ \A o \in Opts : taskQueue[o] \in Seq(Tasks) /\ Len(taskQueue[o]) \in Nat
           /\ \A o \in Opts : \A i \in 1..Len(taskQueue[o]) : OptOf[taskQueue[o][i]] = o
           /\ prefetched \in [Builders -> Tasks \union {NoTask}]
           /\ \A b \in Builders : prefetched[b] # NoTask => OptOf[prefetched[b]] = Serves[b]
           /\ taken \in [Tasks -> Nat]
           /\ \A t \in Tasks : OptOf[t] \in Opts
           /\ \A b \in Builders : Serves[b] \in Opts
           /\ NoTask \notin Tasks
<1>1. /\ taskQueue \in [Opts -> Seq(Tasks)] /\ taken \in [Tasks -> Nat]
      /\ prefetched \in [Builders -> Tasks \union {NoTask}]
  BY DEF TypeOK, FlowOf, HistoryTypes
<1>2. \A o \in Opts : \A i \in 1..Len(taskQueue[o]) : OptOf[taskQueue[o][i]] = o
  <2> TAKE o \in Opts
  <2> TAKE i \in 1..Len(taskQueue[o])
  <2>1. taskQueue[o][i] \in TasksOf(o)
    BY ElementOfSeq DEF Placed
  <2> QED BY <2>1 DEF TasksOf
<1>3. \A b \in Builders : prefetched[b] # NoTask => OptOf[prefetched[b]] = Serves[b]
  BY DEF Placed, TasksOf
<1> QED BY <1>1, <1>2, <1>3, DispatchAssumption

(* A delivery moves the head of a queue into a hand.                       *)
LEMMA ApartDeliver ==
    ASSUME TypeOK, Placed, Apart, NEW b \in Builders, Deliver(b)
    PROVE  Apart' /\ \A t \in Tasks : Unseen(t) => Unseen(t)'
<1> DEFINE s == Serves[b]
           h == Head(taskQueue[s])
<1>1. /\ s \in Opts /\ taskQueue[s] \in Seq(Tasks) /\ taskQueue[s] # <<>>
      /\ Len(taskQueue[s]) \in Nat
  BY SingleTypes DEF Deliver
<1>2. /\ taskQueue'[s] = Tail(taskQueue[s])
      /\ \A o \in Opts \ {s} : taskQueue'[o] = taskQueue[o]
      /\ prefetched[b] = NoTask /\ prefetched'[b] = h
      /\ \A c \in Builders \ {b} : prefetched'[c] = prefetched[c]
      /\ taken' = taken
  BY <1>1, SingleTypes DEF Deliver, history
<1>3. /\ h = taskQueue[s][1] /\ 1 \in 1..Len(taskQueue[s]) /\ h \in Tasks
      /\ Len(Tail(taskQueue[s])) = Len(taskQueue[s]) - 1
      /\ \A i \in 1..Len(Tail(taskQueue[s])) :
            i + 1 \in 1..Len(taskQueue[s]) /\ i + 1 # 1 /\ Tail(taskQueue[s])[i] = taskQueue[s][i + 1]
  BY <1>1, HeadTailProperties
<1>4. OptOf[h] = s /\ Queued(h)
  BY <1>1, <1>3, SingleTypes DEF Queued
<1> HIDE DEF s, h
<1>5. ASSUME NEW t \in Tasks, Queued(t)' PROVE Queued(t) /\ t # h
  <2>1. CASE OptOf[t] = s
    <3>1. PICK i \in 1..Len(Tail(taskQueue[s])) : Tail(taskQueue[s])[i] = t
      BY <1>2, <1>5, <2>1 DEF Queued
    <3>2. i + 1 \in 1..Len(taskQueue[s]) /\ i + 1 # 1 /\ taskQueue[s][i + 1] = t
      BY <1>3, <3>1
    <3> QED BY <1>1, <1>3, <2>1, <3>2 DEF Queued, Apart, Once
  <2>2. CASE OptOf[t] # s
    BY <1>2, <1>4, <1>5, <2>2, SingleTypes DEF Queued
  <2> QED BY <2>1, <2>2
<1>6. \A t \in Tasks : Held(t)' => Held(t) \/ t = h
  BY <1>2 DEF Held
<1>7. \A o \in Opts : Once(taskQueue'[o])
  <2>1. Once(taskQueue'[s])
    <3> SUFFICES ASSUME NEW i \in 1..Len(Tail(taskQueue[s])), NEW j \in 1..Len(Tail(taskQueue[s])),
                        Tail(taskQueue[s])[i] = Tail(taskQueue[s])[j]
                 PROVE  i = j
      BY <1>2 DEF Once
    <3>1. i + 1 = j + 1
      BY <1>1, <1>3 DEF Apart, Once
    <3> QED BY <3>1
  <2> QED BY <1>2, <2>1 DEF Apart
<1>8. \A c, d \in Builders : prefetched'[c] = prefetched'[d] => c = d \/ prefetched'[c] = NoTask
  <2>1. ~Held(h)
    BY <1>3, <1>4 DEF Apart
  <2> QED BY <1>2, <2>1 DEF Apart, Held
<1>9. taken[h] = 0 /\ ~Held(h)
  BY <1>3, <1>4 DEF Apart
<1>10. Apart'
  BY <1>2, <1>5, <1>6, <1>7, <1>8, <1>9 DEF Apart
<1> QED BY <1>2, <1>4, <1>5, <1>6, <1>10 DEF Unseen

(* What a builder hands back goes from its hand to the head of its queue.  *)
LEMMA ApartReturn ==
    ASSUME TypeOK, Placed, Apart, NEW b \in Builders, taken' = taken,
           taskQueue' = Returned(b), prefetched' = [prefetched EXCEPT ![b] = NoTask]
    PROVE  Apart' /\ \A t \in Tasks : Unseen(t) => Unseen(t)'
<1> DEFINE s == Serves[b]
           p == prefetched[b]
<1>1. CASE p = NoTask
  <2>1. taskQueue' = taskQueue /\ prefetched' = prefetched
    BY <1>1, SingleTypes DEF Returned
  <2> QED BY <2>1 DEF Apart, Unseen, Queued, Held
<1>2. CASE p # NoTask
  <2>1. /\ s \in Opts /\ taskQueue[s] \in Seq(Tasks) /\ Len(taskQueue[s]) \in Nat
        /\ p \in Tasks /\ OptOf[p] = s
    BY <1>2, SingleTypes
  <2>2. /\ taskQueue'[s] = <<p>> \o taskQueue[s]
        /\ \A o \in Opts \ {s} : taskQueue'[o] = taskQueue[o]
        /\ prefetched'[b] = NoTask
        /\ \A c \in Builders \ {b} : prefetched'[c] = prefetched[c]
    BY <1>2, <2>1, SingleTypes DEF Returned
  <2>3. /\ Len(<<p>> \o taskQueue[s]) = Len(taskQueue[s]) + 1
        /\ (<<p>> \o taskQueue[s])[1] = p
        /\ \A i \in 1..Len(<<p>> \o taskQueue[s]) : i # 1 =>
              i - 1 \in 1..Len(taskQueue[s]) /\ (<<p>> \o taskQueue[s])[i] = taskQueue[s][i - 1]
    BY <2>1
  <2> HIDE DEF s, p
  <2>4. Held(p) /\ ~Queued(p) /\ taken[p] = 0
    BY <2>1 DEF Apart, Held, p
  <2>5. \A i \in 1..Len(taskQueue[s]) : taskQueue[s][i] # p
    BY <2>1, <2>4 DEF Queued
  <2>6. ASSUME NEW t \in Tasks, Queued(t)' PROVE Queued(t) \/ t = p
    <3>1. CASE OptOf[t] = s
      <4>1. PICK i \in 1..Len(<<p>> \o taskQueue[s]) : (<<p>> \o taskQueue[s])[i] = t
        BY <2>2, <2>6, <3>1 DEF Queued
      <4> QED BY <2>3, <3>1, <4>1 DEF Queued
    <3>2. CASE OptOf[t] # s
      BY <2>2, <2>6, <3>2, SingleTypes DEF Queued
    <3> QED BY <3>1, <3>2
  <2>7. \A t \in Tasks : Held(t)' => Held(t) /\ t # p
    <3> SUFFICES ASSUME NEW t \in Tasks, NEW c \in Builders, prefetched'[c] = t
                 PROVE  Held(t) /\ t # p
      BY DEF Held
    <3>1. c # b
      BY <2>2, SingleTypes
    <3>2. prefetched[c] = t /\ t # NoTask
      BY <2>2, <3>1, SingleTypes
    <3> QED BY <3>1, <3>2 DEF Apart, Held, p
  <2>8. \A o \in Opts : Once(taskQueue'[o])
    <3>1. Once(taskQueue'[s])
      <4> SUFFICES ASSUME NEW i \in 1..Len(<<p>> \o taskQueue[s]),
                          NEW j \in 1..Len(<<p>> \o taskQueue[s]),
                          (<<p>> \o taskQueue[s])[i] = (<<p>> \o taskQueue[s])[j]
                   PROVE  i = j
        BY <2>2 DEF Once
      <4>1. CASE i # 1 /\ j # 1
        <5>1. /\ i - 1 \in 1..Len(taskQueue[s]) /\ j - 1 \in 1..Len(taskQueue[s])
              /\ taskQueue[s][i - 1] = taskQueue[s][j - 1]
          BY <2>3, <4>1
        <5>2. Once(taskQueue[s])
          BY <2>1 DEF Apart
        <5>3. i - 1 = j - 1
          BY <5>1, <5>2 DEF Once
        <5> QED BY <5>3
      <4>2. CASE i = 1 \/ j = 1
        BY <2>3, <2>5, <4>2
      <4> QED BY <4>1, <4>2
    <3> QED BY <2>2, <3>1 DEF Apart
  <2>9. \A c, d \in Builders : prefetched'[c] = prefetched'[d] => c = d \/ prefetched'[c] = NoTask
    BY <2>2 DEF Apart
  <2>10. Apart'
    BY <2>4, <2>6, <2>7, <2>8, <2>9 DEF Apart
  <2> QED BY <2>4, <2>6, <2>7, <2>10 DEF Unseen
<1> QED BY <1>1, <1>2

(* A task begun leaves the builder's hand for good.                        *)
LEMMA ApartBegin ==
    ASSUME TypeOK, Placed, Apart, NEW b \in Builders, prefetched[b] # NoTask,
           taskQueue' = taskQueue, prefetched' = [prefetched EXCEPT ![b] = NoTask],
           taken' = [taken EXCEPT ![prefetched[b]] = @ + 1]
    PROVE  Apart' /\ \A t \in Tasks : Unseen(t) => Unseen(t)'
<1> DEFINE p == prefetched[b]
<1>1. /\ p \in Tasks /\ Held(p)
      /\ prefetched'[b] = NoTask
      /\ \A c \in Builders \ {b} : prefetched'[c] = prefetched[c]
      /\ taken'[p] = taken[p] + 1
      /\ \A t \in Tasks \ {p} : taken'[t] = taken[t]
  BY SingleTypes DEF Held
<1> HIDE DEF p
<1>2. ~Queued(p) /\ taken[p] = 0
  BY <1>1 DEF Apart
<1>3. \A t \in Tasks : Held(t)' => Held(t) /\ t # p
  <2> SUFFICES ASSUME NEW t \in Tasks, NEW c \in Builders, prefetched'[c] = t
               PROVE  Held(t) /\ t # p
    BY DEF Held
  <2>1. c # b
    BY <1>1, SingleTypes
  <2>2. prefetched[c] = t /\ t # NoTask
    BY <1>1, <2>1, SingleTypes
  <2> QED BY <2>1, <2>2 DEF Apart, Held, p
<1>4. \A t \in Tasks : Queued(t)' <=> Queued(t)
  BY DEF Queued
<1>5. \A c, d \in Builders : prefetched'[c] = prefetched'[d] => c = d \/ prefetched'[c] = NoTask
  BY <1>1 DEF Apart
<1>6. \A t \in Tasks : taken'[t] <= 1
  BY <1>1, <1>2 DEF Apart
<1>7. Apart'
  BY <1>1, <1>2, <1>3, <1>4, <1>5, <1>6 DEF Apart
<1> QED BY <1>1, <1>3, <1>4, <1>7 DEF Unseen

(* A publication without a fault puts an unseen task on its queue once.    *)
LEMMA ApartPublish ==
    ASSUME TypeOK, Placed, Apart, NEW o \in Opts, pace[o] = "publish", Unseen(candidate[o]),
           taskQueue' = [taskQueue EXCEPT ![o] = Append(@, candidate[o])],
           prefetched' = prefetched, taken' = taken
    PROVE  Apart' /\ \A t \in Tasks \ {candidate[o]} : Unseen(t) => Unseen(t)'
<1> DEFINE c == candidate[o]
           q == Append(taskQueue[o], c)
<1>1. /\ c \in Tasks /\ OptOf[c] = o
      /\ taskQueue[o] \in Seq(Tasks) /\ Len(taskQueue[o]) \in Nat
  BY SingleTypes DEF Placed, TasksOf
<1>2. /\ taskQueue'[o] = q
      /\ \A d \in Opts \ {o} : taskQueue'[d] = taskQueue[d]
  BY SingleTypes
<1>3. /\ Len(q) = Len(taskQueue[o]) + 1 /\ q[Len(q)] = c
      /\ \A i \in 1..Len(q) : i # Len(q) => i \in 1..Len(taskQueue[o]) /\ q[i] = taskQueue[o][i]
  BY <1>1
<1> HIDE DEF q
<1>4. \A i \in 1..Len(taskQueue[o]) : taskQueue[o][i] # c
  BY <1>1 DEF Queued, Unseen
<1>5. ASSUME NEW t \in Tasks, Queued(t)' PROVE Queued(t) \/ t = c
  <2>1. CASE OptOf[t] = o
    <3>1. PICK i \in 1..Len(q) : q[i] = t
      BY <1>2, <1>5, <2>1 DEF Queued
    <3> QED BY <1>3, <2>1, <3>1 DEF Queued
  <2>2. CASE OptOf[t] # o
    BY <1>2, <1>5, <2>2, SingleTypes DEF Queued
  <2> QED BY <2>1, <2>2
<1>6. \A d \in Opts : Once(taskQueue'[d])
  <2>1. Once(q)
    <3> SUFFICES ASSUME NEW i \in 1..Len(q), NEW j \in 1..Len(q), q[i] = q[j] PROVE i = j
      BY DEF Once
    <3>1. CASE i # Len(q) /\ j # Len(q)
      BY <1>3, <3>1 DEF Apart, Once
    <3>2. CASE i = Len(q) \/ j = Len(q)
      BY <1>3, <1>4, <3>2
    <3> QED BY <3>1, <3>2
  <2> QED BY <1>2, <2>1 DEF Apart
<1>7. \A t : Held(t)' <=> Held(t)
  BY DEF Held
<1>8. Apart'
  BY <1>5, <1>6, <1>7 DEF Apart, Unseen
<1> QED BY <1>5, <1>7, <1>8 DEF Unseen
(* The choice of a dispatcher stays unseen, and an unseen row stays as it  *)
(* is, while nobody chooses, marks or reports.                             *)
LEMMA ChosenKept ==
    ASSUME TypeOK, Placed, Chosen, UNCHANGED <<candidate, cloneStatus>>,
           \A o \in Opts : pace'[o] \in {"publish", "mark"} \/ pace[o] \in {"publish", "mark"}
               => pace'[o] = pace[o],
           \A t \in Tasks : Unseen(t) => Unseen(t)'
    PROVE  Chosen'
<1>1. \A o \in Opts : pace[o] = "publish" => candidate[o] \in Tasks
  BY DEF TypeOK, DispatchTypes
<1>2. \A t \in Tasks : OptOf[t] \in Opts
  BY SingleTypes
<1> QED BY <1>1, <1>2 DEF Chosen

LEMMA UnseenKept ==
    ASSUME UNCHANGED <<taskQueue, prefetched, taken>>
    PROVE  /\ Apart => Apart'
           /\ \A t : Unseen(t)' <=> Unseen(t)
BY DEF Apart, Unseen, Queued, Held

LEMMA SingleDispatcher ==
    ASSUME TypeOK, Placed, Apart, Chosen, NEW o \in Opts, Dispatcher(o), faults' = faults
    PROVE  Apart' /\ Chosen'
<1>1. /\ pace \in [Opts -> {"off", "depth", "select", "publish", "mark"}]
      /\ candidate \in [Opts -> Tasks \union {NoTask}]
      /\ cloneStatus \in [Tasks -> CloneStatus]
      /\ faults \in Nat
      /\ \A d \in Opts : pace[d] = "publish" => candidate[d] \in Tasks
      /\ \A t \in Tasks : OptOf[t] \in Opts
  BY SingleTypes DEF TypeOK, DispatchTypes, RowTypes, PhaseTypes
<1>2. CASE CheckDepth(o) \/ Starve(o)
  <2>1. /\ UNCHANGED <<taskQueue, prefetched, taken, candidate, cloneStatus>>
        /\ \A d \in Opts : pace'[d] \in {"publish", "mark"} \/ pace[d] \in {"publish", "mark"}
               => pace'[d] = pace[d]
    BY <1>1, <1>2 DEF CheckDepth, Starve, rowVars, builderVars, history
  <2> QED BY <2>1, UnseenKept, ChosenKept
<1>3. CASE Select(o)
  <2>1. PICK t \in Dispatchable(o) : candidate' = [candidate EXCEPT ![o] = t]
    BY <1>3 DEF Select
  <2>2. /\ UNCHANGED <<taskQueue, prefetched, taken, cloneStatus>>
        /\ pace[o] = "select" /\ pace' = [pace EXCEPT ![o] = "publish"]
    BY <1>3 DEF Select, rowVars, builderVars, history
  <2>3. t \in Tasks /\ OptOf[t] = o /\ cloneStatus[t] = "NOT_STARTED"
    BY DEF Dispatchable
  <2>4. Unseen(t)
    BY <2>2, <2>3 DEF Chosen
  <2>5. Apart' /\ \A x : Unseen(x)' <=> Unseen(x)
    BY <2>2, UnseenKept
  <2>6. /\ pace'[o] = "publish" /\ candidate'[o] = t
        /\ \A d \in Opts \ {o} : pace'[d] = pace[d] /\ candidate'[d] = candidate[d]
    BY <1>1, <2>1, <2>2
  <2>7. \A d \in Opts : pace'[d] = "publish" => Unseen(candidate'[d])
    BY <2>4, <2>6 DEF Chosen
  <2>8. \A x \in Tasks : cloneStatus[x] = "NOT_STARTED" =>
            Unseen(x) \/ (pace'[OptOf[x]] = "mark" /\ candidate'[OptOf[x]] = x)
    BY <1>1, <2>2, <2>6 DEF Chosen
  <2>9. \A d \in Opts : pace'[d] = "publish" => Unseen(candidate[d])'
    BY <2>5, <2>7
  <2> QED BY <2>2, <2>5, <2>8, <2>9 DEF Chosen
<1>4. CASE PublishTask(o)
  <2>1. /\ UNCHANGED <<prefetched, taken, cloneStatus, candidate>>
        /\ pace[o] = "publish" /\ pace' = [pace EXCEPT ![o] = "mark"]
        /\ taskQueue' = [taskQueue EXCEPT ![o] = Append(@, candidate[o])]
    BY <1>1, <1>4 DEF PublishTask, Fault, rowVars, builderVars
  <2>2. Unseen(candidate[o])
    BY <2>1 DEF Chosen
  <2>3. Apart' /\ \A t \in Tasks \ {candidate[o]} : Unseen(t) => Unseen(t)'
    BY <2>1, <2>2, ApartPublish
  <2>4. pace'[o] = "mark" /\ \A d \in Opts \ {o} : pace'[d] = pace[d]
    BY <1>1, <2>1
  <2>5. \A d \in Opts : pace[d] = "publish" => OptOf[candidate[d]] = d
    BY DEF Placed, TasksOf
  <2>6. ASSUME NEW d \in Opts, pace'[d] = "publish" PROVE Unseen(candidate[d])'
    <3>1. d # o /\ pace[d] = "publish" /\ candidate[d] \in Tasks \ {candidate[o]}
      BY <1>1, <2>1, <2>4, <2>5, <2>6
    <3> QED BY <2>1, <2>3, <3>1 DEF Chosen
  <2>7. ASSUME NEW t \in Tasks, cloneStatus[t] = "NOT_STARTED"
        PROVE  Unseen(t)' \/ (pace'[OptOf[t]] = "mark" /\ candidate[OptOf[t]] = t)
    <3>1. CASE t = candidate[o]
      BY <2>1, <2>4, <2>5, <3>1
    <3>2. CASE t # candidate[o]
      BY <1>1, <2>1, <2>3, <2>4, <2>7, <3>2 DEF Chosen
    <3> QED BY <3>1, <3>2
  <2> QED BY <2>1, <2>3, <2>6, <2>7 DEF Chosen
<1>5. CASE MarkProcessing(o)
  <2>1. /\ UNCHANGED <<taskQueue, prefetched, taken>>
        /\ pace[o] = "mark" /\ pace' = [pace EXCEPT ![o] = "depth"]
        /\ candidate' = [candidate EXCEPT ![o] = NoTask]
        /\ cloneStatus' = [cloneStatus EXCEPT ![candidate[o]] = "PROCESSING"]
    BY <1>5 DEF MarkProcessing, builderVars, history
  <2>2. Apart' /\ \A t : Unseen(t)' <=> Unseen(t)
    BY <2>1, UnseenKept
  <2>3. /\ pace'[o] = "depth"
        /\ \A d \in Opts \ {o} : pace'[d] = pace[d] /\ candidate'[d] = candidate[d]
    BY <1>1, <2>1
  <2>4. \A d \in Opts : pace'[d] = "publish" => Unseen(candidate[d])'
    BY <2>2, <2>3 DEF Chosen
  <2>5. ASSUME NEW t \in Tasks, cloneStatus'[t] = "NOT_STARTED"
        PROVE  Unseen(t) \/ (pace'[OptOf[t]] = "mark" /\ candidate'[OptOf[t]] = t)
    <3>1. t # candidate[o] /\ cloneStatus[t] = "NOT_STARTED"
      BY <1>1, <2>1, <2>5
    <3> QED BY <1>1, <2>3, <3>1 DEF Chosen
  <2> QED BY <2>2, <2>4, <2>5 DEF Chosen
<1> QED BY <1>2, <1>3, <1>4, <1>5 DEF Dispatcher

LEMMA SingleBuilder ==
    ASSUME TypeOK, Placed, Apart, Chosen, NEW b \in Builders, faults' = faults,
           \/ Register(b) \/ Deliver(b) \/ Disconnect(b) \/ Reconnect(b) \/ BuilderWork(b)
    PROVE  Apart' /\ Chosen'
<1>1. faults \in Nat /\ pace \in [Opts -> {"off", "depth", "select", "publish", "mark"}]
  BY DEF TypeOK, PhaseTypes, DispatchTypes
<1>2. /\ UNCHANGED <<candidate, cloneStatus>>
      /\ \A d \in Opts : pace'[d] \in {"publish", "mark"} \/ pace[d] \in {"publish", "mark"}
             => pace'[d] = pace[d]
  <2>1. CASE Register(b)
    BY <1>1, <2>1 DEF Register, rowVars
  <2>2. CASE Deliver(b) \/ Disconnect(b) \/ Reconnect(b) \/ BuilderWork(b)
    BY <2>2 DEF Deliver, Disconnect, Reconnect, BuilderWork, Begin, CloneFails, CloneSucceeds,
       ReportProcessing, FinishBuild, rowVars, dispVars
  <2> QED BY <2>1, <2>2
<1>3. Apart' /\ \A t \in Tasks : Unseen(t) => Unseen(t)'
  <2>1. CASE Deliver(b)
    BY <2>1, ApartDeliver
  <2>2. CASE Begin(b)
    <3>1. /\ prefetched[b] # NoTask /\ taskQueue' = taskQueue
          /\ prefetched' = [prefetched EXCEPT ![b] = NoTask]
          /\ taken' = [taken EXCEPT ![prefetched[b]] = @ + 1]
      BY <1>1, <2>2 DEF Begin, Fault
    <3> QED BY <3>1, ApartBegin
  <2>3. CASE Disconnect(b)
    BY <2>3, ApartReturn DEF Disconnect, history
  <2>4. CASE CloneFails(b) \/ FinishBuild(b)
    <3>1. Release(b) /\ taken' = taken
      BY <2>4 DEF CloneFails, FinishBuild
    <3>2. CASE UNCHANGED <<taskQueue, prefetched>>
      BY <3>1, <3>2, UnseenKept
    <3>3. CASE taskQueue' = Returned(b) /\ prefetched' = [prefetched EXCEPT ![b] = NoTask]
      BY <3>1, <3>3, ApartReturn
    <3> QED BY <3>1, <3>2, <3>3 DEF Release
  <2>5. CASE Register(b) \/ Reconnect(b) \/ CloneSucceeds(b) \/ ReportProcessing(b)
    <3>1. UNCHANGED <<taskQueue, prefetched, taken>>
      BY <2>5 DEF Register, Reconnect, CloneSucceeds, ReportProcessing, history
    <3> QED BY <3>1, UnseenKept
  <2> QED BY <2>1, <2>2, <2>3, <2>4, <2>5 DEF BuilderWork
<1> QED BY <1>2, <1>3, ChosenKept

(* A report on a clone never turns a row back to NOT_STARTED.              *)
LEMMA SingleConsumers ==
    ASSUME TypeOK, Placed, Apart, Chosen,
           IngestClone \/ IngestBuild \/ FailSiblings \/ UNCHANGED vars
    PROVE  Apart' /\ Chosen'
<1>1. /\ UNCHANGED <<taskQueue, prefetched, taken, pace, candidate>>
  BY DEF IngestClone, IngestBuild, FailSiblings, vars, builderVars, dispVars, history
<1>2. Apart' /\ \A t : Unseen(t)' <=> Unseen(t)
  BY <1>1, UnseenKept
<1>3. \A t \in Tasks : cloneStatus'[t] = "NOT_STARTED" => cloneStatus[t] = "NOT_STARTED"
  <2>1. CASE IngestClone
    <3>1. Head(cloneQueue) \in CloneReport(Tasks)
      BY <2>1, HeadTailProperties DEF IngestClone, TypeOK, FlowOf
    <3> QED BY <2>1, <3>1 DEF IngestClone, CloneReport, TypeOK, RowTypes
  <2>2. CASE IngestBuild \/ FailSiblings \/ UNCHANGED vars
    BY <2>2 DEF IngestBuild, FailSiblings, vars, rowVars
  <2> QED BY <2>1, <2>2
<1>4. \A o \in Opts : pace'[o] = "publish" => Unseen(candidate[o])'
  BY <1>1, <1>2 DEF Chosen
<1> QED BY <1>1, <1>2, <1>3, <1>4 DEF Chosen

LEMMA SingleStep == SingleInv /\ [Next]_vars => SingleInv'
<1> SUFFICES ASSUME SingleInv, [Next]_vars PROVE SingleInv'
  OBVIOUS
<1>1. TypeOK /\ Placed /\ TypeOK' /\ Placed'
  BY TypeStep, PlacedStep DEF SingleInv
<1>2. faults \in Nat
  BY <1>1 DEF TypeOK, PhaseTypes
<1>3. ASSUME faults' = 0 PROVE Apart' /\ Chosen'
  <2>1. ~Fault
    BY <1>2, <1>3 DEF Fault
  <2>2. faults' = faults
    BY <1>3, <2>1 DEF Next, Dispatcher, BuilderWork, DispatcherFails, CheckDepth, Select, Starve,
       PublishTask, MarkProcessing, Register, Deliver, Disconnect, Reconnect, Begin, CloneFails,
       CloneSucceeds, ReportProcessing, FinishBuild, ReportClone, ReportBuild, HandlerRaises,
       BuilderCrashes, IngestClone, IngestBuild, FailSiblings, SiblingsRaise, AckClone, AckBuild,
       CoordinatorRestarts, NoFault, vars
  <2>3. Apart /\ Chosen
    BY <1>3, <2>2 DEF SingleInv
  <2>4. /\ \A o \in Opts : ~DispatcherFails(o)
        /\ \A b \in Builders : ~HandlerRaises(b) /\ ~BuilderCrashes(b)
        /\ ~SiblingsRaise /\ ~CoordinatorRestarts
    BY <2>1 DEF DispatcherFails, HandlerRaises, BuilderCrashes, SiblingsRaise, CoordinatorRestarts
  <2> QED BY <1>1, <2>2, <2>3, <2>4, SingleDispatcher, SingleBuilder, SingleConsumers DEF Next
<1> QED BY <1>1, <1>3 DEF SingleInv

LEMMA SingleInit == Init => SingleInv
<1> SUFFICES ASSUME Init PROVE SingleInv
  OBVIOUS
<1>1. TypeOK /\ Placed
  BY TypeInit, PlacedInit
<1>2. \A t \in Tasks : Unseen(t)
  BY SingleTypes, <1>1 DEF Init, Unseen, Queued, Held
<1>3. Apart
  <2>1. /\ \A o \in Opts : taskQueue[o] = <<>> /\ 1..Len(<<>>) = {}
        /\ \A b \in Builders : prefetched[b] = NoTask
        /\ \A t \in Tasks : taken[t] = 0
    BY DEF Init
  <2>2. \A o \in Opts : Once(taskQueue[o])
    BY <2>1 DEF Once
  <2> QED BY <1>2, <2>1, <2>2 DEF Apart, Unseen
<1>4. Chosen
  BY <1>2 DEF Init, Chosen
<1> QED BY <1>1, <1>3, <1>4 DEF SingleInv

(* While nothing fails no task is begun twice, for any number of tasks,    *)
(* options and builders, however often a builder hands its prefetched task *)
(* back (dispatch_step, next_dispatchable).                                *)
THEOREM SingleBuildHolds == Spec => []SingleBuildWithoutFaults
<1>1. SingleInv => SingleBuildWithoutFaults
  BY DEF SingleInv, Apart, SingleBuildWithoutFaults
<1> QED BY <1>1, SingleInit, SingleStep, PTL DEF Spec

-----------------------------------------------------------------------------
(* The backlog of an option: its queue and what its builders may hand back.*)

Holding(o) == {b \in BuildersOf(o) : prefetched[b] # NoTask}
Load(o) == Len(taskQueue[o]) + Cardinality(Holding(o))
Room(o) == Threshold + Cardinality(BuildersOf(o)) + faults

(* A dispatcher past its depth check found the queue within the threshold, *)
(* and whatever came back since had been in its builders' hands then: the  *)
(* load itself only grows when the dispatcher publishes.                   *)
LoadInv ==
    \A o \in Opts :
        /\ Load(o) <= Room(o) + 1
        /\ pace[o] \in {"select", "publish"} => Load(o) <= Room(o)

LEMMA LoadTypes ==
    ASSUME TypeOK, IsFiniteSet(Builders), NEW o \in Opts
    PROVE  /\ IsFiniteSet(BuildersOf(o)) /\ Cardinality(BuildersOf(o)) \in Nat
           /\ IsFiniteSet(Holding(o)) /\ Cardinality(Holding(o)) \in Nat
           /\ Cardinality(Holding(o)) <= Cardinality(BuildersOf(o))
           /\ Len(taskQueue[o]) \in Nat
           /\ Threshold \in Nat /\ faults \in Nat
<1>1. IsFiniteSet(BuildersOf(o))
  BY FS_Subset DEF BuildersOf
<1>2. IsFiniteSet(Holding(o)) /\ Cardinality(Holding(o)) <= Cardinality(BuildersOf(o))
  BY <1>1, FS_Subset DEF Holding
<1>3. Cardinality(BuildersOf(o)) \in Nat /\ Cardinality(Holding(o)) \in Nat
  BY <1>1, <1>2, FS_CardinalityType
<1>4. Len(taskQueue[o]) \in Nat
  BY DEF TypeOK, FlowOf
<1>5. Threshold \in Nat /\ faults \in Nat
  BY DispatchAssumption DEF TypeOK, PhaseTypes
<1> QED BY <1>1, <1>2, <1>3, <1>4, <1>5

(* What builder b holds is what its option's builders hold, with or        *)
(* without b's own.                                                        *)
LEMMA HoldingChange ==
    ASSUME TypeOK, IsFiniteSet(Builders), NEW b \in Builders,
           \A c \in Builders \ {b} : prefetched'[c] = prefetched[c]
    PROVE  /\ \A o \in Opts \ {Serves[b]} : Holding(o)' = Holding(o)
           /\ prefetched[b] = NoTask /\ prefetched'[b] # NoTask =>
                 Cardinality(Holding(Serves[b])') = Cardinality(Holding(Serves[b])) + 1
           /\ prefetched[b] # NoTask /\ prefetched'[b] = NoTask =>
                 Cardinality(Holding(Serves[b])') = Cardinality(Holding(Serves[b])) - 1
<1> DEFINE o == Serves[b]
<1>1. o \in Opts /\ b \in BuildersOf(o)
  BY DispatchAssumption DEF BuildersOf
<1>2. IsFiniteSet(Holding(o))
  BY <1>1, LoadTypes
<1>3. \A p \in Opts \ {o} : Holding(p)' = Holding(p)
  BY DEF Holding, BuildersOf
<1>4. ASSUME prefetched[b] = NoTask, prefetched'[b] # NoTask
      PROVE  Cardinality(Holding(o)') = Cardinality(Holding(o)) + 1
  <2>1. Holding(o)' = Holding(o) \cup {b} /\ b \notin Holding(o)
    BY <1>1, <1>4 DEF Holding, BuildersOf
  <2> QED BY <1>2, <2>1, FS_AddElement
<1>5. ASSUME prefetched[b] # NoTask, prefetched'[b] = NoTask
      PROVE  Cardinality(Holding(o)') = Cardinality(Holding(o)) - 1
  <2>1. Holding(o)' = Holding(o) \ {b} /\ b \in Holding(o)
    BY <1>1, <1>5 DEF Holding, BuildersOf
  <2> QED BY <1>2, <2>1, FS_RemoveElement
<1> QED BY <1>3, <1>4, <1>5

(* A delivery, a task handed back and a task begun add nothing to a load.  *)
LEMMA LoadKept ==
    ASSUME TypeOK, IsFiniteSet(Builders), NEW b \in Builders,
           \/ Deliver(b)
           \/ /\ taskQueue' = Returned(b) \/ taskQueue' = taskQueue
              /\ prefetched' = [prefetched EXCEPT ![b] = NoTask]
    PROVE  \A o \in Opts : Load(o)' \in Int /\ Load(o)' <= Load(o)
<1> DEFINE s == Serves[b]
<1>1. s \in Opts /\ taskQueue \in [Opts -> Seq(Tasks)] /\ taskQueue[s] \in Seq(Tasks)
  BY DispatchAssumption DEF TypeOK, FlowOf
<1>2. prefetched \in [Builders -> Tasks \union {NoTask}]
  BY DEF TypeOK, FlowOf
<1>3. \A o \in Opts : Len(taskQueue[o]) \in Nat /\ Cardinality(Holding(o)) \in Nat
  BY LoadTypes
<1>4. CASE Deliver(b)
  <2>1. /\ Len(taskQueue'[s]) = Len(taskQueue[s]) - 1
        /\ Head(taskQueue[s]) \in Tasks
    BY <1>1, <1>4, HeadTailProperties DEF Deliver
  <2>2. \A o \in Opts \ {s} : taskQueue'[o] = taskQueue[o]
    BY <1>1, <1>4 DEF Deliver
  <2>3. prefetched[b] = NoTask /\ prefetched'[b] = Head(taskQueue[s])
    BY <1>2, <1>4 DEF Deliver
  <2>4. \A c \in Builders \ {b} : prefetched'[c] = prefetched[c]
    BY <1>2, <1>4 DEF Deliver
  <2>5. prefetched'[b] # NoTask
    BY <2>1, <2>3, DispatchAssumption
  <2>6. Cardinality(Holding(s)') = Cardinality(Holding(s)) + 1
    BY <2>3, <2>4, <2>5, HoldingChange
  <2>7. \A o \in Opts \ {s} : Holding(o)' = Holding(o)
    BY <2>4, HoldingChange
  <2>8. Load(s)' = Load(s)
    <3>1. Load(s)' = Len(taskQueue'[s]) + Cardinality(Holding(s)')
      BY DEF Load
    <3>2. Len(taskQueue[s]) \in Nat /\ Cardinality(Holding(s)) \in Nat
      BY <1>1, <1>3
    <3>3. Load(s) = Len(taskQueue[s]) + Cardinality(Holding(s))
      BY DEF Load
    <3>4. Len(taskQueue'[s]) = Len(taskQueue[s]) - 1
      BY <2>1
    <3>5. \A l, c \in Nat : (l - 1) + (c + 1) = l + c
      OBVIOUS
    <3>6. Load(s)' = (Len(taskQueue[s]) - 1) + (Cardinality(Holding(s)) + 1)
      BY <2>6, <3>1, <3>4, Zenon
    <3> QED BY <3>2, <3>3, <3>5, <3>6, Zenon
  <2>9. \A o \in Opts \ {s} : Load(o)' = Load(o)
    BY <2>2, <2>7 DEF Load
  <2>10. \A o \in Opts : Load(o) \in Int
    BY <1>3 DEF Load
  <2> QED BY <2>8, <2>9, <2>10
<1>5. CASE /\ taskQueue' = Returned(b) \/ taskQueue' = taskQueue
           /\ prefetched' = [prefetched EXCEPT ![b] = NoTask]
  <2>1. \A c \in Builders \ {b} : prefetched'[c] = prefetched[c]
    BY <1>2, <1>5
  <2>2. prefetched'[b] = NoTask
    BY <1>2, <1>5
  <2>3. CASE prefetched[b] = NoTask
    <3>1. taskQueue' = taskQueue /\ prefetched' = prefetched
      BY <1>2, <1>5, <2>3 DEF Returned
    <3>2. \A o \in Opts : Load(o)' = Load(o)
      BY <3>1 DEF Load, Holding
    <3> QED BY <1>3, <3>2 DEF Load
  <2>4. CASE prefetched[b] # NoTask
    <3>1. Cardinality(Holding(s)') = Cardinality(Holding(s)) - 1
      BY <2>1, <2>2, <2>4, HoldingChange
    <3>2. \A o \in Opts \ {s} : Holding(o)' = Holding(o)
      BY <2>1, HoldingChange
    <3>3. \A o \in Opts \ {s} : taskQueue'[o] = taskQueue[o]
      BY <1>1, <1>5 DEF Returned
    <3>4. Len(taskQueue'[s]) \in {Len(taskQueue[s]), Len(taskQueue[s]) + 1}
      <4>1. CASE taskQueue' = taskQueue
        BY <4>1
      <4>2. CASE taskQueue' = Returned(b)
        <5>1. taskQueue'[s] = <<prefetched[b]>> \o taskQueue[s]
          BY <1>1, <2>4, <4>2 DEF Returned
        <5>2. <<prefetched[b]>> \in Seq(Tasks) /\ Len(<<prefetched[b]>>) = 1
          BY <1>2, <2>4
        <5>3. Len(taskQueue'[s]) = 1 + Len(taskQueue[s])
          BY <1>1, <5>1, <5>2, ConcatProperties
        <5> QED BY <1>1, <1>3, <5>3
      <4> QED BY <1>5, <4>1, <4>2
    <3>5. Load(s)' \in Int /\ Load(s)' <= Load(s)
      BY <1>1, <1>3, <3>1, <3>4 DEF Load
    <3>6. \A o \in Opts \ {s} : Load(o)' = Load(o)
      BY <3>2, <3>3 DEF Load
    <3>7. \A o \in Opts : Load(o) \in Nat
      BY <1>3 DEF Load
    <3> QED BY <3>5, <3>6, <3>7
  <2> QED BY <2>3, <2>4
<1> QED BY <1>4, <1>5

LEMMA LoadStep ==
    ASSUME TypeOK, LoadInv, IsFiniteSet(Builders), [Next]_vars
    PROVE  LoadInv'
<1>1. \A o \in Opts : /\ Load(o) \in Nat /\ Room(o) \in Nat
                      /\ Len(taskQueue[o]) \in Nat
                      /\ Cardinality(Holding(o)) \in Nat /\ Cardinality(BuildersOf(o)) \in Nat
                      /\ Threshold \in Nat /\ faults \in Nat
                      /\ Cardinality(Holding(o)) <= Cardinality(BuildersOf(o))
  BY LoadTypes DEF Load, Room
<1>2. /\ pace \in [Opts -> {"off", "depth", "select", "publish", "mark"}]
      /\ taskQueue \in [Opts -> Seq(Tasks)]
  BY DEF TypeOK, DispatchTypes, FlowOf
<1>3. ASSUME \A o \in Opts : Load(o)' \in Int /\ Load(o)' <= Load(o),
             faults' = faults \/ faults' = faults + 1,
             \A o \in Opts : pace'[o] \in {"select", "publish"} => pace[o] \in {"select", "publish"}
      PROVE  LoadInv'
  <2> SUFFICES ASSUME NEW o \in Opts
               PROVE  /\ Load(o)' <= Room(o)' + 1
                      /\ pace'[o] \in {"select", "publish"} => Load(o)' <= Room(o)'
    BY DEF LoadInv
  <2>1. Room(o)' = Threshold + Cardinality(BuildersOf(o)) + faults'
    BY DEF Room, BuildersOf
  <2>2. Room(o)' \in Nat /\ Room(o) <= Room(o)'
    BY <1>1, <1>3, <2>1 DEF Room
  <2> QED BY <1>1, <1>3, <2>2 DEF LoadInv
<1>4. ASSUME UNCHANGED <<taskQueue, prefetched>>
      PROVE  \A o \in Opts : Load(o)' \in Int /\ Load(o)' <= Load(o)
  <2>1. \A o \in Opts : Load(o)' = Load(o)
    BY <1>4 DEF Load, Holding
  <2> QED BY <1>1, <2>1
<1>5. ASSUME NEW d \in Opts, PublishTask(d) PROVE LoadInv'
  <2>1. \A o \in Opts : Holding(o)' = Holding(o)
    BY <1>5 DEF PublishTask, builderVars, Holding
  <2>2. \A o \in Opts \ {d} : Load(o)' = Load(o) /\ pace'[o] = pace[o]
    BY <1>2, <1>5, <2>1 DEF PublishTask, Load
  <2>3. pace[d] = "publish" /\ pace'[d] = "mark"
    BY <1>2, <1>5 DEF PublishTask
  <2>4. candidate[d] \in Tasks /\ taskQueue[d] \in Seq(Tasks)
    BY <1>2, <2>3 DEF TypeOK, DispatchTypes
  <2>5. \/ faults' = faults /\ Load(d)' = Load(d) + 1
        \/ faults' = faults + 1 /\ Load(d)' = Load(d) + 2
    <3>1. CASE NoFault /\ taskQueue' = [taskQueue EXCEPT ![d] = Append(@, candidate[d])]
      <4>1. Len(taskQueue'[d]) = Len(taskQueue[d]) + 1
        BY <1>2, <2>4, <3>1
      <4> QED BY <1>1, <2>1, <3>1, <4>1 DEF NoFault, Load
    <3>2. CASE Fault /\ taskQueue' = [taskQueue EXCEPT ![d] = Twice(@, candidate[d])]
      <4>1. Len(taskQueue'[d]) = Len(taskQueue[d]) + 2
        BY <1>2, <2>4, <3>2 DEF Twice
      <4> QED BY <1>1, <2>1, <3>2, <4>1 DEF Fault, Load
    <3> QED BY <1>5, <3>1, <3>2 DEF PublishTask
  <2>6. \A o \in Opts : Room(o)' = Threshold + Cardinality(BuildersOf(o)) + faults'
    BY DEF Room, BuildersOf
  <2>7. Load(d)' <= Room(d)' + 1
    <3>1. /\ Load(d) \in Nat /\ Room(d) \in Nat /\ Load(d) <= Room(d)
          /\ Room(d) = Threshold + Cardinality(BuildersOf(d)) + faults
          /\ Threshold \in Nat /\ Cardinality(BuildersOf(d)) \in Nat /\ faults \in Nat
      BY <1>1, <2>3 DEF LoadInv, Room
    <3>2. Room(d)' = Threshold + Cardinality(BuildersOf(d)) + faults'
      BY <2>6
    <3> QED BY <2>5, <3>1, <3>2
  <2>8. ASSUME NEW o \in Opts \ {d}
        PROVE  /\ Load(o)' <= Room(o)' + 1
               /\ pace'[o] \in {"select", "publish"} => Load(o)' <= Room(o)'
    <3>1. Room(o)' \in Nat /\ Room(o) <= Room(o)'
      <4>1. /\ Room(o) = Threshold + Cardinality(BuildersOf(o)) + faults
            /\ Room(o)' = Threshold + Cardinality(BuildersOf(o)) + faults'
        BY <2>6 DEF Room
      <4>2. faults' = faults \/ faults' = faults + 1
        BY <2>5
      <4>3. Threshold \in Nat /\ Cardinality(BuildersOf(o)) \in Nat /\ faults \in Nat
        BY <1>1
      <4> QED BY <4>1, <4>2, <4>3
    <3>2. Load(o)' = Load(o) /\ pace'[o] = pace[o]
      BY <2>2
    <3>3. /\ Load(o) \in Nat /\ Room(o) \in Nat /\ Load(o) <= Room(o) + 1
          /\ pace[o] \in {"select", "publish"} => Load(o) <= Room(o)
      BY <1>1 DEF LoadInv
    <3> QED BY <3>1, <3>2, <3>3
  <2> SUFFICES ASSUME NEW o \in Opts
               PROVE  /\ Load(o)' <= Room(o)' + 1
                      /\ pace'[o] \in {"select", "publish"} => Load(o)' <= Room(o)'
    BY DEF LoadInv
  <2>9. CASE o = d
    BY <2>3, <2>7, <2>9
  <2>10. CASE o # d
    BY <2>8, <2>10
  <2> QED BY <2>9, <2>10
<1>6. ASSUME NEW d \in Opts, CheckDepth(d) PROVE LoadInv'
  <2>1. UNCHANGED <<taskQueue, prefetched, faults>> /\ Len(taskQueue[d]) <= Threshold
    BY <1>6 DEF CheckDepth, builderVars
  <2>2. \A o \in Opts : Load(o)' = Load(o) /\ Room(o)' = Room(o)
    BY <2>1 DEF Load, Holding, Room, BuildersOf
  <2>3. Load(d) <= Room(d)
    BY <1>1, <2>1 DEF Load, Room
  <2>4. \A o \in Opts \ {d} : pace'[o] = pace[o]
    BY <1>2, <1>6 DEF CheckDepth
  <2> QED BY <2>2, <2>3, <2>4 DEF LoadInv
<1>7. ASSUME NEW d \in Opts, Select(d) \/ Starve(d) \/ MarkProcessing(d) \/ DispatcherFails(d)
      PROVE  LoadInv'
  <2>1. /\ UNCHANGED <<taskQueue, prefetched>>
        /\ faults' = faults \/ faults' = faults + 1
        /\ \A o \in Opts : pace'[o] \in {"select", "publish"} => pace[o] \in {"select", "publish"}
    BY <1>2, <1>7 DEF Select, Starve, MarkProcessing, DispatcherFails, Fault, builderVars
  <2> QED BY <1>3, <1>4, <2>1
<1>8. ASSUME NEW b \in Builders, Deliver(b) PROVE LoadInv'
  <2>1. \A o \in Opts : Load(o)' \in Int /\ Load(o)' <= Load(o)
    BY <1>8, LoadKept
  <2> QED BY <1>3, <1>8, <2>1 DEF Deliver, dispVars
<1>9. ASSUME NEW b \in Builders, \/ Disconnect(b) \/ Begin(b) \/ BuilderCrashes(b)
      PROVE  LoadInv'
  <2>1. /\ taskQueue' = Returned(b) \/ taskQueue' = taskQueue
        /\ prefetched' = [prefetched EXCEPT ![b] = NoTask]
        /\ faults' = faults \/ faults' = faults + 1
        /\ pace' = pace
    BY <1>9 DEF Disconnect, Begin, BuilderCrashes, Fault, NoFault, dispVars
  <2>2. \A o \in Opts : Load(o)' \in Int /\ Load(o)' <= Load(o)
    BY <2>1, LoadKept
  <2> QED BY <1>3, <2>1, <2>2
<1>10. ASSUME NEW b \in Builders, CloneFails(b) \/ FinishBuild(b) PROVE LoadInv'
  <2>1. /\ faults' = faults \/ faults' = faults + 1
        /\ pace' = pace
        /\ Release(b)
    BY <1>10 DEF CloneFails, FinishBuild, ReportClone, ReportBuild, Fault, NoFault, dispVars
  <2>2. \A o \in Opts : Load(o)' \in Int /\ Load(o)' <= Load(o)
    <3>1. CASE UNCHANGED <<taskQueue, prefetched>>
      BY <1>4, <3>1
    <3>2. CASE taskQueue' = Returned(b) /\ prefetched' = [prefetched EXCEPT ![b] = NoTask]
      BY <3>2, LoadKept
    <3> QED BY <2>1, <3>1, <3>2 DEF Release
  <2> QED BY <1>3, <2>1, <2>2
<1>11. ASSUME NEW b \in Builders,
              Register(b) \/ Reconnect(b) \/ CloneSucceeds(b) \/ ReportProcessing(b) \/ HandlerRaises(b)
       PROVE  LoadInv'
  <2>1. /\ UNCHANGED <<taskQueue, prefetched>>
        /\ faults' = faults \/ faults' = faults + 1
    BY <1>11 DEF Register, Reconnect, CloneSucceeds, ReportProcessing, HandlerRaises,
       ReportClone, ReportBuild, Fault, NoFault
  <2>2. \A o \in Opts : pace'[o] \in {"select", "publish"} => pace[o] \in {"select", "publish"}
    BY <1>2, <1>11 DEF Register, Reconnect, CloneSucceeds, ReportProcessing, HandlerRaises, dispVars
  <2> QED BY <1>3, <1>4, <2>1, <2>2
<1>12. ASSUME \/ IngestClone \/ IngestBuild \/ FailSiblings \/ SiblingsRaise
              \/ CoordinatorRestarts \/ UNCHANGED vars
       PROVE  LoadInv'
  <2>1. /\ UNCHANGED <<taskQueue, prefetched>>
        /\ faults' = faults \/ faults' = faults + 1
        /\ \A o \in Opts : pace'[o] \in {"select", "publish"} => pace[o] \in {"select", "publish"}
    BY <1>12 DEF IngestClone, IngestBuild, FailSiblings, SiblingsRaise, CoordinatorRestarts,
       AckClone, AckBuild, Fault, NoFault, builderVars, dispVars, vars
  <2> QED BY <1>3, <1>4, <2>1
<1> QED BY <1>5, <1>6, <1>7, <1>8, <1>9, <1>10, <1>11, <1>12
    DEF Next, Dispatcher, BuilderWork

LEMMA LoadInit == ASSUME IsFiniteSet(Builders), Init PROVE TypeOK /\ LoadInv
<1>1. TypeOK
  BY TypeInit
<1>2. ASSUME NEW o \in Opts PROVE Load(o) = 0
  <2>1. Holding(o) = {} /\ taskQueue[o] = <<>>
    BY DEF Init, Holding, BuildersOf
  <2> QED BY <2>1, FS_EmptySet DEF Load
<1>3. ASSUME NEW o \in Opts PROVE Room(o) \in Nat
  BY <1>1, <1>3, LoadTypes DEF Room
<1> QED BY <1>1, <1>2, <1>3 DEF LoadInv

(* With finitely many builders an option's backlog exceeds the threshold   *)
(* by one message, what its builders can hand back, and the duplicates, in *)
(* every instance and whatever fails.                                      *)
THEOREM BacklogBoundedHolds == ASSUME IsFiniteSet(Builders) PROVE Spec => []BacklogBounded
<1>1. Init => TypeOK /\ LoadInv
  BY LoadInit
<1>2. TypeOK /\ LoadInv /\ [Next]_vars => TypeOK' /\ LoadInv'
  BY LoadStep, TypeStep
<1>3. TypeOK /\ LoadInv => BacklogBounded
  <2> SUFFICES ASSUME TypeOK, LoadInv, NEW o \in Opts
               PROVE  Load(o) <= Threshold + 1 + Cardinality(BuildersOf(o)) + faults
    BY DEF BacklogBounded, Load, Holding
  <2>1. Room(o) + 1 = Threshold + 1 + Cardinality(BuildersOf(o)) + faults
    BY LoadTypes DEF Room
  <2> QED BY <2>1 DEF LoadInv
<1> QED BY <1>1, <1>2, <1>3, PTL DEF Spec

-----------------------------------------------------------------------------
(* TaskDispatch implements TaskLedger, for any rows, options, builders and *)
(* faults.  What the ledger asks for beyond the invariants of              *)
(* TaskDispatch_proofs is that the reports of one attempt are applied in   *)
(* the order of their writing, so the inductive invariant follows the one  *)
(* attempt of a task through its builder and the queue `build`.            *)
NoneOf(queue, t) == \A i \in 1..Len(queue) : queue[i].task # t

OnlyStatus(queue, t, status) ==
    \A i \in 1..Len(queue) : queue[i].task = t => queue[i].status = status

(* Behind a final report on t come only reports of the same result. *)
Ordered(queue, t) ==
    \A i, j \in 1..Len(queue) :
        i < j /\ queue[i].task = t /\ queue[j].task = t /\ queue[i].status # "PROCESSING"
            => queue[j].status = queue[i].status

WorksOn(b, t) == Working(b) /\ working[b] = t

Untouched(t) ==
    /\ \A b \in Builders : ~WorksOn(b, t)
    /\ NoneOf(buildQueue, t)
    /\ t \notin built \cup broken \cup uncloned \cup dropped

(* A result that no sibling's failure can have written. *)
SiblingFailed(t) == \E s \in Tasks \ {t} : RepoOf[s] = RepoOf[t] /\ s \in broken
OwnResult(t) == Settled(t) /\ ~(buildStatus[t] = "FAILED" /\ SiblingFailed(t))

(* The attempt of a task that was begun once.                              *)
OneWorker(t) == \A b, c \in Builders : WorksOn(b, t) /\ WorksOn(c, t) => b = c

WhileWorking(t) ==
    \A b \in Builders : WorksOn(b, t) =>
        /\ ~OwnResult(t)
        /\ OnlyStatus(buildQueue, t, "PROCESSING")
        /\ phase[b] # "build" => NoneOf(buildQueue, t)

Attempt(t) ==
    /\ OneWorker(t)
    /\ WhileWorking(t)
    /\ Ordered(buildQueue, t)
    /\ OwnResult(t) => OnlyStatus(buildQueue, t, buildStatus[t])

Attempts ==
    \A t \in Tasks : /\ taken[t] = 0 => Untouched(t)
                     /\ taken[t] <= 1 => Attempt(t)

LedgerInv ==
    /\ PublishInv
    /\ CauseInv
    /\ Attempts

-----------------------------------------------------------------------------
(* The queue `build`. *)

(* Taking the head off leaves what was said of all reports.                *)
LEMMA QueueTail ==
    ASSUME NEW S, NEW queue \in Seq(S), queue # <<>>, NEW t, NEW status
    PROVE  /\ NoneOf(queue, t) => NoneOf(Tail(queue), t)
           /\ OnlyStatus(queue, t, status) => OnlyStatus(Tail(queue), t, status)
           /\ Ordered(queue, t) => Ordered(Tail(queue), t)
<1>1. /\ Len(Tail(queue)) = Len(queue) - 1
      /\ \A i \in 1..Len(Tail(queue)) : Tail(queue)[i] = queue[i + 1]
      /\ \A i \in 1..Len(Tail(queue)) : i + 1 \in 1..Len(queue)
      /\ Len(queue) \in Nat
  BY HeadTailProperties
<1> DEFINE rest == Tail(queue)
<1> HIDE DEF rest
<1>2. /\ \A i \in 1..Len(rest) : rest[i] = queue[i + 1] /\ i + 1 \in 1..Len(queue)
      /\ Len(rest) \in Int
  BY <1>1 DEF rest
<1>3. NoneOf(queue, t) => NoneOf(rest, t)
  BY <1>2 DEF NoneOf
<1>4. OnlyStatus(queue, t, status) => OnlyStatus(rest, t, status)
  BY <1>2 DEF OnlyStatus
<1>5. ASSUME Ordered(queue, t) PROVE Ordered(rest, t)
  <2> SUFFICES ASSUME NEW i \in 1..Len(rest), NEW j \in 1..Len(rest), i < j,
                      rest[i].task = t, rest[j].task = t, rest[i].status # "PROCESSING"
               PROVE  rest[j].status = rest[i].status
    BY DEF Ordered
  <2>1. /\ i + 1 < j + 1 /\ i + 1 \in 1..Len(queue) /\ j + 1 \in 1..Len(queue)
        /\ rest[i] = queue[i + 1] /\ rest[j] = queue[j + 1]
    BY <1>2
  <2>2. PICK k \in 1..Len(queue), l \in 1..Len(queue) :
           k < l /\ rest[i] = queue[k] /\ rest[j] = queue[l]
    BY <2>1
  <2> QED BY <1>5, <2>2 DEF Ordered
<1> QED BY <1>3, <1>4, <1>5 DEF rest

(* A report on another task, once or twice, changes nothing about t.       *)
LEMMA QueueOther ==
    ASSUME NEW S, NEW queue \in Seq(S), NEW m \in S, NEW t, m.task # t,
           NEW longer \in {Append(queue, m), Twice(queue, m)}
    PROVE  /\ NoneOf(queue, t) => NoneOf(longer, t)
           /\ \A status : OnlyStatus(queue, t, status) => OnlyStatus(longer, t, status)
           /\ Ordered(queue, t) => Ordered(longer, t)
<1>1. /\ \A i \in 1..Len(longer) : (i \in 1..Len(queue) /\ longer[i] = queue[i]) \/ longer[i] = m
      /\ Len(longer) \in Nat
  <2>1. ASSUME NEW q \in Seq(S)
        PROVE  /\ Append(q, m) \in Seq(S) /\ Len(Append(q, m)) = Len(q) + 1
               /\ \A i \in 1..Len(q) : Append(q, m)[i] = q[i]
               /\ Append(q, m)[Len(q) + 1] = m /\ Len(q) \in Nat
    BY AppendProperties
  <2>2. ASSUME NEW q \in Seq(S)
        PROVE  /\ Append(q, m) \in Seq(S) /\ Len(Append(q, m)) \in Nat
               /\ \A i \in 1..Len(Append(q, m)) :
                     (i \in 1..Len(q) /\ Append(q, m)[i] = q[i]) \/ Append(q, m)[i] = m
    <3>1. PICK n \in Nat, a \in Seq(S) : n = Len(q) /\ a = Append(q, m)
      BY <2>1
    <3>2. a \in Seq(S) /\ Len(a) = n + 1 /\ (\A i \in 1..n : a[i] = q[i]) /\ a[n + 1] = m
      BY <2>1, <3>1
    <3> QED BY <3>1, <3>2
  <2>3. CASE longer = Append(queue, m)
    BY <2>2, <2>3
  <2>4. CASE longer = Twice(queue, m)
    <3>1. PICK q \in Seq(S) : q = Append(queue, m) /\ longer = Append(q, m)
      BY <2>2, <2>4 DEF Twice
    <3> QED BY <2>2, <3>1
  <2> QED BY <2>3, <2>4
<1>2. NoneOf(queue, t) => NoneOf(longer, t)
  BY <1>1 DEF NoneOf
<1>3. \A status : OnlyStatus(queue, t, status) => OnlyStatus(longer, t, status)
  BY <1>1 DEF OnlyStatus
<1>4. Ordered(queue, t) => Ordered(longer, t)
  BY <1>1 DEF Ordered
<1> QED BY <1>2, <1>3, <1>4

(* Nor does one more report of the status all reports on t have; and       *)
(* behind reports that a build has begun, any is in order.                 *)
LEMMA QueueMore ==
    ASSUME NEW S, NEW queue \in Seq(S), NEW m \in S,
           NEW longer \in {Append(queue, m), Twice(queue, m)}
    PROVE  /\ OnlyStatus(queue, m.task, m.status) => OnlyStatus(longer, m.task, m.status)
           /\ OnlyStatus(queue, m.task, "PROCESSING") => Ordered(longer, m.task)
<1>1. /\ \A i \in 1..Len(longer) : IF i <= Len(queue) THEN longer[i] = queue[i] ELSE longer[i] = m
      /\ Len(longer) \in Nat /\ Len(queue) \in Nat
  BY DEF Twice
<1>2. OnlyStatus(queue, m.task, m.status) => OnlyStatus(longer, m.task, m.status)
  BY <1>1 DEF OnlyStatus
<1>3. ASSUME OnlyStatus(queue, m.task, "PROCESSING") PROVE Ordered(longer, m.task)
  <2> SUFFICES ASSUME NEW i \in 1..Len(longer), NEW j \in 1..Len(longer), i < j,
                      longer[i].task = m.task, longer[i].status # "PROCESSING"
               PROVE  longer[j].status = longer[i].status
    BY DEF Ordered
  <2>1. ~(i <= Len(queue))
    BY <1>1, <1>3 DEF OnlyStatus
  <2>2. ~(j <= Len(queue))
    BY <1>1, <2>1
  <2> QED BY <1>1, <2>1, <2>2
<1> QED BY <1>2, <1>3

(* So it is when the consumer acknowledged the head, or could not.         *)
LEMMA StillQueued ==
    ASSUME TypeOK, NEW t,
           buildQueue' = buildQueue \/ (buildQueue # <<>> /\ buildQueue' = Tail(buildQueue))
    PROVE  /\ NoneOf(buildQueue, t) => NoneOf(buildQueue', t)
           /\ \A status : OnlyStatus(buildQueue, t, status) => OnlyStatus(buildQueue', t, status)
           /\ Ordered(buildQueue, t) => Ordered(buildQueue', t)
<1>1. CASE buildQueue' = buildQueue
  BY <1>1
<1>2. CASE buildQueue # <<>> /\ buildQueue' = Tail(buildQueue)
  <2>1. buildQueue \in Seq(BuildReport(Tasks))
    BY DEF TypeOK, FlowOf
  <2>2. ASSUME NEW status, OnlyStatus(buildQueue, t, status)
        PROVE  OnlyStatus(buildQueue', t, status)
    BY <1>2, <2>1, <2>2, QueueTail
  <2>3. /\ NoneOf(buildQueue, t) => NoneOf(buildQueue', t)
        /\ Ordered(buildQueue, t) => Ordered(buildQueue', t)
    BY <1>2, <2>1, QueueTail
  <2> QED BY <2>2, <2>3
<1> QED BY <1>1, <1>2

-----------------------------------------------------------------------------
(* While the rows stay, a result does not become the task's own.           *)
LEMMA ResultsKept ==
    ASSUME buildStatus' = buildStatus, broken \subseteq broken'
    PROVE  \A t \in Tasks : OwnResult(t)' => OwnResult(t) /\ buildStatus'[t] = buildStatus[t]
BY DEF OwnResult, Settled, SiblingFailed

(* Steps that begin no task, report no build and record no result keep the *)
(* attempts.                                                               *)
LEMMA AttemptsKept ==
    ASSUME TypeOK, Attempts, taken' = taken,
           \A t \in Tasks : OwnResult(t)' => OwnResult(t) /\ buildStatus'[t] = buildStatus[t],
           \A t \in Tasks : taken[t] = 0 /\ t \notin built \cup broken \cup uncloned \cup dropped
                               => t \notin built' \cup broken' \cup uncloned' \cup dropped',
           \A b \in Builders, t \in Tasks :
               WorksOn(b, t)' => WorksOn(b, t) /\ (phase'[b] # "build" => phase[b] # "build"),
           buildQueue' = buildQueue \/ (buildQueue # <<>> /\ buildQueue' = Tail(buildQueue))
    PROVE  Attempts'
<1> SUFFICES ASSUME NEW t \in Tasks
             PROVE  /\ taken[t] = 0 => Untouched(t)'
                    /\ taken[t] <= 1 => Attempt(t)'
  BY DEF Attempts
<1>1. /\ NoneOf(buildQueue, t) => NoneOf(buildQueue', t)
      /\ \A status : OnlyStatus(buildQueue, t, status) => OnlyStatus(buildQueue', t, status)
      /\ Ordered(buildQueue, t) => Ordered(buildQueue', t)
  BY StillQueued
<1>2. OwnResult(t)' => OwnResult(t) /\ buildStatus'[t] = buildStatus[t]
  OBVIOUS
<1>3. ASSUME taken[t] = 0 PROVE Untouched(t)'
  BY <1>1, <1>3 DEF Untouched, Attempts
<1>4. ASSUME taken[t] <= 1 PROVE Attempt(t)'
  <2>1. Attempt(t)
    BY <1>4 DEF Attempts
  <2>2. OneWorker(t)'
    BY <2>1 DEF Attempt, OneWorker
  <2>3. WhileWorking(t)'
    BY <1>1, <1>2, <2>1 DEF Attempt, WhileWorking
  <2> QED BY <1>1, <1>2, <2>1, <2>2, <2>3 DEF Attempt
<1> QED BY <1>3, <1>4
(* What a step needs to know of one task at a time.                        *)
LEMMA AttemptsByTask ==
    ASSUME \A t \in Tasks : taken'[t] = 0 => Untouched(t)',
           \A t \in Tasks : taken'[t] <= 1 => Attempt(t)'
    PROVE  Attempts'
BY DEF Attempts

(* A task that is begun for the first time starts with a clean slate.      *)
LEMMA AttemptsBegin ==
    ASSUME TypeOK, ResultsHaveCause, Attempts, NEW b \in Builders, Begin(b)
    PROVE  Attempts'
<1>0. PICK task \in Tasks : task = prefetched[b]
  BY DEF TypeOK, FlowOf, Begin
<1>1. /\ taken \in [Tasks -> Nat]
      /\ taken' = [taken EXCEPT ![task] = @ + 1]
      /\ UNCHANGED <<buildQueue, buildStatus, built, broken, uncloned, dropped>>
  BY <1>0 DEF TypeOK, FlowOf, HistoryTypes, Begin, reportVars, rowVars, outcomes
<1>2. /\ \A t \in Tasks \ {task}, c \in Builders :
            /\ WorksOn(c, t)' => WorksOn(c, t)
            /\ WorksOn(c, t)' => phase'[c] = phase[c]
      /\ \A c \in Builders : WorksOn(c, task)' => c = b \/ WorksOn(c, task)
  BY <1>0 DEF Begin, WorksOn, Working, TypeOK, PhaseTypes, FlowOf
<1>3. \A t \in Tasks : /\ OwnResult(t)' <=> OwnResult(t)
                       /\ Ordered(buildQueue, t)' <=> Ordered(buildQueue, t)
  BY <1>1 DEF OwnResult, Settled, SiblingFailed, Ordered
<1>4. ASSUME NEW t \in Tasks, taken'[t] = 0 PROVE Untouched(t)'
  <2>1. t # task /\ taken[t] = 0
    BY <1>1, <1>4
  <2> QED BY <1>1, <1>2, <2>1 DEF Attempts, Untouched
<1>5. ASSUME NEW t \in Tasks, taken'[t] <= 1 PROVE Attempt(t)'
  <2>1. CASE t # task
    <3>1. Attempt(t)
      BY <1>1, <1>5, <2>1 DEF Attempts
    <3>2. OneWorker(t)'
      BY <1>2, <2>1, <3>1 DEF Attempt, OneWorker
    <3>3. WhileWorking(t)'
      BY <1>1, <1>2, <1>3, <2>1, <3>1 DEF Attempt, WhileWorking
    <3> QED BY <1>1, <1>3, <3>1, <3>2, <3>3 DEF Attempt
  <2>2. CASE t = task
    <3>1. taken[t] = 0
      BY <1>1, <1>5, <2>2
    <3>2. Untouched(t) /\ Attempt(t)
      BY <3>1 DEF Attempts
    <3>3. \A c \in Builders : WorksOn(c, t)' => c = b
      BY <1>2, <2>2, <3>2 DEF Untouched
    <3>4. ~OwnResult(t)
      <4>1. t \notin built /\ t \notin broken
        BY <3>2 DEF Untouched
      <4>2. buildStatus[t] # "SUCCESS"
        BY <4>1 DEF ResultsHaveCause
      <4>3. buildStatus[t] = "FAILED" => SiblingFailed(t)
        BY <4>1 DEF ResultsHaveCause, SiblingFailed, TypeOK, HistoryTypes
      <4> QED BY <4>2, <4>3 DEF OwnResult, Settled
    <3>5. NoneOf(buildQueue, t)
      BY <3>2 DEF Untouched
    <3>6. OneWorker(t)'
      BY <3>3 DEF OneWorker
    <3>7. WhileWorking(t)'
      BY <1>1, <1>3, <3>4, <3>5 DEF WhileWorking, NoneOf, OnlyStatus
    <3> QED BY <1>1, <1>3, <3>2, <3>4, <3>6, <3>7 DEF Attempt
  <2> QED BY <2>1, <2>2
<1> QED BY <1>4, <1>5, AttemptsByTask

(* A report appended by a builder that works on a task: of the other tasks *)
(* nothing changes.                                                        *)
LEMMA ReportOthers ==
    ASSUME TypeOK, Attempts, NEW b \in Builders, NEW status, Working(b), ReportBuild(b, status),
           status \in {"PROCESSING", "FAILED", "SUCCESS"},
           taken' = taken, buildStatus' = buildStatus,
           broken \subseteq broken',
           \A t \in Tasks \ {working[b]} :
               t \notin built \cup broken \cup uncloned \cup dropped
                  => t \notin built' \cup broken' \cup uncloned' \cup dropped',
           \A c \in Builders, t \in Tasks \ {working[b]} :
               WorksOn(c, t)' => WorksOn(c, t) /\ phase'[c] = phase[c]
    PROVE  \A t \in Tasks : /\ taken'[t] = 0 => Untouched(t)'
                            /\ taken'[t] <= 1 /\ t # working[b] => Attempt(t)'
<1> SUFFICES ASSUME NEW t \in Tasks
             PROVE  /\ taken[t] = 0 => Untouched(t)'
                    /\ taken[t] <= 1 /\ t # working[b] => Attempt(t)'
  OBVIOUS
<1> DEFINE m == [task |-> working[b], status |-> status]
<1>1. working[b] \in Tasks /\ WorksOn(b, working[b])
  BY DEF TypeOK, FlowOf, WorksOn
<1>2. taken[t] = 0 => t # working[b]
  BY <1>1 DEF Attempts, Untouched
<1>3. /\ buildQueue \in Seq(BuildReport(Tasks))
      /\ m \in BuildReport(Tasks)
      /\ buildQueue' \in {Append(buildQueue, m), Twice(buildQueue, m)}
  BY <1>1 DEF TypeOK, FlowOf, BuildReport, ReportBuild
<1>4. m.task = working[b]
  OBVIOUS
<1> HIDE DEF m
<1>5. ASSUME t # working[b]
      PROVE  /\ NoneOf(buildQueue, t) => NoneOf(buildQueue', t)
             /\ Ordered(buildQueue, t) => Ordered(buildQueue', t)
             /\ \A s : OnlyStatus(buildQueue, t, s) => OnlyStatus(buildQueue', t, s)
  <2>1. PICK longer \in {Append(buildQueue, m), Twice(buildQueue, m)} : longer = buildQueue'
    BY <1>3
  <2>2. /\ NoneOf(buildQueue, t) => NoneOf(longer, t)
        /\ \A s : OnlyStatus(buildQueue, t, s) => OnlyStatus(longer, t, s)
        /\ Ordered(buildQueue, t) => Ordered(longer, t)
    BY <1>3, <1>4, <1>5, QueueOther
  <2> QED BY <2>1, <2>2
<1>7. OwnResult(t)' => OwnResult(t)
  BY DEF OwnResult, Settled, SiblingFailed
<1>8. ASSUME taken[t] = 0 PROVE Untouched(t)'
  BY <1>2, <1>5, <1>8 DEF Attempts, Untouched
<1>9. ASSUME taken[t] <= 1, t # working[b] PROVE Attempt(t)'
  <2>1. Attempt(t)
    BY <1>9 DEF Attempts
  <2>2. OneWorker(t)'
    BY <1>9, <2>1 DEF Attempt, OneWorker
  <2>3. WhileWorking(t)'
    BY <1>5, <1>7, <1>9, <2>1 DEF Attempt, WhileWorking
  <2>4. OwnResult(t)' => OnlyStatus(buildQueue', t, buildStatus[t])
    BY <1>5, <1>7, <1>9, <2>1 DEF Attempt
  <2> QED BY <1>5, <1>9, <2>1, <2>2, <2>3, <2>4 DEF Attempt
<1> QED BY <1>8, <1>9

(* The report that a build begins joins nothing but its like.              *)
LEMMA AttemptsProcessing ==
    ASSUME TypeOK, Attempts, NEW b \in Builders, ReportProcessing(b)
    PROVE  Attempts'
<1>0. PICK task \in Tasks : task = working[b]
  BY DEF TypeOK, FlowOf, ReportProcessing, Working
<1>1. /\ Working(b) /\ ReportBuild(b, "PROCESSING") /\ phase[b] = "cloned"
      /\ UNCHANGED <<taken, buildStatus, built, broken, uncloned, dropped, working>>
      /\ phase' = [phase EXCEPT ![b] = "build"]
  BY DEF ReportProcessing, Working, rowVars, history, outcomes
<1>2. \A c \in Builders, t \in Tasks : WorksOn(c, t)' <=> WorksOn(c, t)
  BY <1>1 DEF WorksOn, Working, TypeOK, PhaseTypes
<1>3. \A c \in Builders : c # b => phase'[c] = phase[c]
  BY <1>1 DEF TypeOK, PhaseTypes
<1>4. \A t \in Tasks : /\ taken'[t] = 0 => Untouched(t)'
                       /\ taken'[t] <= 1 /\ t # task => Attempt(t)'
  <2>1. \A c \in Builders, t \in Tasks \ {working[b]} :
            WorksOn(c, t)' => WorksOn(c, t) /\ phase'[c] = phase[c]
    BY <1>1, <1>2, <1>3 DEF WorksOn
  <2> QED BY <1>0, <1>1, <2>1, ReportOthers
<1>5. ASSUME taken'[task] <= 1 PROVE Attempt(task)'
  <2>1. Attempt(task) /\ WorksOn(b, task)
    BY <1>0, <1>1, <1>5 DEF Attempts, WorksOn
  <2>2. ~OwnResult(task) /\ OnlyStatus(buildQueue, task, "PROCESSING")
    BY <2>1 DEF Attempt, WhileWorking
  <2>3. ~OwnResult(task)'
    BY <1>1, <2>2 DEF OwnResult, Settled, SiblingFailed
  <2>4. PICK longer \in {Append(buildQueue, [task |-> task, status |-> "PROCESSING"]),
                         Twice(buildQueue, [task |-> task, status |-> "PROCESSING"])} :
           longer = buildQueue'
    BY <1>0, <1>1 DEF ReportBuild
  <2>5. OnlyStatus(longer, task, "PROCESSING") /\ Ordered(longer, task)
    <3> DEFINE m == [task |-> task, status |-> "PROCESSING"]
    <3>1. m \in BuildReport(Tasks) /\ m.task = task /\ m.status = "PROCESSING"
      BY DEF BuildReport
    <3> HIDE DEF m
    <3>2. longer \in {Append(buildQueue, m), Twice(buildQueue, m)}
      BY <2>4 DEF m
    <3>3. buildQueue \in Seq(BuildReport(Tasks))
      BY DEF TypeOK, FlowOf
    <3> QED BY <2>2, <3>1, <3>2, <3>3, QueueMore
  <2>6. OneWorker(task)'
    BY <1>2, <2>1 DEF Attempt, OneWorker
  <2>7. \A c \in Builders : WorksOn(c, task)' => c = b
    BY <1>2, <2>1 DEF Attempt, OneWorker
  <2>8. phase'[b] = "build"
    BY <1>1 DEF TypeOK, PhaseTypes
  <2>9. WhileWorking(task)'
    BY <2>3, <2>4, <2>5, <2>7, <2>8 DEF WhileWorking
  <2> QED BY <2>3, <2>4, <2>5, <2>6, <2>9 DEF Attempt
<1>6. \A t \in Tasks : taken'[t] <= 1 => Attempt(t)'
  BY <1>4, <1>5
<1> QED BY <1>4, <1>6, AttemptsByTask

(* The final report comes after the reports of its attempt, which ends.    *)
LEMMA AttemptsFinish ==
    ASSUME TypeOK, Attempts, NEW b \in Builders, FinishBuild(b)
    PROVE  Attempts'
<1>0. PICK task \in Tasks : task = working[b]
  BY DEF TypeOK, FlowOf, FinishBuild, Working
<1>1. PICK status \in {"SUCCESS", "FAILED"} :
         /\ ReportBuild(b, status)
         /\ built \subseteq built' /\ built' \subseteq built \cup {task}
         /\ broken \subseteq broken' /\ broken' \subseteq broken \cup {task}
  BY <1>0 DEF FinishBuild
<1>2. /\ Working(b)
      /\ UNCHANGED <<taken, buildStatus, uncloned, dropped>>
      /\ phase'[b] \in {"idle", "down"}
      /\ \A c \in Builders : c # b => phase'[c] = phase[c] /\ working'[c] = working[c]
  BY DEF FinishBuild, Release, Working, rowVars, TypeOK, PhaseTypes, FlowOf
<1>3. \A c \in Builders, t \in Tasks :
         WorksOn(c, t)' => c # b /\ WorksOn(c, t) /\ phase'[c] = phase[c]
  BY <1>2 DEF WorksOn, Working
<1>4. \A t \in Tasks : /\ taken'[t] = 0 => Untouched(t)'
                       /\ taken'[t] <= 1 /\ t # task => Attempt(t)'
  <2>1. \A t \in Tasks \ {working[b]} :
            t \notin built \cup broken \cup uncloned \cup dropped
               => t \notin built' \cup broken' \cup uncloned' \cup dropped'
    BY <1>0, <1>1, <1>2
  <2> QED BY <1>0, <1>1, <1>2, <1>3, <2>1, ReportOthers
<1>5. ASSUME taken'[task] <= 1 PROVE Attempt(task)'
  <2>1. Attempt(task) /\ WorksOn(b, task)
    BY <1>0, <1>2, <1>5 DEF Attempts, WorksOn
  <2>2. ~OwnResult(task) /\ OnlyStatus(buildQueue, task, "PROCESSING")
    BY <2>1 DEF Attempt, WhileWorking
  <2>3. ~OwnResult(task)'
    BY <1>1, <1>2, <2>2 DEF OwnResult, Settled, SiblingFailed
  <2>4. Ordered(buildQueue', task)
    <3> DEFINE m == [task |-> task, status |-> status]
    <3>1. m \in BuildReport(Tasks) /\ m.task = task
      BY DEF BuildReport
    <3>2. buildQueue' \in {Append(buildQueue, m), Twice(buildQueue, m)}
      BY <1>0, <1>1 DEF ReportBuild
    <3> HIDE DEF m
    <3>3. PICK longer \in {Append(buildQueue, m), Twice(buildQueue, m)} : longer = buildQueue'
      BY <3>2
    <3>4. buildQueue \in Seq(BuildReport(Tasks))
      BY DEF TypeOK, FlowOf
    <3> QED BY <2>2, <3>1, <3>3, <3>4, QueueMore
  <2>5. \A c \in Builders : ~WorksOn(c, task)'
    BY <1>3, <2>1 DEF Attempt, OneWorker
  <2> QED BY <2>3, <2>4, <2>5 DEF Attempt, OneWorker, WhileWorking
<1>6. \A t \in Tasks : taken'[t] <= 1 => Attempt(t)'
  BY <1>4, <1>5
<1> QED BY <1>4, <1>6, AttemptsByTask

(* The report applied is the first: behind a result come only its like.    *)
LEMMA AttemptsIngest ==
    ASSUME TypeOK, Attempts, IngestBuild
    PROVE  Attempts'
<1> DEFINE m == Head(buildQueue)
<1>0. PICK task \in Tasks, status \in {"PROCESSING", "FAILED", "SUCCESS"} :
         /\ buildQueue # <<>> /\ buildQueue[1].task = task /\ buildQueue[1].status = status
         /\ 1 \in 1..Len(buildQueue)
         /\ buildStatus' = [buildStatus EXCEPT ![task] = status]
  <2>1. buildQueue \in Seq(BuildReport(Tasks)) /\ buildQueue # <<>>
    BY DEF TypeOK, FlowOf, IngestBuild
  <2>2. m = buildQueue[1] /\ m \in BuildReport(Tasks) /\ 1 \in 1..Len(buildQueue)
    BY <2>1
  <2>3. buildStatus' = [buildStatus EXCEPT ![m.task] = m.status]
    BY DEF IngestBuild
  <2> QED BY <2>1, <2>2, <2>3 DEF BuildReport
<1>1. /\ buildQueue' = buildQueue \/ (buildQueue # <<>> /\ buildQueue' = Tail(buildQueue))
      /\ UNCHANGED <<taken, built, broken, uncloned, dropped, phase, working>>
  BY DEF IngestBuild, AckBuild, history, outcomes, builderVars
<1>2. \A c \in Builders, t \in Tasks : WorksOn(c, t)' <=> WorksOn(c, t)
  BY <1>1 DEF WorksOn, Working
<1>3. ASSUME NEW t \in Tasks
      PROVE  /\ NoneOf(buildQueue, t) => NoneOf(buildQueue', t)
             /\ \A s : OnlyStatus(buildQueue, t, s) => OnlyStatus(buildQueue', t, s)
             /\ Ordered(buildQueue, t) => Ordered(buildQueue', t)
  BY <1>1, StillQueued
<1>4. ASSUME NEW t \in Tasks, taken'[t] = 0 PROVE Untouched(t)'
  BY <1>1, <1>2, <1>3, <1>4 DEF Attempts, Untouched
<1>5. ASSUME NEW t \in Tasks, taken'[t] <= 1 PROVE Attempt(t)'
  <2>1. Attempt(t)
    BY <1>1, <1>5 DEF Attempts
  <2>2. CASE t # task
    <3>1. buildStatus'[t] = buildStatus[t]
      BY <1>0, <2>2 DEF TypeOK, RowTypes
    <3>2. OwnResult(t)' <=> OwnResult(t)
      BY <1>1, <3>1 DEF OwnResult, Settled, SiblingFailed
    <3> QED BY <1>1, <1>2, <1>3, <2>1, <3>1, <3>2 DEF Attempt, OneWorker, WhileWorking
  <2>3. CASE t = task
    <3>1. buildStatus'[t] = status
      BY <1>0, <2>3 DEF TypeOK, RowTypes
    <3>2. OwnResult(t)' => status # "PROCESSING"
      BY <3>1 DEF OwnResult, Settled
    <3>3. ASSUME status # "PROCESSING" PROVE OnlyStatus(buildQueue, t, status)
      <4> SUFFICES ASSUME NEW i \in 1..Len(buildQueue), buildQueue[i].task = t
                   PROVE  buildQueue[i].status = status
        BY DEF OnlyStatus
      <4>1. CASE i = 1
        BY <1>0, <4>1
      <4>2. CASE i # 1
        <5>1. 1 < i
          BY <4>2
        <5> QED BY <1>0, <2>1, <2>3, <3>3, <5>1 DEF Attempt, Ordered
      <4> QED BY <4>1, <4>2
    <3>4. ASSUME NEW c \in Builders, WorksOn(c, t) PROVE status = "PROCESSING"
      BY <1>0, <2>1, <2>3, <3>4 DEF Attempt, WhileWorking, OnlyStatus
    <3>5. WhileWorking(t)'
      BY <1>1, <1>2, <1>3, <2>1, <3>2, <3>4 DEF Attempt, WhileWorking
    <3> QED BY <1>2, <1>3, <2>1, <3>1, <3>2, <3>3, <3>5 DEF Attempt, OneWorker
  <2> QED BY <2>2, <2>3
<1> QED BY <1>4, <1>5, AttemptsByTask

(* Failing siblings gives no task a result of its own.                     *)
LEMMA AttemptsFailSiblings ==
    ASSUME CauseInv, Attempts, FailSiblings
    PROVE  Attempts'
<1>0. TypeOK
  BY DEF CauseInv
<1>1. PICK task \in Tasks :
         /\ task \in broken
         /\ buildStatus' = [t \in Tasks |-> IF t \in InitSiblings(task) THEN "FAILED"
                                            ELSE buildStatus[t]]
  <2>1. buildQueue \in Seq(CausedReport) /\ buildQueue # <<>> /\ Head(buildQueue).status = "FAILED"
    BY DEF CauseInv, FailingHead, FailSiblings, TypeOK, PhaseTypes
  <2>2. Head(buildQueue) \in CausedReport
    BY <2>1
  <2> QED BY <2>1, <2>2 DEF FailSiblings, CausedReport, BuildReport
<1>2. /\ buildQueue' = buildQueue \/ (buildQueue # <<>> /\ buildQueue' = Tail(buildQueue))
      /\ UNCHANGED <<taken, built, broken, uncloned, dropped, phase, working>>
  BY <1>0 DEF FailSiblings, AckBuild, history, outcomes, builderVars, TypeOK, PhaseTypes
<1>3. \A c \in Builders, t \in Tasks : WorksOn(c, t)' <=> WorksOn(c, t)
  BY <1>2 DEF WorksOn, Working
<1>4. ASSUME NEW t \in Tasks, OwnResult(t)'
      PROVE  OwnResult(t) /\ buildStatus'[t] = buildStatus[t]
  <2>1. t \notin InitSiblings(task)
    BY <1>1, <1>2, <1>4 DEF InitSiblings, OwnResult, Settled, SiblingFailed
  <2> QED BY <1>1, <1>2, <1>4, <2>1 DEF OwnResult, Settled, SiblingFailed
<1> QED BY <1>0, <1>2, <1>3, <1>4, AttemptsKept

(* The attempts are kept by every step.                                    *)
LEMMA AttemptsStep ==
    ASSUME CauseInv, Attempts, [Next]_vars
    PROVE  Attempts'
<1>0. TypeOK /\ ResultsHaveCause
  BY DEF CauseInv
<1> DEFINE Kept == /\ taken' = taken
                   /\ buildStatus' = buildStatus
                   /\ buildQueue' = buildQueue
                   /\ UNCHANGED <<built, broken>>
<1>1. ASSUME Kept, UNCHANGED <<phase, working, uncloned, dropped>> PROVE Attempts'
  BY <1>0, <1>1, AttemptsKept, ResultsKept DEF WorksOn, Working
<1>2. ASSUME NEW o \in Opts, Dispatcher(o) \/ DispatcherFails(o) PROVE Attempts'
  BY <1>1, <1>2 DEF Dispatcher, CheckDepth, Select, Starve, PublishTask, MarkProcessing,
                    DispatcherFails, rowVars, builderVars, reportVars, history, outcomes
<1>3. ASSUME NEW b \in Builders, Deliver(b) \/ Disconnect(b) \/ Reconnect(b) PROVE Attempts'
  BY <1>1, <1>3 DEF Deliver, Disconnect, Reconnect, rowVars, reportVars, history, outcomes
<1>4. ASSUME IngestClone \/ SiblingsRaise \/ CoordinatorRestarts \/ UNCHANGED vars PROVE Attempts'
  BY <1>1, <1>4 DEF IngestClone, SiblingsRaise, CoordinatorRestarts, vars, rowVars,
                    builderVars, reportVars, history, outcomes
<1>5. ASSUME NEW b \in Builders, Kept,
             \A c \in Builders : /\ c # b => phase'[c] = phase[c] /\ working'[c] = working[c]
                                 /\ Working(c)' => Working(c) /\ working'[c] = working[c]
                                 /\ phase'[c] # "build" => phase[c] # "build" \/ ~Working(c)',
             Working(b) => uncloned' \cup dropped' \subseteq uncloned \cup dropped \cup {working[b]},
             ~Working(b) => UNCHANGED <<uncloned, dropped>>
      PROVE  Attempts'
  <2>1. \A c \in Builders, t \in Tasks :
            WorksOn(c, t)' => WorksOn(c, t) /\ (phase'[c] # "build" => phase[c] # "build")
    BY <1>5 DEF WorksOn, Working
  <2>2. Working(b) => WorksOn(b, working[b]) /\ working[b] \in Tasks
    BY <1>0 DEF WorksOn, TypeOK, FlowOf
  <2>3. \A t \in Tasks : taken[t] = 0 /\ t \notin built \cup broken \cup uncloned \cup dropped
                           => t \notin built' \cup broken' \cup uncloned' \cup dropped'
    BY <1>5, <2>2 DEF Attempts, Untouched
  <2> QED BY <1>0, <1>5, <2>1, <2>3, AttemptsKept, ResultsKept
<1>6. ASSUME NEW b \in Builders, Register(b) PROVE Attempts'
  BY <1>0, <1>5, <1>6 DEF Register, Working, TypeOK, PhaseTypes, rowVars, reportVars, history,
                          outcomes
<1>7. ASSUME NEW b \in Builders, CloneFails(b) PROVE Attempts'
  BY <1>0, <1>5, <1>7 DEF CloneFails, ReportClone, Release, Working, TypeOK, PhaseTypes, FlowOf,
                          rowVars
<1>8. ASSUME NEW b \in Builders, CloneSucceeds(b) PROVE Attempts'
  BY <1>0, <1>5, <1>8 DEF CloneSucceeds, ReportClone, Working, TypeOK, PhaseTypes, rowVars,
                          history, outcomes
<1>9. ASSUME NEW b \in Builders, HandlerRaises(b) \/ BuilderCrashes(b) PROVE Attempts'
  BY <1>0, <1>5, <1>9 DEF HandlerRaises, BuilderCrashes, Working, TypeOK, PhaseTypes, FlowOf,
                          rowVars, reportVars, outcomes
<1> QED BY <1>0, <1>2, <1>3, <1>4, <1>6, <1>7, <1>8, <1>9, AttemptsBegin, AttemptsProcessing,
           AttemptsFinish, AttemptsIngest, AttemptsFailSiblings DEF Next, BuilderWork

-----------------------------------------------------------------------------
(* Nothing is attempted at the start.                                      *)
LEMMA LedgerInit == Init => LedgerInv
<1> SUFFICES ASSUME Init PROVE LedgerInv
  OBVIOUS
<1>1. Attempts
  BY DEF Init, Attempts, Untouched, Attempt, OneWorker, WhileWorking, WorksOn, Working, NoneOf,
         Ordered, OnlyStatus, OwnResult, Settled
<1> QED BY <1>1, PublishInit, CauseInit DEF LedgerInv

(* The invariant is inductive.                                             *)
LEMMA LedgerStep == LedgerInv /\ [Next]_vars => LedgerInv'
BY PublishStep, CauseStep, AttemptsStep DEF LedgerInv

(* A begun task has an attempt to go with it.                              *)
LEMMA BegunIsTried ==
    ASSUME LedgerInv, NEW t \in Tasks,
           (\E b \in Builders : WorksOn(b, t)) \/ ~NoneOf(buildQueue, t)
    PROVE  taken[t] > 0
<1>1. taken[t] # 0
  BY DEF LedgerInv, Attempts, Untouched
<1> QED BY <1>1 DEF LedgerInv, CauseInv, TypeOK, HistoryTypes

LEMMA LedgerStarts == Init => Ledger!Init
BY DEF Init, Ledger!Init, ResultOf, Settled

(* Steps that touch neither the rows nor the histories are none for the    *)
(* ledger.                                                                 *)
LEMMA LedgerStutters ==
    ASSUME UNCHANGED <<buildStatus, published, taken, built, broken, uncloned, dropped>>
    PROVE  UNCHANGED Ledger!vars
BY DEF Ledger!vars, Ledger!outcomes, ResultOf, Settled

(* A builder through with a task, however it ends, ends an attempt.        *)
LEMMA EndRefines ==
    ASSUME LedgerInv, NEW b \in Builders, Working(b),
           UNCHANGED <<buildStatus, published, taken>>,
           \/ built' = built \cup {working[b]} /\ UNCHANGED <<broken, uncloned, dropped>>
           \/ broken' = broken \cup {working[b]} /\ UNCHANGED <<built, uncloned, dropped>>
           \/ uncloned' = uncloned \cup {working[b]} /\ UNCHANGED <<built, broken, dropped>>
           \/ dropped' = dropped \cup {working[b]} /\ UNCHANGED <<built, broken, uncloned>>
    PROVE  Ledger!Next
<1>1. working[b] \in Tasks
  BY DEF LedgerInv, CauseInv, TypeOK, FlowOf
<1>2. taken[working[b]] > 0
  BY <1>1, BegunIsTried DEF WorksOn
<1>3. UNCHANGED [t \in Tasks |-> ResultOf(t)]
  BY DEF ResultOf, Settled
<1>4. Ledger!End(working[b])
  BY <1>2, <1>3 DEF Ledger!End
<1> QED BY <1>1, <1>4 DEF Ledger!Next

(* A report is recorded: it has its attempt and its outcome, and replaces  *)
(* a result only where the ledger lets it.                                 *)
LEMMA RecordRefines ==
    ASSUME LedgerInv, IngestBuild
    PROVE  Ledger!Next
<1>0. TypeOK /\ Attempts
  BY DEF LedgerInv, CauseInv
<1>1. PICK task \in Tasks, status \in {"PROCESSING", "FAILED", "SUCCESS"} :
         /\ 1 \in 1..Len(buildQueue)
         /\ buildQueue[1].task = task /\ buildQueue[1].status = status
         /\ status = "SUCCESS" => task \in built
         /\ status = "FAILED" => task \in broken
         /\ buildStatus' = [buildStatus EXCEPT ![task] = status]
  <2>1. buildQueue \in Seq(CausedReport) /\ buildQueue # <<>>
    BY DEF LedgerInv, CauseInv, IngestBuild
  <2>2. /\ Head(buildQueue) = buildQueue[1] /\ Head(buildQueue) \in CausedReport
        /\ 1 \in 1..Len(buildQueue)
    BY <2>1
  <2> QED BY <2>2 DEF CausedReport, BuildReport, IngestBuild
<1>2. UNCHANGED <<published, taken, built, broken, uncloned, dropped>>
  BY DEF IngestBuild, history, outcomes
<1>3. taken[task] > 0
  BY <1>1, BegunIsTried DEF NoneOf
<1> DEFINE r == IF status = "PROCESSING" THEN "open" ELSE status
<1>4. r \in Ledger!Warranted(task)
  BY <1>1 DEF Ledger!Warranted
<1>5. [t \in Tasks |-> ResultOf(t)]' = [[t \in Tasks |-> ResultOf(t)] EXCEPT ![task] = r]
  BY <1>0, <1>1 DEF ResultOf, Settled, TypeOK, RowTypes
<1>6. r = ResultOf(task) \/ Ledger!Revisable(task)
  <2>1. CASE ~Settled(task)
    BY <2>1 DEF Ledger!Revisable, ResultOf
  <2>2. CASE taken[task] >= 2
    BY <2>2 DEF Ledger!Revisable
  <2>3. CASE Settled(task) /\ taken[task] < 2 /\ ~OwnResult(task)
    BY <2>3 DEF Ledger!Revisable, Ledger!Siblings, ResultOf, OwnResult, SiblingFailed
  <2>4. CASE taken[task] < 2 /\ OwnResult(task)
    <3>1. taken[task] <= 1
      BY <1>0, <2>4 DEF TypeOK, HistoryTypes
    <3>2. OnlyStatus(buildQueue, task, buildStatus[task])
      BY <1>0, <2>4, <3>1 DEF Attempts, Attempt
    <3>3. status = buildStatus[task]
      BY <1>1, <3>2 DEF OnlyStatus
    <3> QED BY <2>4, <3>3 DEF ResultOf, OwnResult, Settled
  <2>5. taken[task] \in Nat
    BY <1>0 DEF TypeOK, HistoryTypes
  <2> QED BY <2>1, <2>2, <2>3, <2>4, <2>5
<1>7. Ledger!Record(task)
  BY <1>2, <1>3, <1>4, <1>5, <1>6 DEF Ledger!Record, Ledger!outcomes
<1> QED BY <1>7 DEF Ledger!Next

(* The second transaction fails tasks that have no result.                 *)
LEMMA FailRefines ==
    ASSUME LedgerInv, FailSiblings
    PROVE  Ledger!Next
<1>0. TypeOK
  BY DEF LedgerInv, CauseInv
<1>1. PICK task \in Tasks :
         /\ task \in broken
         /\ buildStatus' = [t \in Tasks |-> IF t \in InitSiblings(task) THEN "FAILED"
                                            ELSE buildStatus[t]]
  <2>1. buildQueue \in Seq(CausedReport) /\ buildQueue # <<>> /\ Head(buildQueue).status = "FAILED"
    BY DEF LedgerInv, CauseInv, FailingHead, FailSiblings, TypeOK, PhaseTypes
  <2>2. Head(buildQueue) \in CausedReport
    BY <2>1
  <2> QED BY <2>1, <2>2 DEF FailSiblings, CausedReport, BuildReport
<1>2. UNCHANGED <<published, taken, built, broken, uncloned, dropped>>
  BY DEF FailSiblings, history, outcomes
<1>3. InitSiblings(task) \in SUBSET {s \in Ledger!Siblings(task) : ResultOf(s) = "open"}
  BY DEF InitSiblings, Ledger!Siblings, ResultOf, Settled
<1>4. [t \in Tasks |-> ResultOf(t)]'
         = [t \in Tasks |-> IF t \in InitSiblings(task) THEN "FAILED" ELSE ResultOf(t)]
  BY <1>0, <1>1 DEF ResultOf, Settled, TypeOK, RowTypes
<1>5. {s \in Ledger!Siblings(task) : ResultOf(s) = "open"}
         = {s \in Ledger!Siblings(task) : [t \in Tasks |-> ResultOf(t)][s] = "open"}
  BY DEF Ledger!Siblings
<1>6. [t \in Tasks |-> IF t \in InitSiblings(task) THEN "FAILED" ELSE ResultOf(t)]
         = [t \in Tasks |-> IF t \in InitSiblings(task) THEN "FAILED"
                            ELSE [s \in Tasks |-> ResultOf(s)][t]]
  OBVIOUS
<1>7. Ledger!FailSiblings(task)
  BY <1>1, <1>2, <1>3, <1>4, <1>5, <1>6
     DEF Ledger!FailSiblings, Ledger!outcomes
<1> QED BY <1>7 DEF Ledger!Next

(* Every step is one of the ledger's, or none.                             *)
LEMMA StepRefines == LedgerInv /\ [Next]_vars => [Ledger!Next]_(Ledger!vars)
<1> SUFFICES ASSUME LedgerInv, [Next]_vars PROVE Ledger!Next \/ UNCHANGED Ledger!vars
  OBVIOUS
<1>0. TypeOK /\ FlowOf(published)
  BY DEF LedgerInv, PublishInv
<1> DEFINE Still == UNCHANGED <<buildStatus, published, taken, built, broken, uncloned, dropped>>
<1>1. ASSUME NEW o \in Opts, PublishTask(o) PROVE Ledger!Next
  <2>1. candidate[o] \in Tasks
    BY <1>0, <1>1 DEF PublishTask, TypeOK, DispatchTypes
  <2>2. published' = published \cup {candidate[o]}
    BY <1>1 DEF PublishTask
  <2>3. UNCHANGED <<buildStatus, taken, built, broken, uncloned, dropped>>
    BY <1>1 DEF PublishTask, rowVars, outcomes
  <2>4. UNCHANGED [t \in Tasks |-> ResultOf(t)]
    BY <2>3 DEF ResultOf, Settled
  <2>5. Ledger!HandOver(candidate[o])
    BY <2>2, <2>3, <2>4 DEF Ledger!HandOver, Ledger!outcomes
  <2> QED BY <2>1, <2>5 DEF Ledger!Next
<1>2. ASSUME NEW b \in Builders, Begin(b) PROVE Ledger!Next
  <2>1. prefetched[b] \in published /\ prefetched[b] \in Tasks
    BY <1>0, <1>2 DEF Begin, FlowOf, TypeOK
  <2>2. /\ taken' = [taken EXCEPT ![prefetched[b]] = @ + 1]
        /\ UNCHANGED <<buildStatus, published, built, broken, uncloned, dropped>>
    BY <1>2 DEF Begin, rowVars, outcomes
  <2>3. UNCHANGED [t \in Tasks |-> ResultOf(t)]
    BY <2>2 DEF ResultOf, Settled
  <2>4. Ledger!Begin(prefetched[b])
    BY <2>1, <2>2, <2>3 DEF Ledger!Begin, Ledger!outcomes
  <2> QED BY <2>1, <2>4 DEF Ledger!Next
<1>3. ASSUME NEW b \in Builders, CloneFails(b) \/ FinishBuild(b) \/ HandlerRaises(b)
      PROVE  Ledger!Next
  <2>1. Working(b) /\ UNCHANGED <<buildStatus, published, taken>>
    BY <1>3 DEF CloneFails, FinishBuild, HandlerRaises, Working, rowVars
  <2> QED BY <1>3, <2>1, EndRefines DEF CloneFails, FinishBuild, HandlerRaises, outcomes
<1>4. ASSUME NEW b \in Builders, BuilderCrashes(b) PROVE Ledger!Next \/ Still
  <2>1. UNCHANGED <<buildStatus, published, taken, built, broken, uncloned>>
    BY <1>4 DEF BuilderCrashes, rowVars, outcomes
  <2>2. CASE Working(b)
    BY <1>4, <2>1, <2>2, EndRefines DEF BuilderCrashes
  <2>3. CASE ~Working(b)
    BY <1>4, <2>1, <2>3 DEF BuilderCrashes
  <2> QED BY <2>2, <2>3
<1>5. ASSUME NEW o \in Opts,
             \/ CheckDepth(o) \/ Select(o) \/ Starve(o) \/ MarkProcessing(o) \/ DispatcherFails(o)
      PROVE  Still
  BY <1>5 DEF CheckDepth, Select, Starve, MarkProcessing, DispatcherFails, rowVars, history,
              outcomes
<1>6. ASSUME NEW b \in Builders,
             \/ Register(b) \/ Deliver(b) \/ Disconnect(b) \/ Reconnect(b)
             \/ CloneSucceeds(b) \/ ReportProcessing(b)
      PROVE  Still
  BY <1>6 DEF Register, Deliver, Disconnect, Reconnect, CloneSucceeds, ReportProcessing,
              rowVars, history, outcomes
<1>7. ASSUME IngestClone \/ SiblingsRaise \/ CoordinatorRestarts \/ UNCHANGED vars
      PROVE  Still
  BY <1>7 DEF IngestClone, SiblingsRaise, CoordinatorRestarts, vars, rowVars, history, outcomes
<1> QED BY <1>1, <1>2, <1>3, <1>4, <1>5, <1>6, <1>7, LedgerStutters, RecordRefines, FailRefines
           DEF Next, Dispatcher, BuilderWork

(* The dispatchers, queues, builders and consumers of TaskDispatch, with   *)
(* every fault the module knows, do to the rows only what the ledger       *)
(* promises: no result without its attempt, and none revised but after a   *)
(* second attempt or a sibling's failure.                                  *)
THEOREM LedgerImplemented == Spec => ImplementsLedger
<1>1. Spec => []LedgerInv
  BY LedgerInit, LedgerStep, PTL DEF Spec
<1>2. Spec => Ledger!Spec
  BY <1>1, LedgerStarts, StepRefines, PTL DEF Spec, Ledger!Spec
<1> QED BY <1>2 DEF ImplementsLedger
=============================================================================
