----------------------------- MODULE Registration -----------------------------
(* The builder handshake: how a builder gets its build option, and how the *)
(* option gets its dispatcher.                                             *)
(*                                                                         *)
(* A builder takes a new uuid in every life, declares a private control    *)
(* queue of that name (auto-delete: it goes with the builder's connection),*)
(* publishes a registration on the durable queue builder_reg and waits for *)
(* the reply.  The coordinator's one consumer of builder_reg registers the *)
(* option, replies on the control queue, starts the option's dispatcher    *)
(* and only then acknowledges.  Dispatchers are threads: they do not       *)
(* outlive the coordinator, and only a registration starts them.  Once its *)
(* shutdown has begun the coordinator starts no dispatcher any more, but   *)
(* its consumer still answers and acknowledges what it takes.              *)
(*                                                                         *)
(* A reply to a queue that is gone is unroutable, the publisher raises, and*)
(* the loop requeues the registration at the head of builder_reg.          *)
(*                                                                         *)
(* Bounds: MaxLives lives of each builder, MaxFaults faults of the kinds   *)
(* FaultKinds.                                                             *)
(***************************************************************************)
EXTENDS Integers, Sequences, FiniteSets

CONSTANTS
    Builders,
    Opts,
    OptOf,          \* the build option each builder asks for
    MaxLives,
    MaxFaults,
    FaultKinds      \* the kinds of fault that may happen, see Fault

ASSUME RegistrationAssumption ==
    /\ OptOf \in [Builders -> Opts]
    /\ MaxLives \in Nat \ {0}
    /\ MaxFaults \in Nat
    /\ FaultKinds \subseteq {"confirm", "handler", "ack", "slow", "builder", "shutdown",
                       "coordinator"}

VARIABLES
    life,           \* how often each builder has started: <<b, life[b]>> is its uuid
    phase,          \* where each builder stands in BuilderApp.run
    ctrl,           \* the control queues that exist, by uuid
    regQueue,       \* queue builder_reg, of uuids
    step,           \* where handle_builder_registration stands with the head of regQueue
    up,             \* the coordinator runs
    stopping,       \* its shutdown has begun: Supervisor._stop is set
    known,          \* the options in the database
    running,        \* the options with a dispatcher thread
    replied,        \* history: the uuids a reply was published for
    stranded,       \* history: builders answered before the coordinator last went down
    faults

builderVars == <<life, phase, ctrl>>
coordVars   == <<step, up, stopping, known, running>>
vars == <<builderVars, coordVars, regQueue, replied, stranded, faults>>

Uuid(b) == <<b, life[b]>>

Uuids == Builders \X (1..MaxLives)

Opt(u) == OptOf[u[1]]

Fault(kind) ==
    /\ kind \in FaultKinds
    /\ faults < MaxFaults
    /\ faults' = faults + 1

NoFault == UNCHANGED faults

Init ==
    /\ life = [b \in Builders |-> 0]
    /\ phase = [b \in Builders |-> "down"]
    /\ ctrl = {}
    /\ regQueue = <<>>
    /\ step = "idle"
    /\ up = FALSE
    /\ stopping = FALSE
    /\ known = {}
    /\ running = {}
    /\ replied = {}
    /\ stranded = {}
    /\ faults = 0

-----------------------------------------------------------------------------
(* The builder: BuilderApp._register. *)

(* Declare the control queue, consume it, publish the registration.  The   *)
(* publisher retries when its confirm is lost.                             *)
Boot(b) ==
    /\ phase[b] = "down"
    /\ life[b] < MaxLives
    /\ LET u == <<b, life[b] + 1>> IN
          /\ life' = [life EXCEPT ![b] = u[2]]
          /\ ctrl' = ctrl \union {u}
          /\ \/ NoFault /\ regQueue' = Append(regQueue, u)
             \/ Fault("confirm") /\ regQueue' = Append(Append(regQueue, u), u)
    /\ phase' = [phase EXCEPT ![b] = "waiting"]
    /\ stranded' = stranded \ {b}
    /\ UNCHANGED <<coordVars, replied>>

(* The reply carries the uuid of this life: the control consumer stops, its*)
(* queue is deleted, and the builder consumes its option's queue.          *)
GetReply(b) ==
    /\ phase[b] = "waiting"
    /\ Uuid(b) \in replied
    /\ phase' = [phase EXCEPT ![b] = "serving"]
    /\ ctrl' = ctrl \ {Uuid(b)}
    /\ UNCHANGED <<life, coordVars, regQueue, replied, stranded, faults>>

(* A registration nobody waits for at the head of builder_reg: no reply to *)
(* it can be routed any more.                                              *)
Wedged == step # "start" /\ regQueue # <<>> /\ Head(regQueue) \notin ctrl

(* No reply for wait_for_build_opt_minutes: the builder exits and its      *)
(* container starts it again.  The coordinator is down, or stuck, or slow. *)
TimesOut(b) ==
    /\ phase[b] = "waiting"
    /\ life[b] < MaxLives
    /\ \/ Uuid(b) \notin replied /\ (~up \/ Wedged) /\ NoFault
       \/ Fault("slow")
    /\ phase' = [phase EXCEPT ![b] = "down"]
    /\ ctrl' = ctrl \ {Uuid(b)}
    /\ UNCHANGED <<life, coordVars, regQueue, replied, stranded>>

(* The builder crashes, is recycled, or an operator restarts it.           *)
BuilderStops(b) ==
    /\ phase[b] # "down"
    /\ life[b] < MaxLives
    /\ Fault("builder")
    /\ phase' = [phase EXCEPT ![b] = "down"]
    /\ ctrl' = ctrl \ {Uuid(b)}
    /\ UNCHANGED <<life, coordVars, regQueue, replied, stranded>>

-----------------------------------------------------------------------------
(* The coordinator: handle_builder_registration under ConsumerLoop. *)

CoordinatorStarts ==
    /\ ~up
    /\ up' = TRUE
    /\ UNCHANGED <<builderVars, step, stopping, known, running, regQueue, replied, stranded,
                   faults>>

(* register_build_opt finds or creates the option.                         *)
RegisterOption ==
    /\ up
    /\ step = "idle"
    /\ regQueue # <<>>
    /\ known' = known \union {Opt(Head(regQueue))}
    /\ step' = "reply"
    /\ UNCHANGED <<builderVars, up, stopping, running, regQueue, replied, stranded, faults>>

(* Mutant: an unroutable reply is logged and the registration acknowledged.*)
ReplyOrDrop ==
    /\ step = "reply"
    /\ NoFault
    /\ IF Wedged
       THEN step' = "idle" /\ regQueue' = Tail(regQueue) /\ UNCHANGED replied
       ELSE step' = "start" /\ replied' = replied \union {Head(regQueue)} /\ UNCHANGED regQueue
    /\ UNCHANGED <<builderVars, up, stopping, known, running, stranded>>

(* _send_reply: mandatory, so it raises when the control queue is gone; the*)
(* delivery is then requeued, at the head.                                 *)
Reply ==
    /\ step = "reply"
    /\ NoFault
    /\ IF Wedged
       THEN step' = "idle" /\ UNCHANGED replied
       ELSE step' = "start" /\ replied' = replied \union {Head(regQueue)}
    /\ UNCHANGED <<builderVars, up, stopping, known, running, regQueue, stranded>>

(* Mutant: a registration whose handler raised is acknowledged.            *)
RaisesAndAcks ==
    /\ step = "reply"
    /\ Fault("handler")
    /\ step' = "idle"
    /\ regQueue' = Tail(regQueue)
    /\ UNCHANGED <<builderVars, up, stopping, known, running, replied, stranded>>

(* The handler raises before the reply (the database, the broker), or after*)
(* a reply whose confirm was lost: requeued.                               *)
HandlerRaises ==
    /\ step = "reply"
    /\ Fault("handler")
    /\ step' = "idle"
    /\ \/ UNCHANGED replied
       \/ ~Wedged /\ replied' = replied \union {Head(regQueue)}
    /\ UNCHANGED <<builderVars, up, stopping, known, running, regQueue, stranded>>

(* Mutant: only the first registration of an option starts its dispatcher. *)
StartIfNew ==
    /\ step = "start"
    /\ LET opt == Opt(Head(regQueue)) IN
          running' = IF stopping \/ \E u \in replied \ {Head(regQueue)} : Opt(u) = opt
                     THEN running ELSE running \union {opt}
    /\ step' = "idle"
    /\ NoFault
    /\ regQueue' = Tail(regQueue)
    /\ UNCHANGED <<builderVars, up, stopping, known, replied, stranded>>

(* ensure_started (idempotent; add_and_start is a no-op once the shutdown  *)
(* has begun), then the loop acknowledges all the same; when the ack is    *)
(* lost with the connection the registration is delivered again.           *)
StartAndAck ==
    /\ step = "start"
    /\ running' = IF stopping THEN running ELSE running \union {Opt(Head(regQueue))}
    /\ step' = "idle"
    /\ \/ NoFault /\ regQueue' = Tail(regQueue)
       \/ Fault("ack") /\ UNCHANGED regQueue
    /\ UNCHANGED <<builderVars, up, stopping, known, replied, stranded>>

(* SIGTERM: the event is set; the threads end each in its own time, and the*)
(* consumer may handle what it has taken until it is told to stop.         *)
ShutdownBegins ==
    /\ up
    /\ ~stopping
    /\ Fault("shutdown")
    /\ stopping' = TRUE
    /\ UNCHANGED <<builderVars, step, up, known, running, regQueue, replied, stranded>>

(* The process is gone with its threads; builder_reg and the database stay.*)
GoesDown ==
    /\ up' = FALSE
    /\ stopping' = FALSE
    /\ step' = "idle"
    /\ running' = {}
    /\ stranded' = {b \in Builders : phase[b] # "down" /\ Uuid(b) \in replied}
    /\ UNCHANGED <<builderVars, known, regQueue, replied>>

(* The shutdown ends, with the threads or with the container's kill.       *)
CoordinatorExits == stopping /\ NoFault /\ GoesDown

(* The coordinator is killed, or crashes.                                  *)
CoordinatorDies == up /\ Fault("coordinator") /\ GoesDown

-----------------------------------------------------------------------------
Handshake(b) == Boot(b) \/ GetReply(b)

Coordinator == CoordinatorStarts \/ RegisterOption \/ Reply \/ StartAndAck

Next ==
    \/ \E b \in Builders : Handshake(b) \/ TimesOut(b) \/ BuilderStops(b)
    \/ Coordinator \/ HandlerRaises
    \/ ShutdownBegins \/ CoordinatorExits \/ CoordinatorDies

Spec == Init /\ [][Next]_vars

(* Containers restart their processes, the consumer thread runs, and a     *)
(* shutdown ends (the container's grace period is finite).                 *)
Fairness ==
    /\ \A b \in Builders : WF_vars(Handshake(b))
    /\ WF_vars(Coordinator)
    /\ WF_vars(CoordinatorExits)

FairSpec == Spec /\ Fairness

-----------------------------------------------------------------------------
(* Properties. *)

(* The types; the handler holds a registration only while one is there.    *)
TypeOK ==
    /\ life \in [Builders -> 0..MaxLives]
    /\ phase \in [Builders -> {"down", "waiting", "serving"}]
    /\ \A b \in Builders : phase[b] # "down" => life[b] > 0
    /\ ctrl \in SUBSET Uuids
    /\ regQueue \in Seq(Uuids)
    /\ step \in {"idle", "reply", "start"}
    /\ step # "idle" => up /\ regQueue # <<>>
    /\ up \in BOOLEAN
    /\ stopping \in BOOLEAN
    /\ stopping => up
    /\ known \in SUBSET Opts
    /\ running \in SUBSET Opts
    /\ replied \in SUBSET Uuids
    /\ stranded \in SUBSET Builders
    /\ faults \in 0..MaxFaults

InQueue(u) == \E i \in 1..Len(regQueue) : regQueue[i] = u

(* A builder that consumes its option's queue finds a dispatcher running   *)
(* that fills it, or its registration is still queued, or the coordinator  *)
(* is going down or went down since it was answered (INSTALL.md, the       *)
(* stranded fleet): no other interleaving of lives, redeliveries and       *)
(* restarts leaves a builder with a queue that nobody fills.               *)
ServingHasDispatcher ==
    \A b \in Builders :
        phase[b] = "serving" =>
            OptOf[b] \in running \/ InQueue(Uuid(b)) \/ b \in stranded \/ stopping

(* A registration leaves builder_reg only when its builder was answered and*)
(* its dispatcher runs or the coordinator is shutting down, when           *)
(* add_and_start does nothing and the handler acknowledges all the same:   *)
(* whatever else fails, the one ack comes after the start.                 *)
AckedMeansServed ==
    [][regQueue # <<>> /\ Len(regQueue') < Len(regQueue) =>
          /\ Head(regQueue) \in replied
          /\ Opt(Head(regQueue)) \in running' \/ stopping]_vars

Served(b) == phase[b] = "serving" /\ OptOf[b] \in running

NoMoreFaults == faults = MaxFaults

Unanswered(b) == phase[b] = "waiting" /\ Uuid(b) \notin replied

(* A builder not answered yet when the last fault is over, and no shutdown *)
(* is under way, gets its reply and its dispatcher: the handshake recovers *)
(* from every crash, restart, timeout and redelivery that leaves no dead   *)
(* registration at the head of builder_reg.                                *)
EventuallyServed ==
    \A b \in Builders :
        <>[]~Wedged => (Unanswered(b) /\ NoMoreFaults /\ ~stopping ~> Served(b))
=============================================================================
