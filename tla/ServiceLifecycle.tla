-------------------------- MODULE ServiceLifecycle --------------------------
(***************************************************************************)
(* How a process of the system runs and ends.  The supervisor starts a     *)
(* thread for each service: consumer loops, which block in pika's          *)
(* start_consuming, and dispatchers, which are added while it runs and     *)
(* wait on the stop event.  A signal, or the builder's recycling after its *)
(* last task, sets the event and wakes the services; the main thread then  *)
(* wakes them again and joins the threads, none of which is a daemon.      *)
(*                                                                         *)
(* Two locks are named because the signal handler runs in the main thread, *)
(* between any two of its instructions, and asks for them again: the       *)
(* supervisor's own and the one inside threading.Event.                    *)
(*                                                                         *)
(* Signals after the main loop meet the default handlers and kill the      *)
(* process; they are left out.  Bounds: MaxSignals signals, MaxFailures    *)
(* failures (lost connections, broker restarts, crashes, handlers that     *)
(* raise).  The specification's own names begin with Process: the proofs   *)
(* extend it beside Registration.                                          *)
(***************************************************************************)
EXTENDS Naturals, FiniteSets

CONSTANTS
    Consumers,      \* consumer loops
    Early,          \* those that acknowledge before the handler runs
    Recycler,       \* the one whose handler may ask for the shutdown
    Registrar,      \* the one whose handler adds dispatchers
    Dispatchers,
    Msgs, Queue,    \* Queue[m]: the consumer of message m
    MaxSignals, MaxFailures

ASSUME LifecycleAssumption ==
    /\ Early \subseteq Consumers /\ Consumers \cap Dispatchers = {}
    /\ Recycler \in Consumers /\ Registrar \in Consumers
    /\ Queue \in [Msgs -> Consumers]
    /\ MaxSignals \in Nat /\ MaxFailures \in Nat

Services == Consumers \cup Dispatchers

VARIABLES
    stop,       \* the event
    main,       \* where the main thread stands
    toWake,     \* services the caller of _wake_services has still to nudge: main and Recycler
    listed,     \* _services
    pc,         \* where a service's thread stands
    conn,       \* its connection
    recorded,   \* consumers whose _connection is set
    nudged,     \* consumers with stop_consuming scheduled on their connection
    msg, begun,     \* where a message is, and those a handler was given
    broker,     \* is RabbitMQ up?
    signals, failures,
    caught      \* history: consumers that were connecting when the event was set

control == <<stop, main, toWake, listed, caught>>
link == <<conn, recorded, nudged>>
work == <<msg, begun>>
processVars == <<control, link, work, pc, broker, signals, failures>>

ProcessFault == failures < MaxFailures /\ failures' = failures + 1
Go(s, p) == pc' = [pc EXCEPT ![s] = p]

(* A thread blocked in Event.wait needs the event's lock to come back.     *)
EventFree == main # "hung"

ProcessInit ==
    /\ stop = FALSE /\ main = "wait"
    /\ toWake = [t \in {"main", Recycler} |-> {}]
    /\ listed = Consumers
    /\ pc = [s \in Services |-> IF s \in Consumers THEN "loop" ELSE "off"]
    /\ conn = [c \in Consumers |-> "none"]
    /\ recorded = {} /\ nudged = {}
    /\ msg = [m \in Msgs |-> "queued"] /\ begun = {}
    /\ broker = TRUE
    /\ signals = 0 /\ failures = 0
    /\ caught = {}

-----------------------------------------------------------------------------
(* The supervisor.                                                         *)

(* Event.set; caught remembers who is beyond the last test of the event    *)
(* and not yet within reach of request_stop.                               *)
SetStop ==
    /\ stop' = TRUE
    /\ caught' = IF stop THEN caught
                 ELSE {c \in Consumers : pc[c] \in {"connecting", "connected"}}

(* Mutant: the connection is closed under the consumer. *)
CloseConnection(s) ==
    IF s \in recorded /\ conn[s] = "open"
    THEN /\ conn' = [conn EXCEPT ![s] = "lost"]
         /\ nudged' = nudged \ {s}
         /\ msg' = [m \in Msgs |->
                      IF Queue[m] = s /\ msg[m] = "held" THEN "queued" ELSE msg[m]]
         /\ UNCHANGED recorded
    ELSE UNCHANGED <<link, msg>>

(* Mutant: a consumer inside a handler is not nudged. *)
NudgeIdle(s) ==
    /\ nudged' = IF s \in recorded /\ conn[s] = "open" /\ pc[s] = "consuming"
                 THEN nudged \cup {s} ELSE nudged
    /\ UNCHANGED <<conn, recorded, msg>>

(* A service without a recorded connection is not nudged, nor is one whose *)
(* connection is gone.                                                     *)
RequestStop(s) ==
    /\ nudged' = IF s \in recorded /\ conn[s] = "open" THEN nudged \cup {s} ELSE nudged
    /\ UNCHANGED <<conn, recorded, msg>>

Wake(t, s) ==
    /\ s \in toWake[t]
    /\ RequestStop(s)
    /\ toWake' = [toWake EXCEPT ![t] = @ \ {s}]
    /\ UNCHANGED <<stop, listed, caught, begun, broker, signals, failures>>

(* The handler of SIGTERM and SIGINT.  It asks for locks the main thread   *)
(* may hold: the event's in the middle of a poll or of another set, the    *)
(* supervisor's or a consumer's in the middle of an earlier handler.       *)
Signal ==
    /\ signals < MaxSignals /\ signals' = signals + 1
    /\ \/ main \in {"wait", "wake"} /\ main' = "code"
       \/ main \in {"poll", "code", "set", "wake"} /\ main' = "hung"
    /\ toWake' = [toWake EXCEPT !["main"] = {}]
    /\ UNCHANGED <<stop, listed, caught, link, work, pc, broker, failures>>

RequestShutdown ==
    /\ \/ /\ main = "code" /\ main' = "set"
          /\ SetStop
          /\ UNCHANGED toWake
       \/ /\ main = "set" /\ main' = "wake"
          /\ toWake' = [toWake EXCEPT !["main"] = listed]
          /\ UNCHANGED <<stop, caught>>
       \/ /\ main = "wake" /\ toWake["main"] = {} /\ main' = "wait"
          /\ UNCHANGED <<toWake, stop, caught>>
    /\ UNCHANGED <<listed, link, work, pc, broker, signals, failures>>

WakeServices(s) ==
    /\ main \in {"wake", "wake again"}
    /\ Wake("main", s)
    /\ UNCHANGED <<main, pc>>

(* while not self._stop.wait(0.5) *)
Poll ==
    /\ \/ main = "wait" /\ main' = "poll"
       \/ main = "poll" /\ main' = IF stop THEN "stop" ELSE "wait"
    /\ UNCHANGED <<stop, toWake, listed, caught, link, work, pc, broker, signals, failures>>

(* stop(): a second round of nudges, and the joins up to the deadline; the *)
(* interpreter waits for the other threads, which are not daemons.         *)
Stop ==
    /\ \/ /\ main = "stop" /\ main' = "wake again"
          /\ toWake' = [toWake EXCEPT !["main"] = listed]
       \/ /\ main = "wake again" /\ toWake["main"] = {} /\ main' = "join"
          /\ UNCHANGED toWake
       \/ /\ main = "join" /\ main' = "returned"
          /\ UNCHANGED toWake
       \/ /\ main = "returned" /\ \A s \in Services : pc[s] \in {"off", "done"}
          /\ main' = "exited"
          /\ UNCHANGED toWake
    /\ UNCHANGED <<stop, listed, caught, link, work, pc, broker, signals, failures>>

-----------------------------------------------------------------------------
(* The consumer loop.                                                      *)

(* run and the supervisor's loop around it: over when the event is set.    *)
Leave(s) == Go(s, IF stop THEN "done" ELSE "backoff")

(* The tests of the event in run and in factory.open.                      *)
Loop(c) ==
    /\ pc[c] = "loop"
    /\ Go(c, IF stop THEN "done" ELSE "connecting")
    /\ UNCHANGED <<control, link, work, broker, signals, failures>>

(* pika.BlockingConnection: it may take long, and does not see the event.  *)
Connect(c) ==
    /\ pc[c] = "connecting"
    /\ IF broker
       THEN conn' = [conn EXCEPT ![c] = "open"] /\ Go(c, "connected")
       ELSE Go(c, "backoff") /\ UNCHANGED conn
    /\ UNCHANGED <<control, recorded, nudged, work, broker, signals, failures>>

Record(c) ==
    /\ pc[c] = "connected"
    /\ recorded' = recorded \cup {c}
    /\ Go(c, "consuming")
    /\ UNCHANGED <<control, conn, nudged, work, broker, signals, failures>>

Teardown(c) ==
    /\ conn' = [conn EXCEPT ![c] = "none"]
    /\ recorded' = recorded \ {c} /\ nudged' = nudged \ {c}

(* start_consuming returns once the scheduled stop_consuming has run.      *)
StopConsuming(c) ==
    /\ pc[c] = "consuming" /\ c \in nudged /\ conn[c] = "open"
    /\ Teardown(c)
    /\ Go(c, "loop")
    /\ UNCHANGED <<control, work, broker, signals, failures>>

(* An AMQP error: the loop ends if the event is set and reconnects after a *)
(* delay if not; the connection stays recorded meanwhile.                  *)
Notice(c) ==
    /\ pc[c] \in {"connected", "consuming"} /\ conn[c] = "lost"
    /\ Leave(c)
    /\ IF stop THEN Teardown(c) ELSE UNCHANGED link
    /\ UNCHANGED <<control, work, broker, signals, failures>>

(* Any other error crashes the service; the supervisor restarts it.        *)
Crash(c) ==
    /\ pc[c] = "consuming" /\ ProcessFault
    /\ Teardown(c)
    /\ Leave(c)
    /\ UNCHANGED <<control, work, broker, signals>>

(* stop.wait(delay) in run, in open and in the supervisor.                 *)
Backoff(c) ==
    /\ pc[c] = "backoff" /\ EventFree
    /\ Teardown(c)
    /\ Go(c, "loop")
    /\ UNCHANGED <<control, work, broker, signals, failures>>

-----------------------------------------------------------------------------
(* _on_message.                                                            *)

(* What consumer c holds returns to its queue.                             *)
Returned(c) == [m \in Msgs |-> IF Queue[m] = c /\ msg[m] = "held" THEN "queued" ELSE msg[m]]

(* An early ack whose connection breaks under it may not reach the broker: *)
(* the handler runs, and the message is delivered again.                   *)
Deliver(m) ==
    LET c == Queue[m]
    IN /\ pc[c] = "consuming" /\ conn[c] = "open" /\ c \notin nudged
       /\ msg[m] = "queued"
       /\ Go(c, "handling")
       /\ begun' = begun \cup {m}
       /\ \/ /\ msg' = [msg EXCEPT ![m] = IF c \in Early THEN "gone" ELSE "held"]
             /\ UNCHANGED <<link, failures>>
          \/ /\ c \in Early /\ ProcessFault
             /\ conn' = [conn EXCEPT ![c] = "lost"]
             /\ UNCHANGED <<msg, recorded, nudged>>
       /\ UNCHANGED <<control, broker, signals>>

(* The end of a handler, with its ack or, when it raised, its nack; on a   *)
(* lost connection either raises, and the message is back in its queue.    *)
(* The handler has published, and its publisher opens a connection without *)
(* regard to the event, as long as that takes.                             *)
Settle(c) ==
    /\ \/ pc[c] = "handling"
       \/ pc[c] = "recycling" /\ toWake[c] = {}
    /\ c = Registrar => \A d \in listed : pc[d] # "off"
    /\ broker
    /\ \/ /\ msg' = [m \in Msgs |-> IF Queue[m] = c /\ msg[m] = "held" THEN "gone" ELSE msg[m]]
          /\ UNCHANGED failures
       \/ /\ c \notin Early /\ ProcessFault
          /\ msg' = Returned(c)
    /\ Go(c, "consuming")
    /\ UNCHANGED <<control, link, begun, broker, signals>>

(* The builder after its last task: request_shutdown from its handler.     *)
Recycle ==
    /\ pc[Recycler] = "handling"
    /\ main \notin {"code", "set", "poll", "hung"}
    /\ SetStop
    /\ toWake' = [toWake EXCEPT ![Recycler] = listed]
    /\ Go(Recycler, "recycling")
    /\ UNCHANGED <<main, listed, link, work, broker, signals, failures>>

RecycleWakes(s) ==
    /\ pc[Recycler] = "recycling"
    /\ Wake(Recycler, s)
    /\ UNCHANGED <<main, pc>>

(* add_and_start: listed under the lock unless the event is set, launched  *)
(* after it.                                                               *)
Add(d) ==
    /\ pc[Registrar] = "handling" /\ d \notin listed
    /\ ~stop /\ main \notin {"code", "hung"}
    /\ listed' = listed \cup {d}
    /\ UNCHANGED <<stop, main, toWake, caught, link, work, pc, broker, signals, failures>>

Launch(d) ==
    /\ d \in listed /\ pc[d] = "off"
    /\ Go(d, "loop")
    /\ UNCHANGED <<control, link, work, broker, signals, failures>>

-----------------------------------------------------------------------------
(* DispatcherService.run: a step needs the broker, and its publisher, too, *)
(* tries for as long as it takes, unless it still has a connection to fail *)
(* on; the waits are on the event.                                         *)

Dispatch(d) ==
    /\ \/ pc[d] = "loop" /\ Go(d, IF stop THEN "done" ELSE "step")
       \/ pc[d] = "step" /\ broker /\ Go(d, "pause")
       \/ pc[d] = "pause" /\ EventFree /\ Go(d, "loop")
    /\ UNCHANGED <<control, link, work, broker, signals, failures>>

StepFails(d) ==
    /\ pc[d] = "step" /\ ~broker
    /\ Go(d, "pause")
    /\ UNCHANGED <<control, link, work, broker, signals, failures>>

-----------------------------------------------------------------------------
(* The broker.  A connection that breaks takes what was scheduled on it    *)
(* along.                                                                  *)

Lose(c) ==
    /\ conn[c] = "open" /\ ProcessFault
    /\ conn' = [conn EXCEPT ![c] = "lost"]
    /\ nudged' = nudged \ {c}
    /\ msg' = Returned(c)
    /\ UNCHANGED <<control, recorded, begun, pc, broker, signals>>

BrokerStops ==
    /\ broker /\ ProcessFault
    /\ broker' = FALSE
    /\ conn' = [c \in Consumers |-> IF conn[c] = "open" THEN "lost" ELSE conn[c]]
    /\ nudged' = {}
    /\ msg' = [m \in Msgs |-> IF msg[m] = "held" THEN "queued" ELSE msg[m]]
    /\ UNCHANGED <<control, recorded, begun, pc, signals>>

BrokerStarts ==
    /\ ~broker
    /\ broker' = TRUE
    /\ UNCHANGED <<control, link, work, pc, signals, failures>>

-----------------------------------------------------------------------------
MainThread ==
    RequestShutdown \/ Poll \/ Stop \/ \E s \in Services : WakeServices(s)

ConsumerThread(c) ==
    Loop(c) \/ Connect(c) \/ Record(c) \/ StopConsuming(c) \/ Notice(c) \/ Backoff(c) \/ Settle(c)

ProcessNext ==
    \/ MainThread \/ Signal
    \/ \E c \in Consumers : ConsumerThread(c) \/ Crash(c) \/ Lose(c)
    \/ \E m \in Msgs : Deliver(m)
    \/ Recycle \/ \E s \in Services : RecycleWakes(s)
    \/ \E d \in Dispatchers : Add(d) \/ Launch(d) \/ Dispatch(d) \/ StepFails(d)
    \/ BrokerStops \/ BrokerStarts

(* Every thread is scheduled, a handler ends (builds and requests have     *)
(* time limits), and the broker's container is restarted when it stops.    *)
ProcessFairness ==
    /\ WF_processVars(MainThread)
    /\ \A c \in Consumers : WF_processVars(ConsumerThread(c))
    /\ \A s \in Services : WF_processVars(RecycleWakes(s))
    /\ \A d \in Dispatchers : WF_processVars(Launch(d)) /\ WF_processVars(Dispatch(d))
    /\ WF_processVars(BrokerStarts)

ProcessSpec == ProcessInit /\ [][ProcessNext]_processVars /\ ProcessFairness

-----------------------------------------------------------------------------
(* Every variable keeps its type; only an open connection carries a        *)
(* delivery or a scheduled stop, and a thread has the connection its place *)
(* calls for.                                                              *)
ProcessTypeOK ==
    /\ stop \in BOOLEAN /\ broker \in BOOLEAN
    /\ main \in {"wait", "poll", "code", "set", "wake", "hung", "stop", "wake again", "join",
                 "returned", "exited"}
    /\ toWake \in [{"main", Recycler} -> SUBSET Services]
    /\ Consumers \subseteq listed /\ listed \subseteq Services
    /\ pc \in [Services -> {"off", "loop", "connecting", "connected", "consuming", "handling",
                            "recycling", "backoff", "step", "pause", "done"}]
    /\ conn \in [Consumers -> {"none", "open", "lost"}]
    /\ recorded \subseteq {c \in Consumers : conn[c] # "none"}
    /\ nudged \subseteq {c \in recorded : conn[c] = "open"}
    /\ msg \in [Msgs -> {"queued", "held", "gone"}]
    /\ \A m \in Msgs : msg[m] = "held" =>
          conn[Queue[m]] = "open" /\ pc[Queue[m]] \in {"handling", "recycling"}
    /\ \A c \in Consumers :
          pc[c] \in {"consuming", "handling", "recycling"} <=> c \in recorded /\ pc[c] # "backoff"
    /\ begun \subseteq Msgs /\ caught \subseteq Consumers
    /\ signals \in 0..MaxSignals /\ failures \in 0..MaxFailures

(* A shutdown by itself neither loses nor repeats a message: when nothing  *)
(* failed, the messages a handler was given are, at the exit, exactly      *)
(* those acknowledged, wherever the threads were when the event was set.   *)
ShutdownIsClean ==
    main = "exited" /\ failures = 0 =>
        /\ stop
        /\ \A m \in Msgs : m \in begun <=> msg[m] = "gone"

(* Once the event is set every launched thread ends, through lost          *)
(* connections and restarts of the broker, and with them the process;      *)
(* unless the main thread locked itself out in its signal handler.  The    *)
(* exception is a consumer that was connecting when the event was set and  *)
(* that neither round of nudges found: it blocks in start_consuming, and   *)
(* the process stays.                                                      *)
ThreadsEnd ==
    stop ~> \/ main = "hung"
            \/ /\ \A s \in Services \ caught : s \in listed => pc[s] = "done"
               /\ caught = {} => main = "exited"
=============================================================================
