--------------------------- MODULE Services_proofs ---------------------------
(***************************************************************************)
(* How the services of the system come and go: proofs about Registration,  *)
(* for any builders, options and bounds, and about ServiceLifecycle, for   *)
(* any consumers, dispatchers and messages.  The two machines share no     *)
(* variable; they stand side by side here.                                 *)
(***************************************************************************)
EXTENDS Registration, ServiceLifecycle, SequenceTheorems, TLAPS

(* The types, by the part of the system they are about.                    *)
BuilderTypes ==
    /\ life \in [Builders -> 0..MaxLives]
    /\ phase \in [Builders -> {"down", "waiting", "serving"}]
    /\ \A b \in Builders : phase[b] # "down" => life[b] > 0
    /\ ctrl \in SUBSET Uuids

CoordTypes ==
    /\ step \in {"idle", "reply", "start"}
    /\ step # "idle" => up /\ regQueue # <<>>
    /\ up \in BOOLEAN
    /\ stopping \in BOOLEAN
    /\ stopping => up
    /\ known \in SUBSET Opts
    /\ running \in SUBSET Opts

QueueTypes == regQueue \in Seq(Uuids)

HistoryTypes == replied \in SUBSET Uuids /\ stranded \in SUBSET Builders

FaultTypes == faults \in 0..MaxFaults

(* The type invariant, in the parts the proofs below work on.              *)
LEMMA TypeParts ==
    TypeOK <=> BuilderTypes /\ CoordTypes /\ QueueTypes /\ HistoryTypes /\ FaultTypes
BY DEF TypeOK, BuilderTypes, CoordTypes, QueueTypes, HistoryTypes, FaultTypes

-----------------------------------------------------------------------------
(* Type correctness. *)

(* The registration in the coordinator's hands is one of a known option.   *)
LEMMA HeadType ==
    ASSUME QueueTypes, regQueue # <<>>
    PROVE  /\ Head(regQueue) \in Uuids
           /\ Opt(Head(regQueue)) \in Opts
           /\ Tail(regQueue) \in Seq(Uuids)
<1>1. Head(regQueue) \in Uuids /\ Tail(regQueue) \in Seq(Uuids)
  BY HeadTailProperties DEF QueueTypes
<1>2. Opt(Head(regQueue)) \in Opts
  BY <1>1, RegistrationAssumption DEF Opt, Uuids
<1> QED BY <1>1, <1>2

(* The uuid of a builder that is up.                                       *)
LEMMA UuidType ==
    ASSUME BuilderTypes, NEW b \in Builders, phase[b] # "down"
    PROVE  Uuid(b) \in Uuids
BY RegistrationAssumption DEF BuilderTypes, Uuid, Uuids

(* The first state has the types.                                          *)
LEMMA TypeInit == Init => TypeOK
<1> SUFFICES ASSUME Init PROVE TypeOK
  OBVIOUS
<1>1. BuilderTypes
  BY RegistrationAssumption DEF Init, BuilderTypes
<1>2. CoordTypes /\ HistoryTypes
  BY DEF Init, CoordTypes, HistoryTypes
<1>3. QueueTypes
  BY EmptySeq DEF Init, QueueTypes
<1>4. FaultTypes
  BY RegistrationAssumption DEF Init, FaultTypes
<1> QED BY <1>1, <1>2, <1>3, <1>4, TypeParts

(* A step keeps the builders' types.                                       *)
LEMMA BuilderStep == TypeOK /\ [Next]_vars => BuilderTypes'
<1> SUFFICES ASSUME TypeOK, [Next]_vars PROVE BuilderTypes'
  OBVIOUS
<1>1. BuilderTypes
  BY TypeParts
<1>2. ASSUME NEW b \in Builders, Boot(b) PROVE BuilderTypes'
  <2>1. life[b] + 1 \in 1..MaxLives
    BY <1>1, <1>2, RegistrationAssumption DEF BuilderTypes, Boot
  <2>2. life' = [life EXCEPT ![b] = life[b] + 1]
    BY <1>2 DEF Boot
  <2>3. ctrl' = ctrl \union {<<b, life[b] + 1>>}
    BY <1>2 DEF Boot
  <2>4. phase' = [phase EXCEPT ![b] = "waiting"]
    BY <1>2 DEF Boot
  <2>5. life' \in [Builders -> 0..MaxLives] /\ ctrl' \in SUBSET Uuids
    BY <1>1, <2>1, <2>2, <2>3, RegistrationAssumption DEF BuilderTypes, Uuids
  <2>6. \A c \in Builders : phase'[c] # "down" => life'[c] > 0
    BY <1>1, <2>1, <2>2, <2>4, RegistrationAssumption DEF BuilderTypes
  <2> QED BY <1>1, <2>4, <2>5, <2>6 DEF BuilderTypes
<1>3. ASSUME NEW b \in Builders, GetReply(b) \/ TimesOut(b) \/ BuilderStops(b)
      PROVE  BuilderTypes'
  <2>1. /\ phase[b] # "down"
        /\ life' = life
        /\ ctrl' = ctrl \ {Uuid(b)}
        /\ \E p \in {"down", "serving"} : phase' = [phase EXCEPT ![b] = p]
    BY <1>3 DEF GetReply, TimesOut, BuilderStops
  <2> QED BY <1>1, <2>1 DEF BuilderTypes
<1>4. ASSUME \/ Coordinator \/ HandlerRaises
             \/ ShutdownBegins \/ CoordinatorExits \/ CoordinatorDies \/ UNCHANGED vars
      PROVE  BuilderTypes'
  BY <1>1, <1>4 DEF Coordinator, CoordinatorStarts, RegisterOption, Reply, StartAndAck,
     HandlerRaises, ShutdownBegins, CoordinatorExits, CoordinatorDies, GoesDown, vars,
     builderVars, BuilderTypes
<1> QED BY <1>2, <1>3, <1>4 DEF Next, Handshake

(* A step keeps the type of builder_reg.                                   *)
LEMMA QueueStep == TypeOK /\ [Next]_vars => QueueTypes'
<1> SUFFICES ASSUME TypeOK, [Next]_vars PROVE QueueTypes'
  OBVIOUS
<1>1. BuilderTypes /\ CoordTypes /\ QueueTypes
  BY TypeParts
<1>2. ASSUME NEW b \in Builders, Boot(b) PROVE QueueTypes'
  <2> DEFINE u == <<b, life[b] + 1>>
  <2>1. u \in Uuids
    BY <1>1, <1>2, RegistrationAssumption DEF BuilderTypes, Boot, Uuids
  <2>2. \/ regQueue' = Append(regQueue, u)
        \/ regQueue' = Append(Append(regQueue, u), u)
    BY <1>2 DEF Boot
  <2> HIDE DEF u
  <2> QED BY <1>1, <2>1, <2>2 DEF QueueTypes
<1>3. ASSUME StartAndAck PROVE QueueTypes'
  <2>1. Tail(regQueue) \in Seq(Uuids)
    BY <1>1, <1>3, HeadType DEF StartAndAck, CoordTypes
  <2> QED BY <1>1, <1>3, <2>1 DEF StartAndAck, QueueTypes
<1>4. ASSUME \/ \E b \in Builders : GetReply(b) \/ TimesOut(b) \/ BuilderStops(b)
             \/ CoordinatorStarts \/ RegisterOption \/ Reply
             \/ HandlerRaises \/ ShutdownBegins \/ CoordinatorExits \/ CoordinatorDies
             \/ UNCHANGED vars
      PROVE  QueueTypes'
  BY <1>1, <1>4 DEF GetReply, TimesOut, BuilderStops, CoordinatorStarts, RegisterOption,
     Reply, HandlerRaises, ShutdownBegins, CoordinatorExits, CoordinatorDies, GoesDown,
     vars, QueueTypes
<1> QED BY <1>2, <1>3, <1>4 DEF Next, Handshake, Coordinator

(* A step keeps the coordinator's types.                                   *)
LEMMA CoordStep == TypeOK /\ [Next]_vars => CoordTypes'
<1> SUFFICES ASSUME TypeOK, [Next]_vars PROVE CoordTypes'
  OBVIOUS
<1>1. CoordTypes /\ QueueTypes
  BY TypeParts
<1>2. ASSUME NEW b \in Builders, Boot(b) PROVE CoordTypes'
  <2>1. UNCHANGED coordVars /\ regQueue' # <<>>
    <3>1. \E u : \/ regQueue' = Append(regQueue, u)
                 \/ regQueue' = Append(Append(regQueue, u), u)
      BY <1>2 DEF Boot
    <3> QED BY <1>1, <1>2, <3>1 DEF Boot, QueueTypes
  <2> QED BY <1>1, <2>1 DEF CoordTypes, coordVars
<1>3. ASSUME RegisterOption PROVE CoordTypes'
  <2>1. Opt(Head(regQueue)) \in Opts
    BY <1>1, <1>3, HeadType DEF RegisterOption
  <2> QED BY <1>1, <1>3, <2>1 DEF RegisterOption, CoordTypes
<1>4. ASSUME StartAndAck PROVE CoordTypes'
  <2>1. Opt(Head(regQueue)) \in Opts
    BY <1>1, <1>4, HeadType DEF StartAndAck, CoordTypes
  <2> QED BY <1>1, <1>4, <2>1 DEF StartAndAck, CoordTypes
<1>5. ASSUME Reply \/ HandlerRaises PROVE CoordTypes'
  BY <1>1, <1>5 DEF Reply, HandlerRaises, CoordTypes
<1>6. ASSUME CoordinatorStarts \/ ShutdownBegins \/ CoordinatorExits \/ CoordinatorDies
      PROVE  CoordTypes'
  BY <1>1, <1>6 DEF CoordinatorStarts, ShutdownBegins, CoordinatorExits, CoordinatorDies,
     GoesDown, CoordTypes
<1>7. ASSUME \/ \E b \in Builders : GetReply(b) \/ TimesOut(b) \/ BuilderStops(b)
             \/ UNCHANGED vars
      PROVE  CoordTypes'
  BY <1>1, <1>7 DEF GetReply, TimesOut, BuilderStops, vars, coordVars, CoordTypes
<1> QED BY <1>2, <1>3, <1>4, <1>5, <1>6, <1>7 DEF Next, Handshake, Coordinator

(* A step keeps the histories' types.                                      *)
LEMMA HistoryStep == TypeOK /\ [Next]_vars => HistoryTypes'
<1> SUFFICES ASSUME TypeOK, [Next]_vars PROVE HistoryTypes'
  OBVIOUS
<1>1. CoordTypes /\ QueueTypes /\ HistoryTypes
  BY TypeParts
<1>2. ASSUME Reply \/ HandlerRaises PROVE HistoryTypes'
  <2>1. Head(regQueue) \in Uuids
    BY <1>1, <1>2, HeadType DEF Reply, HandlerRaises, CoordTypes
  <2> QED BY <1>1, <1>2, <2>1 DEF Reply, HandlerRaises, HistoryTypes
<1>3. ASSUME NEW b \in Builders,
             Boot(b) \/ GetReply(b) \/ TimesOut(b) \/ BuilderStops(b)
      PROVE  HistoryTypes'
  BY <1>1, <1>3 DEF Boot, GetReply, TimesOut, BuilderStops, HistoryTypes
<1>4. ASSUME \/ CoordinatorStarts \/ RegisterOption \/ StartAndAck
             \/ ShutdownBegins \/ CoordinatorExits \/ CoordinatorDies \/ UNCHANGED vars
      PROVE  HistoryTypes'
  BY <1>1, <1>4 DEF CoordinatorStarts, RegisterOption, StartAndAck, ShutdownBegins,
     CoordinatorExits, CoordinatorDies, GoesDown,
     vars, HistoryTypes
<1> QED BY <1>2, <1>3, <1>4 DEF Next, Handshake, Coordinator

(* A step keeps the number of faults within its bound.                     *)
LEMMA FaultStep == TypeOK /\ [Next]_vars => FaultTypes'
<1> SUFFICES ASSUME TypeOK, [Next]_vars PROVE FaultTypes'
  OBVIOUS
<1>1. faults \in 0..MaxFaults
  BY TypeParts DEF FaultTypes
<1>2. faults' = faults \/ (faults < MaxFaults /\ faults' = faults + 1)
  BY DEF Next, Handshake, Coordinator, Boot, GetReply, TimesOut, BuilderStops,
     CoordinatorStarts, RegisterOption, Reply, StartAndAck, HandlerRaises,
     ShutdownBegins, CoordinatorExits, CoordinatorDies, GoesDown,
     vars, Fault, NoFault
<1> QED BY <1>1, <1>2, RegistrationAssumption DEF FaultTypes

(* A step keeps the types.                                                 *)
LEMMA TypeStep == TypeOK /\ [Next]_vars => TypeOK'
BY TypeParts, BuilderStep, CoordStep, QueueStep, HistoryStep, FaultStep, PTL

(* Type correctness: in particular the handler holds a registration only   *)
(* while one is at the head of builder_reg and the coordinator runs.       *)
THEOREM TypeCorrect == Spec => []TypeOK
BY TypeInit, TypeStep, PTL DEF Spec

-----------------------------------------------------------------------------
(* An answered builder has its dispatcher. *)

(* Only uuids of lives already begun are queued or answered.               *)
Begun(u) == u[2] <= life[u[1]]

BegunInv ==
    /\ \A u \in replied : Begun(u)
    /\ \A i \in 1..Len(regQueue) : Begun(regQueue[i])

(* What a builder has once its present life was answered: a dispatcher, or *)
(* the registration that will start one, or an outage to blame, one that is*)
(* past or one that has begun.                                             *)
Backed(b) == OptOf[b] \in running \/ InQueue(Uuid(b)) \/ b \in stranded \/ stopping

AnswerInv ==
    /\ \A b \in Builders : phase[b] = "serving" => Uuid(b) \in replied
    /\ \A b \in Builders : phase[b] # "down" /\ Uuid(b) \in replied => Backed(b)
    /\ step = "start" => Head(regQueue) \in replied

ServeInv == TypeOK /\ BegunInv /\ AnswerInv

(* The invariant holds at the start: nobody is up and nothing was answered.*)
LEMMA ServeInit == Init => ServeInv
<1> SUFFICES ASSUME Init PROVE ServeInv
  OBVIOUS
<1>1. TypeOK
  BY TypeInit
<1>2. BegunInv
  BY DEF Init, BegunInv
<1>3. AnswerInv
  BY DEF Init, AnswerInv
<1> QED BY <1>1, <1>2, <1>3 DEF ServeInv

(* What a step other than Boot and StartAndAck does with builder_reg:      *)
(* nothing.                                                                *)
LEMMA QueueKept ==
    ASSUME \/ \E b \in Builders : GetReply(b) \/ TimesOut(b) \/ BuilderStops(b)
           \/ CoordinatorStarts \/ RegisterOption \/ Reply
           \/ HandlerRaises \/ ShutdownBegins \/ CoordinatorExits \/ CoordinatorDies
           \/ UNCHANGED vars
    PROVE  UNCHANGED <<life, regQueue>>
BY DEF GetReply, TimesOut, BuilderStops, CoordinatorStarts, RegisterOption, Reply,
   HandlerRaises, ShutdownBegins, CoordinatorExits, CoordinatorDies, GoesDown, vars, builderVars

(* The queue Boot leaves: the old one, with the new life at its tail.      *)
LEMMA BootQueue ==
    ASSUME TypeOK, NEW b \in Builders, Boot(b)
    PROVE  /\ Len(regQueue') >= Len(regQueue)
           /\ \A i \in 1..Len(regQueue) : regQueue'[i] = regQueue[i]
           /\ \A i \in 1..Len(regQueue') :
                 regQueue'[i] = <<b, life[b] + 1>> \/ i <= Len(regQueue)
           /\ regQueue # <<>> => Head(regQueue') = Head(regQueue)
<1> DEFINE u == <<b, life[b] + 1>>
<1>1. u \in Uuids
  BY TypeParts, RegistrationAssumption DEF BuilderTypes, Boot, Uuids
<1>2. regQueue \in Seq(Uuids)
  BY TypeParts DEF QueueTypes
<1>3. \/ regQueue' = Append(regQueue, u)
      \/ regQueue' = Append(Append(regQueue, u), u)
  BY DEF Boot
<1> HIDE DEF u
<1>4. \A i \in 1..Len(regQueue') : regQueue'[i] = u \/ i <= Len(regQueue)
  BY <1>1, <1>2, <1>3
<1>5. /\ Len(regQueue') >= Len(regQueue)
      /\ \A i \in 1..Len(regQueue) : regQueue'[i] = regQueue[i]
      /\ regQueue # <<>> => Head(regQueue') = Head(regQueue)
  BY <1>1, <1>2, <1>3
<1> QED BY <1>4, <1>5 DEF u

(* The queue StartAndAck leaves holds what it held, but for the registration*)
(* it acknowledges.                                                        *)
LEMMA AckQueue ==
    ASSUME TypeOK, StartAndAck
    PROVE  /\ \A i \in 1..Len(regQueue') :
                 \E j \in 1..Len(regQueue) : regQueue'[i] = regQueue[j]
           /\ \A i \in 1..Len(regQueue) :
                 \/ regQueue[i] = Head(regQueue)
                 \/ \E j \in 1..Len(regQueue') : regQueue'[j] = regQueue[i]
<1>1. regQueue \in Seq(Uuids) /\ regQueue # <<>>
  BY TypeParts DEF QueueTypes, CoordTypes, StartAndAck
<1>2. regQueue' = Tail(regQueue) \/ regQueue' = regQueue
  BY DEF StartAndAck
<1>3. CASE regQueue' = regQueue
  BY <1>1, <1>3
<1>4. CASE regQueue' = Tail(regQueue)
  <2>1. /\ Len(regQueue') = Len(regQueue) - 1
        /\ \A i \in 1..Len(regQueue') : regQueue'[i] = regQueue[i + 1]
        /\ Head(regQueue) = regQueue[1]
        /\ Len(regQueue) \in Nat
    BY <1>1, <1>4
  <2>2. ASSUME NEW i \in 1..Len(regQueue')
        PROVE  \E j \in 1..Len(regQueue) : regQueue'[i] = regQueue[j]
    <3>1. i + 1 \in 1..Len(regQueue) /\ regQueue'[i] = regQueue[i + 1]
      BY <2>1
    <3> QED BY <3>1
  <2>3. ASSUME NEW i \in 1..Len(regQueue), i # 1
        PROVE  \E j \in 1..Len(regQueue') : regQueue'[j] = regQueue[i]
    <3>1. i - 1 \in 1..Len(regQueue') /\ regQueue'[i - 1] = regQueue[i - 1 + 1]
      BY <2>1, <2>3
    <3>2. i - 1 + 1 = i
      OBVIOUS
    <3> QED BY <3>1, <3>2
  <2> QED BY <2>1, <2>2, <2>3
<1> QED BY <1>2, <1>3, <1>4

(* A step queues and answers only lives already begun.                     *)
LEMMA BegunStep == ServeInv /\ [Next]_vars => BegunInv'
<1> SUFFICES ASSUME ServeInv, [Next]_vars PROVE BegunInv'
  OBVIOUS
<1>1. TypeOK /\ BegunInv
  BY DEF ServeInv
<1>2. /\ regQueue \in Seq(Uuids)
      /\ replied \in SUBSET Uuids
      /\ life \in [Builders -> 0..MaxLives]
      /\ step # "idle" => regQueue # <<>>
  BY <1>1, TypeParts DEF QueueTypes, HistoryTypes, BuilderTypes, CoordTypes
<1>3. ASSUME NEW b \in Builders, Boot(b) PROVE BegunInv'
  <2> DEFINE Then(u) == u[2] <= life'[u[1]]
  <2>1. replied' = replied /\ life' = [life EXCEPT ![b] = life[b] + 1]
    BY <1>3 DEF Boot
  <2>2. \A u \in Uuids : Begun(u) => Then(u)
    BY <1>2, <2>1, RegistrationAssumption DEF Begun, Uuids
  <2>3. Then(<<b, life[b] + 1>>)
    BY <1>2, <2>1, RegistrationAssumption
  <2> HIDE DEF Then
  <2>4. ASSUME NEW i \in 1..Len(regQueue') PROVE Then(regQueue'[i])
    <3>1. CASE regQueue'[i] = <<b, life[b] + 1>>
      BY <2>3, <3>1
    <3>2. CASE i <= Len(regQueue)
      <4>1. i \in 1..Len(regQueue) /\ regQueue'[i] = regQueue[i]
        BY <1>1, <1>2, <1>3, <3>2, BootQueue
      <4>2. regQueue[i] \in Uuids /\ Begun(regQueue[i])
        BY <1>1, <1>2, <4>1, ElementOfSeq DEF BegunInv
      <4> QED BY <2>2, <4>1, <4>2
    <3> QED BY <1>1, <1>3, <3>1, <3>2, BootQueue
  <2>5. \A u \in replied' : Then(u)
    BY <1>1, <1>2, <2>1, <2>2 DEF BegunInv
  <2>6. \A i \in 1..Len(regQueue') : Then(regQueue'[i])
    BY <2>4
  <2> QED BY <2>5, <2>6 DEF BegunInv, Begun, Then
<1>4. ASSUME StartAndAck PROVE BegunInv'
  <2>1. UNCHANGED <<life, replied>>
    BY <1>4 DEF StartAndAck, builderVars
  <2> QED BY <1>1, <1>4, <2>1, AckQueue DEF BegunInv, Begun
<1>5. ASSUME Reply \/ HandlerRaises PROVE BegunInv'
  <2>1. UNCHANGED <<life, regQueue>>
    BY <1>5, QueueKept
  <2>2. replied' \subseteq replied \union {Head(regQueue)} /\ regQueue # <<>>
    BY <1>2, <1>5 DEF Reply, HandlerRaises
  <2>3. Begun(Head(regQueue))
    <3>1. Head(regQueue) = regQueue[1] /\ 1 \in 1..Len(regQueue)
      BY <1>2, <2>2
    <3> QED BY <1>1, <3>1 DEF BegunInv
  <2> QED BY <1>1, <2>1, <2>2, <2>3 DEF BegunInv, Begun
<1>6. ASSUME \/ \E b \in Builders : GetReply(b) \/ TimesOut(b) \/ BuilderStops(b)
             \/ CoordinatorStarts \/ RegisterOption \/ ShutdownBegins
             \/ CoordinatorExits \/ CoordinatorDies \/ UNCHANGED vars
      PROVE  BegunInv'
  <2>1. UNCHANGED <<life, regQueue, replied>>
    BY <1>6, QueueKept DEF GetReply, TimesOut, BuilderStops, CoordinatorStarts,
       RegisterOption, ShutdownBegins, CoordinatorExits, CoordinatorDies, GoesDown, vars
  <2> QED BY <1>1, <2>1 DEF BegunInv, Begun
<1> QED BY <1>3, <1>4, <1>5, <1>6 DEF Next, Handshake, Coordinator

(* Boot: the new life was never answered, and the others keep what they    *)
(* have.                                                                   *)
LEMMA AnswerBoot ==
    ASSUME ServeInv, NEW b \in Builders, Boot(b)
    PROVE  AnswerInv'
<1>1. TypeOK /\ BegunInv /\ AnswerInv
  BY DEF ServeInv
<1>2. /\ regQueue \in Seq(Uuids)
      /\ replied \in SUBSET Uuids
      /\ life \in [Builders -> 0..MaxLives]
      /\ phase \in [Builders -> {"down", "waiting", "serving"}]
      /\ step # "idle" => regQueue # <<>>
  BY <1>1, TypeParts DEF QueueTypes, HistoryTypes, BuilderTypes, CoordTypes
<1>3. /\ phase' = [phase EXCEPT ![b] = "waiting"]
      /\ life' = [life EXCEPT ![b] = life[b] + 1]
      /\ stranded' = stranded \ {b}
      /\ UNCHANGED <<running, replied, step, stopping>>
  BY DEF Boot, coordVars
<1>4. Uuid(b)' \notin replied'
  <2>1. Uuid(b)' = <<b, life[b] + 1>>
    BY <1>2, <1>3 DEF Uuid
  <2>2. ~Begun(<<b, life[b] + 1>>)
    BY <1>2, RegistrationAssumption DEF Begun
  <2> QED BY <1>1, <1>3, <2>1, <2>2 DEF BegunInv
<1>5. ASSUME NEW c \in Builders, c # b
      PROVE  /\ Uuid(c)' = Uuid(c) /\ phase'[c] = phase[c]
             /\ Backed(c) => Backed(c)'
  <2>1. Uuid(c)' = Uuid(c) /\ phase'[c] = phase[c]
    BY <1>2, <1>3, <1>5 DEF Uuid
  <2>2. InQueue(Uuid(c)) => InQueue(Uuid(c))'
    <3>1. \A i \in 1..Len(regQueue) : i \in 1..Len(regQueue') /\ regQueue'[i] = regQueue[i]
      BY <1>1, <1>2, BootQueue
    <3> QED BY <2>1, <3>1 DEF InQueue
  <2> QED BY <1>3, <1>5, <2>1, <2>2 DEF Backed
<1>6. step = "start" => Head(regQueue') \in replied'
  BY <1>1, <1>2, <1>3, BootQueue DEF AnswerInv
<1>7. \A c \in Builders : phase'[c] = "serving" => Uuid(c)' \in replied'
  BY <1>1, <1>2, <1>3, <1>5 DEF AnswerInv
<1>8. \A c \in Builders : phase'[c] # "down" /\ Uuid(c)' \in replied' => Backed(c)'
  BY <1>1, <1>3, <1>4, <1>5 DEF AnswerInv
<1> QED BY <1>3, <1>6, <1>7, <1>8 DEF AnswerInv

(* StartAndAck: whoever loses its place in the queue has its dispatcher.   *)
LEMMA AnswerAck ==
    ASSUME ServeInv, StartAndAck
    PROVE  AnswerInv'
<1>1. TypeOK /\ AnswerInv
  BY DEF ServeInv
<1>2. /\ running \subseteq running'
      /\ Opt(Head(regQueue)) \in running' \/ stopping'
      /\ stopping => stopping'
      /\ step' = "idle"
      /\ UNCHANGED <<life, phase, replied, stranded>>
  BY DEF StartAndAck, builderVars
<1>3. \A b \in Builders : Uuid(b)' = Uuid(b)
  BY <1>2 DEF Uuid
<1>4. ASSUME NEW b \in Builders, Backed(b) PROVE Backed(b)'
  <2>1. CASE OptOf[b] \in running \/ b \in stranded \/ stopping
    BY <1>2, <2>1 DEF Backed
  <2>2. CASE InQueue(Uuid(b))
    <3>1. PICK i \in 1..Len(regQueue) : regQueue[i] = Uuid(b)
      BY <2>2 DEF InQueue
    <3>2. CASE Uuid(b) = Head(regQueue)
      BY <1>2, <3>2 DEF Backed, Opt, Uuid
    <3>3. CASE \E j \in 1..Len(regQueue') : regQueue'[j] = Uuid(b)
      BY <1>3, <3>3 DEF Backed, InQueue
    <3> QED BY <1>1, <3>1, <3>2, <3>3, AckQueue
  <2> QED BY <1>4, <2>1, <2>2 DEF Backed
<1> QED BY <1>1, <1>2, <1>3, <1>4 DEF AnswerInv

(* Reply: the builder it answers has its registration at the head.         *)
LEMMA AnswerReply ==
    ASSUME ServeInv, Reply \/ HandlerRaises
    PROVE  AnswerInv'
<1>1. TypeOK /\ AnswerInv
  BY DEF ServeInv
<1>2. regQueue \in Seq(Uuids) /\ regQueue # <<>>
  BY <1>1, TypeParts DEF QueueTypes, CoordTypes, Reply, HandlerRaises
<1>3. UNCHANGED <<life, phase, regQueue, running, stranded, stopping>>
  BY DEF Reply, HandlerRaises, builderVars
<1>4. /\ replied' = replied \/ replied' = replied \union {Head(regQueue)}
      /\ step' = "start" => Head(regQueue) \in replied'
  BY DEF Reply, HandlerRaises
<1>5. \A b \in Builders : Uuid(b)' = Uuid(b) /\ (Backed(b) => Backed(b)')
  BY <1>3 DEF Uuid, Backed, InQueue
<1>6. ASSUME NEW b \in Builders, Uuid(b) = Head(regQueue) PROVE Backed(b)
  <2>1. regQueue[1] = Uuid(b) /\ 1 \in 1..Len(regQueue)
    BY <1>2, <1>6
  <2> QED BY <2>1 DEF Backed, InQueue
<1> QED BY <1>1, <1>3, <1>4, <1>5, <1>6 DEF AnswerInv

(* The coordinator goes down: whoever was answered is stranded.                     *)
LEMMA AnswerStop ==
    ASSUME ServeInv, CoordinatorExits \/ CoordinatorDies
    PROVE  AnswerInv'
<1>1. AnswerInv
  BY DEF ServeInv
<1>2. /\ UNCHANGED <<life, phase, replied>>
      /\ step' = "idle"
      /\ stranded' = {b \in Builders : phase[b] # "down" /\ Uuid(b) \in replied}
  BY DEF CoordinatorExits, CoordinatorDies, GoesDown, builderVars
<1>3. \A b \in Builders : Uuid(b)' = Uuid(b)
  BY <1>2 DEF Uuid
<1> QED BY <1>1, <1>2, <1>3 DEF AnswerInv, Backed

(* A builder comes up after its answer, or goes down; the coordinator      *)
(* starts or registers an option: nobody loses what it has.                *)
LEMMA AnswerOther ==
    ASSUME ServeInv,
           \/ \E b \in Builders : GetReply(b) \/ TimesOut(b) \/ BuilderStops(b)
           \/ CoordinatorStarts \/ RegisterOption \/ ShutdownBegins \/ UNCHANGED vars
    PROVE  AnswerInv'
<1>1. TypeOK /\ AnswerInv
  BY DEF ServeInv
<1>2. UNCHANGED <<life, regQueue, running, replied, stranded>> /\ (stopping => stopping')
  BY DEF GetReply, TimesOut, BuilderStops, CoordinatorStarts, RegisterOption,
     ShutdownBegins, vars,
     coordVars, builderVars
<1>3. \A b \in Builders : Uuid(b)' = Uuid(b) /\ (Backed(b) => Backed(b)')
  BY <1>2 DEF Uuid, Backed, InQueue
<1>4. \A b \in Builders :
        \/ phase'[b] = phase[b]
        \/ phase'[b] = "down"
        \/ phase'[b] = "serving" /\ phase[b] = "waiting" /\ Uuid(b) \in replied
  BY <1>1, TypeParts DEF GetReply, TimesOut, BuilderStops, CoordinatorStarts, RegisterOption,
     ShutdownBegins, vars, coordVars, builderVars, BuilderTypes
<1>5. step' = "start" => step = "start"
  BY DEF GetReply, TimesOut, BuilderStops, CoordinatorStarts, RegisterOption,
     ShutdownBegins, vars,
     coordVars, builderVars
<1>6. \A b \in Builders : phase'[b] = "serving" => Uuid(b)' \in replied'
  BY <1>1, <1>2, <1>3, <1>4 DEF AnswerInv
<1>7. \A b \in Builders : phase'[b] # "down" /\ Uuid(b)' \in replied' => Backed(b)'
  BY <1>1, <1>2, <1>3, <1>4 DEF AnswerInv
<1> QED BY <1>1, <1>2, <1>5, <1>6, <1>7 DEF AnswerInv

(* The invariant is inductive.                                             *)
LEMMA ServeStep == ServeInv /\ [Next]_vars => ServeInv'
<1> SUFFICES ASSUME ServeInv, [Next]_vars PROVE ServeInv'
  OBVIOUS
<1>1. TypeOK' /\ BegunInv'
  BY TypeStep, BegunStep DEF ServeInv
<1>2. AnswerInv'
  BY AnswerBoot, AnswerAck, AnswerReply, AnswerStop, AnswerOther
     DEF Next, Handshake, Coordinator
<1> QED BY <1>1, <1>2 DEF ServeInv

(* However the lives of the builders, the redeliveries and the restarts    *)
(* interleave: a builder that serves has a dispatcher, or a registration in*)
(* the queue, or was or is being stranded by the coordinator.              *)
THEOREM ServingHasDispatcherHolds == Spec => []ServingHasDispatcher
<1>1. ServeInv => ServingHasDispatcher
  BY TypeParts DEF ServeInv, AnswerInv, Backed, ServingHasDispatcher, BuilderTypes
<1> QED BY <1>1, ServeInit, ServeStep, PTL DEF Spec

(* A registration that leaves builder_reg was answered, and its dispatcher *)
(* runs unless the coordinator is shutting down, whatever failed before.   *)
THEOREM AckedMeansServedHolds == Spec => AckedMeansServed
<1> DEFINE Acks == regQueue # <<>> /\ Len(regQueue') < Len(regQueue)
           Good == /\ Head(regQueue) \in replied
                   /\ Opt(Head(regQueue)) \in running' \/ stopping
<1>1. ServeInv /\ [Next]_vars => (Acks => Good)
  <2> SUFFICES ASSUME ServeInv, [Next]_vars, Acks PROVE Good
    OBVIOUS
  <2>1. TypeOK /\ AnswerInv /\ regQueue \in Seq(Uuids)
    BY TypeParts DEF ServeInv, QueueTypes
  <2>2. CASE StartAndAck
    BY <2>1, <2>2 DEF StartAndAck, AnswerInv
  <2>3. ASSUME NEW b \in Builders, Boot(b) PROVE FALSE
    <3>1. Len(regQueue') >= Len(regQueue)
      BY <2>1, <2>3, BootQueue
    <3>2. Len(regQueue) \in Nat
      BY <2>1
    <3>3. Len(regQueue') \in Nat
      BY <2>1, TypeStep DEF TypeOK
    <3> QED BY <3>1, <3>2, <3>3
  <2>4. ASSUME regQueue' = regQueue PROVE FALSE
    BY <2>1, <2>4
  <2> QED BY <2>2, <2>3, <2>4, QueueKept DEF Next, Handshake, Coordinator
<1>2. ServeInv /\ [Next]_vars => [Acks => Good]_vars
  BY <1>1
<1> QED BY <1>2, ServeInit, ServeStep, PTL DEF Spec, AckedMeansServed

-----------------------------------------------------------------------------
(* The life of a process.                                                  *)

(* Places of the main thread after its loop.                               *)
Ending == {"stop", "wake again", "join", "returned", "exited"}
Handler == {"handling", "recycling"}

(* The invariant: while nothing has failed, the messages that were begun   *)
(* are those that left their queue, and one that is not acknowledged yet   *)
(* is in the hands of its consumer; the main thread leaves its loop only   *)
(* for the event, and the process ends after all its threads.              *)
MessagesKept ==
    /\ \A m \in Msgs : msg[m] \in {"queued", "held", "gone"}
    /\ \A m \in Msgs : m \in begun <=> msg[m] # "queued"
    /\ \A m \in Msgs : msg[m] = "held" => pc[Queue[m]] \in Handler

CleanInv ==
    /\ failures \in Nat
    /\ DOMAIN pc = Services /\ DOMAIN msg = Msgs
    /\ stop \in BOOLEAN
    /\ main \in Ending => stop
    /\ main = "exited" => \A s \in Services : pc[s] \in {"off", "done"}
    /\ failures = 0 => MessagesKept

(* A dispatcher that is listed and not launched yet has its registration   *)
(* under way.                                                              *)
LaunchInv ==
    /\ DOMAIN pc = Services
    /\ \A d \in listed : pc[d] = "off" => pc[Registrar] \in Handler

LEMMA CleanInit == ProcessInit => CleanInv /\ LaunchInv
<1> SUFFICES ASSUME ProcessInit PROVE CleanInv /\ LaunchInv
  OBVIOUS
<1>1. /\ failures \in Nat /\ DOMAIN pc = Services /\ DOMAIN msg = Msgs /\ stop \in BOOLEAN
      /\ main = "wait"
  BY DEF ProcessInit
<1>2. MessagesKept
  BY DEF ProcessInit, MessagesKept
<1>3. \A d \in listed : pc[d] = "loop"
  BY DEF ProcessInit, Services
<1> QED BY <1>1, <1>2, <1>3 DEF CleanInv, LaunchInv, Ending

(* A step without messages keeps them where they are.                      *)
LEMMA CleanThread ==
    ASSUME CleanInv, NEW s \in Services, NEW p, Go(s, p),
           UNCHANGED <<stop, main, msg, begun>>, failures' = failures,
           pc[s] \notin Handler, pc[s] # "done",
           main = "exited" => FALSE
    PROVE  CleanInv'
<1>1. /\ DOMAIN pc' = Services
      /\ \A x \in Services : x # s => pc'[x] = pc[x]
  BY DEF CleanInv, Go
<1>2. failures = 0 => MessagesKept'
  <2> SUFFICES ASSUME MessagesKept PROVE MessagesKept'
    BY DEF CleanInv
  <2>1. \A m \in Msgs : msg[m] = "held" => Queue[m] # s /\ Queue[m] \in Services
    BY LifecycleAssumption DEF MessagesKept, Services
  <2> QED BY <1>1, <2>1 DEF MessagesKept
<1> QED BY <1>1, <1>2 DEF CleanInv

(* After a fault nothing is claimed of the messages.                       *)
LEMMA CleanFault ==
    ASSUME CleanInv, ProcessFault, UNCHANGED <<stop, main>>, DOMAIN msg' = Msgs,
           \/ pc' = pc
           \/ \E s \in Services : pc[s] \notin {"off", "done"} /\ \E p : Go(s, p)
    PROVE  CleanInv'
BY DEF CleanInv, ProcessFault, Go

(* Nobody runs in a process that has exited.                               *)
LEMMA NobodyRuns ==
    ASSUME CleanInv, NEW s \in Services, pc[s] \notin {"off", "done"}
    PROVE  main # "exited"
BY DEF CleanInv

LEMMA CleanConsumer ==
    ASSUME CleanInv, NEW c \in Consumers, ConsumerThread(c) \/ Crash(c) \/ Lose(c)
    PROVE  CleanInv'
<1>0. c \in Services
  BY DEF Services
<1> USE DEF control, link, work
<1>1. CASE Loop(c) \/ Connect(c) \/ Record(c) \/ StopConsuming(c) \/ Backoff(c) \/ Notice(c)
  <2>1. /\ \E p : Go(c, p)
        /\ UNCHANGED <<stop, main, msg, begun>> /\ failures' = failures
        /\ pc[c] \in {"loop", "connecting", "connected", "consuming", "backoff"}
    BY <1>1 DEF Loop, Connect, Record, StopConsuming, Backoff, Notice, Leave
  <2> QED BY <1>0, <2>1, CleanThread, NobodyRuns DEF Handler
<1>2. CASE Settle(c)
  <2>1. /\ Go(c, "consuming") /\ pc[c] \in Handler /\ UNCHANGED <<stop, main, begun>>
    BY <1>2 DEF Settle, Handler
  <2>2. CASE ProcessFault /\ msg' = Returned(c)
    BY <1>0, <2>1, <2>2, CleanFault DEF Returned, Handler
  <2>3. CASE /\ failures' = failures
             /\ msg' = [m \in Msgs |-> IF Queue[m] = c /\ msg[m] = "held" THEN "gone" ELSE msg[m]]
    <3>1. DOMAIN pc' = Services /\ \A x \in Services : x # c => pc'[x] = pc[x]
      BY <2>1 DEF CleanInv, Go
    <3>2. ASSUME MessagesKept PROVE MessagesKept'
      <4>1. \A m \in Msgs : Queue[m] \in Services
        BY LifecycleAssumption DEF Services
      <4> QED BY <2>1, <2>3, <3>1, <3>2, <4>1 DEF MessagesKept
    <3>3. main # "exited"
      BY <1>0, <2>1, NobodyRuns DEF Handler
    <3> QED BY <2>1, <2>3, <3>1, <3>2, <3>3 DEF CleanInv
  <2> QED BY <1>2, <2>2, <2>3 DEF Settle
<1>3. CASE Crash(c)
  <2>1. ProcessFault /\ UNCHANGED <<stop, main, msg>> /\ pc[c] = "consuming" /\ \E p : Go(c, p)
    BY <1>3 DEF Crash, Leave
  <2> QED BY <1>0, <2>1, CleanFault DEF CleanInv
<1>4. CASE Lose(c)
  <2>1. ProcessFault /\ UNCHANGED <<stop, main, pc>> /\ DOMAIN msg' = Msgs
    BY <1>4 DEF Lose, Returned
  <2> QED BY <2>1, CleanFault
<1> QED BY <1>1, <1>2, <1>3, <1>4 DEF ConsumerThread

LEMMA CleanDeliver == ASSUME CleanInv, NEW m \in Msgs, Deliver(m) PROVE CleanInv'
<1> DEFINE c == Queue[m]
<1> USE DEF control
<1>1. /\ c \in Services /\ pc[c] = "consuming" /\ Go(c, "handling") /\ msg[m] = "queued"
      /\ begun' = begun \cup {m} /\ UNCHANGED <<stop, main>>
  BY LifecycleAssumption DEF Deliver, Services
<1>2. CASE ProcessFault /\ msg' = msg
  BY <1>1, <1>2, CleanFault DEF CleanInv
<1>3. CASE /\ failures' = failures
           /\ msg' = [msg EXCEPT ![m] = IF c \in Early THEN "gone" ELSE "held"]
  <2>1. DOMAIN pc' = Services /\ pc'[c] = "handling" /\ \A x \in Services : x # c => pc'[x] = pc[x]
    BY <1>1 DEF CleanInv, Go
  <2>2. ASSUME MessagesKept PROVE MessagesKept'
    <3>1. \A n \in Msgs : Queue[n] \in Services
      BY LifecycleAssumption DEF Services
    <3>2. DOMAIN msg = Msgs
      BY DEF CleanInv
    <3>3. \A n \in Msgs : n # m => msg'[n] = msg[n]
      BY <1>3, <3>2
    <3>4. msg'[m] \in {"held", "gone"}
      BY <1>3, <3>2
    <3> HIDE DEF c
    <3>5. \A n \in Msgs : msg'[n] = "held" => pc'[Queue[n]] \in Handler
      BY <2>1, <2>2, <3>1, <3>3 DEF MessagesKept, Handler, c
    <3> QED BY <1>1, <2>2, <3>3, <3>4, <3>5 DEF MessagesKept
  <2>3. main # "exited"
    BY <1>1, NobodyRuns
  <2> QED BY <1>1, <1>3, <2>1, <2>2, <2>3 DEF CleanInv
<1> QED BY <1>2, <1>3 DEF Deliver, link

LEMMA CleanMain == ASSUME CleanInv, MainThread \/ Signal PROVE CleanInv'
<1> USE DEF control, link, work
<1>1. /\ UNCHANGED <<msg, begun, pc, failures>>
      /\ stop' \in BOOLEAN
      /\ stop => stop'
      /\ main' \in Ending => stop' \/ main \in Ending
      /\ main' = "exited" => main = "exited" \/ \A s \in Services : pc[s] \in {"off", "done"}
  <2>1. CASE RequestShutdown
    BY <2>1 DEF RequestShutdown, SetStop, Ending, CleanInv
  <2>2. CASE Poll
    BY <2>2 DEF Poll, Ending, CleanInv
  <2>3. CASE Stop
    BY <2>3 DEF Stop, Ending, CleanInv
  <2>4. ASSUME NEW s \in Services, WakeServices(s)
        PROVE  UNCHANGED <<msg, begun, pc, failures, stop, main>>
    BY <2>4 DEF WakeServices, Wake, RequestStop
  <2>5. CASE Signal
    BY <2>5 DEF Signal, Ending, CleanInv
  <2> QED BY <2>1, <2>2, <2>3, <2>4, <2>5 DEF MainThread, CleanInv
<1>2. ASSUME main' \in Ending PROVE stop'
  <2>1. CASE main \in Ending
    <3>1. stop
      BY <2>1 DEF CleanInv
    <3> QED BY <1>1, <3>1, Zenon
  <2>2. CASE main \notin Ending
    BY <1>1, <1>2, <2>2, Zenon
  <2> QED BY <2>1, <2>2
<1>3. MessagesKept => MessagesKept'
  BY <1>1 DEF MessagesKept
<1>4. main' = "exited" => \A s \in Services : pc'[s] \in {"off", "done"}
  BY <1>1 DEF CleanInv
<1>5. /\ failures' \in Nat /\ DOMAIN pc' = Services /\ DOMAIN msg' = Msgs
      /\ failures' = 0 => MessagesKept'
  BY <1>1, <1>3 DEF CleanInv
<1> QED BY <1>1, <1>2, <1>4, <1>5, Zenon DEF CleanInv

LEMMA CleanOthers ==
    ASSUME CleanInv, LaunchInv,
           \/ Recycle \/ \E s \in Services : RecycleWakes(s)
           \/ \E d \in Dispatchers : Add(d) \/ Launch(d) \/ Dispatch(d) \/ StepFails(d)
           \/ BrokerStops \/ BrokerStarts
    PROVE  CleanInv'
<1> USE DEF control, link, work
<1>1. CASE Recycle
  <2>1. /\ Recycler \in Services /\ pc[Recycler] = "handling" /\ Go(Recycler, "recycling")
        /\ UNCHANGED <<main, msg, begun, failures>> /\ stop' = TRUE
    BY <1>1, LifecycleAssumption DEF Recycle, SetStop, Services
  <2>2. /\ DOMAIN pc' = Services /\ pc'[Recycler] = "recycling"
        /\ \A x \in Services : x # Recycler => pc'[x] = pc[x]
    BY <2>1 DEF CleanInv, Go
  <2>3. \A m \in Msgs : Queue[m] \in Services
    BY LifecycleAssumption DEF Services
  <2>4. main # "exited"
    BY <2>1, NobodyRuns
  <2> QED BY <2>1, <2>2, <2>3, <2>4 DEF CleanInv, MessagesKept, Handler
<1>2. ASSUME NEW s \in Services, RecycleWakes(s)
      PROVE  UNCHANGED <<stop, main, msg, begun, pc, failures>>
  BY <1>2 DEF RecycleWakes, Wake, RequestStop
<1>3. ASSUME NEW d \in Dispatchers, Add(d) PROVE UNCHANGED <<stop, main, msg, begun, pc, failures>>
  BY <1>3 DEF Add
<1>4. ASSUME NEW d \in Dispatchers, Dispatch(d) \/ StepFails(d) PROVE CleanInv'
  <2>1. /\ d \in Services /\ pc[d] \in {"loop", "step", "pause"}
        /\ \E p : Go(d, p)
        /\ UNCHANGED <<stop, main, msg, begun>> /\ failures' = failures
    BY <1>4 DEF Dispatch, StepFails, Services
  <2> QED BY <2>1, CleanThread, NobodyRuns DEF Handler
<1>5. ASSUME NEW d \in Dispatchers, Launch(d) PROVE CleanInv'
  <2>1. /\ d \in Services /\ pc[d] = "off" /\ d \in listed /\ Go(d, "loop")
        /\ UNCHANGED <<stop, main, msg, begun>> /\ failures' = failures
    BY <1>5 DEF Launch, Services
  <2>2. Registrar \in Services /\ pc[Registrar] \in Handler
    BY <2>1, LifecycleAssumption DEF LaunchInv, Services
  <2>3. main # "exited"
    BY <2>2, NobodyRuns DEF Handler
  <2> QED BY <2>1, <2>3, CleanThread DEF Handler
<1>6. CASE BrokerStops
  <2>1. ProcessFault /\ UNCHANGED <<stop, main, pc>> /\ DOMAIN msg' = Msgs
    BY <1>6 DEF BrokerStops
  <2> QED BY <2>1, CleanFault
<1>7. CASE BrokerStarts
  BY <1>7 DEF BrokerStarts, CleanInv, MessagesKept
<1>8. ASSUME UNCHANGED <<stop, main, msg, begun, pc, failures>> PROVE CleanInv'
  BY <1>8 DEF CleanInv, MessagesKept
<1> QED BY <1>1, <1>2, <1>3, <1>4, <1>5, <1>6, <1>7, <1>8

(* Who moves a thread, lists none, and takes the registrar out of its      *)
(* handler only when all are launched, keeps that.                         *)
LEMMA LaunchStep ==
    LaunchInv /\ [ProcessNext]_processVars => LaunchInv'
<1> SUFFICES ASSUME LaunchInv, [ProcessNext]_processVars PROVE LaunchInv'
  OBVIOUS
<1> USE DEF control, link, work
<1>1. ASSUME NEW s \in Services, NEW p, Go(s, p), listed' = listed, p # "off",
             /\ s = Registrar /\ pc[s] \in Handler /\ p \notin Handler
             => \A d \in listed : pc[d] # "off"
      PROVE  LaunchInv'
  <2>1. DOMAIN pc' = Services /\ pc'[s] = p /\ \A x \in Services : x # s => pc'[x] = pc[x]
    BY <1>1 DEF LaunchInv, Go
  <2>2. Registrar \in Services
    BY LifecycleAssumption DEF Services
  <2>3. \A d \in listed : d \notin Services => pc'[d] = pc[d]
    BY <1>1 DEF LaunchInv, Go
  <2> QED BY <1>1, <2>1, <2>2, <2>3 DEF LaunchInv
<1>2. ASSUME UNCHANGED <<pc, listed>> PROVE LaunchInv'
  BY <1>2 DEF LaunchInv
<1>3. ASSUME NEW c \in Consumers,
             \/ Loop(c) \/ Connect(c) \/ Record(c) \/ StopConsuming(c) \/ Notice(c)
             \/ Backoff(c) \/ Settle(c) \/ Crash(c)
      PROVE  LaunchInv'
  <2>1. /\ c \in Services /\ listed' = listed
        /\ \E p \in {"done", "connecting", "backoff", "connected", "consuming", "loop"} : Go(c, p)
    BY <1>3 DEF Loop, Connect, Record, StopConsuming, Notice, Backoff, Settle,
       Crash, Leave, Services
  <2>2. c = Registrar /\ pc[c] \in Handler => \A d \in listed : pc[d] # "off"
    BY <1>3 DEF Loop, Connect, Record, StopConsuming, Notice, Backoff, Settle,
       Crash, Handler
  <2>3. PICK p : Go(c, p) /\ p # "off"
    BY <2>1
  <2> QED BY <1>1, <2>1, <2>2, <2>3
<1>4. ASSUME NEW m \in Msgs, Deliver(m) PROVE LaunchInv'
  <2>1. Queue[m] \in Services /\ Go(Queue[m], "handling") /\ listed' = listed
    BY <1>4, LifecycleAssumption DEF Deliver, Services
  <2>2. "handling" \in Handler /\ "handling" # "off"
    BY DEF Handler
  <2> QED BY <1>1, <2>1, <2>2
<1>5. CASE Recycle
  <2>1. Recycler \in Services /\ Go(Recycler, "recycling") /\ listed' = listed
    BY <1>5, LifecycleAssumption DEF Recycle, Services
  <2>2. "recycling" \in Handler /\ "recycling" # "off"
    BY DEF Handler
  <2> QED BY <1>1, <2>1, <2>2
<1>6. ASSUME NEW d \in Dispatchers, Add(d) PROVE LaunchInv'
  BY <1>6 DEF Add, LaunchInv, Handler
<1>7. ASSUME NEW d \in Dispatchers, Launch(d) \/ Dispatch(d) \/ StepFails(d) PROVE LaunchInv'
  <2>1. /\ d \in Services /\ listed' = listed /\ pc[d] \notin Handler
        /\ \E p \in {"done", "step", "pause", "loop"} : Go(d, p)
    BY <1>7 DEF Launch, Dispatch, StepFails, Services, Handler
  <2>2. PICK p : Go(d, p) /\ p # "off"
    BY <2>1
  <2> QED BY <1>1, <2>1, <2>2
<1>8. ASSUME NEW s \in Services, WakeServices(s) \/ RecycleWakes(s) PROVE UNCHANGED <<pc, listed>>
  BY <1>8 DEF WakeServices, RecycleWakes, Wake, RequestStop
<1>9. ASSUME NEW c \in Consumers, Lose(c) PROVE UNCHANGED <<pc, listed>>
  BY <1>9 DEF Lose
<1>10. ASSUME RequestShutdown \/ Poll \/ Stop \/ Signal \/ BrokerStops \/ BrokerStarts
       PROVE  UNCHANGED <<pc, listed>>
  BY <1>10 DEF RequestShutdown, SetStop, Poll, Stop, Signal, BrokerStops,
     BrokerStarts
<1>11. CASE UNCHANGED processVars
  BY <1>2, <1>11 DEF processVars
<1> QED BY <1>2, <1>3, <1>4, <1>5, <1>6, <1>7, <1>8, <1>9, <1>10, <1>11
        DEF ProcessNext, MainThread, ConsumerThread

LEMMA CleanStep ==
    CleanInv /\ LaunchInv /\ [ProcessNext]_processVars => CleanInv'
<1> SUFFICES ASSUME CleanInv, LaunchInv, [ProcessNext]_processVars PROVE CleanInv'
  OBVIOUS
<1>1. CASE UNCHANGED processVars
  BY <1>1 DEF processVars, control, link, work, CleanInv, MessagesKept
<1> QED BY <1>1, CleanConsumer, CleanDeliver, CleanMain, CleanOthers DEF ProcessNext

(* When nothing failed, the messages a handler was given are, at the exit, *)
(* exactly those acknowledged, wherever the threads were at the signal.    *)
THEOREM ShutdownIsCleanHolds ==
    ProcessSpec => []ShutdownIsClean
<1>1. CleanInv => ShutdownIsClean
  <2> SUFFICES ASSUME CleanInv, main = "exited", failures = 0
               PROVE  stop /\ \A m \in Msgs : m \in begun <=> msg[m] = "gone"
    BY DEF ShutdownIsClean
  <2>1. stop /\ MessagesKept /\ \A s \in Services : pc[s] \in {"off", "done"}
    BY DEF CleanInv, Ending
  <2>2. \A m \in Msgs : Queue[m] \in Services
    BY LifecycleAssumption DEF Services
  <2>3. \A m \in Msgs : msg[m] # "held"
    BY <2>1, <2>2 DEF MessagesKept, Handler
  <2> QED BY <2>1, <2>3 DEF MessagesKept
<1> QED BY <1>1, CleanInit, CleanStep, LaunchStep, PTL DEF ProcessSpec
-----------------------------------------------------------------------------
(* The types.  What a thread holds, a connection, a scheduled stop, a      *)
(* delivery, goes wherever the thread or its connection goes.              *)
Plain ==
    /\ stop \in BOOLEAN /\ broker \in BOOLEAN
    /\ main \in {"wait", "poll", "code", "set", "wake", "hung", "stop", "wake again", "join",
                 "returned", "exited"}
    /\ toWake \in [{"main", Recycler} -> SUBSET Services]
    /\ Consumers \subseteq listed /\ listed \subseteq Services
    /\ begun \subseteq Msgs /\ caught \subseteq Consumers
    /\ signals \in 0..MaxSignals /\ failures \in 0..MaxFailures

Places == {"off", "loop", "connecting", "connected", "consuming", "handling",
           "recycling", "backoff", "step", "pause", "done"}
Serving == {"consuming", "handling", "recycling"}

Moving ==
    /\ pc \in [Services -> Places]
    /\ conn \in [Consumers -> {"none", "open", "lost"}]
    /\ msg \in [Msgs -> {"queued", "held", "gone"}]

Linked ==
    /\ recorded \subseteq {c \in Consumers : conn[c] # "none"}
    /\ nudged \subseteq {c \in recorded : conn[c] = "open"}
    /\ \A m \in Msgs : msg[m] = "held" => conn[Queue[m]] = "open" /\ pc[Queue[m]] \in Handler
    /\ \A c \in Consumers : pc[c] \in Serving <=> c \in recorded /\ pc[c] # "backoff"

(* A connection that was opened is still open or lost when it is recorded. *)
Connected == \A c \in Consumers : pc[c] = "connected" => conn[c] # "none"

LifecycleInv == Plain /\ Moving /\ Linked /\ Connected

LEMMA LifecycleParts == ProcessTypeOK <=> Plain /\ Moving /\ Linked
BY DEF ProcessTypeOK, Plain, Moving, Linked, Places, Serving, Handler

LEMMA PlainStep ==
    Plain /\ [ProcessNext]_processVars => Plain'
<1> SUFFICES ASSUME Plain, [ProcessNext]_processVars PROVE Plain'
  OBVIOUS
<1> USE DEF control, link, work
<1>1. ASSUME UNCHANGED <<control, signals>>, UNCHANGED failures \/ ProcessFault,
             begun' \subseteq Msgs, broker' \in BOOLEAN
      PROVE  Plain'
  <2>1. MaxFailures \in Nat /\ failures \in 0..MaxFailures
    BY LifecycleAssumption DEF Plain
  <2>2. failures' = failures \/ (failures < MaxFailures /\ failures' = failures + 1)
    BY <1>1 DEF ProcessFault
  <2>3. failures' \in 0..MaxFailures
    BY <2>1, <2>2
  <2> QED BY <1>1, <2>3 DEF Plain
<1>2. ASSUME UNCHANGED <<broker, failures, begun>>, stop' \in BOOLEAN, listed' = listed,
             caught' \subseteq Consumers, signals' \in 0..MaxSignals,
             main' \in {"wait", "poll", "code", "set", "wake", "hung", "stop", "wake again",
                       "join", "returned", "exited"},
             \/ toWake' = toWake
             \/ \E t \in {"main", Recycler}, S \in SUBSET Services :
                   toWake' = [toWake EXCEPT ![t] = S]
      PROVE  Plain'
  <2>1. toWake' \in [{"main", Recycler} -> SUBSET Services]
    BY <1>2 DEF Plain
  <2> QED BY <1>2, <2>1 DEF Plain
<1>3. ASSUME NEW c \in Consumers, ConsumerThread(c) \/ Crash(c) \/ Lose(c) PROVE Plain'
  <2>1. /\ UNCHANGED <<control, signals>> /\ (UNCHANGED failures \/ ProcessFault)
        /\ UNCHANGED <<begun, broker>>
    BY <1>3 DEF ConsumerThread, Loop, Connect, Record, StopConsuming, Notice,
       Backoff, Settle,
               Crash, Lose
  <2> QED BY <1>1, <2>1 DEF Plain
<1>4. ASSUME NEW m \in Msgs, Deliver(m) PROVE Plain'
  <2>1. /\ UNCHANGED <<control, signals>> /\ (UNCHANGED failures \/ ProcessFault)
        /\ begun' = begun \cup {m} /\ broker' = broker
    BY <1>4 DEF Deliver
  <2> QED BY <1>1, <2>1 DEF Plain
<1>5. ASSUME NEW d \in Dispatchers, Launch(d) \/ Dispatch(d) \/ StepFails(d) PROVE Plain'
  <2>1. UNCHANGED <<control, signals, failures, begun, broker>>
    BY <1>5 DEF Launch, Dispatch, StepFails
  <2> QED BY <1>1, <2>1 DEF Plain
<1>6. CASE BrokerStops \/ BrokerStarts
  <2>1. /\ UNCHANGED <<control, signals, begun>> /\ (UNCHANGED failures \/ ProcessFault)
        /\ broker' \in BOOLEAN
    BY <1>6 DEF BrokerStops, BrokerStarts
  <2> QED BY <1>1, <2>1 DEF Plain
<1>7. ASSUME NEW d \in Dispatchers, Add(d) PROVE Plain'
  BY <1>7 DEF Add, Services, Plain
<1>8. ASSUME NEW s \in Services, NEW t \in {"main", Recycler}, Wake(t, s), main' = main PROVE Plain'
  <2>1. /\ UNCHANGED <<stop, listed, caught, begun, broker, signals, failures>>
        /\ toWake' = [toWake EXCEPT ![t] = toWake[t] \ {s}]
    BY <1>8 DEF Wake
  <2>2. toWake[t] \ {s} \in SUBSET Services
    BY DEF Plain
  <2> QED BY <1>2, <1>8, <2>1, <2>2 DEF Plain
<1>9. ASSUME NEW s \in Services, WakeServices(s) \/ RecycleWakes(s) PROVE Plain'
  BY <1>8, <1>9 DEF WakeServices, RecycleWakes
<1>10. ASSUME SetStop PROVE stop' \in BOOLEAN /\ caught' \subseteq Consumers
  BY <1>10 DEF SetStop, Plain
<1>11. CASE RequestShutdown
  <2>1. /\ UNCHANGED <<broker, failures, begun, listed, signals>>
        /\ main' \in {"set", "wake", "wait"}
        /\ SetStop \/ UNCHANGED <<stop, caught>>
        /\ toWake' = toWake \/ toWake' = [toWake EXCEPT !["main"] = listed]
    BY <1>11 DEF RequestShutdown
  <2> QED BY <1>2, <1>10, <2>1 DEF Plain
<1>12. CASE Poll
  <2>1. UNCHANGED <<broker, failures, begun, stop, listed, caught, signals, toWake>>
        /\ main' \in {"poll", "stop", "wait"}
    BY <1>12 DEF Poll
  <2> QED BY <1>2, <2>1 DEF Plain
<1>13. CASE Stop
  <2>1. /\ UNCHANGED <<broker, failures, begun, stop, listed, caught, signals>>
        /\ main' \in {"wake again", "join", "returned", "exited"}
        /\ toWake' = toWake \/ toWake' = [toWake EXCEPT !["main"] = listed]
    BY <1>13 DEF Stop
  <2> QED BY <1>2, <2>1 DEF Plain
<1>14. CASE Signal
  <2>1. /\ UNCHANGED <<broker, failures, begun, stop, listed, caught>>
        /\ main' \in {"code", "hung"} /\ signals < MaxSignals /\ signals' = signals + 1
        /\ toWake' = [toWake EXCEPT !["main"] = {}]
    BY <1>14 DEF Signal
  <2>2. MaxSignals \in Nat /\ signals \in 0..MaxSignals
    BY LifecycleAssumption DEF Plain
  <2>3. signals' \in 0..MaxSignals
    BY <2>1, <2>2
  <2> QED BY <1>2, <2>1, <2>3 DEF Plain
<1>15. CASE Recycle
  <2>1. /\ UNCHANGED <<broker, failures, begun, listed, main, signals>> /\ SetStop
        /\ toWake' = [toWake EXCEPT ![Recycler] = listed]
    BY <1>15 DEF Recycle
  <2> QED BY <1>2, <1>10, <2>1 DEF Plain
<1>16. CASE UNCHANGED processVars
  BY <1>16 DEF processVars, Plain
<1> QED BY <1>3, <1>4, <1>5, <1>6, <1>7, <1>9, <1>11, <1>12, <1>13, <1>14, <1>15, <1>16
        DEF ProcessNext, MainThread

LEMMA LifecycleStep ==
    LifecycleInv /\ [ProcessNext]_processVars => LifecycleInv'
<1> SUFFICES ASSUME LifecycleInv, [ProcessNext]_processVars PROVE (Moving /\ Linked /\ Connected)'
  BY PlainStep DEF LifecycleInv
<1> USE DEF LifecycleInv
<1>0. \A m \in Msgs : Queue[m] \in Consumers /\ Queue[m] \in Services
  BY LifecycleAssumption DEF Services
<1> USE DEF control, link, work
<1>1. ASSUME NEW c \in Consumers, Loop(c) PROVE (Moving /\ Linked /\ Connected)'
  <2>1. c \in Services
    BY DEF Services
  <2> QED BY <1>0, <1>1, <2>1 DEF Loop, Go, Moving, Linked, Connected, Places, Serving,
             Handler
<1>2. ASSUME NEW c \in Consumers, Connect(c) PROVE (Moving /\ Linked /\ Connected)'
  <2>1. /\ c \in Services /\ pc[c] = "connecting" /\ UNCHANGED <<recorded, nudged, msg>>
        /\ \/ conn' = [conn EXCEPT ![c] = "open"] /\ pc' = [pc EXCEPT ![c] = "connected"]
           \/ conn' = conn /\ pc' = [pc EXCEPT ![c] = "backoff"]
    BY <1>2 DEF Connect, Go, Services
  <2>2. c \notin recorded /\ \A m \in Msgs : Queue[m] = c => msg[m] # "held"
    BY <2>1 DEF Linked, Serving, Handler
  <2>3. Moving'
    BY <2>1 DEF Moving, Places
  <2>4. (\A m \in Msgs : msg[m] = "held" => conn[Queue[m]] = "open" /\ pc[Queue[m]] \in Handler)'
    BY <1>0, <2>1, <2>2 DEF Moving, Linked, Connected
  <2>5. (\A x \in Consumers : pc[x] \in Serving <=> x \in recorded /\ pc[x] # "backoff")'
    BY <2>1, <2>2 DEF Moving, Linked, Connected, Serving, Services
  <2>6. Connected'
    BY <2>1 DEF Moving, Connected, Services
  <2> QED BY <2>1, <2>2, <2>3, <2>4, <2>5, <2>6 DEF Moving, Linked, Connected
<1>3. ASSUME NEW c \in Consumers, Record(c) PROVE (Moving /\ Linked /\ Connected)'
  <2>1. /\ c \in Services /\ pc[c] = "connected" /\ UNCHANGED <<conn, nudged, msg>>
        /\ recorded' = recorded \cup {c} /\ pc' = [pc EXCEPT ![c] = "consuming"]
    BY <1>3 DEF Record, Go, Services
  <2> QED BY <1>0, <2>1 DEF Moving, Linked, Connected, Places, Serving, Handler
<1>4. ASSUME NEW c \in Consumers, StopConsuming(c) PROVE (Moving /\ Linked /\ Connected)'
  <2>1. c \in Services
    BY DEF Services
  <2> QED BY <1>0, <1>4, <2>1 DEF StopConsuming, Teardown, Go, Moving, Linked, Connected,
             Places, Serving, Handler
<1>5. ASSUME NEW c \in Consumers, Notice(c) PROVE (Moving /\ Linked /\ Connected)'
  <2>1. c \in Services
    BY DEF Services
  <2> QED BY <1>0, <1>5, <2>1 DEF Notice, Leave, Teardown, Go, Moving, Linked, Connected,
             Places, Serving, Handler
<1>6. ASSUME NEW c \in Consumers, Backoff(c) PROVE (Moving /\ Linked /\ Connected)'
  <2>1. c \in Services
    BY DEF Services
  <2> QED BY <1>0, <1>6, <2>1 DEF Backoff, Teardown, Go, Moving, Linked, Connected, Places,
             Serving, Handler
<1>7. ASSUME NEW c \in Consumers, Settle(c) PROVE (Moving /\ Linked /\ Connected)'
  <2>1. c \in Services
    BY DEF Services
  <2> QED BY <1>0, <1>7, <2>1 DEF Settle, Returned, Go, Moving, Linked, Connected, Places,
             Serving, Handler
<1>8. ASSUME NEW c \in Consumers, Crash(c) PROVE (Moving /\ Linked /\ Connected)'
  <2>1. c \in Services
    BY DEF Services
  <2> QED BY <1>0, <1>8, <2>1 DEF Crash, Leave, Teardown, ProcessFault, Go, Moving, Linked,
             Connected, Places, Serving, Handler
<1>9. ASSUME NEW c \in Consumers, Lose(c) PROVE (Moving /\ Linked /\ Connected)'
  <2>1. c \in Services
    BY DEF Services
  <2> QED BY <1>0, <1>9, <2>1 DEF Lose, Returned, Go, Moving, Linked, Connected, Places,
             Serving, Handler
<1>10. ASSUME UNCHANGED <<pc, link, msg>> PROVE (Moving /\ Linked /\ Connected)'
  BY <1>10 DEF Moving, Linked, Connected
<1>11. CASE RequestShutdown \/ Poll \/ Stop \/ Signal \/ BrokerStarts
  BY <1>10, <1>11 DEF RequestShutdown, Poll, Stop, Signal, BrokerStarts
<1>12. CASE Recycle
  <2>1. Recycler \in Consumers /\ Recycler \in Services
    BY LifecycleAssumption DEF Services
  <2> QED BY <1>0, <1>12, <2>1 DEF Recycle, Go, Moving, Linked, Connected, Places, Serving,
             Handler
<1>13. CASE BrokerStops
  BY <1>0, <1>13 DEF BrokerStops, Moving, Linked, Connected
<1>14. ASSUME NEW d \in Dispatchers, Add(d) PROVE (Moving /\ Linked /\ Connected)'
  BY <1>10, <1>14 DEF Add
<1>15. ASSUME NEW d \in Dispatchers, Launch(d) \/ Dispatch(d) \/ StepFails(d)
      PROVE  (Moving /\ Linked /\ Connected)'
  <2>1. d \in Services /\ d \notin Consumers
    BY LifecycleAssumption DEF Services
  <2>2. UNCHANGED <<link, msg>> /\ \E p \in Places : Go(d, p)
    BY <1>15 DEF Launch, Dispatch, StepFails, Places
  <2> QED BY <1>0, <2>1, <2>2 DEF Go, Moving, Linked, Connected
<1>16. ASSUME NEW s \in Services, WakeServices(s) \/ RecycleWakes(s)
       PROVE  (Moving /\ Linked /\ Connected)'
  BY <1>16 DEF WakeServices, RecycleWakes, Wake, RequestStop, Moving, Linked, Connected
<1>17. ASSUME NEW m \in Msgs, Deliver(m) PROVE (Moving /\ Linked /\ Connected)'
  <2> DEFINE c == Queue[m]
  <2>1. c \in Consumers /\ c \in Services
    BY <1>0
  <2>2. /\ pc[c] = "consuming" /\ conn[c] = "open" /\ c \notin nudged
        /\ pc' = [pc EXCEPT ![c] = "handling"] /\ UNCHANGED <<recorded, nudged>>
        /\ \/ UNCHANGED conn /\ msg' = [msg EXCEPT ![m] = IF c \in Early THEN "gone" ELSE "held"]
           \/ conn' = [conn EXCEPT ![c] = "lost"] /\ msg' = msg
    BY <1>17 DEF Deliver, Go
  <2>3. \A k \in Msgs : Queue[k] = c => msg[k] # "held"
    BY <2>2 DEF Linked, Handler
  <2> QED BY <1>0, <2>1, <2>2, <2>3 DEF Moving, Linked, Connected, Places, Serving, Handler
<1>18. CASE UNCHANGED processVars
  BY <1>10, <1>18 DEF processVars
<1> QED BY <1>1, <1>2, <1>3, <1>4, <1>5, <1>6, <1>7, <1>8, <1>9, <1>10, <1>11, <1>12, <1>13,
           <1>14, <1>15, <1>16, <1>17, <1>18 DEF ProcessNext, MainThread, ConsumerThread

(* Every variable keeps its type, and what a thread holds goes with it,    *)
(* whatever is lost, raised or signalled.                                  *)
THEOREM LifecycleTypes ==
    ProcessSpec => []ProcessTypeOK
<1>1. ProcessInit => LifecycleInv
  <2> SUFFICES ASSUME ProcessInit PROVE Plain /\ Moving /\ Linked /\ Connected
    BY DEF LifecycleInv
  <2>0. 0 \in 0..MaxSignals /\ 0 \in 0..MaxFailures
    BY LifecycleAssumption
  <2>1. Plain
    BY <2>0 DEF ProcessInit, Plain, Services
  <2>2. Moving
    BY DEF ProcessInit, Moving, Services, Places
  <2>3. Linked
    BY DEF ProcessInit, Linked, Serving, Services
  <2>4. Connected
    BY DEF ProcessInit, Connected, Services
  <2> QED BY <2>1, <2>2, <2>3, <2>4
<1> QED BY <1>1, LifecycleStep, LifecycleParts, PTL DEF ProcessSpec, LifecycleInv
=============================================================================
