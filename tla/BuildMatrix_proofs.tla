-------------------------- MODULE BuildMatrix_proofs --------------------------
(* Proofs about BuildMatrix, for any options, repositories, bundles and    *)
(* number of faults.                                                       *)
EXTENDS BuildMatrix, SequenceTheorems, TLAPS

(* The types, apart from the position in the queue.                        *)
RowTypes ==
    /\ opts \in SUBSET Configs
    /\ repos \in SUBSET Urls
    /\ status \in [Urls \X Configs -> Nat]
    /\ overlapped \in SUBSET (Urls \X Configs)
    /\ swallowed \in SUBSET Urls

TransactionTypes ==
    /\ reg \in [row : Configs \union {NoOpt}, seen : SUBSET Urls]
    /\ ins \in [row : Urls \union {NoUrl}, seen : SUBSET Configs]

CounterTypes == sent \in 0..MaxBundles /\ faults \in 0..MaxFaults

QueueTypes ==
    /\ scrapeQueue \in Seq(Seq(Urls))
    /\ handled \in Nat
    /\ handled > 0 => scrapeQueue # <<>> /\ handled <= Len(Head(scrapeQueue))
    /\ ins.row # NoUrl => InBundle

(* The type invariant, in the parts the proofs below work on.              *)
LEMMA TypeParts == TypeOK <=> RowTypes /\ TransactionTypes /\ CounterTypes /\ QueueTypes
BY DEF TypeOK, RowTypes, TransactionTypes, CounterTypes, QueueTypes

-----------------------------------------------------------------------------
(* Type correctness. *)

(* The repository at the position handle_scrape has reached.               *)
LEMMA CurrentType ==
    ASSUME QueueTypes, InBundle
    PROVE  Current \in Urls
<1>1. Head(scrapeQueue) \in Seq(Urls)
  BY HeadTailProperties DEF QueueTypes, InBundle
<1>2. handled + 1 \in 1..Len(Head(scrapeQueue))
  BY <1>1, LenProperties DEF QueueTypes, InBundle
<1> QED BY <1>1, <1>2, ElementOfSeq DEF Current

(* The first state has the types.                                          *)
LEMMA TypeInit == Init => TypeOK
<1> SUFFICES ASSUME Init PROVE TypeOK
  OBVIOUS
<1>1. RowTypes
  BY MatrixAssumption DEF Init, RowTypes
<1>2. TransactionTypes
  BY DEF Init, TransactionTypes, Idle
<1>3. CounterTypes
  BY MatrixAssumption DEF Init, CounterTypes
<1>4. QueueTypes
  BY EmptySeq DEF Init, QueueTypes, Idle
<1> QED BY <1>1, <1>2, <1>3, <1>4, TypeParts

(* A step keeps the types of the committed rows.                           *)
LEMMA RowStep == TypeOK /\ [Next]_vars => RowTypes'
<1> SUFFICES ASSUME TypeOK, [Next]_vars PROVE RowTypes'
  OBVIOUS
<1>1. RowTypes /\ TransactionTypes
  BY TypeParts
<1> DEFINE Rows == <<opts, repos, status, overlapped, swallowed>>
<1>2. ASSUME UNCHANGED Rows PROVE RowTypes'
  BY <1>1, <1>2 DEF RowTypes
<1>3. ASSUME RegisterCommit PROVE RowTypes'
  <2>1. opts' \in SUBSET Configs /\ UNCHANGED <<repos, swallowed>>
    BY <1>1, <1>3 DEF RegisterCommit, RowTypes, TransactionTypes, insVars
  <2>2. status' \in [Urls \X Configs -> Nat]
    BY <1>1, <1>3 DEF RegisterCommit, RowTypes, AddRows
  <2>3. overlapped' \in SUBSET (Urls \X Configs)
    BY <1>1, <1>3 DEF RegisterCommit, RowTypes, TransactionTypes
  <2> QED BY <1>1, <2>1, <2>2, <2>3 DEF RowTypes
<1>4. ASSUME InsertCommit PROVE RowTypes'
  <2>1. repos' \in SUBSET Urls /\ UNCHANGED <<opts, swallowed>>
    BY <1>1, <1>4 DEF InsertCommit, RowTypes, TransactionTypes, regVars
  <2>2. status' \in [Urls \X Configs -> Nat]
    BY <1>1, <1>4 DEF InsertCommit, RowTypes, AddRows
  <2>3. overlapped' \in SUBSET (Urls \X Configs)
    BY <1>1, <1>4 DEF InsertCommit, RowTypes, TransactionTypes
  <2> QED BY <1>1, <2>1, <2>2, <2>3 DEF RowTypes
<1>5. ASSUME InsertFails PROVE RowTypes'
  BY <1>1, <1>5 DEF InsertFails, RowTypes, TransactionTypes, regVars
<1>6. ASSUME \/ \E c \in Configs : RegisterScan(c)
             \/ RegisterFails \/ CoordinatorCrashes \/ UNCHANGED vars
      PROVE  UNCHANGED Rows
  BY <1>6 DEF RegisterScan, RegisterFails, CoordinatorCrashes, vars, regVars, insVars
<1>7. ASSUME Scrape \/ InsertScan \/ InsertDuplicate \/ AckBundle
      PROVE  UNCHANGED Rows
  BY <1>7 DEF Scrape, InsertScan, InsertDuplicate, AckBundle, regVars, insVars
<1> QED BY <1>2, <1>3, <1>4, <1>5, <1>6, <1>7 DEF Next, Register, Insert

(* A step keeps the types of the two transactions.                         *)
LEMMA TransactionStep == TypeOK /\ [Next]_vars => TransactionTypes'
<1> SUFFICES ASSUME TypeOK, [Next]_vars PROVE TransactionTypes'
  OBVIOUS
<1>1. RowTypes /\ TransactionTypes /\ QueueTypes
  BY TypeParts
<1>2. ASSUME NEW c \in Configs, RegisterScan(c) PROVE TransactionTypes'
  BY <1>1, <1>2 DEF RegisterScan, RowTypes, TransactionTypes, insVars
<1>3. ASSUME RegisterCommit \/ RegisterFails PROVE TransactionTypes'
  BY <1>1, <1>3 DEF RegisterCommit, RegisterFails, TransactionTypes, Idle, insVars
<1>4. ASSUME InsertScan PROVE TransactionTypes'
  <2>1. Current \in Urls
    BY <1>1, <1>4, CurrentType DEF InsertScan
  <2> HIDE DEF Current
  <2> QED BY <1>1, <1>4, <2>1 DEF InsertScan, RowTypes, TransactionTypes, regVars
<1>5. ASSUME InsertCommit \/ InsertFails PROVE TransactionTypes'
  BY <1>1, <1>5 DEF InsertCommit, InsertFails, TransactionTypes, Idle, regVars
<1>6. ASSUME CoordinatorCrashes PROVE TransactionTypes'
  BY <1>6 DEF CoordinatorCrashes, TransactionTypes, Idle
<1>7. ASSUME Scrape \/ InsertDuplicate \/ AckBundle \/ UNCHANGED vars
      PROVE  TransactionTypes'
  BY <1>1, <1>7 DEF Scrape, InsertDuplicate, AckBundle, vars, regVars, insVars, TransactionTypes
<1> QED BY <1>2, <1>3, <1>4, <1>5, <1>6, <1>7 DEF Next, Register, Insert

(* A step keeps the counters within their bounds.                          *)
LEMMA CounterStep == TypeOK /\ [Next]_vars => CounterTypes'
<1> SUFFICES ASSUME TypeOK, [Next]_vars PROVE CounterTypes'
  OBVIOUS
<1>1. CounterTypes
  BY TypeParts
<1>2. sent' = sent \/ (sent < MaxBundles /\ sent' = sent + 1)
  BY DEF Next, Register, Insert, RegisterScan, RegisterCommit, RegisterFails, Scrape,
     InsertScan, InsertDuplicate, InsertCommit, InsertFails, AckBundle, CoordinatorCrashes,
     vars, insVars
<1>3. faults' = faults \/ Fault
  BY DEF Next, Register, Insert, RegisterScan, RegisterCommit, RegisterFails, Scrape,
     InsertScan, InsertDuplicate, InsertCommit, InsertFails, AckBundle, CoordinatorCrashes, vars
<1> QED BY <1>1, <1>2, <1>3, MatrixAssumption DEF CounterTypes, Fault

(* What is appended does not become the head of what was there.            *)
LEMMA AppendKeepsHead ==
    ASSUME NEW S, NEW q \in Seq(S), NEW x \in S
    PROVE  /\ Append(q, x) \in Seq(S)
           /\ q # <<>> => Append(q, x) # <<>> /\ Head(Append(q, x)) = Head(q)
<1>1. Append(q, x) \in Seq(S) /\ (q # <<>> => Append(q, x)[1] = q[1])
  BY AppendProperties
<1>2. Append(q, x) # <<>>
  BY AppendProperties
<1>3. \A s \in Seq(S) : s # <<>> => Head(s) = s[1]
  OBVIOUS
<1> QED BY <1>1, <1>2, <1>3

(* A step keeps the position within the bundle at the head.                *)
LEMMA QueueStep == TypeOK /\ [Next]_vars => QueueTypes'
<1> SUFFICES ASSUME TypeOK, [Next]_vars PROVE QueueTypes'
  OBVIOUS
<1>1. QueueTypes
  BY TypeParts
<1>2. ASSUME UNCHANGED <<scrapeQueue, handled, ins>> PROVE QueueTypes'
  BY <1>1, <1>2 DEF QueueTypes, InBundle
<1>3. ASSUME Scrape PROVE QueueTypes'
  <2>1. PICK bundle \in Seq(Urls) : scrapeQueue' = Append(scrapeQueue, bundle)
    BY <1>3, MatrixAssumption DEF Scrape
  <2>2. /\ scrapeQueue' \in Seq(Seq(Urls))
        /\ scrapeQueue # <<>> => scrapeQueue' # <<>> /\ Head(scrapeQueue') = Head(scrapeQueue)
    <3>1. scrapeQueue \in Seq(Seq(Urls))
      BY <1>1 DEF QueueTypes
    <3> QED BY <2>1, <3>1, AppendKeepsHead
  <2> QED BY <1>1, <1>3, <2>2 DEF Scrape, QueueTypes, InBundle
<1>4. ASSUME InsertScan PROVE QueueTypes'
  BY <1>1, <1>4 DEF InsertScan, InBundle, QueueTypes
<1> DEFINE length == Len(Head(scrapeQueue))
<1>5. scrapeQueue # <<>> => length \in Nat
  <2>1. scrapeQueue # <<>> => Head(scrapeQueue) \in Seq(Urls)
    BY <1>1, HeadTailProperties DEF QueueTypes
  <2> QED BY <2>1, LenProperties
<1>6. ASSUME InsertDuplicate PROVE QueueTypes'
  BY <1>1, <1>5, <1>6 DEF InsertDuplicate, InBundle, QueueTypes
<1>7. ASSUME InsertCommit \/ InsertFails PROVE QueueTypes'
  <2>1. /\ UNCHANGED scrapeQueue
        /\ ins'.row = NoUrl
        /\ handled' = handled + 1
        /\ InBundle
    BY <1>1, <1>7 DEF InsertCommit, InsertFails, QueueTypes, Idle
  <2> QED BY <1>1, <1>5, <2>1 DEF InBundle, QueueTypes
<1>8. ASSUME AckBundle PROVE QueueTypes'
  <2>1. scrapeQueue' \in Seq(Seq(Urls))
    BY <1>1, <1>8, HeadTailProperties DEF AckBundle, QueueTypes
  <2>2. ins'.row = NoUrl /\ handled' = 0
    BY <1>1, <1>5, <1>8 DEF AckBundle, QueueTypes, InBundle
  <2> QED BY <1>1, <2>1, <2>2 DEF QueueTypes
<1>9. ASSUME CoordinatorCrashes PROVE QueueTypes'
  BY <1>1, <1>9 DEF CoordinatorCrashes, QueueTypes, Idle
<1>10. ASSUME \/ \E c \in Configs : RegisterScan(c)
              \/ RegisterCommit \/ RegisterFails \/ UNCHANGED vars
       PROVE  UNCHANGED <<scrapeQueue, handled, ins>>
  BY <1>10 DEF RegisterScan, RegisterCommit, RegisterFails, vars, insVars
<1> QED BY <1>2, <1>3, <1>4, <1>6, <1>7, <1>8, <1>9, <1>10 DEF Next, Register, Insert

(* The types are inductive.                                                *)
LEMMA TypeStep == TypeOK /\ [Next]_vars => TypeOK'
<1> SUFFICES ASSUME TypeOK, [Next]_vars PROVE TypeOK'
  OBVIOUS
<1>1. RowTypes' /\ TransactionTypes' /\ CounterTypes' /\ QueueTypes'
  BY RowStep, TransactionStep, CounterStep, QueueStep
<1> QED BY <1>1 DEF TypeOK, RowTypes, TransactionTypes, CounterTypes, QueueTypes

(* Every variable has its type, in every instance.                         *)
THEOREM TypeCorrect == Spec => []TypeOK
BY TypeInit, TypeStep, PTL DEF Spec

-----------------------------------------------------------------------------
(* The matrix.  The inductive invariant: what an open transaction adds is  *)
(* not committed yet, it has read only committed rows, and every committed *)
(* row it did not read overlapped it.                                      *)
RegisterOpen ==
    reg.row # NoOpt =>
        /\ reg.row \notin opts
        /\ reg.seen \subseteq repos
        /\ \A r \in repos \ reg.seen : <<r, reg.row>> \in overlapped

InsertOpen ==
    ins.row # NoUrl =>
        /\ ins.row \notin repos
        /\ ins.seen \subseteq opts
        /\ \A c \in opts \ ins.seen : <<ins.row, c>> \in overlapped

MatrixInv ==
    /\ TypeOK
    /\ Legacy \subseteq opts
    /\ RegisterOpen
    /\ InsertOpen
    /\ RowsWarranted
    /\ AtMostOnePerPair
    /\ CompleteUnlessOverlapped

(* The invariant holds at the start.                                       *)
LEMMA MatrixInit == Init => MatrixInv
<1> SUFFICES ASSUME Init PROVE MatrixInv
  OBVIOUS
<1>1. TypeOK /\ Legacy \subseteq opts
  BY TypeInit DEF Init
<1>2. RegisterOpen /\ InsertOpen
  BY DEF Init, Idle, RegisterOpen, InsertOpen
<1>3. \A p \in Urls \X Configs : status[p] = 0
  BY DEF Init
<1>4. RowsWarranted /\ AtMostOnePerPair
  BY <1>3 DEF RowsWarranted, AtMostOnePerPair
<1>5. CompleteUnlessOverlapped
  BY DEF Init, CompleteUnlessOverlapped, Covered
<1> QED BY <1>1, <1>2, <1>4, <1>5 DEF MatrixInv

(* The rows a registration commits, and those an insertion commits.        *)
LEMMA RegisterCommitRows ==
    ASSUME RegisterCommit, NEW r \in Urls, NEW c \in Configs
    PROVE  status'[<<r, c>>] = status[<<r, c>>]
              + (IF c = reg.row /\ r \in reg.seen /\ RegisterCovers(c, r) THEN 1 ELSE 0)
<1> DEFINE pairs == {<<u, reg.row>> : u \in {u \in reg.seen : RegisterCovers(reg.row, u)}}
<1>1. status'[<<r, c>>] = status[<<r, c>>] + (IF <<r, c>> \in pairs THEN 1 ELSE 0)
  BY DEF RegisterCommit, AddRows
<1>2. <<r, c>> \in pairs <=> c = reg.row /\ r \in reg.seen /\ RegisterCovers(c, r)
  OBVIOUS
<1> HIDE DEF pairs
<1> QED BY <1>1, <1>2

(* What the commit of an insertion adds to the row of a pair.             *)
LEMMA InsertCommitRows ==
    ASSUME InsertCommit, NEW r \in Urls, NEW c \in Configs
    PROVE  status'[<<r, c>>] = status[<<r, c>>]
              + (IF r = ins.row /\ c \in ins.seen /\ InsertCovers(c, r) THEN 1 ELSE 0)
<1> DEFINE pairs == {<<ins.row, d>> : d \in {d \in ins.seen : InsertCovers(d, ins.row)}}
<1>1. status'[<<r, c>>] = status[<<r, c>>] + (IF <<r, c>> \in pairs THEN 1 ELSE 0)
  BY DEF InsertCommit, AddRows
<1>2. <<r, c>> \in pairs <=> r = ins.row /\ c \in ins.seen /\ InsertCovers(c, r)
  OBVIOUS
<1> HIDE DEF pairs
<1> QED BY <1>1, <1>2

(* The invariant is inductive.                                             *)
LEMMA MatrixStep == MatrixInv /\ [Next]_vars => MatrixInv'
<1> SUFFICES ASSUME MatrixInv, [Next]_vars PROVE MatrixInv'
  OBVIOUS
<1>1. /\ RowTypes /\ TransactionTypes /\ Legacy \subseteq opts /\ RegisterOpen /\ InsertOpen
      /\ RowsWarranted /\ AtMostOnePerPair /\ CompleteUnlessOverlapped
  BY TypeParts DEF MatrixInv
<1> DEFINE Open  == Legacy \subseteq opts /\ RegisterOpen /\ InsertOpen
           Sound == RowsWarranted /\ AtMostOnePerPair /\ CompleteUnlessOverlapped
<1>2. ASSUME UNCHANGED <<opts, repos, status, overlapped>> PROVE Sound'
  BY <1>1, <1>2 DEF RowsWarranted, AtMostOnePerPair, CompleteUnlessOverlapped, Covered
<1>3. ASSUME NEW c \in Configs, RegisterScan(c) PROVE Open' /\ Sound'
  <2>1. Open'
    BY <1>1, <1>3 DEF RegisterScan, RegisterOpen, InsertOpen, insVars
  <2> QED BY <1>2, <1>3, <2>1 DEF RegisterScan, insVars
<1>4. ASSUME RegisterCommit PROVE Open' /\ Sound'
  <2>1. /\ reg.row \in Configs /\ reg.row \notin opts /\ reg.seen \subseteq repos
        /\ \A r \in repos \ reg.seen : <<r, reg.row>> \in overlapped
        /\ opts' = opts \union {reg.row}
        /\ UNCHANGED <<repos, ins>>
        /\ reg'.row = NoOpt
    BY <1>1, <1>4 DEF RegisterCommit, RegisterOpen, TransactionTypes, insVars, Idle
  <2>2. \A r \in Urls, c \in Configs : status[<<r, c>>] \in Nat /\ status'[<<r, c>>] \in Nat
    <3>1. status \in [Urls \X Configs -> Nat] /\ status' \in [Urls \X Configs -> Nat]
      BY RowStep DEF MatrixInv, TypeOK, RowTypes
    <3> QED BY <3>1
  <2>3. /\ overlapped \subseteq overlapped'
        /\ ins.row # NoUrl => <<ins.row, reg.row>> \in overlapped'
    BY <1>4 DEF RegisterCommit
  <2>4. Open'
    BY <1>1, <2>1, <2>3 DEF RegisterOpen, InsertOpen
  <2>5. \A r \in Urls : status[<<r, reg.row>>] = 0
    BY <1>1, <2>1, <2>2 DEF RowsWarranted
  <2>6. RowsWarranted'
    <3> SUFFICES ASSUME NEW r \in Urls, NEW c \in Configs, status'[<<r, c>>] > 0
                 PROVE  r \in repos' /\ c \in opts' /\ LanguagesMatch(r, c)
      BY DEF RowsWarranted, LanguagesMatch
    <3>1. CASE status[<<r, c>>] > 0
      BY <1>1, <2>1, <3>1 DEF RowsWarranted
    <3>2. CASE ~(status[<<r, c>>] > 0)
      <4>1. c = reg.row /\ r \in reg.seen /\ RegisterCovers(c, r)
        BY <1>4, <2>2, <3>2, RegisterCommitRows
      <4> QED BY <2>1, <4>1 DEF RegisterCovers
    <3> QED BY <3>1, <3>2
  <2>7. AtMostOnePerPair'
    <3> SUFFICES ASSUME NEW r \in Urls, NEW c \in Configs PROVE status'[<<r, c>>] <= 1
      BY DEF AtMostOnePerPair
    <3> QED BY <1>1, <1>4, <2>2, <2>5, RegisterCommitRows DEF AtMostOnePerPair
  <2>8. CompleteUnlessOverlapped'
    <3> SUFFICES ASSUME NEW r \in Urls, NEW c \in Configs,
                        Covered(r, c)', <<r, c>> \notin overlapped'
                 PROVE  status'[<<r, c>>] = 1
      BY DEF CompleteUnlessOverlapped
    <3>1. CASE c = reg.row
      <4>1. r \in reg.seen /\ RegisterCovers(c, r)
        BY <1>1, <2>1, <2>3, <3>1 DEF Covered, RegisterCovers, InsertCovers, LanguagesMatch
      <4> QED BY <1>4, <2>5, <3>1, <4>1, RegisterCommitRows
    <3>2. CASE c # reg.row
      <4>1. status[<<r, c>>] = 1
        BY <1>1, <2>1, <2>3, <3>2
           DEF CompleteUnlessOverlapped, Covered, RegisterCovers, InsertCovers, LanguagesMatch
      <4> QED BY <1>4, <3>2, <4>1, RegisterCommitRows
    <3> QED BY <3>1, <3>2
  <2> QED BY <2>4, <2>6, <2>7, <2>8
<1>5. ASSUME InsertCommit PROVE Open' /\ Sound'
  <2>1. /\ ins.row \in Urls /\ ins.row \notin repos /\ ins.seen \subseteq opts
        /\ \A c \in opts \ ins.seen : <<ins.row, c>> \in overlapped
        /\ repos' = repos \union {ins.row}
        /\ UNCHANGED <<opts, reg>>
        /\ ins'.row = NoUrl
    BY <1>1, <1>5 DEF InsertCommit, InsertOpen, TransactionTypes, regVars, Idle
  <2>2. \A r \in Urls, c \in Configs : status[<<r, c>>] \in Nat /\ status'[<<r, c>>] \in Nat
    <3>1. status \in [Urls \X Configs -> Nat] /\ status' \in [Urls \X Configs -> Nat]
      BY RowStep DEF MatrixInv, TypeOK, RowTypes
    <3> QED BY <3>1
  <2>3. /\ overlapped \subseteq overlapped'
        /\ reg.row # NoOpt => <<ins.row, reg.row>> \in overlapped'
    BY <1>5 DEF InsertCommit
  <2>4. Open'
    BY <1>1, <2>1, <2>3 DEF RegisterOpen, InsertOpen
  <2>5. \A c \in Configs : status[<<ins.row, c>>] = 0
    BY <1>1, <2>1, <2>2 DEF RowsWarranted
  <2>6. RowsWarranted'
    <3> SUFFICES ASSUME NEW r \in Urls, NEW c \in Configs, status'[<<r, c>>] > 0
                 PROVE  r \in repos' /\ c \in opts' /\ LanguagesMatch(r, c)
      BY DEF RowsWarranted, LanguagesMatch
    <3>1. CASE status[<<r, c>>] > 0
      BY <1>1, <2>1, <3>1 DEF RowsWarranted
    <3>2. CASE ~(status[<<r, c>>] > 0)
      <4>1. r = ins.row /\ c \in ins.seen /\ InsertCovers(c, r)
        BY <1>5, <2>2, <3>2, InsertCommitRows
      <4> QED BY <2>1, <4>1 DEF InsertCovers
    <3> QED BY <3>1, <3>2
  <2>7. AtMostOnePerPair'
    <3> SUFFICES ASSUME NEW r \in Urls, NEW c \in Configs PROVE status'[<<r, c>>] <= 1
      BY DEF AtMostOnePerPair
    <3> QED BY <1>1, <1>5, <2>2, <2>5, InsertCommitRows DEF AtMostOnePerPair
  <2>8. CompleteUnlessOverlapped'
    <3> SUFFICES ASSUME NEW r \in Urls, NEW c \in Configs,
                        Covered(r, c)', <<r, c>> \notin overlapped'
                 PROVE  status'[<<r, c>>] = 1
      BY DEF CompleteUnlessOverlapped
    <3>1. CASE r = ins.row
      <4>1. c \in ins.seen /\ InsertCovers(c, r)
        BY <2>1, <2>3, <3>1 DEF Covered, InsertCovers, LanguagesMatch
      <4> QED BY <1>5, <2>5, <3>1, <4>1, InsertCommitRows
    <3>2. CASE r # ins.row
      <4>1. status[<<r, c>>] = 1
        BY <1>1, <2>1, <2>3, <3>2
           DEF CompleteUnlessOverlapped, Covered, RegisterCovers, InsertCovers, LanguagesMatch
      <4> QED BY <1>5, <3>2, <4>1, InsertCommitRows
    <3> QED BY <3>1, <3>2
  <2> QED BY <2>4, <2>6, <2>7, <2>8
<1>6. ASSUME InsertScan PROVE Open' /\ Sound'
  <2>1. Open'
    BY <1>1, <1>6 DEF InsertScan, RegisterOpen, InsertOpen, regVars
  <2> QED BY <1>2, <1>6, <2>1 DEF InsertScan, regVars
<1>7. ASSUME RegisterFails \/ InsertFails \/ CoordinatorCrashes PROVE Open' /\ Sound'
  <2>1. /\ UNCHANGED <<opts, repos, status, overlapped>>
        /\ UNCHANGED reg \/ reg'.row = NoOpt
        /\ UNCHANGED ins \/ ins'.row = NoUrl
    BY <1>7 DEF RegisterFails, InsertFails, CoordinatorCrashes, Idle, regVars, insVars
  <2>2. Open'
    BY <1>1, <2>1 DEF RegisterOpen, InsertOpen
  <2> QED BY <1>2, <2>1, <2>2
<1>8. ASSUME Scrape \/ InsertDuplicate \/ AckBundle \/ UNCHANGED vars PROVE Open' /\ Sound'
  <2>1. UNCHANGED <<opts, repos, status, overlapped, reg, ins>>
    BY <1>8 DEF Scrape, InsertDuplicate, AckBundle, vars, regVars, insVars
  <2>2. Open'
    BY <1>1, <2>1 DEF RegisterOpen, InsertOpen
  <2> QED BY <1>2, <2>1, <2>2
<1>9. Open' /\ Sound'
  BY <1>3, <1>4, <1>5, <1>6, <1>7, <1>8 DEF Next, Register, Insert
<1> QED BY <1>9, TypeStep DEF MatrixInv

(* For every set of options and repositories, however the two threads      *)
(* interleave, fail and repeat: no pair has two rows.                      *)
THEOREM AtMostOnePerPairHolds == Spec => []AtMostOnePerPair
<1>1. MatrixInv => AtMostOnePerPair
  BY DEF MatrixInv
<1> QED BY <1>1, MatrixInit, MatrixStep, PTL DEF Spec

(* A row joins an existing repository to an existing option of its language.*)
THEOREM RowsWarrantedHolds == Spec => []RowsWarranted
<1>1. MatrixInv => RowsWarranted
  BY DEF MatrixInv
<1> QED BY <1>1, MatrixInit, MatrixStep, PTL DEF Spec

(* A pair without its row is one whose two transactions overlapped: that   *)
(* write skew is the only way to lose a pair.                              *)
THEOREM CompleteUnlessOverlappedHolds == Spec => []CompleteUnlessOverlapped
<1>1. MatrixInv => CompleteUnlessOverlapped
  BY DEF MatrixInv
<1> QED BY <1>1, MatrixInit, MatrixStep, PTL DEF Spec

=============================================================================
