-------------------------- MODULE Blocklist_proofs --------------------------
(* What dispatchers may rely on, for any entries, urls and dispatchers,    *)
(* and any number of edits and faults.                                     *)
EXTENDS Blocklist, SequenceTheorems, FiniteSetTheorems, TLAPS

-----------------------------------------------------------------------------
(* The query excludes what the list names.                                 *)

ExactFor(lines, u) ==
    LET segs == Segments(u)
        before == {Folded(segs[i]) : i \in 1..(Len(segs) - 2)}
        owners == Owners(lines) \cup {r[1] : r \in Repos(lines)}
    IN Len(segs) > 2 /\ Len(u.parts) > 1 /\ Bare[u.parts[Len(u.parts)]] = u.parts[Len(u.parts)]
          /\ before \cap owners = {}
       => (Excluded(lines, u) <=> Matches(lines, u))

(* The last two segments of a url are its last two parts.                  *)
LEMMA LastSegments ==
    ASSUME NEW u \in Urls, Len(u.parts) > 1
    PROVE  LET segs == Segments(u)
               n == Len(segs)
               m == Len(u.parts)
           IN /\ n \in Nat /\ m \in Nat
              /\ segs[n] = u.parts[m] /\ segs[n - 1] = u.parts[m - 1]
              /\ u.parts[m] \in DOMAIN Lower /\ u.parts[m - 1] \in DOMAIN Lower
<1> DEFINE S == DOMAIN Lower \cup {"https:", ""}
           m == Len(u.parts)
<1>1. u.parts \in Seq(DOMAIN Lower) /\ u.scheme \in BOOLEAN
  BY BlocklistAssumption DEF IsText
<1>2. m \in Nat /\ u.parts[m] \in DOMAIN Lower /\ u.parts[m - 1] \in DOMAIN Lower
  BY <1>1
<1>3. CASE ~u.scheme
  BY <1>2, <1>3 DEF Segments
<1>4. CASE u.scheme
  <2>1. u.parts \in Seq(S)
    <3>1. DOMAIN Lower \subseteq S
      OBVIOUS
    <3> HIDE DEF S
    <3> QED BY <1>1, <3>1, SeqMonotonic
  <2> DEFINE start == <<"https:", "">>
             segs == start \o u.parts
  <2>2. start \in Seq(S) /\ Len(start) = 2
    OBVIOUS
  <2>3. Len(segs) = 2 + m /\ \A i \in 1..(2 + m) : segs[i] = IF i <= 2 THEN start[i] ELSE u.parts[i - 2]
    <3> HIDE DEF S, start
    <3>1. PICK q \in Seq(S) : q = u.parts
      BY <2>1
    <3>2. /\ Len(start \o q) = Len(start) + Len(q)
          /\ \A i \in 1..(Len(start) + Len(q)) :
                (start \o q)[i] = IF i <= Len(start) THEN start[i] ELSE q[i - Len(start)]
      BY <2>2, ConcatProperties
    <3> QED BY <2>2, <3>1, <3>2
  <2> HIDE DEF S, start
  <2> HIDE DEF segs, m
  <2>4. /\ Len(segs) = 2 + m /\ 2 + m \in 1..(2 + m) /\ 1 + m \in 1..(2 + m)
        /\ ~(2 + m <= 2) /\ ~(1 + m <= 2) /\ (2 + m) - 2 = m /\ (1 + m) - 2 = m - 1 /\ (2 + m) - 1 = 1 + m
    <3>1. m \in Nat /\ m > 1
      BY <1>2 DEF m
    <3>2. Len(segs) = 2 + m
      BY <2>3
    <3>3. 2 + m \in 1..(2 + m) /\ 1 + m \in 1..(2 + m)
      BY <3>1
    <3>4. /\ ~(2 + m <= 2) /\ ~(1 + m <= 2)
          /\ (2 + m) - 2 = m /\ (1 + m) - 2 = m - 1 /\ (2 + m) - 1 = 1 + m
      BY <3>1
    <3> QED BY <3>2, <3>3, <3>4
  <2>5. segs[2 + m] = u.parts[m] /\ segs[1 + m] = u.parts[m - 1]
    BY <2>3, <2>4
  <2>6. Segments(u) = segs
    BY <1>4 DEF Segments, segs, start
  <2>7. Len(segs) \in Nat /\ segs[Len(segs)] = u.parts[m] /\ segs[Len(segs) - 1] = u.parts[m - 1]
    BY <2>4, <2>5, <1>2
  <2> QED BY <2>6, <2>7, <1>2 DEF m
<1> QED BY <1>1, <1>3, <1>4

LEMMA ExactForAll ==
    ASSUME NEW lines, NEW u \in Urls PROVE ExactFor(lines, u)
<1> DEFINE segs == Segments(u)
           n == Len(segs)
           m == Len(u.parts)
           owner == Lower[u.parts[m - 1]]
           name == Lower[u.parts[m]]
           before == {Folded(segs[i]) : i \in 1..(n - 2)}
           owners == Owners(lines) \cup {r[1] : r \in Repos(lines)}
<1> SUFFICES ASSUME n > 2, m > 1, Bare[u.parts[m]] = u.parts[m], before \cap owners = {}
             PROVE  Excluded(lines, u) <=> Matches(lines, u)
  BY DEF ExactFor
<1>1. /\ n \in Nat /\ m \in Nat
      /\ segs[n] = u.parts[m] /\ segs[n - 1] = u.parts[m - 1]
      /\ u.parts[m] \in DOMAIN Lower /\ u.parts[m - 1] \in DOMAIN Lower
  BY LastSegments
<1>2. Folded(segs[n]) = name /\ Folded(segs[n - 1]) = owner
  BY <1>1 DEF Folded
<1>4. ~(m < 2) /\ Bare[u.parts[m]] # ""
  <2>1. u.parts[m] \in DOMAIN Lower /\ "" \notin DOMAIN Lower
    BY <1>1, BlocklistAssumption
  <2>2. u.parts[m] # ""
    BY <2>1
  <2>3. ~(m < 2)
    BY <1>1
  <2> QED BY <2>2, <2>3
<1>5. SplitRepoUrl(u) = <<owner, name>>
  BY <1>4 DEF SplitRepoUrl
<1>6. SplitRepoUrl(u) # None
  BY <1>1, <1>5, BlocklistAssumption
<1>7. Matches(lines, u) <=> owner \in Owners(lines) \/ <<owner, name>> \in Repos(lines)
  BY <1>5, <1>6 DEF Matches
<1>8. ASSUME NEW i \in 2..(n - 1), Folded(segs[i]) \in owners PROVE i = n - 1
  <2>1. i \in 1..(n - 2) => Folded(segs[i]) \in before
    OBVIOUS
  <2>2. i \notin 1..(n - 2)
    <3> HIDE DEF before, owners, n, segs
    <3> QED BY <1>8, <2>1
  <2>3. i \in 2..(n - 1) /\ n \in Nat
    BY <1>1
  <2> HIDE DEF n
  <2> QED BY <2>2, <2>3
<1>9. n - 1 \in 2..(n - 1) /\ (n - 1) + 1 = n
  BY <1>1
<1>10. ASSUME NEW r \in Repos(lines)
       PROVE  r = <<r[1], r[2]>>
  <2>1. PICK e \in lines : r = SplitRepoUrl(e) /\ r # None
    BY DEF Repos
  <2>2. PICK a, b : r = <<a, b>>
    BY <2>1 DEF SplitRepoUrl
  <2> QED BY <2>2
<1>11. ASSUME NEW o \in Owners(lines) PROVE OwnerPattern(o, segs) <=> o = owner
  <2>1. OwnerPattern(o, segs) => o = owner
    BY <1>2, <1>8 DEF OwnerPattern
  <2>2. OwnerPattern(owner, segs)
    BY <1>2, <1>9 DEF OwnerPattern
  <2> QED BY <2>1, <2>2
<1>12. ASSUME NEW r \in Repos(lines) PROVE RepoPattern(r, segs) <=> r = <<owner, name>>
  <2>1. ASSUME NEW i \in 2..(n - 1), Folded(segs[i]) = r[1], Folded(segs[i + 1]) = r[2]
        PROVE  r[1] = owner /\ r[2] = name
    <3>1. Folded(segs[i]) \in owners
      BY <2>1
    <3>2. i = n - 1
      BY <3>1, <1>8
    <3> QED BY <3>2, <2>1, <1>2, <1>9
  <2>2. RepoPattern(r, segs) => r = <<owner, name>>
    BY <2>1, <1>10 DEF RepoPattern
  <2>3. r = <<owner, name>> => r[1] = owner /\ r[2] = name
    OBVIOUS
  <2>4. r = <<owner, name>> => RepoPattern(r, segs)
    BY <2>3, <1>2, <1>9 DEF RepoPattern
  <2> QED BY <2>2, <2>4
<1>13. Excluded(lines, u) <=> owner \in Owners(lines) \/ <<owner, name>> \in Repos(lines)
  BY <1>11, <1>12 DEF Excluded
<1> QED BY <1>7, <1>13

-----------------------------------------------------------------------------
(* What is written and what is loaded.                                     *)

Stamps == Nat \X Nat
Kinds == {"text", "absent", "unreadable", "undecodable"}

DiskInv ==
    /\ file \in [kind : Kinds, lines : SUBSET Entries, stamp : Stamps]
    /\ edit \in (SUBSET Entries) \cup {None}
    /\ now \in 0..MaxTicks /\ edits \in 0..MaxEdits /\ faults \in 0..MaxFaults
    /\ stamps \in SUBSET Stamps /\ file.stamp \in stamps

LoadedInv ==
    /\ list.lines \in SUBSET Entries /\ list.stamp \in stamps \cup {None}
    /\ due \in BOOLEAN /\ seen \in stamps \cup {None}
    /\ hand \in [Threads -> SUBSET Entries]

StampInv == DiskInv /\ LoadedInv /\ StampTellsTheText

LEMMA Bounds == MaxEdits \in Nat /\ MaxFaults \in Nat /\ MaxTicks \in Nat
BY BlocklistAssumption

LEMMA LinesAreCounted ==
    ASSUME NEW lines \in SUBSET Entries, NEW mtime \in Nat
    PROVE  <<mtime, Cardinality(lines)>> \in Stamps
<1>1. IsFiniteSet(lines)
  BY BlocklistAssumption, FS_Subset
<1>2. Cardinality(lines) \in Nat
  BY <1>1, FS_CardinalityType
<1> QED BY <1>2 DEF Stamps

LEMMA StampInit == Init => StampInv
<1> SUFFICES ASSUME Init PROVE StampInv
  OBVIOUS
<1>1. PICK lines \in SUBSET Entries :
         file \in {[kind |-> "text", lines |-> lines, stamp |-> <<0, Cardinality(lines)>>],
                  [kind |-> "absent", lines |-> {}, stamp |-> <<0, 0>>]}
  BY DEF Init
<1>2. <<0, Cardinality(lines)>> \in Stamps /\ <<0, 0>> \in Stamps
  BY LinesAreCounted DEF Stamps
<1>3. file \in [kind : Kinds, lines : SUBSET Entries, stamp : Stamps]
  BY <1>1, <1>2 DEF Kinds
<1>4. DiskInv
  <2>1. /\ edit = None /\ now = 0 /\ edits = 0 /\ faults = 0 /\ stamps = {file.stamp}
    BY DEF Init
  <2>2. file.stamp \in Stamps
    BY <1>3
  <2>3. 0 \in 0..MaxTicks /\ 0 \in 0..MaxEdits /\ 0 \in 0..MaxFaults
    BY Bounds
  <2> QED BY <1>3, <2>1, <2>2, <2>3 DEF DiskInv
<1>5. LoadedInv
  BY DEF Init, Unloaded, LoadedInv
<1>6. list.stamp # file.stamp
  BY <1>3, BlocklistAssumption DEF Init, Unloaded, Stamps
<1> QED BY <1>4, <1>5, <1>6 DEF StampInv, StampTellsTheText

(* A version of the file has a stamp of its own, or one that was reused.   *)
LEMMA WriteStamps ==
    ASSUME StampInv, NEW kind \in Kinds, NEW lines \in SUBSET Entries, NEW mtime \in Nat,
           Write(kind, lines, mtime), UNCHANGED <<loaded, hand, now, faults>>,
           edit' \in (SUBSET Entries) \cup {None}, edits' \in 0..MaxEdits
    PROVE  StampInv'
<1> DEFINE stamp == <<mtime, Cardinality(lines)>>
<1>1. stamp \in Stamps
  BY LinesAreCounted
<1>2. /\ file' = [kind |-> kind, lines |-> lines, stamp |-> stamp]
      /\ stamps' = stamps \cup {stamp} /\ reused' = (reused \/ stamp \in stamps)
  BY DEF Write
<1> HIDE DEF stamp
<1>3. DiskInv'
  BY <1>1, <1>2 DEF StampInv, DiskInv
<1>4. LoadedInv'
  BY <1>2 DEF StampInv, LoadedInv, loaded
<1>5. ASSUME ~reused' PROVE list'.stamp # file'.stamp
  <2>1. stamp \notin stamps /\ stamp # None /\ file'.stamp = stamp
    BY <1>1, <1>2, <1>5, BlocklistAssumption DEF Stamps
  <2>2. list'.stamp \in stamps \cup {None}
    BY DEF StampInv, LoadedInv, loaded
  <2> QED BY <2>1, <2>2
<1> QED BY <1>3, <1>4, <1>5 DEF StampInv, StampTellsTheText

LEMMA StampFile ==
    ASSUME StampInv,
           \/ \E lines \in SUBSET Entries :
                 \/ Truncate(lines)
                 \/ \E kind \in {"text", "undecodable"}, mtime \in 0..now :
                       Replace(kind, lines, mtime)
           \/ \E entry \in Entries : WriteLine(entry)
           \/ \E kind \in {"absent", "unreadable"} : Vanish(kind)
           \/ Return \/ Tick
    PROVE  StampInv'
<1>0. /\ now \in Nat /\ edits \in Nat /\ faults \in Nat /\ now \in 0..MaxTicks
      /\ edits \in 0..MaxEdits /\ faults \in 0..MaxFaults
  BY Bounds DEF StampInv, DiskInv
<1>1. ASSUME NEW lines \in SUBSET Entries, Truncate(lines) PROVE StampInv'
  <2>1. Write("text", {}, now) /\ UNCHANGED <<loaded, hand, now, faults>>
    BY <1>1 DEF Truncate
  <2>2. edit' \in (SUBSET Entries) \cup {None} /\ edits' \in 0..MaxEdits
    BY <1>0, <1>1, Bounds DEF Truncate
  <2> QED BY <1>0, <2>1, <2>2, WriteStamps DEF Kinds
<1>2. ASSUME NEW lines \in SUBSET Entries, NEW kind \in {"text", "undecodable"},
             NEW mtime \in 0..now, Replace(kind, lines, mtime)
      PROVE  StampInv'
  <2>1. Write(kind, lines, mtime) /\ UNCHANGED <<loaded, hand, now, faults>>
    BY <1>2 DEF Replace
  <2>2. edit' \in (SUBSET Entries) \cup {None} /\ edits' \in 0..MaxEdits
    BY <1>0, <1>2, Bounds DEF Replace, StampInv, DiskInv
  <2>3. mtime \in Nat /\ kind \in Kinds
    BY <1>0 DEF Kinds
  <2> QED BY <2>1, <2>2, <2>3, WriteStamps
<1>3. ASSUME NEW entry \in Entries, WriteLine(entry) PROVE StampInv'
  <2>1. Write("text", file.lines \cup {entry}, now) /\ UNCHANGED <<loaded, hand, now, faults>>
    BY <1>3 DEF WriteLine
  <2>2. edit' \in (SUBSET Entries) \cup {None} /\ edits' \in 0..MaxEdits
    BY <1>0, <1>3 DEF WriteLine, StampInv, DiskInv
  <2>3. file.lines \cup {entry} \in SUBSET Entries /\ "text" \in Kinds
    BY DEF StampInv, DiskInv, Kinds
  <2> QED BY <1>0, <2>1, <2>2, <2>3, WriteStamps
<1>4. ASSUME (\E kind \in {"absent", "unreadable"} : Vanish(kind)) \/ Return PROVE StampInv'
  <2>1. PICK kind \in Kinds : file' = [file EXCEPT !.kind = kind]
    BY <1>4 DEF Vanish, Return, Kinds
  <2>2. faults' \in 0..MaxFaults
    BY <1>4, <1>0, Bounds DEF Vanish, Return, Fault
  <2>3. UNCHANGED <<edit, now, edits, stamps, reused, loaded, hand>>
    BY <1>4 DEF Vanish, Return
  <2>4. file'.stamp = file.stamp /\ file'.lines = file.lines
    BY <2>1 DEF StampInv, DiskInv
  <2>5. DiskInv'
    BY <2>1, <2>2, <2>3 DEF StampInv, DiskInv
  <2> QED BY <2>3, <2>4, <2>5 DEF StampInv, LoadedInv, StampTellsTheText, loaded
<1>5. ASSUME Tick PROVE StampInv'
  <2>1. now' \in 0..MaxTicks
    BY <1>0, <1>5, Bounds DEF Tick
  <2> QED BY <1>5, <2>1 DEF Tick, StampInv, DiskInv, LoadedInv, StampTellsTheText, loaded
<1> QED BY <1>1, <1>2, <1>3, <1>4, <1>5

(* A thread gets the list that is in force.                                *)
LEMMA StampCurrent ==
    ASSUME StampInv, NEW t \in Threads, Current(t)
    PROVE  StampInv'
<1>1. UNCHANGED <<disk, faults>>
  BY DEF Current, Ask, Load, KeepList, Raise
<1>2. DiskInv'
  BY <1>1 DEF StampInv, DiskInv, disk
<1>3. /\ list'.lines \in SUBSET Entries
      /\ \/ list' = list
         \/ list' = [lines |-> file.lines, stamp |-> seen]
  BY DEF Current, Ask, Load, KeepList, Raise, StampInv, DiskInv, LoadedInv
<1>4. list'.stamp \in stamps \cup {None}
  BY <1>3 DEF StampInv, LoadedInv
<1>5. due' \in BOOLEAN /\ seen' \in stamps \cup {None}
  BY DEF Current, Ask, Load, KeepList, Raise, Released, StampInv, DiskInv, LoadedInv
<1>6. hand' = hand \/ (\E lines \in SUBSET Entries : hand' = [hand EXCEPT ![t] = lines])
  BY DEF Current, Ask, Load, KeepList, Raise, Answer, StampInv, DiskInv, LoadedInv
<1>7. hand' \in [Threads -> SUBSET Entries]
  BY <1>6 DEF StampInv, LoadedInv
<1>8. LoadedInv'
  BY <1>1, <1>3, <1>4, <1>5, <1>7 DEF LoadedInv, disk
<1>9. StampTellsTheText'
  BY <1>1, <1>3 DEF StampInv, StampTellsTheText, disk
<1> QED BY <1>2, <1>8, <1>9 DEF StampInv

LEMMA StampStep == StampInv /\ [Next]_vars => StampInv'
<1> SUFFICES ASSUME StampInv, [Next]_vars PROVE StampInv'
  OBVIOUS
<1>1. CASE UNCHANGED vars
  BY <1>1 DEF vars, disk, loaded, StampInv, DiskInv, LoadedInv, StampTellsTheText
<1>2. CASE Elapse
  BY <1>2 DEF Elapse, disk, StampInv, DiskInv, LoadedInv, StampTellsTheText
<1>3. ASSUME NEW d \in Dispatchers, DispatchStep(d) \/ Take(d) PROVE StampInv'
  <2>1. UNCHANGED <<disk, loaded, hand>> /\ (faults' = faults \/ Fault)
    BY <1>3 DEF DispatchStep, CheckDepth, NextDispatchable, Publish, Take
  <2>2. faults' \in 0..MaxFaults
    <3>1. faults \in 0..MaxFaults
      BY DEF StampInv, DiskInv
    <3> QED BY <2>1, <3>1, Bounds DEF Fault
  <2> QED BY <2>1, <2>2 DEF disk, loaded, StampInv, DiskInv, LoadedInv, StampTellsTheText
<1>4. CASE Restart
  <2>1. UNCHANGED disk /\ Fault /\ list' = Unloaded /\ due' = TRUE /\ seen' = None
    BY <1>4 DEF Restart
  <2>2. hand' \in [Threads -> SUBSET Entries]
    BY <1>4 DEF Restart
  <2>3. faults' \in 0..MaxFaults
    <3>1. faults \in 0..MaxFaults
      BY DEF StampInv, DiskInv
    <3> QED BY <2>1, <3>1, Bounds DEF Fault
  <2>4. list'.stamp # file'.stamp
    BY <2>1, BlocklistAssumption DEF Unloaded, disk, StampInv, DiskInv, Stamps
  <2>5. DiskInv'
    BY <2>1, <2>3 DEF disk, StampInv, DiskInv
  <2> QED BY <2>1, <2>2, <2>4, <2>5 DEF disk, Unloaded, StampInv, LoadedInv, StampTellsTheText
<1> QED BY <1>1, <1>2, <1>3, <1>4, StampFile, StampCurrent DEF Next

(* The stamp of the list never says that an edit was loaded that was not:  *)
(* whatever is written between the stat and the read of a reload, whoever  *)
(* fails, the next check finds another stamp, unless the file system gave  *)
(* the same one to two versions.                                           *)
THEOREM StampTellsTheTextHolds == Spec => []StampTellsTheText
<1>1. StampInv => StampTellsTheText
  BY DEF StampInv
<1> QED BY <1>1, StampInit, StampStep, PTL DEF Spec

(* For every list that can be loaded, the query leaves out exactly the     *)
(* urls that the list names.                                               *)
THEOREM ExclusionIsExactHolds == Spec => []ExclusionIsExact
<1>1. ExclusionIsExact
  <2> SUFFICES ASSUME NEW u \in Urls PROVE ExactFor(list.lines, u)
    BY DEF ExclusionIsExact, ExactFor
  <2> QED BY ExactForAll
<1> QED BY <1>1, PTL

-----------------------------------------------------------------------------
(* Who holds the lock, and where tasks are.                                *)

Places == {"down", "idle", "ask", "read", "query", "publish"}

LockInv ==
    /\ at \in [Threads -> Places \cup {"up"}]
    /\ reader \in Threads \cup {None}
    /\ \A t \in Threads : at[t] = "read" <=> reader = t
    /\ at[Main] \in {"ask", "read", "up"}
    /\ \A d \in Dispatchers : at[d] \in Places /\ (at[d] = "down" <=> at[Main] # "up")

OnePlace(p, q, t) == p \cup q \cup t = Urls /\ p \cap q = {} /\ (p \cup q) \cap t = {}

TaskInv ==
    /\ DOMAIN hand = Threads
    /\ DOMAIN pick = Dispatchers /\ DOMAIN pending = Dispatchers
    /\ DOMAIN queue = Dispatchers /\ DOMAIN taken = Dispatchers
    /\ \A d \in Dispatchers :
          /\ at[d] = "publish" => pick[d] \in pending[d] /\ ~Excluded(hand[d], pick[d])
          /\ OnePlace(pending[d], queue[d], taken[d])

LEMMA ThreadsFact ==
    /\ Main \in Threads /\ Dispatchers \subseteq Threads /\ None \notin Threads
    /\ Main \notin Dispatchers /\ \A t \in Threads : t # Main => t \in Dispatchers
BY BlocklistAssumption DEF Threads

(* What a step does to a thread that asks, waits or reads.                 *)
LEMMA CurrentMoves ==
    ASSUME LockInv, NEW t \in Threads, Current(t)
    PROVE  /\ at[t] \in {"ask", "read"}
           /\ \/ /\ at' = [at EXCEPT ![t] = "read"] /\ reader = None /\ reader' = t
                 /\ UNCHANGED hand
              \/ /\ reader \in {None, t} /\ reader' = None
                 /\ \E lines : hand' = [hand EXCEPT ![t] = lines]
                 /\ at' = IF t = Main THEN [x \in Threads |-> IF x = Main THEN "up" ELSE "idle"]
                          ELSE [at EXCEPT ![t] = "query"]
              \/ /\ reader = t /\ reader' = None /\ UNCHANGED hand
                 /\ at' = [at EXCEPT ![t] = IF t = Main THEN "ask" ELSE "idle"]
<1>1. CASE Ask(t)
  BY <1>1 DEF Ask, Answer
<1>2. CASE Load(t) \/ KeepList(t)
  BY <1>2 DEF LockInv, Load, KeepList, Answer, Released
<1>3. CASE Raise(t)
  BY <1>3 DEF LockInv, Raise, Released
<1> QED BY <1>1, <1>2, <1>3 DEF Current

LEMMA LockCurrent ==
    ASSUME LockInv, NEW t \in Threads, Current(t)
    PROVE  LockInv'
<1>1. CASE /\ at' = [at EXCEPT ![t] = "read"] /\ reader = None /\ reader' = t
  <2>1. at[t] \in {"ask", "read"}
    BY CurrentMoves
  <2>2. at' \in [Threads -> Places \cup {"up"}]
    BY <1>1 DEF LockInv, Places
  <2>3. \A x \in Threads : at'[x] = IF x = t THEN "read" ELSE at[x]
    BY <1>1 DEF LockInv
  <2>4. \A x \in Threads : at[x] # "read"
    BY <1>1, ThreadsFact DEF LockInv
  <2> QED BY <1>1, <2>1, <2>2, <2>3, <2>4, ThreadsFact DEF LockInv, Places
<1>2. CASE /\ reader \in {None, t} /\ reader' = None
           /\ at' = IF t = Main THEN [x \in Threads |-> IF x = Main THEN "up" ELSE "idle"]
                    ELSE [at EXCEPT ![t] = "query"]
  <2>1. at[t] \in {"ask", "read"}
    BY CurrentMoves
  <2>2. \A x \in Threads : at'[x] = IF t = Main THEN (IF x = Main THEN "up" ELSE "idle")
                                    ELSE IF x = t THEN "query" ELSE at[x]
    BY <1>2 DEF LockInv
  <2>3. at' \in [Threads -> Places \cup {"up"}]
    BY <1>2 DEF LockInv, Places
  <2>4. \A x \in Threads : x # t => at[x] # "read"
    BY <1>2, ThreadsFact DEF LockInv
  <2> QED BY <1>2, <2>1, <2>2, <2>3, <2>4, ThreadsFact DEF LockInv, Places
<1>3. CASE /\ reader = t /\ reader' = None
           /\ at' = [at EXCEPT ![t] = IF t = Main THEN "ask" ELSE "idle"]
  <2>1. at[t] \in {"ask", "read"}
    BY CurrentMoves
  <2>2. \A x \in Threads : at'[x] = IF x = t THEN (IF t = Main THEN "ask" ELSE "idle") ELSE at[x]
    BY <1>3 DEF LockInv
  <2>3. at' \in [Threads -> Places \cup {"up"}]
    BY <1>3 DEF LockInv, Places
  <2>4. \A x \in Threads : x # t => at[x] # "read"
    BY <1>3, ThreadsFact DEF LockInv
  <2> QED BY <1>3, <2>1, <2>2, <2>3, <2>4, ThreadsFact DEF LockInv, Places
<1> QED BY <1>1, <1>2, <1>3, CurrentMoves

(* A dispatcher goes from one place to another without the lock.           *)
LEMMA DispatchMoves ==
    ASSUME NEW d \in Dispatchers, DispatchStep(d)
    PROVE  \E p \in {"ask", "idle", "publish"} :
              /\ at' = [at EXCEPT ![d] = p] /\ at[d] \in {"idle", "query", "publish"}
              /\ UNCHANGED <<reader, hand, taken>>
<1>1. CASE CheckDepth(d)
  BY <1>1 DEF CheckDepth, loaded, tasks
<1>2. CASE NextDispatchable(d)
  BY <1>2 DEF NextDispatchable, loaded, tasks
<1>3. CASE Publish(d)
  BY <1>3 DEF Publish, loaded
<1> QED BY <1>1, <1>2, <1>3 DEF DispatchStep

FileStep ==
    \/ \E lines \in SUBSET Entries :
          \/ Truncate(lines)
          \/ \E kind \in {"text", "undecodable"}, mtime \in 0..now : Replace(kind, lines, mtime)
    \/ \E entry \in Entries : WriteLine(entry)
    \/ \E kind \in {"absent", "unreadable"} : Vanish(kind)
    \/ Return \/ Tick

(* Files and time leave threads and tasks alone.                           *)
LEMMA Elsewhere ==
    ASSUME FileStep \/ Elapse \/ UNCHANGED vars
    PROVE  UNCHANGED <<list, reader, at, hand, pick, pending, queue, taken, late>>
BY DEF FileStep, Truncate, Replace, WriteLine, Vanish, Return, Tick, Elapse, vars, loaded, tasks

LEMMA Steps ==
    ASSUME [Next]_vars
    PROVE  \/ FileStep \/ Elapse \/ UNCHANGED vars
           \/ \E t \in Threads : Current(t)
           \/ \E d \in Dispatchers : DispatchStep(d) \/ Take(d)
           \/ Restart
BY DEF Next, FileStep

LEMMA LockStep == LockInv /\ [Next]_vars => LockInv'
<1> SUFFICES ASSUME LockInv, [Next]_vars PROVE LockInv'
  OBVIOUS
<1>1. CASE FileStep \/ Elapse \/ UNCHANGED vars
  <2>1. UNCHANGED <<at, reader>>
    BY <1>1, Elsewhere
  <2> QED BY <2>1 DEF LockInv
<1>2. ASSUME NEW d \in Dispatchers, DispatchStep(d) PROVE LockInv'
  <2>1. PICK p \in {"ask", "idle", "publish"} :
           at' = [at EXCEPT ![d] = p] /\ at[d] \in {"idle", "query", "publish"} /\ UNCHANGED reader
    BY <1>2, DispatchMoves
  <2>2. \A x \in Threads : at'[x] = IF x = d THEN p ELSE at[x]
    BY <2>1 DEF LockInv
  <2>3. at' \in [Threads -> Places \cup {"up"}]
    BY <2>1 DEF LockInv, Places
  <2> QED BY <2>1, <2>2, <2>3, ThreadsFact DEF LockInv, Places
<1>3. ASSUME NEW d \in Dispatchers, Take(d) PROVE LockInv'
  BY <1>3 DEF Take, loaded, LockInv
<1>4. CASE Restart
  <2>1. reader' = None /\ at' = [t \in Threads |-> IF t = Main THEN "ask" ELSE "down"]
    BY <1>4 DEF Restart
  <2> QED BY <2>1, ThreadsFact DEF LockInv, Places
<1> QED BY <1>1, <1>2, <1>3, <1>4, LockCurrent, Steps

LEMMA TaskStep == LockInv /\ TaskInv /\ [Next]_vars => TaskInv'
<1> SUFFICES ASSUME LockInv, TaskInv, [Next]_vars PROVE TaskInv'
  OBVIOUS
<1>1. CASE FileStep \/ Elapse \/ UNCHANGED vars
  <2>1. UNCHANGED <<at, hand, pick, pending, queue, taken>>
    BY <1>1, Elsewhere
  <2> QED BY <2>1 DEF TaskInv
<1>2. ASSUME NEW t \in Threads, Current(t) PROVE TaskInv'
  <2>1. UNCHANGED <<pick, pending, queue, taken>>
    BY <1>2 DEF Current, Ask, Load, KeepList, Raise, tasks
  <2>2. ASSUME NEW d \in Dispatchers, at'[d] = "publish"
        PROVE  at[d] = "publish" /\ hand'[d] = hand[d]
    <3>1. d # t /\ t # Main
      BY <1>2, <2>2, CurrentMoves, ThreadsFact DEF LockInv
    <3>2. d \in Threads /\ d # Main
      BY ThreadsFact
    <3>3. CASE \E p : at' = [at EXCEPT ![t] = p]
      <4>1. at'[d] = at[d]
        BY <3>1, <3>2, <3>3 DEF LockInv
      <4>2. hand' = hand \/ \E lines : hand' = [hand EXCEPT ![t] = lines]
        BY <1>2, CurrentMoves
      <4>3. hand'[d] = hand[d]
        BY <4>2, <3>1, <3>2 DEF TaskInv
      <4> QED BY <2>2, <4>1, <4>3
    <3>4. CASE at' = [x \in Threads |-> IF x = Main THEN "up" ELSE "idle"]
      BY <2>2, <3>2, <3>4
    <3> QED BY <1>2, <3>3, <3>4, CurrentMoves
  <2>3. hand' = hand \/ \E lines : hand' = [hand EXCEPT ![t] = lines]
    BY <1>2, CurrentMoves
  <2>4. DOMAIN hand' = Threads
    BY <2>3 DEF TaskInv
  <2> QED BY <2>1, <2>2, <2>4 DEF TaskInv
<1>3. ASSUME NEW d \in Dispatchers, CheckDepth(d) PROVE TaskInv'
  BY <1>3, ThreadsFact DEF CheckDepth, tasks, TaskInv, LockInv
<1>4. ASSUME NEW d \in Dispatchers, NextDispatchable(d) PROVE TaskInv'
  <2>1. UNCHANGED <<pending, queue, taken, hand>>
    BY <1>4 DEF NextDispatchable, tasks
  <2>2. \/ \E u \in pending[d] : /\ ~Excluded(hand[d], u) /\ pick' = [pick EXCEPT ![d] = u]
                                 /\ at' = [at EXCEPT ![d] = "publish"]
        \/ at' = [at EXCEPT ![d] = "idle"] /\ pick' = pick
    BY <1>4 DEF NextDispatchable
  <2>3. DOMAIN pick' = Dispatchers
    BY <2>2 DEF TaskInv
  <2>4. ASSUME NEW x \in Dispatchers, at'[x] = "publish"
        PROVE  pick'[x] \in pending[x] /\ ~Excluded(hand[x], pick'[x])
    BY <2>2, <2>4, ThreadsFact DEF TaskInv, LockInv
  <2> QED BY <2>1, <2>3, <2>4 DEF TaskInv
<1>5. ASSUME NEW d \in Dispatchers, Publish(d) PROVE TaskInv'
  <2>1. at' = [at EXCEPT ![d] = "idle"] /\ UNCHANGED <<hand, taken>> /\ pick[d] \in pending[d]
    BY <1>5 DEF Publish, TaskInv
  <2>2. DOMAIN pick' = Dispatchers /\ \A x \in Dispatchers : x # d => pick'[x] = pick[x]
    BY <1>5 DEF Publish, TaskInv
  <2>3. \/ UNCHANGED <<queue, pending>>
        \/ /\ queue' = [queue EXCEPT ![d] = @ \cup {pick[d]}]
           /\ pending' = [pending EXCEPT ![d] = @ \ {pick[d]}]
    BY <1>5 DEF Publish
  <2>4. DOMAIN pending' = Dispatchers /\ DOMAIN queue' = Dispatchers /\ DOMAIN taken' = Dispatchers
    BY <2>1, <2>3 DEF TaskInv
  <2>5. ASSUME NEW x \in Dispatchers PROVE OnePlace(pending'[x], queue'[x], taken'[x])
    <3>1. OnePlace(pending[x], queue[x], taken[x])
      BY DEF TaskInv
    <3>2. CASE UNCHANGED <<queue, pending>>
      BY <3>1, <3>2, <2>1
    <3>3. CASE /\ queue' = [queue EXCEPT ![d] = @ \cup {pick[d]}]
               /\ pending' = [pending EXCEPT ![d] = @ \ {pick[d]}]
      <4>1. x # d => queue'[x] = queue[x] /\ pending'[x] = pending[x]
        BY <3>3 DEF TaskInv
      <4>2. queue'[d] = queue[d] \cup {pick[d]} /\ pending'[d] = pending[d] \ {pick[d]}
        BY <3>3 DEF TaskInv
      <4> QED BY <4>1, <4>2, <3>1, <2>1 DEF OnePlace
    <3> QED BY <3>2, <3>3, <2>3
  <2>6. ASSUME NEW x \in Dispatchers, at'[x] = "publish"
        PROVE  pick'[x] \in pending'[x] /\ ~Excluded(hand'[x], pick'[x])
    <3>1. x # d /\ at[x] = "publish"
      BY <2>1, <2>6, ThreadsFact DEF LockInv
    <3> QED BY <3>1, <2>1, <2>2, <2>3 DEF TaskInv
  <2> QED BY <2>1, <2>2, <2>4, <2>5, <2>6 DEF TaskInv
<1>6. ASSUME NEW d \in Dispatchers, Take(d) PROVE TaskInv'
  <2>1. PICK u \in queue[d] : /\ queue' = [queue EXCEPT ![d] = @ \ {u}]
                              /\ taken' = [taken EXCEPT ![d] = @ \cup {u}]
    BY <1>6 DEF Take
  <2>2. UNCHANGED <<at, hand, pick, pending>>
    BY <1>6 DEF Take
  <2>3. ASSUME NEW x \in Dispatchers PROVE OnePlace(pending'[x], queue'[x], taken'[x])
    <3>1. OnePlace(pending[x], queue[x], taken[x])
      BY DEF TaskInv
    <3>2. x # d => queue'[x] = queue[x] /\ taken'[x] = taken[x]
      BY <2>1 DEF TaskInv
    <3>3. queue'[d] = queue[d] \ {u} /\ taken'[d] = taken[d] \cup {u}
      BY <2>1 DEF TaskInv
    <3> QED BY <2>1, <2>2, <3>1, <3>2, <3>3 DEF OnePlace
  <2>4. DOMAIN queue' = Dispatchers /\ DOMAIN taken' = Dispatchers
    BY <2>1 DEF TaskInv
  <2> QED BY <2>2, <2>3, <2>4 DEF TaskInv
<1>7. CASE Restart
  BY <1>7, ThreadsFact DEF Restart, tasks, TaskInv
<1> QED BY <1>1, <1>2, <1>3, <1>4, <1>5, <1>6, <1>7, Steps DEF DispatchStep

(* Every variable keeps its type, one thread at a time reloads the list,   *)
(* none of the dispatchers runs before the list was loaded, and a task is  *)
(* in one place.                                                           *)
THEOREM TypeCorrect == Spec => []TypeOK
<1>1. Init => LockInv
  BY ThreadsFact DEF Init, LockInv, Places
<1>2. Init => TaskInv
  BY ThreadsFact DEF Init, TaskInv, OnePlace
<1>3. StampInv /\ LockInv /\ TaskInv => TypeOK
  <2> SUFFICES ASSUME StampInv, LockInv, TaskInv PROVE TypeOK
    OBVIOUS
  <2>1. file.kind \in Kinds /\ file.lines \subseteq Entries
    BY DEF StampInv, DiskInv
  <2>2. list.lines \subseteq Entries /\ \A d \in Dispatchers : hand[d] \subseteq Entries
    BY ThreadsFact DEF StampInv, LoadedInv
  <2> QED BY <2>1, <2>2 DEF TypeOK, StampInv, DiskInv, LoadedInv, Kinds, LockInv, TaskInv, Places, OnePlace
<1> QED BY <1>1, <1>2, <1>3, StampInit, StampStep, LockStep, TaskStep, PTL DEF Spec

-----------------------------------------------------------------------------
(* A dispatcher that has published a task the list names got its list      *)
(* before that one was loaded; it asks again before the next.              *)
LateInv ==
    /\ DOMAIN hand = Threads /\ DOMAIN late = Dispatchers
    /\ \A d \in Dispatchers :
          /\ late[d] \in {0, 1}
          /\ late[d] = 1 /\ at[d] \in {"query", "publish"} => hand[d] = list.lines

LEMMA LateStep == LockInv /\ TaskInv /\ LateInv /\ [Next]_vars => LateInv'
<1> SUFFICES ASSUME LockInv, TaskInv, LateInv, [Next]_vars PROVE LateInv'
  OBVIOUS
<1>1. CASE FileStep \/ Elapse \/ UNCHANGED vars
  <2>1. UNCHANGED <<list, at, hand, late>>
    BY <1>1, Elsewhere
  <2> QED BY <2>1 DEF LateInv
<1>2. ASSUME NEW t \in Threads, Load(t) PROVE LateInv'
  <2>1. /\ late' = IF file.lines = list.lines THEN late ELSE [d \in Dispatchers |-> 0]
        /\ list'.lines = file.lines /\ hand' = [hand EXCEPT ![t] = file.lines]
    BY <1>2 DEF Load, Answer
  <2>2. DOMAIN hand' = Threads /\ hand'[t] = list'.lines /\ \A x \in Threads : x # t => hand'[x] = hand[x]
    BY <2>1 DEF LateInv
  <2>3. ASSUME NEW d \in Dispatchers, d # t, at'[d] \in {"query", "publish"}
        PROVE  at[d] \in {"query", "publish"}
    BY <1>2, <2>3, ThreadsFact DEF Load, Answer, LockInv
  <2>4. CASE file.lines = list.lines
    BY <2>1, <2>2, <2>3, <2>4, ThreadsFact DEF LateInv
  <2>5. CASE file.lines # list.lines
    BY <2>1, <2>2, <2>5 DEF LateInv
  <2> QED BY <2>4, <2>5
<1>3. ASSUME NEW t \in Threads, Ask(t) \/ KeepList(t) \/ Raise(t) PROVE LateInv'
  <2>1. UNCHANGED <<list, late>>
    BY <1>3 DEF Ask, KeepList, Raise
  <2>2. \/ hand' = [hand EXCEPT ![t] = list.lines]
        \/ hand' = hand /\ at'[t] \notin {"query", "publish"}
    BY <1>3, ThreadsFact DEF Ask, KeepList, Raise, Answer, LockInv
  <2>3. ASSUME NEW d \in Dispatchers, d # t, at'[d] \in {"query", "publish"}
        PROVE  at[d] \in {"query", "publish"}
    BY <1>3, <2>3, ThreadsFact DEF Ask, KeepList, Raise, Answer, LockInv
  <2> QED BY <2>1, <2>2, <2>3, ThreadsFact DEF LateInv
<1>4. ASSUME NEW d \in Dispatchers, CheckDepth(d) \/ NextDispatchable(d) PROVE LateInv'
  <2>1. UNCHANGED <<list, late, hand>>
    BY <1>4 DEF CheckDepth, NextDispatchable, loaded
  <2>2. ASSUME NEW x \in Dispatchers, at'[x] \in {"query", "publish"}
        PROVE  at[x] \in {"query", "publish"}
    BY <1>4, <2>2, ThreadsFact DEF CheckDepth, NextDispatchable, LockInv
  <2> QED BY <2>1, <2>2 DEF LateInv
<1>5. ASSUME NEW d \in Dispatchers, Publish(d) PROVE LateInv'
  <2>1. UNCHANGED <<list, hand>> /\ at' = [at EXCEPT ![d] = "idle"] /\ at[d] = "publish"
    BY <1>5 DEF Publish, loaded
  <2>2. at'[d] = "idle" /\ \A x \in Dispatchers : x # d => at'[x] = at[x]
    BY <2>1, ThreadsFact DEF LockInv
  <2>3. \/ late' = late
        \/ late' = [late EXCEPT ![d] = @ + 1] /\ Excluded(list.lines, pick[d])
    BY <1>5 DEF Publish
  <2>4. ASSUME Excluded(list.lines, pick[d]) PROVE late[d] = 0
    <3>1. hand[d] # list.lines
      BY <2>1, <2>4 DEF TaskInv
    <3> QED BY <3>1, <2>1 DEF LateInv
  <2>5. \/ late' = late
        \/ late' = [late EXCEPT ![d] = 1]
    BY <2>3, <2>4 DEF LateInv
  <2> QED BY <2>1, <2>2, <2>5 DEF LateInv
<1>6. ASSUME NEW d \in Dispatchers, Take(d) PROVE LateInv'
  BY <1>6 DEF Take, loaded, LateInv
<1>7. CASE Restart
  BY <1>7 DEF Restart, LateInv
<1> QED BY <1>1, <1>2, <1>3, <1>4, <1>5, <1>6, <1>7, Steps DEF Current, DispatchStep

(* However often the file is edited, a dispatcher publishes at most one    *)
(* task that the list in force names: the one it had the old list for.     *)
THEOREM AtMostOneLateHolds == Spec => []AtMostOneLate
<1>1. Init => LockInv /\ TaskInv /\ LateInv
  BY ThreadsFact DEF Init, LockInv, Places, TaskInv, OnePlace, LateInv
<1>2. LateInv => AtMostOneLate
  BY DEF LateInv, AtMostOneLate
<1> QED BY <1>1, <1>2, LockStep, TaskStep, LateStep, PTL DEF Spec
=============================================================================
