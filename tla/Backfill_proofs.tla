-------------------------- MODULE Backfill_proofs ---------------------------
(***************************************************************************)
(* The migration keeps every stored object, for any builds, objects,       *)
(* threads, runs and faults. A thread at work has a prefix of its own,     *)
(* which is no longer in the list (TypeInv); on this rest three other      *)
(* invariants: what a thread of a raw prefix has copied was compared under *)
(* the new prefix, or has been moved on from there (ReadInv); a thread     *)
(* that deletes has written its manifest (FirstInv); and what a thread has *)
(* copied from any prefix is in a later generation, so that the bytes of   *)
(* an object only ever move up (SurviveInv).                               *)
(***************************************************************************)
EXTENDS Backfill, FiniteSetTheorems, TLAPS

(* The types of the threads' work, and the parts of the type invariant.    *)
Contents == {"none", "good", "bad"}
Stages == {"head", "object", "put", "verify", "delete"}
Works == [at : Stages \cup {"idle"}, dir : Dirs \cup {None}, rest : SUBSET Objects,
          obj : Objects \cup {None}, src : Contents]
Busy(t) == work[t].at # "idle"

Shape ==
    /\ store \in [Keys -> Contents] /\ manifests \in SUBSET Dirs
    /\ building \in [Builds -> SUBSET (Objects \cup {"export.json"})]
    /\ run \in {"off", "on", "done", "failed", "killed"} /\ keepRaw \in BOOLEAN
    /\ todo \in SUBSET Dirs /\ objects \in [Dirs -> SUBSET Objects]
    /\ work \in [Threads -> Works]
    /\ runs \in 0..MaxRuns /\ faults \in 0..MaxFaults /\ corrupted \in BOOLEAN
    /\ owed \in SUBSET (Builds \X Objects)
    /\ unverified \in SUBSET (Builds \X Objects) /\ moved \in SUBSET (Builds \X Objects)

(* A thread at work took its prefix off the list, the script runs, and     *)
(* what it has left to copy was listed; it deletes when nothing is left.   *)
Working ==
    \A t \in Threads :
        /\ ~Busy(t) => work[t] = Idle
        /\ Busy(t) => /\ run = "on" /\ work[t].dir \in Dirs \ todo /\ Parses(work[t].dir)
                      /\ work[t].rest \subseteq objects[work[t].dir]
        /\ work[t].at \in {"put", "verify"} => work[t].obj \in work[t].rest /\ work[t].src # "none"
        /\ work[t].at = "delete" => work[t].rest = {}

(* No two threads have the same prefix.                                    *)
Apart == \A t, u \in Threads : t # u /\ Busy(t) /\ Busy(u) => work[t].dir # work[u].dir

TypeInv == Shape /\ Working /\ Apart

(* A prefix is a pair; what the script reads from and writes to are keys.  *)
LEMMA DirFacts ==
    ASSUME NEW d \in Dirs
    PROVE  /\ d = <<d[1], d[2]>> /\ d[1] \in Builds /\ d[2] \in {1, 2, 3}
           /\ Parses(d) => Target(d) \in Dirs /\ Target(d) = <<d[1], d[2] + 1>>
           /\ \A o \in Objects : Key(d, o) = <<d[1], d[2], o>> /\ Key(d, o) \in Keys
BY DEF Dirs, Parses, Target, Key, Keys

LEMMA BoundsFact == MaxRuns \in Nat /\ MaxFaults \in Nat
BY BackfillAssumption DEF BackfillAssumption

(* A fault is counted within its bound.                                    *)
LEMMA FaultFact == Shape /\ Fault => faults' \in 0..MaxFaults
BY BoundsFact DEF Shape, Fault

(* What a thread that is at work does to itself. *)
LEMMA ThreadMoves ==
    ASSUME TypeInv, NEW t \in Threads, Migrate(t)
    PROVE  /\ work' \in [Threads -> Works]
           /\ \A u \in Threads \ {t} : work'[u] = work[u]
           /\ \/ work'[t] = Idle
              \/ Take(t) /\ work'[t].dir \in todo /\ work'[t].rest = {} /\ work'[t].at = "head"
                 /\ Parses(work'[t].dir)
              \/ /\ Busy(t) /\ work'[t].dir = work[t].dir /\ work'[t].at # "idle"
                 /\ work'[t].rest \subseteq objects[work[t].dir]
                 /\ work'[t].at \in {"put", "verify"}
                    => work'[t].obj \in work'[t].rest /\ work'[t].src # "none"
                 /\ work'[t].at = "delete" => work'[t].rest = {}
<1> USE DEF TypeInv
<1>0. work \in [Threads -> Works] /\ objects \in [Dirs -> SUBSET Objects] /\ Idle \in Works
    BY DEF Shape, Idle, Works, Stages, Contents
<1>1. CASE Take(t)
    <2>1. PICK d \in todo : IF Parses(d) THEN work' = [work EXCEPT ![t].at = "head", ![t].dir = d]
                            ELSE UNCHANGED work
        BY <1>1 DEF Take
    <2>2. work[t] = Idle /\ d \in Dirs
        BY <1>1 DEF Take, Shape
    <2>3. CASE Parses(d)
        BY <1>0, <1>1, <2>1, <2>2, <2>3 DEF Works, Stages, Idle
    <2>4. CASE ~Parses(d)
        BY <1>0, <2>1, <2>2, <2>4
    <2> QED BY <2>3, <2>4
<1>2. CASE HeadObject(t)
    BY <1>0, <1>2 DEF HeadObject, Leave, Works, Stages, Working, Busy
<1>3. CASE Download(t)
    <2>1. PICK o \in work[t].rest :
              /\ Source(t, o) # "none"
              /\ work' = [work EXCEPT ![t].at = "put", ![t].obj = o, ![t].src = Source(t, o)]
        BY <1>3 DEF Download
    <2>2. work[t].at = "object" /\ Busy(t)
        BY <1>3 DEF Download, Busy
    <2>3. o \in Objects /\ Source(t, o) \in Contents
        BY <1>0, <2>2, DirFacts DEF Works, Source, Shape, Working
    <2>4. PICK w \in Works, src \in Contents : w = work[t] /\ src = Source(t, o)
        BY <1>0, <2>3
    <2>5. PICK new \in Works : /\ new = [w EXCEPT !.at = "put", !.obj = o, !.src = src]
                              /\ new.at = "put" /\ new.dir = w.dir /\ new.rest = w.rest
                              /\ new.obj = o /\ new.src = src
        <3>1. [w EXCEPT !.at = "put", !.obj = o, !.src = src] \in Works
            BY <2>3, <2>4 DEF Works, Stages
        <3> QED BY <2>4, <3>1 DEF Works
    <2>6. work' = [work EXCEPT ![t] = new]
        BY <2>1, <2>4, <2>5
    <2>7. work' \in [Threads -> Works] /\ work'[t] = new /\ \A u \in Threads \ {t} : work'[u] = work[u]
        BY <1>0, <2>6
    <2>8. work[t].rest \subseteq objects[work[t].dir]
        BY <2>2 DEF Working
    <2> QED BY <2>1, <2>2, <2>4, <2>5, <2>7, <2>8
<1>4. CASE Put(t)
    BY <1>0, <1>4 DEF Put, Goto, Works, Stages, Working, Busy
<1>5. CASE Verify(t)
    BY <1>0, <1>5 DEF Verify, Verified, Copied, Works, Stages, Contents, Working, Busy
<1>6. CASE Fail(t)
    BY <1>0, <1>6 DEF Fail, Leave
<1>7. CASE PutManifest(t)
    BY <1>0, <1>7 DEF PutManifest, Goto, Leave, Works, Stages, Working, Busy
<1>8. CASE Delete(t)
    BY <1>0, <1>8 DEF Delete, Leave
<1> QED BY <1>1, <1>2, <1>3, <1>4, <1>5, <1>6, <1>7, <1>8 DEF Migrate

(* What a thread leaves alone; a prefix it takes is off the list.          *)
LEMMA MigrateFrame ==
    ASSUME TypeInv, NEW t \in Threads, Migrate(t)
    PROVE  /\ UNCHANGED <<builder, run, keepRaw, objects, runs>>
           /\ run = "on" /\ todo' \subseteq todo
           /\ Busy(t)' => work'[t].dir \notin todo'
<1>1. CASE Take(t)
    <2>1. PICK d \in todo :
              /\ todo' = todo \ {d}
              /\ IF Parses(d) THEN work' = [work EXCEPT ![t].at = "head", ![t].dir = d]
                 ELSE UNCHANGED work
        BY <1>1 DEF Take
    <2>2. work[t] = Idle /\ work \in [Threads -> Works]
        BY <1>1 DEF Take, TypeInv, Shape
    <2> QED BY <1>1, <2>1, <2>2 DEF Take, Busy, Idle, Works, builder
<1>2. CASE ~Take(t)
    <2>1. UNCHANGED <<builder, script>> /\ Busy(t)
        BY <1>2 DEF Migrate, HeadObject, Download, Put, Verify, Fail, PutManifest, Delete, Busy,
                    Differs, builder
    <2>2. Busy(t)' => work'[t].dir = work[t].dir
        BY <1>2, ThreadMoves DEF Busy, Idle
    <2> QED BY <2>1, <2>2 DEF script, TypeInv, Working
<1> QED BY <1>1, <1>2

(* Only a copy, its verification and a deletion change the history of the  *)
(* objects.                                                                *)
LEMMA HistoryFact ==
    ASSUME TypeInv, NEW t \in Threads, Migrate(t)
    PROVE  /\ unverified' \in SUBSET (Builds \X Objects) /\ moved' \in SUBSET (Builds \X Objects)
           /\ ~Put(t) /\ ~Verify(t) => unverified' = unverified
           /\ ~Put(t) /\ ~Delete(t) => moved' = moved
<1> USE DEF TypeInv
<1>0. unverified \in SUBSET (Builds \X Objects) /\ moved \in SUBSET (Builds \X Objects)
    BY DEF Shape
<1>1. CASE Put(t) \/ Verify(t)
    <2>1. Named(t) \in Builds \X Objects
        <3>1. work[t].dir \in Dirs /\ work[t].obj \in Objects
            BY <1>1 DEF Put, Verify, Working, Busy, Shape
        <3> QED BY <3>1, DirFacts DEF Named
    <2>2. CASE Put(t)
        <3>1. unverified' \in {unverified, unverified \cup {Named(t)}} /\ moved' \in {moved, moved \ {Named(t)}}
            BY <2>2 DEF Put
        <3> QED BY <1>0, <2>1, <2>2, <3>1
    <2>3. CASE Verify(t)
        <3>1. unverified' \in {unverified, unverified \ {Named(t)}} /\ moved' = moved
            BY <2>3 DEF Verify, Verified
        <3> QED BY <1>0, <2>3, <3>1
    <2> QED BY <1>1, <2>2, <2>3
<1>2. CASE Delete(t)
    <2>1. PICK gone \in SUBSET objects[work[t].dir] :
              moved' = IF Raw(t) THEN moved ELSE moved \cup {<<work[t].dir[1], o>> : o \in gone}
        BY <1>2 DEF Delete
    <2>2. work[t].dir \in Dirs /\ unverified' = unverified
        BY <1>2 DEF Delete, Working, Busy
    <2>3. work[t].dir[1] \in Builds /\ gone \in SUBSET Objects
        BY <2>2, DirFacts DEF Shape
    <2>4. moved' \in SUBSET (Builds \X Objects)
        BY <1>0, <2>1, <2>3
    <2> QED BY <1>0, <1>2, <2>2, <2>4
<1>3. CASE Take(t) \/ HeadObject(t) \/ Download(t) \/ Fail(t) \/ PutManifest(t)
    BY <1>0, <1>3 DEF Take, HeadObject, Download, Fail, PutManifest, history
<1> QED BY <1>1, <1>2, <1>3 DEF Migrate

(* A thread's step keeps the types,                                        *)
LEMMA ShapeMigrate ==
    ASSUME TypeInv, NEW t \in Threads, Migrate(t)
    PROVE  Shape'
<1> USE DEF TypeInv
<1>1. work' \in [Threads -> Works] /\ todo' \subseteq todo
      /\ UNCHANGED <<builder, run, keepRaw, objects, runs>>
    BY ThreadMoves, MigrateFrame
<1>2. faults' \in 0..MaxFaults
    BY FaultFact
    DEF Migrate, Take, HeadObject, Download, Put, Verify, Fail, PutManifest, Delete, Shape
<1>3. store' \in [Keys -> Contents] /\ manifests' \in SUBSET Dirs /\ corrupted' \in BOOLEAN
    <2>1. CASE Put(t)
        <3>1. work[t].src \in Contents
            BY DEF Shape, Works
        <3> QED BY <2>1, <3>1 DEF Put, Shape, Contents
    <2>2. CASE PutManifest(t)
        <3>1. Target(work[t].dir) \in Dirs
            BY <2>2, DirFacts DEF PutManifest, Working, Busy
        <3> QED BY <2>2, <3>1 DEF PutManifest, Shape, history
    <2>3. CASE Delete(t)
        BY <2>3 DEF Delete, Shape, Contents
    <2>4. CASE Take(t) \/ HeadObject(t) \/ Download(t) \/ Verify(t) \/ Fail(t)
        BY <2>4 DEF Take, HeadObject, Download, Verify, Fail, Shape, bucket, history
    <2> QED BY <2>1, <2>2, <2>3, <2>4 DEF Migrate
<1>4. unverified' \in SUBSET (Builds \X Objects) /\ moved' \in SUBSET (Builds \X Objects)
    BY HistoryFact
<1> QED BY <1>1, <1>2, <1>3, <1>4 DEF Shape, builder

(* and its prefix its own.                                                 *)
LEMMA WorkingMigrate ==
    ASSUME TypeInv, NEW t \in Threads, Migrate(t)
    PROVE  Working' /\ Apart'
<1> USE DEF TypeInv
<1>1. /\ \A u \in Threads \ {t} : work'[u] = work[u]
      /\ UNCHANGED objects /\ run = "on" /\ run' = "on" /\ todo' \subseteq todo
      /\ Busy(t)' => work'[t].dir \notin todo'
    BY ThreadMoves, MigrateFrame
<1>2. \/ work'[t] = Idle
      \/ work'[t].dir \in todo /\ work'[t].rest = {} /\ work'[t].at = "head" /\ Parses(work'[t].dir)
      \/ /\ Busy(t) /\ work'[t].dir = work[t].dir /\ work'[t].at # "idle"
         /\ work'[t].rest \subseteq objects[work[t].dir]
         /\ work'[t].at \in {"put", "verify"} => work'[t].obj \in work'[t].rest /\ work'[t].src # "none"
         /\ work'[t].at = "delete" => work'[t].rest = {}
    BY ThreadMoves
<1>3. Working'
    <2> SUFFICES ASSUME NEW u \in Threads
                 PROVE  /\ ~Busy(u)' => work'[u] = Idle
                        /\ Busy(u)' => /\ run' = "on" /\ work'[u].dir \in Dirs \ todo' /\ Parses(work'[u].dir)
                                       /\ work'[u].rest \subseteq objects'[work'[u].dir]
                        /\ work'[u].at \in {"put", "verify"}
                           => work'[u].obj \in work'[u].rest /\ work'[u].src # "none"
                        /\ work'[u].at = "delete" => work'[u].rest = {}
        BY DEF Working, Parses
    <2>1. CASE u # t
        BY <1>1, <2>1 DEF Working, Busy
    <2>2. CASE u = t
        <3>1. CASE work'[t] = Idle
            BY <2>2, <3>1 DEF Idle, Busy
        <3>2. CASE work'[t] # Idle
            BY <1>1, <1>2, <2>2, <3>2 DEF Busy, Working, Shape
        <3> QED BY <3>1, <3>2
    <2> QED BY <2>1, <2>2
<1>4. Apart'
    BY <1>1, <1>2 DEF Apart, Busy, Working, Idle
<1> QED BY <1>3, <1>4

(* A script that was killed has no thread at work.                         *)
LEMMA AllIdle ==
    ASSUME \A t \in Threads : work'[t] = Idle
    PROVE  Working' /\ Apart'
<1>1. \A t \in Threads : ~Busy(t)' /\ work'[t].at = "idle"
    BY DEF Busy, Idle
<1>2. Working'
    BY <1>1 DEF Working
<1>3. Apart'
    BY <1>1 DEF Apart
<1> QED BY <1>2, <1>3

(* TypeInv holds at first, and every step keeps it.                        *)
LEMMA TypeInit == Init => TypeInv
<1> SUFFICES ASSUME Init PROVE TypeInv
    OBVIOUS
<1>0. Old \in SUBSET Builds /\ Idle \in Works
    BY BackfillAssumption DEF BackfillAssumption, Works, Stages, Contents, Idle
<1>1. Shape
    <2>1. store \in [Keys -> Contents] /\ manifests \in SUBSET Dirs
        BY DEF Init, Contents
    <2>2. building \in [Builds -> SUBSET (Objects \cup {"export.json"})]
        BY DEF Init
    <2>3. todo \in SUBSET Dirs /\ objects \in [Dirs -> SUBSET Objects]
          /\ work \in [Threads -> Works]
        BY <1>0 DEF Init
    <2>4. /\ owed \in SUBSET (Builds \X Objects)
          /\ unverified \in SUBSET (Builds \X Objects) /\ moved \in SUBSET (Builds \X Objects)
        BY <1>0 DEF Init
    <2>5. run \in {"off", "on", "done", "failed", "killed"}
        BY DEF Init
    <2>6. keepRaw \in BOOLEAN /\ corrupted \in BOOLEAN
        BY DEF Init
    <2>7. runs \in 0..MaxRuns /\ faults \in 0..MaxFaults
        BY BoundsFact DEF Init
    <2> QED BY <2>1, <2>2, <2>3, <2>4, <2>5, <2>6, <2>7 DEF Shape
<1>2. Working /\ Apart
    BY DEF Init, Working, Apart, Busy, Idle
<1> QED BY <1>1, <1>2 DEF TypeInv

LEMMA TypeStep == TypeInv /\ [Next]_vars => TypeInv'
<1> SUFFICES ASSUME TypeInv, [Next]_vars PROVE TypeInv'
    OBVIOUS
<1> USE DEF TypeInv
<1>1. ASSUME NEW b \in Builds, Upload(b) PROVE TypeInv'
    <2>1. PICK o \in building[b] \cap Objects :
              /\ \/ /\ store' = [store EXCEPT ![<<b, 2, o>>] = "good"]
                    /\ owed' = owed \cup {<<b, o>>}
                    /\ UNCHANGED faults
                 \/ Fault /\ UNCHANGED <<store, owed>>
              /\ building' = [building EXCEPT ![b] = @ \ {o}]
        BY <1>1 DEF Upload
    <2>2. Shape'
        BY <1>1, <2>1, FaultFact DEF Upload, Shape, script, history, Contents
    <2> QED BY <1>1, <2>2 DEF Upload, script, Working, Apart, Busy
<1>2. ASSUME NEW b \in Builds, SaveManifest(b) PROVE TypeInv'
    <2>1. Shape'
        BY <1>2, FaultFact DEF SaveManifest, Shape, script, history, Dirs
    <2> QED BY <1>2, <2>1 DEF SaveManifest, script, Working, Apart, Busy
<1>3. ASSUME NEW keep \in BOOLEAN, NEW limit \in Limits, Start(keep, limit) PROVE TypeInv'
    <2>1. todo' \in SUBSET Dirs
        BY <1>3 DEF Start, Shape
    <2>2. Shape'
        BY <1>3, <2>1, BoundsFact DEF Start, Shape, bucket, builder, history, At
    <2>3. \A t \in Threads : ~Busy(t) /\ work'[t] = work[t]
        BY <1>3 DEF Start, Working
    <2>4. Working' /\ Apart'
        BY <2>3 DEF Working, Apart, Busy, Idle
    <2> QED BY <2>2, <2>4
<1>4. ASSUME NEW t \in Threads, Migrate(t) PROVE TypeInv'
    BY <1>4, ShapeMigrate, WorkingMigrate
<1>5. CASE Finish
    <2>1. Shape'
        BY <1>5 DEF Finish, Shape, bucket, builder, history
    <2>2. \A t \in Threads : work'[t] = Idle
        BY <1>5 DEF Finish
    <2>3. Working' /\ Apart'
        BY <2>2, AllIdle
    <2> QED BY <2>1, <2>3
<1>6. CASE Kill
    <2>1. Shape'
        BY <1>6, FaultFact DEF Kill, Shape, bucket, builder, history, Works, Stages, Idle, Contents
    <2>2. \A t \in Threads : work'[t] = Idle
        BY <1>6 DEF Kill
    <2>3. Working' /\ Apart'
        BY <2>2, AllIdle
    <2> QED BY <2>1, <2>3
<1>7. CASE UNCHANGED vars
    BY <1>7 DEF vars, bucket, builder, script, history, Shape, Working, Apart, Busy
<1> QED BY <1>1, <1>2, <1>3, <1>4, <1>5, <1>6, <1>7 DEF Next

(* Every reachable state of Backfill has its types: whatever fails or is   *)
(* killed, a thread works on a prefix of the listing that no other thread  *)
(* has, while the script runs.                                             *)
THEOREM TypeCorrect == Spec => []TypeOK
<1>1. TypeInv => TypeOK
    BY DEF TypeInv, TypeOK, Shape, Working, Apart, Busy, Idle, Works, Stages, Contents
<1> QED BY <1>1, TypeInit, TypeStep, PTL DEF Spec

-----------------------------------------------------------------------------
(* Raw objects belong to old builds, which no builder writes any more, and *)
(* what the script copies to where readers look comes from there.          *)
Origins ==
    /\ \A b \in Builds, o \in Objects :
          store[<<b, 1, o>>] # "bad" /\ (store[<<b, 1, o>>] # "none" => b \in Old)
    /\ \A b \in Old : building[b] = {}
    /\ \A x \in unverified : x[1] \in Old
    /\ \A d \in todo : d[2] = 1 => d[1] \in Old
    /\ \A t \in Threads : Busy(t) /\ Raw(t) => work[t].dir[1] \in Old

(* The script writes under what it makes of the prefix, and removes from   *)
(* the prefix what it listed there.                                        *)
LEMMA StorePut ==
    ASSUME TypeInv, NEW t \in Threads, Put(t)
    PROVE  /\ work[t].dir \in Dirs /\ work[t].dir[2] \in {1, 2} /\ work[t].obj \in Objects
           /\ \A k \in Keys : k # <<work[t].dir[1], work[t].dir[2] + 1, work[t].obj>> => store'[k] = store[k]
           /\ store'[<<work[t].dir[1], work[t].dir[2] + 1, work[t].obj>>] \in {work[t].src, "bad"}
<1> USE DEF TypeInv
<1>1. work[t].dir \in Dirs /\ work[t].obj \in Objects /\ Parses(work[t].dir)
      /\ store \in [Keys -> Contents]
    BY DEF Put, Working, Busy, Shape
<1>2. Target(work[t].dir) \in Dirs /\ Target(work[t].dir) = <<work[t].dir[1], work[t].dir[2] + 1>>
    BY <1>1, DirFacts
<1>3. Copy(t) = <<work[t].dir[1], work[t].dir[2] + 1, work[t].obj>> /\ Copy(t) \in Keys
    BY <1>1, <1>2, DirFacts DEF Copy, Key
<1>4. \/ store' = [store EXCEPT ![Copy(t)] = work[t].src]
      \/ store' = [store EXCEPT ![Copy(t)] = "bad"]
    BY DEF Put
<1>5. store'[Copy(t)] \in {work[t].src, "bad"} /\ \A k \in Keys : k # Copy(t) => store'[k] = store[k]
    BY <1>1, <1>3, <1>4
<1> QED BY <1>1, <1>3, <1>5 DEF Parses

LEMMA StoreDelete ==
    ASSUME TypeInv, NEW t \in Threads, Delete(t)
    PROVE  /\ work[t].dir \in Dirs /\ work[t].dir[2] \in {1, 2} /\ work[t].at = "delete" /\ Busy(t)
           /\ \A k \in Keys : \/ store'[k] = store[k]
                              \/ /\ store'[k] = "none" /\ k[1] = work[t].dir[1] /\ k[2] = work[t].dir[2]
                                 /\ k[3] \in objects[work[t].dir]
                                 /\ k[2] = 2 => <<k[1], k[3]>> \in moved'
           /\ moved \subseteq moved'
<1> USE DEF TypeInv
<1>1. work[t].dir \in Dirs /\ Parses(work[t].dir) /\ Busy(t) /\ work[t].at = "delete"
    BY DEF Delete, Working, Busy
<1>2. PICK gone \in SUBSET objects[work[t].dir] :
          /\ store' = [k \in Keys |-> IF \E o \in gone : k = Key(work[t].dir, o)
                                      THEN "none" ELSE store[k]]
          /\ moved' = IF Raw(t) THEN moved ELSE moved \cup {<<work[t].dir[1], o>> : o \in gone}
    BY DEF Delete
<1>3. \A k \in Keys : \/ store'[k] = store[k]
                      \/ store'[k] = "none" /\ \E o \in gone : k = Key(work[t].dir, o)
    BY <1>2
<1>4. work[t].dir[2] = 2 => \A o \in gone : <<work[t].dir[1], o>> \in moved'
    BY <1>2 DEF Raw
<1>5. moved \subseteq moved'
    BY <1>2
<1> QED BY <1>1, <1>3, <1>4, <1>5 DEF Parses, Key

(* All other steps of a thread leave the objects alone.                    *)
LEMMA StoreKept ==
    ASSUME NEW t \in Threads, Migrate(t), ~Put(t), ~Delete(t)
    PROVE  store' = store
BY DEF Migrate, Take, HeadObject, Download, Verify, Fail, PutManifest, bucket

(* Every object has a key in every generation.                             *)
LEMMA GenKeys == \A b \in Builds, g \in {1, 2, 3}, o \in Objects : <<b, g, o>> \in Keys
BY DEF Keys

(* A raw object is only ever removed, by the thread that has its prefix.   *)
LEMMA RawKept ==
    ASSUME TypeInv, NEW t \in Threads, Migrate(t), NEW b \in Builds, NEW o \in Objects
    PROVE  \/ store'[<<b, 1, o>>] = store[<<b, 1, o>>]
           \/ /\ store'[<<b, 1, o>>] = "none" /\ Delete(t)
              /\ work[t].dir[1] = b /\ work[t].dir[2] = 1 /\ o \in objects[work[t].dir]
<1>1. <<b, 1, o>> \in Keys
    BY GenKeys
<1>2. CASE Put(t)
    <2>1. work[t].dir[2] \in {1, 2}
        BY <1>2, StorePut
    <2>2. <<b, 1, o>> # <<work[t].dir[1], work[t].dir[2] + 1, work[t].obj>>
        BY <2>1
    <2> QED BY <1>1, <1>2, <2>2, StorePut
<1>3. CASE Delete(t)
    <2>1. \/ store'[<<b, 1, o>>] = store[<<b, 1, o>>]
          \/ /\ store'[<<b, 1, o>>] = "none" /\ work[t].dir[1] = b /\ work[t].dir[2] = 1
             /\ o \in objects[work[t].dir]
        BY <1>1, <1>3, StoreDelete
    <2> QED BY <1>3, <2>1
<1> QED BY <1>2, <1>3, StoreKept

(* Origins holds at first, and every step keeps it.                        *)
LEMMA OriginsInit == Init => Origins
<1> SUFFICES ASSUME Init PROVE Origins
    OBVIOUS
<1>1. \A b \in Builds, o \in Objects : <<b, 1, o>> \in Keys
    BY GenKeys
<1> QED BY <1>1, BackfillAssumption DEF Init, Origins, Busy, Idle, BackfillAssumption

LEMMA OriginsStep == TypeInv /\ Origins /\ [Next]_vars => Origins'
<1> SUFFICES ASSUME TypeInv, Origins, [Next]_vars PROVE Origins'
    OBVIOUS
<1> USE DEF TypeInv
<1>1. ASSUME NEW b \in Builds, Upload(b) PROVE Origins'
    <2>1. PICK o \in building[b] \cap Objects :
              /\ store' = store \/ store' = [store EXCEPT ![<<b, 2, o>>] = "good"]
              /\ building' = [building EXCEPT ![b] = @ \ {o}]
        BY <1>1 DEF Upload
    <2>2. UNCHANGED <<todo, work, unverified>>
        BY <1>1 DEF Upload, script, history
    <2>3. \A c \in Builds, p \in Objects : store'[<<c, 1, p>>] = store[<<c, 1, p>>]
        BY <2>1 DEF Shape, Keys
    <2>4. \A c \in Old : building'[c] = {}
        BY <2>1 DEF Origins, Shape
    <2> QED BY <2>2, <2>3, <2>4 DEF Origins, Busy, Raw
<1>2. ASSUME NEW b \in Builds, SaveManifest(b) PROVE Origins'
    <2>1. \A c \in Old : building'[c] = {}
        BY <1>2 DEF SaveManifest, Origins, Shape
    <2> QED BY <1>2, <2>1 DEF SaveManifest, script, history, Origins, Busy, Raw
<1>3. ASSUME NEW keep \in BOOLEAN, NEW limit \in Limits, Start(keep, limit) PROVE Origins'
    <2>1. \A d \in todo' : d \in Dirs /\ At(d) # {}
        BY <1>3 DEF Start
    <2>2. \A d \in todo' : d[2] = 1 => d[1] \in Old
        BY <2>1, DirFacts DEF At, Origins
    <2>3. \A t \in Threads : ~Busy(t) /\ work' = work
        BY <1>3 DEF Start, Working
    <2> QED BY <1>3, <2>2, <2>3 DEF Start, bucket, builder, history, Origins, Busy, Raw
<1>4. ASSUME NEW t \in Threads, Migrate(t) PROVE Origins'
    <2>1. UNCHANGED building /\ todo' \subseteq todo
        BY <1>4, MigrateFrame DEF builder
    <2>2. \A u \in Threads : Busy(u)' /\ Raw(u)' => work'[u].dir[1] \in Old
        BY <1>4, ThreadMoves DEF Origins, Busy, Idle, Raw
    <2>3. \A b \in Builds, o \in Objects : store'[<<b, 1, o>>] \in {store[<<b, 1, o>>], "none"}
        BY <1>4, RawKept
    <2>4. \A x \in unverified' : x[1] \in Old
        <3>1. CASE Put(t) \/ Verify(t)
            <4>1. Busy(t) /\ (unverified' \subseteq unverified \/ (Raw(t) /\ unverified' = unverified \cup {Named(t)}))
                BY <3>1 DEF Put, Verify, Verified, Busy
            <4> QED BY <4>1 DEF Origins, Named
        <3> QED BY <1>4, <3>1, HistoryFact DEF Origins
    <2> QED BY <2>1, <2>2, <2>3, <2>4 DEF Origins
<1>5. CASE Finish
    BY <1>5 DEF Finish, bucket, builder, history, Origins, Busy, Raw
<1>6. CASE Kill
    BY <1>6 DEF Kill, bucket, builder, history, Origins, Busy, Idle, Raw
<1>7. CASE UNCHANGED vars
    BY <1>7 DEF vars, bucket, builder, script, history, Origins, Busy, Raw
<1> QED BY <1>1, <1>2, <1>3, <1>4, <1>5, <1>6, <1>7 DEF Next

-----------------------------------------------------------------------------
(* An object that needs no raw one: its copy was compared, and is there or *)
(* was moved on.                                                           *)
Safe(b, o) == <<b, o>> \in moved \/ (<<b, o>> \notin unverified /\ store[<<b, 2, o>>] = "good")

(* What a thread of a raw prefix has copied is safe, and what it is        *)
(* copying is still under the raw prefix.                                  *)
CopiesOf(t) ==
    Busy(t) /\ Raw(t) =>
        /\ work[t].at # "head" =>
              \A o \in objects[work[t].dir] \ work[t].rest : Safe(work[t].dir[1], o)
        /\ work[t].at \in {"put", "verify"} =>
              work[t].src = "good" /\ store[<<work[t].dir[1], 1, work[t].obj>>] = "good"

Copies == \A t \in Threads : CopiesOf(t)

(* The invariant behind ReadableOrKept and ManifestVouches.                *)
ReadInv == TypeInv /\ Origins /\ Copies /\ ReadableOrKept

(* What a thread that is copying has in its hands.                         *)
LEMMA HandFacts ==
    ASSUME TypeInv, NEW t \in Threads, Busy(t)
    PROVE  /\ work[t].dir \in Dirs /\ work[t].dir[1] \in Builds
           /\ work[t].dir[2] \in {1, 2} /\ work[t].dir = <<work[t].dir[1], work[t].dir[2]>>
           /\ work[t].rest \subseteq objects[work[t].dir] /\ objects[work[t].dir] \subseteq Objects
           /\ work[t].at \in {"put", "verify"} => work[t].obj \in work[t].rest
<1>1. work[t].dir \in Dirs /\ Parses(work[t].dir)
    BY DEF TypeInv, Working
<1> QED BY <1>1, DirFacts DEF TypeInv, Working, Shape, Parses

(* An object stays safe, unless it is copied anew.                         *)
LEMMA SafeKept ==
    ASSUME TypeInv, NEW t \in Threads, Migrate(t), NEW b \in Builds, NEW o \in Objects, Safe(b, o)
    PROVE  Safe(b, o)' \/ (Put(t) /\ Raw(t) /\ <<b, o>> = Named(t))
<1>0. <<b, 2, o>> \in Keys
    BY GenKeys
<1>1. CASE Put(t) /\ (~Raw(t) \/ <<b, o>> # Named(t))
    <2>1. work[t].dir[2] \in {1, 2}
        BY <1>1, StorePut
    <2>2. <<b, 2, o>> # <<work[t].dir[1], work[t].dir[2] + 1, work[t].obj>>
        BY <1>1, <2>1 DEF Raw, Named
    <2>3. store'[<<b, 2, o>>] = store[<<b, 2, o>>]
        BY <1>0, <1>1, <2>2, StorePut
    <2>4. (<<b, o>> \in unverified' <=> <<b, o>> \in unverified) /\ (<<b, o>> \in moved' <=> <<b, o>> \in moved)
        BY <1>1 DEF Put
    <2> QED BY <2>3, <2>4 DEF Safe
<1>2. CASE Delete(t)
    <2>1. unverified' = unverified
        BY <1>2 DEF Delete
    <2>2. \/ store'[<<b, 2, o>>] = store[<<b, 2, o>>]
          \/ <<b, o>> \in moved'
        BY <1>0, <1>2, StoreDelete
    <2>3. moved \subseteq moved'
        BY <1>2, StoreDelete
    <2> QED BY <2>1, <2>2, <2>3 DEF Safe
<1>3. CASE Verify(t)
    <2>1. unverified' \subseteq unverified /\ moved' = moved /\ store' = store
        BY <1>3 DEF Verify, Verified, bucket
    <2> QED BY <2>1 DEF Safe
<1>4. CASE ~Put(t) /\ ~Delete(t) /\ ~Verify(t)
    <2>1. unverified' = unverified /\ moved' = moved /\ store' = store
        BY <1>4, HistoryFact, StoreKept
    <2> QED BY <2>1 DEF Safe
<1> QED BY <1>1, <1>2, <1>3, <1>4

(* A thread does not touch what another one relies on,                     *)
LEMMA CopiesElsewhere ==
    ASSUME ReadInv, NEW t \in Threads, Migrate(t), NEW u \in Threads \ {t}
    PROVE  CopiesOf(u)'
<1> USE DEF ReadInv
<1>1. work'[u] = work[u] /\ UNCHANGED objects
    BY ThreadMoves, MigrateFrame
<1>2. CASE ~(Busy(u) /\ Raw(u))
    BY <1>1, <1>2 DEF CopiesOf, Busy, Raw
<1>3. CASE Busy(u) /\ Raw(u)
    <2>1. /\ CopiesOf(u) /\ work[u].dir \in Dirs /\ work[u].dir[1] \in Builds
          /\ objects[work[u].dir] \subseteq Objects
          /\ work[u].at \in {"put", "verify"} => work[u].obj \in Objects
        BY <1>3, HandFacts DEF Copies
    <2>2. Busy(t) /\ Raw(t) => work[t].dir[1] # work[u].dir[1]
        BY <1>3, HandFacts DEF TypeInv, Apart, Raw
    <2>3. \A o \in Objects : store'[<<work[u].dir[1], 1, o>>] = store[<<work[u].dir[1], 1, o>>]
        <3> SUFFICES ASSUME NEW o \in Objects
                     PROVE  store'[<<work[u].dir[1], 1, o>>] = store[<<work[u].dir[1], 1, o>>]
            OBVIOUS
        <3>1. ~(Delete(t) /\ work[t].dir[1] = work[u].dir[1] /\ work[t].dir[2] = 1)
            BY <2>2 DEF Delete, Busy, Raw
        <3> QED BY <2>1, <3>1, RawKept
    <2>4. ASSUME NEW o \in objects[work[u].dir], Safe(work[u].dir[1], o)
          PROVE  Safe(work[u].dir[1], o)'
        <3>1. ~(Put(t) /\ Raw(t) /\ <<work[u].dir[1], o>> = Named(t))
            BY <2>2 DEF Put, Busy, Named
        <3>2. PICK b \in Builds : b = work[u].dir[1] /\ work'[u].dir[1] = b
            BY <1>1, <2>1
        <3>3. Safe(b, o)'
            BY <2>1, <2>4, <3>1, <3>2, SafeKept
        <3> QED BY <3>2, <3>3 DEF Safe
    <2>5. work'[u].at # "head" =>
              \A o \in objects'[work'[u].dir] \ work'[u].rest : Safe(work[u].dir[1], o)'
        BY <1>1, <1>3, <2>1, <2>4 DEF CopiesOf
    <2>6. work'[u].at \in {"put", "verify"} =>
              work'[u].src = "good" /\ store'[<<work'[u].dir[1], 1, work'[u].obj>>] = "good"
        BY <1>1, <1>3, <2>1, <2>3 DEF CopiesOf
    <2> QED BY <1>1, <2>5, <2>6 DEF CopiesOf, Safe
<1> QED BY <1>2, <1>3

(* and keeps what it relies on itself.                                     *)
LEMMA CopiesHere ==
    ASSUME ReadInv, NEW t \in Threads, Migrate(t)
    PROVE  CopiesOf(t)'
<1> USE DEF ReadInv
<1>0. work \in [Threads -> Works] /\ UNCHANGED objects /\ CopiesOf(t)
    BY MigrateFrame DEF TypeInv, Shape, Copies
<1>1. CASE work'[t] = Idle
    BY <1>1 DEF CopiesOf, Busy, Idle
<1>2. CASE Take(t)
    <2>1. work'[t] = Idle \/ work'[t].at = "head"
        <3>1. ~Busy(t)
            BY <1>2 DEF Take, Busy, Idle
        <3> QED BY <3>1, ThreadMoves
    <2> QED BY <1>1, <2>1 DEF CopiesOf
<1>3. CASE HeadObject(t) /\ work'[t] # Idle
    <2>1. work' = [work EXCEPT ![t].at = "object", ![t].rest = objects[work[t].dir]]
        <3>1. ~Leave(t)
            BY <1>0, <1>3 DEF Leave
        <3> QED BY <1>3, <3>1 DEF HeadObject
    <2>2. work'[t].dir = work[t].dir /\ work'[t].rest = objects[work[t].dir] /\ work'[t].at = "object"
        BY <1>0, <2>1 DEF Works
    <2> QED BY <1>0, <2>2 DEF CopiesOf
<1>4. CASE Download(t)
    <2>1. PICK o \in work[t].rest :
              /\ Source(t, o) # "none"
              /\ work' = [work EXCEPT ![t].at = "put", ![t].obj = o, ![t].src = Source(t, o)]
        BY <1>4 DEF Download
    <2>2. work[t].at = "object" /\ Busy(t) /\ store' = store /\ UNCHANGED <<unverified, moved>>
        BY <1>4 DEF Download, Busy, bucket, history
    <2>3. /\ work'[t].dir = work[t].dir /\ work'[t].rest = work[t].rest /\ work'[t].at = "put"
          /\ work'[t].obj = o /\ work'[t].src = Source(t, o)
        BY <1>0, <2>1 DEF Works
    <2>4. o \in Objects /\ work[t].dir[1] \in Builds
        BY <2>2, HandFacts
    <2>5. Source(t, o) = store[<<work[t].dir[1], work[t].dir[2], o>>]
        BY DEF Source, Key
    <2>6. Raw(t) => Source(t, o) = "good"
        <3>1. store[<<work[t].dir[1], 1, o>>] \in Contents \ {"bad"}
            BY <2>4, GenKeys DEF TypeInv, Shape, Origins
        <3> QED BY <2>1, <2>5, <3>1 DEF Contents, Raw
    <2> QED BY <1>0, <2>2, <2>3, <2>5, <2>6 DEF CopiesOf, Raw, Safe
<1>5. CASE Put(t)
    <2>1. work[t].at = "put" /\ Busy(t) /\ work' = [work EXCEPT ![t].at = "verify"]
        BY <1>5 DEF Put, Busy, Goto
    <2>2. /\ work'[t].dir = work[t].dir /\ work'[t].rest = work[t].rest /\ work'[t].at = "verify"
          /\ work'[t].obj = work[t].obj /\ work'[t].src = work[t].src
        BY <1>0, <2>1 DEF Works
    <2>3. /\ work[t].obj \in work[t].rest /\ work[t].dir[1] \in Builds /\ work[t].obj \in Objects
          /\ objects[work[t].dir] \subseteq Objects
        BY <2>1, HandFacts
    <2>4. CASE ~Raw(t)
        BY <1>0, <2>2, <2>4 DEF CopiesOf, Raw
    <2>5. CASE Raw(t)
        <3>1. /\ \A o \in objects[work[t].dir] \ work[t].rest : Safe(work[t].dir[1], o)
              /\ work[t].src = "good" /\ store[<<work[t].dir[1], 1, work[t].obj>>] = "good"
            BY <1>0, <2>1, <2>5 DEF CopiesOf
        <3>2. store'[<<work[t].dir[1], 1, work[t].obj>>] = "good"
            <4>1. ~Delete(t)
                BY <2>1 DEF Delete
            <4> QED BY <2>3, <3>1, <4>1, RawKept
        <3>3. ASSUME NEW o \in objects[work[t].dir] \ work[t].rest
              PROVE  Safe(work[t].dir[1], o)'
            <4>1. o \in Objects /\ <<work[t].dir[1], o>> # Named(t)
                BY <2>3 DEF Named
            <4>2. PICK b \in Builds : b = work[t].dir[1] /\ work'[t].dir[1] = b
                BY <2>2, <2>3
            <4>3. Safe(b, o)'
                BY <3>1, <4>1, <4>2, SafeKept
            <4> QED BY <4>2, <4>3 DEF Safe
        <3> QED BY <1>0, <2>2, <3>1, <3>2, <3>3 DEF CopiesOf, Safe
    <2> QED BY <2>4, <2>5
<1>6. CASE Verify(t)
    <2>1. /\ work[t].at = "verify" /\ Busy(t) /\ store' = store /\ moved' = moved
          /\ work' = [work EXCEPT ![t].at = "object", ![t].rest = @ \ {work[t].obj}, ![t].obj = None,
                                  ![t].src = "none"]
          /\ store[Copy(t)] = work[t].src
          /\ unverified' = IF Raw(t) THEN unverified \ {Named(t)} ELSE unverified
        BY <1>6 DEF Verify, Verified, Busy, Copied, bucket
    <2>2. /\ work'[t].dir = work[t].dir /\ work'[t].rest = work[t].rest \ {work[t].obj}
          /\ work'[t].at = "object"
        BY <1>0, <2>1 DEF Works
    <2>3. CASE ~Raw(t)
        BY <2>2, <2>3 DEF CopiesOf, Raw
    <2>4. CASE Raw(t)
        <3>1. Copy(t) = <<work[t].dir[1], 2, work[t].obj>>
            BY <2>4 DEF Copy, Key, Target, Raw
        <3>2. store[<<work[t].dir[1], 2, work[t].obj>>] = "good"
            BY <1>0, <2>1, <2>4, <3>1 DEF CopiesOf
        <3>3. \A o \in objects[work[t].dir] \ work[t].rest : Safe(work[t].dir[1], o)
            BY <1>0, <2>1, <2>4 DEF CopiesOf
        <3>4. unverified' = unverified \ {<<work[t].dir[1], work[t].obj>>}
            BY <2>1, <2>4 DEF Named
        <3>5. PICK b, p, d, rest : /\ b = work[t].dir[1] /\ p = work[t].obj
                                   /\ d = work[t].dir /\ rest = work[t].rest
            OBVIOUS
        <3>6. \A o \in objects[d] \ (rest \ {p}) :
                  <<b, o>> \in moved \/ (<<b, o>> \notin unverified' /\ store[<<b, 2, o>>] = "good")
            <4> SUFFICES ASSUME NEW o \in objects[d] \ (rest \ {p})
                         PROVE  <<b, o>> \in moved \/ (<<b, o>> \notin unverified' /\ store[<<b, 2, o>>] = "good")
                OBVIOUS
            <4>1. CASE o = p
                BY <3>2, <3>4, <3>5, <4>1
            <4>2. CASE o # p
                BY <3>3, <3>4, <3>5, <4>2 DEF Safe
            <4> QED BY <4>1, <4>2
        <3>7. /\ work'[t].dir = d /\ d[1] = b /\ work'[t].rest = rest \ {p} /\ work'[t].at = "object"
              /\ objects' = objects /\ store' = store /\ moved' = moved
            BY <1>0, <2>1, <2>2, <3>5
        <3> QED BY <3>6, <3>7 DEF CopiesOf, Safe
    <2> QED BY <2>3, <2>4
<1>7. CASE PutManifest(t) /\ work'[t] # Idle
    <2>1. /\ work' = [work EXCEPT ![t].at = "delete"] /\ store' = store /\ work[t].at = "object"
          /\ UNCHANGED <<unverified, moved>>
        BY <1>0, <1>7 DEF PutManifest, Leave, Goto, history
    <2>2. work'[t].dir = work[t].dir /\ work'[t].rest = work[t].rest /\ work'[t].at = "delete"
        BY <1>0, <2>1 DEF Works
    <2> QED BY <1>0, <2>1, <2>2 DEF CopiesOf, Busy, Raw, Safe
<1>8. Fail(t) \/ Delete(t) => work'[t] = Idle
    BY <1>0 DEF Fail, Delete, Leave
<1> QED BY <1>1, <1>2, <1>3, <1>4, <1>5, <1>6, <1>7, <1>8 DEF Migrate

(* ReadInv holds at first, and every step keeps it.                        *)
LEMMA ReadInit == Init => ReadInv
<1> SUFFICES ASSUME Init PROVE ReadInv
    OBVIOUS
<1>1. Copies
    BY DEF Init, Copies, CopiesOf, Busy, Idle
<1>2. ReadableOrKept
    <2> SUFFICES ASSUME NEW x \in owed PROVE Reads(x[1], x[2]) = "good"
        BY DEF ReadableOrKept, Init
    <2>1. x[1] \in Old /\ x[2] \in Objects /\ x[1] \in Builds
        BY BackfillAssumption DEF Init, BackfillAssumption
    <2>2. <<x[1], 1, x[2]>> \in Keys /\ <<x[1], 2, x[2]>> \in Keys
        BY <2>1, GenKeys
    <2>3. store[<<x[1], 1, x[2]>>] = "good" /\ store[<<x[1], 2, x[2]>>] = "none"
        BY <2>1, <2>2 DEF Init
    <2> QED BY <2>3 DEF Reads
<1> QED BY <1>1, <1>2, TypeInit, OriginsInit DEF ReadInv

(* The claim of ReadableOrKept about one object. *)
Kept(b, o) ==
    <<b, o>> \in moved
    \/ IF <<b, o>> \in unverified THEN store[<<b, 1, o>>] = "good" ELSE Reads(b, o) = "good"

AllKept == \A b \in Builds, o \in Objects : <<b, o>> \in owed => Kept(b, o)

LEMMA KeptFact == TypeInv => (ReadableOrKept <=> AllKept)
<1> SUFFICES ASSUME TypeInv PROVE ReadableOrKept <=> AllKept
    OBVIOUS
<1>1. \A x \in owed : x = <<x[1], x[2]>> /\ x[1] \in Builds /\ x[2] \in Objects
    BY DEF TypeInv, Shape
<1>2. ASSUME ReadableOrKept, NEW b \in Builds, NEW o \in Objects, <<b, o>> \in owed PROVE Kept(b, o)
    BY <1>2 DEF ReadableOrKept, Kept
<1>3. ASSUME AllKept PROVE ReadableOrKept
    <2> SUFFICES ASSUME NEW x \in owed \ moved
                 PROVE  IF x \in unverified THEN store[<<x[1], 1, x[2]>>] = "good"
                        ELSE Reads(x[1], x[2]) = "good"
        BY DEF ReadableOrKept
    <2>1. PICK b \in Builds, o \in Objects : x = <<b, o>>
        BY <1>1
    <2>2. Kept(b, o) /\ <<b, o>> \notin moved /\ b = x[1] /\ o = x[2]
        BY <1>3, <2>1 DEF AllKept
    <2> QED BY <2>1, <2>2 DEF Kept
<1> QED BY <1>2, <1>3 DEF AllKept

(* Neither a copy nor a deletion takes what readers get away.              *)
LEMMA KeptMigrate ==
    ASSUME ReadInv, NEW t \in Threads, Migrate(t), NEW b \in Builds, NEW o \in Objects, Kept(b, o)
    PROVE  Kept(b, o)'
<1> USE DEF ReadInv
<1>0. <<b, 1, o>> \in Keys /\ <<b, 2, o>> \in Keys /\ CopiesOf(t)
    BY GenKeys DEF Copies
<1>1. CASE Put(t)
    <2>1. /\ Busy(t) /\ work[t].at = "put" /\ work[t].dir[2] \in {1, 2}
          /\ store'[<<b, 1, o>>] = store[<<b, 1, o>>]
        <3>1. ~Delete(t) /\ Busy(t) /\ work[t].at = "put"
            BY <1>1 DEF Put, Delete, Busy
        <3>2. store'[<<b, 1, o>>] = store[<<b, 1, o>>]
            BY <3>1, RawKept
        <3> QED BY <1>1, <3>1, <3>2, StorePut
    <2>2. CASE Raw(t) /\ <<b, o>> = Named(t)
        <3>1. store[<<b, 1, o>>] = "good"
            BY <1>0, <2>1, <2>2 DEF CopiesOf, Named
        <3>2. <<b, o>> \in unverified'
            BY <1>1, <2>2 DEF Put
        <3> QED BY <2>1, <3>1, <3>2 DEF Kept
    <2>3. CASE ~(Raw(t) /\ <<b, o>> = Named(t))
        <3>1. <<b, 2, o>> # <<work[t].dir[1], work[t].dir[2] + 1, work[t].obj>>
            BY <2>1, <2>3 DEF Raw, Named
        <3>2. store'[<<b, 2, o>>] = store[<<b, 2, o>>]
            BY <1>0, <1>1, <3>1, StorePut
        <3>3. (<<b, o>> \in unverified' <=> <<b, o>> \in unverified)
              /\ (<<b, o>> \in moved' <=> <<b, o>> \in moved)
            BY <1>1, <2>3 DEF Put
        <3> QED BY <2>1, <3>2, <3>3 DEF Kept, Reads
    <2> QED BY <2>2, <2>3
<1>2. CASE Verify(t)
    <2>1. /\ Busy(t) /\ work[t].at = "verify" /\ store' = store /\ moved' = moved
          /\ store[Copy(t)] = work[t].src
          /\ unverified' = IF Raw(t) THEN unverified \ {Named(t)} ELSE unverified
        BY <1>2 DEF Verify, Verified, Busy, bucket
    <2>2. CASE Raw(t) /\ <<b, o>> = Named(t)
        <3>1. store[<<b, 2, o>>] = "good"
            BY <1>0, <2>1, <2>2 DEF CopiesOf, Named, Copy, Key, Target, Raw
        <3> QED BY <2>1, <2>2, <3>1 DEF Kept, Reads
    <2>3. CASE ~(Raw(t) /\ <<b, o>> = Named(t))
        <3>1. <<b, o>> \in unverified' <=> <<b, o>> \in unverified
            BY <2>1, <2>3
        <3> QED BY <2>1, <3>1 DEF Kept, Reads
    <2> QED BY <2>2, <2>3
<1>3. CASE Delete(t)
    <2>1. Busy(t) /\ work[t].at = "delete" /\ work[t].rest = {} /\ unverified' = unverified
        BY <1>3 DEF Delete, Busy, TypeInv, Working
    <2>2. moved \subseteq moved'
        BY <1>3, StoreDelete
    <2>3. \/ store'[<<b, 2, o>>] = store[<<b, 2, o>>]
          \/ <<b, o>> \in moved'
        BY <1>0, <1>3, StoreDelete
    <2>4. CASE store'[<<b, 1, o>>] = store[<<b, 1, o>>]
        BY <2>1, <2>2, <2>3, <2>4 DEF Kept, Reads
    <2>5. CASE store'[<<b, 1, o>>] # store[<<b, 1, o>>]
        <3>1. work[t].dir[1] = b /\ Raw(t) /\ o \in objects[work[t].dir]
            BY <2>5, RawKept DEF Raw
        <3>2. Safe(b, o)
            BY <1>0, <2>1, <3>1 DEF CopiesOf
        <3> QED BY <2>1, <2>2, <2>3, <3>2 DEF Safe, Kept, Reads
    <2> QED BY <2>4, <2>5
<1>4. CASE ~Put(t) /\ ~Verify(t) /\ ~Delete(t)
    <2>1. store' = store /\ unverified' = unverified /\ moved' = moved
        BY <1>4, StoreKept, HistoryFact
    <2> QED BY <2>1 DEF Kept, Reads
<1> QED BY <1>1, <1>2, <1>3, <1>4

LEMMA ReadStep == ReadInv /\ [Next]_vars => ReadInv'
<1> SUFFICES ASSUME ReadInv, [Next]_vars PROVE Copies' /\ ReadableOrKept'
    BY TypeStep, OriginsStep DEF ReadInv
<1> USE DEF ReadInv
<1>0. TypeInv'
    BY TypeStep
<1>1. ASSUME NEW b \in Builds, Upload(b) PROVE Copies' /\ ReadableOrKept'
    <2>1. PICK o \in building[b] \cap Objects :
              \/ store' = [store EXCEPT ![<<b, 2, o>>] = "good"] /\ owed' = owed \cup {<<b, o>>}
              \/ UNCHANGED <<store, owed>>
        BY <1>1 DEF Upload
    <2>2. UNCHANGED <<work, objects, unverified, moved>>
        BY <1>1 DEF Upload, script, history
    <2>3. <<b, 2, o>> \in Keys /\ o \in Objects /\ b \notin Old
        BY GenKeys DEF Origins
    <2>4. \A k \in Keys : store'[k] = store[k] \/ (k = <<b, 2, o>> /\ store'[k] = "good")
        BY <2>1, <2>3 DEF TypeInv, Shape
    <2>5. \A k \in Keys : store[k] = "good" => store'[k] = "good"
        BY <2>4
    <2>6. Copies'
        <3> SUFFICES ASSUME NEW t \in Threads, CopiesOf(t) PROVE CopiesOf(t)'
            BY DEF Copies
        <3>1. Busy(t) => /\ \A p \in objects[work[t].dir] : <<work[t].dir[1], 2, p>> \in Keys
                         /\ work[t].at \in {"put", "verify"}
                            => <<work[t].dir[1], 1, work[t].obj>> \in Keys
            BY HandFacts, GenKeys
        <3> QED BY <2>2, <2>5, <3>1 DEF CopiesOf, Busy, Raw, Safe
    <2>7. ASSUME NEW c \in Builds, NEW p \in Objects, <<c, p>> \in owed' PROVE Kept(c, p)'
        <3>0. <<c, 1, p>> \in Keys /\ <<c, 2, p>> \in Keys
            BY GenKeys
        <3>1. CASE <<c, p>> \in owed
            <4>1. Kept(c, p)
                BY <3>1, KeptFact DEF AllKept
            <4> QED BY <2>2, <2>4, <3>0, <4>1 DEF Kept, Reads
        <3>2. CASE <<c, p>> \notin owed
            <4>1. <<c, p>> = <<b, o>> /\ store' = [store EXCEPT ![<<b, 2, o>>] = "good"]
                BY <2>1, <2>7, <3>2
            <4>2. store'[<<c, 2, p>>] = "good"
                BY <2>3, <4>1 DEF TypeInv, Shape
            <4>3. <<c, p>> \notin unverified'
                BY <2>2, <2>3, <4>1 DEF Origins
            <4> QED BY <4>2, <4>3 DEF Kept, Reads
        <3> QED BY <3>1, <3>2
    <2>8. AllKept'
        BY <2>7 DEF AllKept
    <2>9. ReadableOrKept'
        BY <1>0, <2>8, KeptFact, PTL
    <2> QED BY <2>6, <2>9
<1>2. ASSUME NEW b \in Builds, SaveManifest(b) PROVE Copies' /\ ReadableOrKept'
    BY <1>2 DEF SaveManifest, script, history, Copies, CopiesOf, Busy, Raw, Safe, ReadableOrKept, Reads
<1>3. ASSUME NEW keep \in BOOLEAN, NEW limit \in Limits, Start(keep, limit)
      PROVE  Copies' /\ ReadableOrKept'
    <2>1. \A t \in Threads : ~Busy(t) /\ work'[t] = work[t]
        BY <1>3 DEF Start, TypeInv, Working
    <2>2. Copies'
        BY <2>1 DEF Copies, CopiesOf, Busy
    <2>3. UNCHANGED <<store, owed, unverified, moved>>
        BY <1>3 DEF Start, bucket, builder, history
    <2>4. ReadableOrKept'
        BY <2>3 DEF ReadableOrKept, Reads
    <2> QED BY <2>2, <2>4
<1>4. ASSUME NEW t \in Threads, Migrate(t) PROVE Copies' /\ ReadableOrKept'
    <2>1. Copies'
        BY <1>4, CopiesHere, CopiesElsewhere DEF Copies
    <2>2. owed' = owed
        BY <1>4, MigrateFrame DEF builder
    <2>3. ASSUME NEW c \in Builds, NEW p \in Objects, <<c, p>> \in owed' PROVE Kept(c, p)'
        BY <1>4, <2>2, <2>3, KeptFact, KeptMigrate DEF AllKept
    <2>4. AllKept'
        BY <2>3 DEF AllKept
    <2>5. ReadableOrKept'
        BY <1>0, <2>4, KeptFact, PTL
    <2> QED BY <2>1, <2>5
<1>5. CASE Finish
    BY <1>5 DEF Finish, bucket, builder, history, Copies, CopiesOf, Busy, Raw, Safe, ReadableOrKept, Reads
<1>6. CASE Kill
    <2>1. \A t \in Threads : work'[t] = Idle
        BY <1>6 DEF Kill
    <2>2. Copies'
        BY <2>1 DEF Copies, CopiesOf, Busy, Idle
    <2> QED BY <1>6, <2>2 DEF Kill, bucket, builder, history, ReadableOrKept, Reads
<1>7. CASE UNCHANGED vars
    BY <1>7 DEF vars, bucket, builder, script, history, Copies, CopiesOf, Busy, Raw, Safe,
                ReadableOrKept, Reads
<1> QED BY <1>1, <1>2, <1>3, <1>4, <1>5, <1>6, <1>7 DEF Next

(* Whatever fails or is killed, however many threads there are and however *)
(* often the script is run, a reader, who tries the new key first, gets    *)
(* the bytes of every object that was stored, unless its last copy was not *)
(* found equal to it, in which case the raw object is kept, or a prefix of *)
(* the new kind was taken for a raw one and emptied.                       *)
THEOREM ReadableOrKeptHolds == Spec => []ReadableOrKept
<1>1. ReadInv => ReadableOrKept
    BY DEF ReadInv
<1> QED BY <1>1, ReadInit, ReadStep, PTL DEF Spec

(* Only the thread that has a raw prefix writes the manifest of the prefix *)
(* it makes of it.                                                         *)
LEMMA VouchStep ==
    ASSUME ReadInv, Next, NEW b \in Builds, <<b, 2>> \in manifests' \ manifests,
           NEW t \in Threads, work[t].at = "object", work[t].dir = <<b, 1>>,
           NEW o \in objects[<<b, 1>>]
    PROVE  \/ store[<<b, 2, o>>] = "good" /\ <<b, o>> \notin unverified
           \/ <<b, o>> \in moved
<1> USE DEF ReadInv
<1>1. Busy(t) /\ Raw(t) /\ CopiesOf(t) /\ b \in Old
    <2>1. Busy(t) /\ Raw(t) /\ CopiesOf(t)
        BY DEF Busy, Raw, Copies
    <2> QED BY <2>1 DEF Origins
<1>2. PICK u \in Threads : PutManifest(u) /\ Target(work[u].dir) = <<b, 2>>
    <2>1. ASSUME NEW c \in Builds, SaveManifest(c) PROVE FALSE
        <3>1. building[c] = {"export.json"} /\ <<b, 2>> = <<c, 2>>
            BY <2>1 DEF SaveManifest
        <3> QED BY <1>1, <3>1 DEF Origins
    <2>2. ASSUME NEW c \in Builds, Upload(c) PROVE FALSE
        BY <2>2 DEF Upload
    <2>3. ASSUME NEW keep \in BOOLEAN, NEW limit \in Limits, Start(keep, limit) PROVE FALSE
        BY <2>3 DEF Start, bucket
    <2>4. ~Finish /\ ~Kill
        BY DEF Finish, Kill, bucket
    <2>5. PICK u \in Threads : Migrate(u)
        BY <2>1, <2>2, <2>3, <2>4 DEF Next
    <2>6. PutManifest(u)
        BY <2>5 DEF Migrate, Take, HeadObject, Download, Put, Verify, Fail, Delete, bucket
    <2>7. manifests' = manifests \cup {Target(work[u].dir)}
        BY <2>6 DEF PutManifest
    <2> QED BY <2>6, <2>7
<1>3. u = t
    <2>1. Busy(u) /\ work[u].dir = <<work[u].dir[1], work[u].dir[2]>> /\ work[u].dir[2] \in {1, 2}
        BY <1>2, HandFacts DEF PutManifest, Busy
    <2>2. work[u].dir[1] = b /\ work[u].dir[2] = 1
        BY <1>2, <2>1 DEF Target
    <2> QED BY <1>1, <2>1, <2>2 DEF TypeInv, Apart
<1>4. work[t].rest = {}
    BY <1>2, <1>3 DEF PutManifest
<1>5. Safe(b, o)
    BY <1>1, <1>4 DEF CopiesOf
<1> QED BY <1>5 DEF Safe

(* An export.json that the script writes for a raw prefix vouches for the  *)
(* copies: all that was listed there is under the new prefix, compared and *)
(* with its bytes, or was moved on.                                        *)
THEOREM ManifestVouchesHolds == Spec => ManifestVouches
<1> DEFINE Vouch == \A b \in Builds :
          /\ <<b, 2>> \in manifests' \ manifests
          /\ \E t \in Threads : work[t].at = "object" /\ work[t].dir = <<b, 1>>
          => \A o \in objects[<<b, 1>>] :
                \/ store[<<b, 2, o>>] = "good" /\ <<b, o>> \notin unverified
                \/ <<b, o>> \in moved
<1>1. ReadInv /\ [Next]_vars => [Vouch]_vars
    BY VouchStep
<1> QED BY <1>1, ReadInit, ReadStep, PTL DEF Spec, ManifestVouches

-----------------------------------------------------------------------------
(* A thread that deletes has written the manifest of what it copied to.    *)
Deleting == \A t \in Threads : work[t].at = "delete" => Target(work[t].dir) \in manifests

FirstInv == TypeInv /\ Deleting

LEMMA FirstInit == Init => FirstInv
<1>1. Init => Deleting
    BY DEF Init, Deleting, Idle
<1> QED BY <1>1, TypeInit DEF FirstInv

LEMMA FirstStep == FirstInv /\ [Next]_vars => FirstInv'
<1> SUFFICES ASSUME FirstInv, [Next]_vars PROVE Deleting'
    BY TypeStep DEF FirstInv
<1> USE DEF FirstInv
<1>1. ASSUME NEW t \in Threads, Migrate(t) PROVE Deleting'
    <2>1. work \in [Threads -> Works] /\ manifests \subseteq manifests'
        BY <1>1 DEF TypeInv, Shape, Migrate, Take, HeadObject, Download, Put, Verify, Fail,
                    PutManifest, Delete, bucket
    <2>2. \A u \in Threads \ {t} : work'[u] = work[u]
        BY <1>1, ThreadMoves
    <2>3. work'[t].at = "delete" => Target(work'[t].dir) \in manifests'
        <3>1. CASE PutManifest(t)
            BY <2>1, <3>1 DEF PutManifest, Leave, Goto, Idle, Works
        <3>2. CASE Take(t)
            <4>1. ~Busy(t)
                BY <3>2 DEF Take, Busy, Idle
            <4>2. work'[t] = Idle \/ work'[t].at = "head"
                BY <1>1, <4>1, ThreadMoves
            <4> QED BY <4>2 DEF Idle
        <3>3. CASE HeadObject(t) \/ Download(t) \/ Put(t) \/ Verify(t) \/ Fail(t) \/ Delete(t)
            <4>1. CASE HeadObject(t) \/ Fail(t) \/ Delete(t)
                BY <2>1, <4>1 DEF HeadObject, Fail, Delete, Leave, Idle, Works
            <4>2. CASE Download(t)
                BY <2>1, <4>2 DEF Download, Works
            <4>3. CASE Put(t)
                BY <2>1, <4>3 DEF Put, Goto, Works
            <4>4. CASE Verify(t)
                BY <2>1, <4>4 DEF Verify, Verified, Copied, Works
            <4> QED BY <3>3, <4>1, <4>2, <4>3, <4>4
        <3> QED BY <1>1, <3>1, <3>2, <3>3 DEF Migrate
    <2> QED BY <2>1, <2>2, <2>3 DEF Deleting, Target
<1>2. ASSUME NEW b \in Builds, Upload(b) \/ SaveManifest(b) PROVE Deleting'
    BY <1>2 DEF Upload, SaveManifest, script, Deleting, Target
<1>3. ASSUME NEW keep \in BOOLEAN, NEW limit \in Limits, Start(keep, limit) PROVE Deleting'
    BY <1>3 DEF Start, bucket, Deleting, Target
<1>4. CASE Finish
    BY <1>4 DEF Finish, bucket, Deleting, Idle
<1>5. CASE Kill
    BY <1>5 DEF Kill, Deleting, Idle
<1>6. CASE UNCHANGED vars
    BY <1>6 DEF vars, bucket, Deleting, Target
<1> QED BY <1>1, <1>2, <1>3, <1>4, <1>5, <1>6 DEF Next

(* Objects are only removed by a thread that deletes.                      *)
LEMMA RemoveStep ==
    ASSUME FirstInv, Next, NEW k \in Keys, store[k] # "none", store'[k] = "none"
    PROVE  <<k[1], k[2] + 1>> \in manifests
<1> USE DEF FirstInv
<1>1. ASSUME NEW t \in Threads, Migrate(t) PROVE <<k[1], k[2] + 1>> \in manifests
    <2>1. ~Put(t)
        <3> SUFFICES ASSUME Put(t) PROVE FALSE
            OBVIOUS
        <3>1. work[t].src # "none"
            BY DEF Put, TypeInv, Working
        <3> QED BY <3>1, StorePut
    <2>2. Delete(t)
        BY <1>1, <2>1, StoreKept
    <2>3. work[t].at = "delete" /\ k[1] = work[t].dir[1] /\ k[2] = work[t].dir[2]
        BY <2>2, StoreDelete
    <2> QED BY <2>3 DEF Deleting, Target
<1>2. ASSUME NEW b \in Builds, Upload(b) \/ SaveManifest(b) PROVE FALSE
    <2>1. CASE Upload(b)
        <3>1. PICK o \in building[b] \cap Objects :
                  store' = store \/ store' = [store EXCEPT ![<<b, 2, o>>] = "good"]
            BY <2>1 DEF Upload
        <3> QED BY <3>1 DEF TypeInv, Shape
    <2>2. CASE SaveManifest(b)
        BY <2>2 DEF SaveManifest
    <2> QED BY <1>2, <2>1, <2>2
<1>3. ASSUME NEW keep \in BOOLEAN, NEW limit \in Limits, Start(keep, limit) PROVE FALSE
    BY <1>3 DEF Start, bucket
<1>4. ~Finish /\ ~Kill
    BY DEF Finish, Kill, bucket
<1> QED BY <1>1, <1>2, <1>3, <1>4 DEF Next

(* The manifest of a migrated prefix is written before the first of its    *)
(* objects is removed, whatever is killed or fails in between.             *)
THEOREM ManifestFirstHolds == Spec => ManifestFirst
<1> DEFINE First == \A k \in Keys : store[k] # "none" /\ store'[k] = "none"
                                    => <<k[1], k[2] + 1>> \in manifests
<1>1. FirstInv /\ [Next]_vars => [First]_vars
    BY RemoveStep
<1> QED BY <1>1, FirstInit, FirstStep, PTL DEF Spec, ManifestFirst

-----------------------------------------------------------------------------
(* Is an object, with its bytes, in a generation after g? A thread has     *)
(* this of all that it copied, and never holds other bytes in its hands.   *)
Higher(s, b, g, o) == \E h \in {1, 2, 3} : h > g /\ s[<<b, h, o>>] = "good"
Covered(s, listed, w) ==
    /\ w.src # "bad"
    /\ w.at \notin {"idle", "head"} =>
          \A o \in listed[w.dir] \ w.rest : Higher(s, w.dir[1], w.dir[2], o)

(* Without a corrupted copy the bucket has no bad object, and all threads  *)
(* cover what they copied.                                                 *)
Packed ==
    /\ \A k \in Keys : store[k] # "bad"
    /\ \A t \in Threads : Covered(store, objects, work[t])

(* The invariant behind BytesSurvive.                                      *)
SurviveInv == TypeInv /\ (~corrupted => Packed /\ BytesSurvive)

(* What is lost of a generation is in a later one. *)
Persists ==
    \A b \in Builds, g \in {1, 2, 3}, o \in Objects :
        store[<<b, g, o>>] = "good" =>
            \E h \in {1, 2, 3} : h >= g /\ store'[<<b, h, o>>] = "good"

(* Persists holds of a step that leaves the objects, adds to them, or      *)
(* replaces some by the same object of a later generation.                 *)
LEMMA GensAre == 1..3 = {1, 2, 3}
OBVIOUS

LEMMA PersistsSame == store' = store => Persists
<1> SUFFICES ASSUME store' = store, NEW b \in Builds, NEW g \in {1, 2, 3}, NEW o \in Objects,
                    store[<<b, g, o>>] = "good"
             PROVE  \E h \in {1, 2, 3} : h >= g /\ store'[<<b, h, o>>] = "good"
    BY DEF Persists
<1>1. g >= g
    OBVIOUS
<1> QED BY <1>1

LEMMA PersistsMore ==
    ASSUME \A k \in Keys : store[k] = "good" => store'[k] = "good"
    PROVE  Persists
<1> SUFFICES ASSUME NEW b \in Builds, NEW g \in {1, 2, 3}, NEW o \in Objects,
                    store[<<b, g, o>>] = "good"
             PROVE  \E h \in {1, 2, 3} : h >= g /\ store'[<<b, h, o>>] = "good"
    BY DEF Persists
<1>1. g >= g
    OBVIOUS
<1>2. store'[<<b, g, o>>] = "good"
    BY GenKeys
<1> QED BY <1>1, <1>2

LEMMA PersistsHigher ==
    ASSUME Persists, NEW b \in Builds, NEW g \in {1, 2, 3}, NEW o \in Objects, Higher(store, b, g, o)
    PROVE  Higher(store', b, g, o)
<1>1. PICK h \in {1, 2, 3} : h > g /\ store[<<b, h, o>>] = "good"
    BY DEF Higher
<1>2. PICK i \in {1, 2, 3} : i >= h /\ store'[<<b, i, o>>] = "good"
    BY <1>1 DEF Persists
<1>3. i > g
    BY <1>1, <1>2
<1> QED BY <1>2, <1>3 DEF Higher

(* The three parts follow for all that a step leaves as it was. *)
LEMMA SurviveKept ==
    ASSUME TypeInv, BytesSurvive, ~corrupted, Persists, owed' = owed
    PROVE  BytesSurvive'
<1> SUFFICES ASSUME NEW x \in owed PROVE \E g \in {1, 2, 3} : store'[<<x[1], g, x[2]>>] = "good"
    BY GensAre DEF BytesSurvive
<1>1. x[1] \in Builds /\ x[2] \in Objects
    BY DEF TypeInv, Shape
<1>2. PICK g \in {1, 2, 3} : store[<<x[1], g, x[2]>>] = "good"
    BY GensAre DEF BytesSurvive
<1> QED BY <1>1, <1>2 DEF Persists

LEMMA PackedKept ==
    ASSUME TypeInv, Packed, Persists, NEW t \in Threads
    PROVE  Covered(store', objects, work[t])
<1>2. SUFFICES ASSUME Busy(t), work[t].at # "head", NEW o \in objects[work[t].dir] \ work[t].rest
               PROVE  Higher(store', work[t].dir[1], work[t].dir[2], o)
    BY DEF Busy, Packed, Covered
<1>3. work[t].dir \in Dirs /\ o \in Objects
    BY <1>2 DEF TypeInv, Working, Shape
<1>4. work[t].dir[1] \in Builds /\ work[t].dir[2] \in {1, 2, 3}
    BY <1>3, DirFacts
<1>5. Higher(store, work[t].dir[1], work[t].dir[2], o)
    BY <1>2 DEF Packed, Covered, Busy
<1> QED BY <1>3, <1>4, <1>5, PersistsHigher

(* Neither a copy nor a deletion loses an object's last generation.        *)
LEMMA PersistsMigrate ==
    ASSUME TypeInv, Packed, NEW t \in Threads, Migrate(t), ~corrupted'
    PROVE  Persists /\ \A k \in Keys : store'[k] # "bad"
<1> USE DEF TypeInv
<1>1. CASE store' = store
    BY <1>1, PersistsSame DEF Packed
<1>2. CASE Put(t)
    <2>1. store' = [store EXCEPT ![Copy(t)] = work[t].src]
        BY <1>2 DEF Put
    <2>2. work[t].src = "good"
        <3>1. work[t].src \in Contents /\ work[t].src # "none" /\ work[t].src # "bad"
            BY <1>2 DEF Put, Working, Shape, Works, Packed, Covered
        <3> QED BY <3>1 DEF Contents
    <2>3. \A k \in Keys : store'[k] \in {store[k], "good"}
        BY <2>1, <2>2 DEF Shape
    <2>4. \A k \in Keys : store[k] = "good" => store'[k] = "good"
        BY <2>3
    <2> QED BY <2>3, <2>4, PersistsMore DEF Packed
<1>3. CASE Delete(t)
    <2> DEFINE d == work[t].dir
    <2>1. d \in Dirs /\ d[2] \in {1, 2} /\ Busy(t) /\ work[t].at = "delete" /\ work[t].rest = {}
        BY <1>3, StoreDelete DEF Working
    <2>2. \A o \in objects[d] : Higher(store, d[1], d[2], o)
        BY <2>1 DEF Packed, Covered
    <2>3. \A k \in Keys : \/ store'[k] = store[k]
                          \/ store'[k] = "none" /\ k[1] = d[1] /\ k[2] = d[2] /\ k[3] \in objects[d]
        BY <1>3, StoreDelete
    <2>4. \A k \in Keys : store'[k] # "bad"
        BY <2>3 DEF Packed
    <2> HIDE DEF d
    <2>5. SUFFICES ASSUME NEW b \in Builds, NEW g \in {1, 2, 3}, NEW o \in Objects,
                          store[<<b, g, o>>] = "good"
                   PROVE  \E h \in {1, 2, 3} : h >= g /\ store'[<<b, h, o>>] = "good"
        BY <2>4 DEF Persists
    <2>6. CASE store'[<<b, g, o>>] = store[<<b, g, o>>]
        <3>1. g >= g
            OBVIOUS
        <3> QED BY <2>5, <2>6, <3>1
    <2>7. CASE store'[<<b, g, o>>] # store[<<b, g, o>>]
        <3>1. b = d[1] /\ g = d[2] /\ o \in objects[d]
            BY <2>3, <2>7, GenKeys
        <3>2. PICK h \in {1, 2, 3} : h > g /\ store[<<b, h, o>>] = "good"
            BY <2>2, <3>1 DEF Higher
        <3>3. <<b, h, o>> \in Keys /\ h # d[2] /\ h >= g
            BY <3>1, <3>2, GenKeys
        <3>4. store'[<<b, h, o>>] = store[<<b, h, o>>]
            BY <2>3, <3>3
        <3> QED BY <3>2, <3>3, <3>4
    <2> QED BY <2>6, <2>7
<1> QED BY <1>1, <1>2, <1>3, StoreKept

(* A thread adds to what it has copied what it has compared. *)
LEMMA PackedHere ==
    ASSUME TypeInv, Packed, NEW t \in Threads, Migrate(t), ~corrupted'
    PROVE  Covered(store', objects, work'[t])
<1> USE DEF TypeInv
<1>0. work \in [Threads -> Works] /\ UNCHANGED objects /\ Persists
    BY MigrateFrame, PersistsMigrate DEF Shape
<1>1. CASE work'[t] = Idle
    BY <1>1 DEF Covered, Idle
<1>2. CASE /\ work'[t].dir = work[t].dir /\ work'[t].at # "head" /\ Busy(t) /\ work[t].at # "head"
           /\ work'[t].rest = work[t].rest /\ work'[t].src # "bad"
    <2>1. SUFFICES ASSUME NEW o \in objects[work[t].dir] \ work[t].rest
                   PROVE  Higher(store', work[t].dir[1], work[t].dir[2], o)
        BY <1>0, <1>2 DEF Covered
    <2>2. work[t].dir \in Dirs /\ o \in Objects
        BY <1>2, <2>1 DEF Working, Shape
    <2>3. work[t].dir[1] \in Builds /\ work[t].dir[2] \in {1, 2, 3}
        BY <2>2, DirFacts
    <2>4. Higher(store, work[t].dir[1], work[t].dir[2], o)
        BY <1>2, <2>1 DEF Packed, Covered, Busy
    <2> QED BY <1>0, <2>2, <2>3, <2>4, PersistsHigher
<1>3. CASE Take(t)
    <2>1. work'[t] = Idle \/ work'[t].at = "head"
        <3>1. ~Busy(t)
            BY <1>3 DEF Take, Busy, Idle
        <3> QED BY <3>1, ThreadMoves
    <2>2. work'[t].src = work[t].src \/ work'[t] = Idle
        <3>1. PICK d \in todo : IF Parses(d) THEN work' = [work EXCEPT ![t].at = "head", ![t].dir = d]
                                ELSE UNCHANGED work
            BY <1>3 DEF Take
        <3>2. CASE Parses(d)
            BY <1>0, <3>1, <3>2 DEF Works
        <3>3. CASE ~Parses(d)
            BY <3>1, <3>3
        <3> QED BY <3>2, <3>3
    <2> QED BY <2>1, <2>2 DEF Packed, Covered, Idle
<1>4. CASE HeadObject(t) /\ work'[t] # Idle
    <2>1. work' = [work EXCEPT ![t].at = "object", ![t].rest = objects[work[t].dir]]
        <3>1. ~Leave(t)
            BY <1>0, <1>4 DEF Leave
        <3> QED BY <1>4, <3>1 DEF HeadObject
    <2>2. /\ work'[t].dir = work[t].dir /\ work'[t].rest = objects[work[t].dir]
          /\ work'[t].src = work[t].src
        BY <1>0, <2>1 DEF Works
    <2> QED BY <1>0, <2>2 DEF Packed, Covered
<1>5. CASE Download(t)
    <2>1. PICK o \in work[t].rest :
              /\ Source(t, o) # "none"
              /\ work' = [work EXCEPT ![t].at = "put", ![t].obj = o, ![t].src = Source(t, o)]
        BY <1>5 DEF Download
    <2>2. work[t].at = "object" /\ Busy(t)
        BY <1>5 DEF Download, Busy
    <2>3. o \in Objects /\ work[t].dir \in Dirs
        BY <1>0, <2>2 DEF Works, Working
    <2>4. Key(work[t].dir, o) \in Keys
        BY <2>3, DirFacts
    <2>5. /\ work'[t].dir = work[t].dir /\ work'[t].rest = work[t].rest /\ work'[t].at = "put"
          /\ work'[t].src = Source(t, o)
        BY <1>0, <2>1 DEF Works
    <2>6. Source(t, o) # "bad"
        BY <2>4 DEF Source, Packed
    <2> QED BY <1>2, <2>2, <2>5, <2>6
<1>6. CASE Put(t)
    <2>1. work[t].at = "put" /\ Busy(t) /\ work' = [work EXCEPT ![t].at = "verify"]
        BY <1>6 DEF Put, Busy, Goto
    <2>2. /\ work'[t].dir = work[t].dir /\ work'[t].rest = work[t].rest /\ work'[t].at = "verify"
          /\ work'[t].src = work[t].src
        BY <1>0, <2>1 DEF Works
    <2> QED BY <1>2, <2>1, <2>2 DEF Packed, Covered
<1>7. CASE PutManifest(t) /\ work'[t] # Idle
    <2>1. work' = [work EXCEPT ![t].at = "delete"] /\ work[t].at = "object"
        BY <1>0, <1>7 DEF PutManifest, Leave, Goto
    <2>2. /\ work'[t].dir = work[t].dir /\ work'[t].rest = work[t].rest /\ work'[t].at = "delete"
          /\ work'[t].src = work[t].src
        BY <1>0, <2>1 DEF Works
    <2> QED BY <1>2, <2>1, <2>2 DEF Packed, Covered, Busy
<1>8. CASE Verify(t)
    <2>1. /\ work[t].at = "verify" /\ Busy(t) /\ store' = store
          /\ work' = [work EXCEPT ![t].at = "object", ![t].rest = @ \ {work[t].obj}, ![t].obj = None,
                                  ![t].src = "none"]
          /\ store[Copy(t)] = work[t].src
        BY <1>8 DEF Verify, Verified, Busy, Copied, bucket
    <2>2. /\ work'[t].dir = work[t].dir /\ work'[t].rest = work[t].rest \ {work[t].obj}
          /\ work'[t].at = "object" /\ work'[t].src = "none"
        BY <1>0, <2>1 DEF Works
    <2>3. work[t].dir \in Dirs /\ Parses(work[t].dir)
        BY <2>1 DEF Working
    <2>4. /\ work[t].dir[2] + 1 \in {1, 2, 3} /\ work[t].dir[2] + 1 > work[t].dir[2]
          /\ Copy(t) = <<work[t].dir[1], work[t].dir[2] + 1, work[t].obj>>
        BY <2>3 DEF Parses, Copy, Key, Target
    <2>5. work[t].src = "good"
        <3>1. work[t].src \in Contents /\ work[t].src # "none" /\ work[t].src # "bad"
            BY <1>0, <2>1 DEF Working, Works, Packed, Covered
        <3> QED BY <3>1 DEF Contents
    <2>6. Higher(store, work[t].dir[1], work[t].dir[2], work[t].obj)
        BY <2>1, <2>4, <2>5 DEF Higher
    <2>7. \A o \in objects[work[t].dir] \ work[t].rest :
              Higher(store, work[t].dir[1], work[t].dir[2], o)
        BY <2>1 DEF Packed, Covered
    <2> QED BY <2>1, <2>2, <2>6, <2>7 DEF Covered
<1>9. Fail(t) \/ Delete(t) => work'[t] = Idle
    BY <1>0 DEF Fail, Delete, Leave
<1> QED BY <1>1, <1>3, <1>4, <1>5, <1>6, <1>7, <1>8, <1>9 DEF Migrate

(* SurviveInv holds at first, and every step keeps it.                     *)
LEMMA SurviveInit == Init => SurviveInv
<1> SUFFICES ASSUME Init PROVE Packed /\ BytesSurvive
    BY TypeInit DEF SurviveInv
<1>1. Packed
    BY DEF Init, Packed, Covered, Idle
<1>2. BytesSurvive
    <2> SUFFICES ASSUME NEW x \in owed PROVE store[<<x[1], 1, x[2]>>] = "good"
        BY GensAre DEF BytesSurvive
    <2>1. x[1] \in Old /\ x[2] \in Objects /\ x[1] \in Builds
        BY BackfillAssumption DEF Init, BackfillAssumption
    <2>2. <<x[1], 1, x[2]>> \in Keys
        BY <2>1, GenKeys
    <2> QED BY <2>1, <2>2 DEF Init
<1> QED BY <1>1, <1>2

LEMMA SurviveStep == SurviveInv /\ [Next]_vars => SurviveInv'
<1> SUFFICES ASSUME SurviveInv, [Next]_vars, ~corrupted' PROVE Packed' /\ BytesSurvive'
    BY TypeStep DEF SurviveInv
<1> USE DEF TypeInv
<1>0. TypeInv /\ Packed /\ BytesSurvive /\ ~corrupted
    <2>1. ~corrupted
        <3>1. ASSUME NEW t \in Threads, Migrate(t) PROVE ~corrupted
            BY <3>1 DEF Migrate, Take, HeadObject, Download, Put, Verify, Fail, PutManifest, Delete, history
        <3> QED BY <3>1 DEF Next, Upload, SaveManifest, Start, Finish, Kill, vars, history
    <2> QED BY <2>1 DEF SurviveInv
<1>1. ASSUME NEW b \in Builds, Upload(b) PROVE Packed' /\ BytesSurvive'
    <2>1. PICK o \in building[b] \cap Objects :
              \/ store' = [store EXCEPT ![<<b, 2, o>>] = "good"] /\ owed' = owed \cup {<<b, o>>}
              \/ UNCHANGED <<store, owed>>
        BY <1>1 DEF Upload
    <2>2. UNCHANGED <<work, objects>>
        BY <1>1 DEF Upload, script
    <2>3. <<b, 2, o>> \in Keys /\ o \in Objects
        BY GenKeys
    <2>4. \A k \in Keys : store'[k] = store[k] \/ (k = <<b, 2, o>> /\ store'[k] = "good")
        BY <1>0, <2>1, <2>3 DEF Shape
    <2>5. (\A k \in Keys : store[k] = "good" => store'[k] = "good") /\ Persists
        BY <2>4, PersistsMore
    <2>6. Packed'
        <3>1. \A k \in Keys : store'[k] # "bad"
            BY <1>0, <2>4 DEF Packed
        <3> QED BY <1>0, <2>2, <2>5, <3>1, PackedKept DEF Packed
    <2>7. BytesSurvive'
        <3>1. CASE owed' = owed
            BY <1>0, <2>5, <3>1, SurviveKept
        <3>2. CASE owed' # owed
            <4> SUFFICES ASSUME NEW x \in owed'
                         PROVE  \E g \in {1, 2, 3} : store'[<<x[1], g, x[2]>>] = "good"
                BY GensAre DEF BytesSurvive
            <4>1. CASE x \in owed
                <5>1. x[1] \in Builds /\ x[2] \in Objects
                    BY <1>0, <4>1 DEF Shape
                <5>2. PICK g \in {1, 2, 3} : store[<<x[1], g, x[2]>>] = "good"
                    BY <1>0, <4>1, GensAre DEF BytesSurvive
                <5> QED BY <2>5, <5>1, <5>2 DEF Persists
            <4>2. CASE x \notin owed
                <5>1. x = <<b, o>> /\ store' = [store EXCEPT ![<<b, 2, o>>] = "good"]
                    BY <2>1, <4>2
                <5>2. store'[<<b, 2, o>>] = "good"
                    BY <1>0, <2>3, <5>1 DEF Shape
                <5> QED BY <5>1, <5>2
            <4> QED BY <4>1, <4>2
        <3> QED BY <3>1, <3>2
    <2> QED BY <2>6, <2>7
<1>2. ASSUME NEW b \in Builds, SaveManifest(b) PROVE Packed' /\ BytesSurvive'
    <2>1. UNCHANGED <<store, owed, work, objects>>
        BY <1>2 DEF SaveManifest, script
    <2> QED BY <1>0, <2>1 DEF Packed, BytesSurvive
<1>3. ASSUME NEW keep \in BOOLEAN, NEW limit \in Limits, Start(keep, limit)
      PROVE  Packed' /\ BytesSurvive'
    <2>1. \A t \in Threads : work'[t].at = "idle" /\ work'[t] = work[t]
        BY <1>0, <1>3 DEF Start, Working, Busy
    <2>2. UNCHANGED <<store, owed>>
        BY <1>3 DEF Start, bucket, builder
    <2> QED BY <1>0, <2>1, <2>2 DEF Packed, BytesSurvive, Covered, Busy
<1>4. ASSUME NEW t \in Threads, Migrate(t) PROVE Packed' /\ BytesSurvive'
    <2>1. Persists /\ \A k \in Keys : store'[k] # "bad"
        BY <1>0, <1>4, PersistsMigrate
    <2>2. UNCHANGED <<owed, objects>> /\ \A u \in Threads \ {t} : work'[u] = work[u]
        BY <1>0, <1>4, MigrateFrame, ThreadMoves DEF builder
    <2>3. BytesSurvive'
        BY <1>0, <2>1, <2>2, SurviveKept
    <2>4. Packed'
        BY <1>0, <1>4, <2>1, <2>2, PackedHere, PackedKept DEF Packed
    <2> QED BY <2>3, <2>4
<1>5. CASE Finish
    BY <1>0, <1>5 DEF Finish, bucket, builder, Packed, BytesSurvive, Covered, Idle
<1>6. CASE Kill
    <2>1. \A t \in Threads : work'[t] = Idle
        BY <1>6 DEF Kill
    <2>2. UNCHANGED <<store, owed>>
        BY <1>6 DEF Kill, bucket, builder
    <2> QED BY <1>0, <2>1, <2>2 DEF Packed, BytesSurvive, Covered, Idle
<1>7. CASE UNCHANGED vars
    BY <1>0, <1>7 DEF vars, bucket, builder, script, Packed, BytesSurvive
<1> QED BY <1>1, <1>2, <1>3, <1>4, <1>5, <1>6, <1>7 DEF Next

(* As long as no copy is corrupted, the bytes of every stored object are   *)
(* somewhere in the bucket, packed once or twice, whatever the script took *)
(* for a raw prefix.                                                       *)
THEOREM BytesSurviveHolds == Spec => []BytesSurvive
<1>1. SurviveInv => BytesSurvive
    BY DEF SurviveInv, BytesSurvive
<1> QED BY <1>1, SurviveInit, SurviveStep, PTL DEF Spec
=============================================================================
