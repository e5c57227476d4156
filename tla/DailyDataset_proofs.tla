------------------------- MODULE DailyDataset_proofs -------------------------
(***************************************************************************)
(* Proofs about DailyDataset, for any binaries, zone, number of days,      *)
(* deaths and faults, whatever the ids tried and the size of a flush.      *)
(***************************************************************************)
EXTENDS DailyDataset, FiniteSetTheorems, WellFoundedInduction, TLAPS

-----------------------------------------------------------------------------
(* Finite sets of numbers. *)

LEMMA LeastNat ==
    ASSUME NEW T \in SUBSET Nat, NEW e \in T
    PROVE  \E n \in T : \A m \in T : n <= m
<1> DEFINE Less == OpToRel(<, Nat)
<1>1. IsWellFoundedOn(Less, Nat)
    BY NatLessThanWellFounded
<1>2. \A x, y \in Nat : <<x, y>> \in Less <=> x < y
    BY DEF OpToRel
<1> HIDE DEF Less
<1>3. PICK n \in T : \A m \in T : ~(<<m, n>> \in Less)
    BY <1>1, WFMin
<1>4. ASSUME NEW m \in T PROVE n <= m
    <2>1. m \in Nat /\ n \in Nat
        OBVIOUS
    <2>2. ~(<<m, n>> \in Less)
        BY <1>3
    <2>3. ~(m < n)
        BY <2>1, <2>2, <1>2, Zenon
    <2> QED
        BY <2>1, <2>3
<1> QED
    BY <1>4

(* By the least cardinality of a set without a bound. *)
LEMMA FiniteBounded ==
    ASSUME NEW S \in SUBSET Nat, IsFiniteSet(S)
    PROVE  \E n \in Nat : \A s \in S : s <= n
<1> DEFINE Unbounded(Q) == \A b \in Nat : \E q \in Q : q > b
           Sizes == {n \in Nat : \E Q \in SUBSET S : Cardinality(Q) = n /\ Unbounded(Q)}
<1>1. SUFFICES ASSUME Unbounded(S) PROVE FALSE
    BY Z3
<1>2. Cardinality(S) \in Sizes
    BY <1>1, FS_CardinalityType
<1>3. PICK n \in Sizes : \A m \in Sizes : n <= m
    BY <1>2, LeastNat
<1>4. PICK Q \in SUBSET S : Cardinality(Q) = n /\ Unbounded(Q)
    BY <1>3
<1>5. PICK q \in Q : q > 0
    BY <1>4
<1>6. IsFiniteSet(Q)
    BY FS_Subset
<1>7. IsFiniteSet(Q \ {q}) /\ Cardinality(Q \ {q}) = n - 1
    BY <1>4, <1>5, <1>6, FS_RemoveElement
<1>8. Unbounded(Q \ {q})
    <2> SUFFICES ASSUME NEW b \in Nat PROVE \E p \in Q \ {q} : p > b
        OBVIOUS
    <2>1. q \in Nat
        BY <1>5
    <2>2. PICK c \in Nat : c >= b /\ c >= q
        BY <2>1
    <2>3. PICK p \in Q : p > c
        BY <1>4
    <2>4. p \in Nat
        OBVIOUS
    <2> QED
        BY <2>1, <2>2, <2>3, <2>4
<1>9. n - 1 \in Nat
    BY <1>7, FS_CardinalityType
<1>10. n - 1 \in Sizes
    BY <1>7, <1>8, <1>9
<1> QED
    BY <1>3, <1>10

LEMMA MaxOfFinite ==
    ASSUME NEW S \in SUBSET Nat, IsFiniteSet(S), S # {}
    PROVE  Max(S) \in S /\ \A s \in S : s <= Max(S)
<1> DEFINE Bounds == {n \in Nat : \A s \in S : s <= n}
<1>1. PICK b \in Bounds : TRUE
    BY FiniteBounded
<1>2. PICK n \in Bounds : \A m \in Bounds : n <= m
    BY <1>1, LeastNat
<1>3. n \in S
    <2> SUFFICES ASSUME n \notin S PROVE FALSE
        OBVIOUS
    <2>1. \A s \in S : s <= n /\ s # n /\ s \in Nat
        BY <1>2
    <2>2. n > 0 /\ n \in Nat
        <3>1. PICK s \in S : TRUE
            OBVIOUS
        <3>2. s \in Nat /\ s <= n /\ s # n /\ n \in Nat
            BY <2>1, <1>2
        <3> QED
            BY <3>2
    <2>3. n - 1 \in Bounds
        BY <2>1, <2>2, <1>2
    <2>4. n <= n - 1
        BY <2>3, <1>2
    <2> QED
        BY <2>2, <2>4
<1>4. \E x \in S : \A y \in S : x >= y
    BY <1>2, <1>3
<1>5. \A y \in S : Max(S) \in S /\ Max(S) >= y
    BY <1>4 DEF Max
<1> QED
    BY <1>5

(* The largest id of a finite set of rows. *)
LEMMA MaxId ==
    ASSUME NEW R, IsFiniteSet(R), R # {}, \A r \in R : r.id \in Nat
    PROVE  /\ Max({r.id : r \in R}) \in Nat
           /\ \A q \in R : q.id <= Max({r.id : r \in R})
<1> DEFINE S == {r.id : r \in R}
           f == [r \in R |-> r.id]
<1>1. f \in Surjection(R, S)
    BY DEF Surjection
<1>2. IsFiniteSet(S)
    BY <1>1, FS_Surjection
<1>3. S \in SUBSET Nat /\ S # {}
    OBVIOUS
<1>4. Max(S) \in S /\ \A s \in S : s <= Max(S)
    BY <1>2, <1>3, MaxOfFinite
<1> QED
    BY <1>3, <1>4

LEMMA MinOfNats ==
    ASSUME NEW S \in SUBSET Nat, S # {}
    PROVE  Min(S) \in S /\ \A s \in S : Min(S) <= s
<1>1. PICK e \in S : TRUE
    OBVIOUS
<1>2. PICK n \in S : \A m \in S : n <= m
    BY <1>1, LeastNat
<1>3. \E x \in S : \A y \in S : x =< y
    BY <1>2
<1>4. Min(S) \in S /\ \A y \in S : Min(S) =< y
    BY <1>3 DEF Min
<1> QED
    BY <1>4


(* The id a file gets lies beyond those given out; unless none is free,    *)
(* its path holds no file of the name.                                     *)
LEMMA IdForFile ==
    ASSUME nextId \in Nat, NEW name
    PROVE  /\ IdFor(name) \in Nat
           /\ nextId < IdFor(name)
           /\ FreeIds(name) = {} \/ ~Taken(IdFor(name), name)
<1>1. CASE FreeIds(name) = {}
    BY <1>1, DatasetAssumption DEF IdFor
<1>2. CASE FreeIds(name) # {}
    <2>1. FreeIds(name) \in SUBSET Nat
        BY DEF FreeIds, TriedIds
    <2>2. Min(FreeIds(name)) \in FreeIds(name)
        BY <1>2, <2>1, MinOfNats
    <2> QED
        BY <1>2, <2>1, <2>2 DEF IdFor, FreeIds, TriedIds
<1> QED
    BY <1>1, <1>2

-----------------------------------------------------------------------------
(* What the actions change, variable by variable.                          *)

AfterStart == {"download", "stage", "staging", "giveUp", "connect", "construct", "clear", "flush",
               "flushFunctions", "flushRvas", "copy", "remove"}
AfterConnect == {"construct", "clear", "flush", "flushFunctions", "flushRvas", "copy", "remove"}

(* The clock, the loop and what a run does before Start.                   *)
Quiet == Midnight \/ LoopLooks \/ Locked \/ RunDaily \/ Yesterday \/ UNCHANGED vars

LEMMA QuietFacts ==
    ASSUME Quiet
    PROVE  /\ UNCHANGED <<built, dayFile, okDays, today, db, files, raw, todo, got, cur, tried, nextId,
                          nextFun, pending, staged, meta, tree, dirs, deaths, faults, refused, missed,
                          removed, mishaps>>
           /\ at' = at \/ (at \in {"off", "asked"} /\ at' \in {"asked", "start"})
           /\ at \notin {"off", "asked"} => UNCHANGED <<at, asked, since>>
<1>1. CASE Midnight
    BY <1>1 DEF Midnight, dates, work, staging, history
<1>2. CASE LoopLooks
    BY <1>2 DEF LoopLooks, dates, work, staging, history
<1>3. CASE Locked
    BY <1>3 DEF Locked, dates, work, staging, history
<1>4. CASE RunDaily
    BY <1>4 DEF RunDaily, work, staging, history
<1>5. CASE Yesterday
    BY <1>5 DEF Yesterday, work, staging, history
<1>6. CASE UNCHANGED vars
    BY <1>6 DEF vars, dates, work, staging, history
<1> QED
    BY <1>1, <1>2, <1>3, <1>4, <1>5, <1>6 DEF Quiet

LEMMA BuildFacts ==
    ASSUME NEW x \in Bins, Build(x)
    PROVE  /\ built[x] = NotBuilt
           /\ built' = [built EXCEPT ![x] = [day |-> day, utc |-> utc]]
           /\ UNCHANGED <<day, utc, dayFile, okDays, wanted, at, asked, since, today, db, files, raw, todo,
                          got, cur, tried, nextId, nextFun, pending, staged, meta, tree, dirs, deaths,
                          faults, refused, missed, removed, mishaps>>
BY DEF Build, clock, dates, work, staging, history

LEMMA StartFacts ==
    ASSUME Start
    PROVE  /\ at = "start" /\ at' = "download" /\ today' = day
           /\ todo' = QueryNewBinaries(since)
           /\ missed' = missed \ (todo' \X {day})
           /\ \/ day = today /\ UNCHANGED <<raw, staged, meta, tree, dirs>>
              \/ /\ day # today /\ staged' = {} /\ meta' = NoMeta /\ tree' = {} /\ dirs' = {}
                 /\ raw' = [x \in Bins |-> "no"]
           /\ \/ asked = day /\ dayFile < asked /\ mishaps' = mishaps
              \/ ~(asked = day /\ dayFile < asked) /\ mishaps' = mishaps \cup {<<"astray", d>> : d \in asked..day}
           /\ UNCHANGED <<day, utc, built, dayFile, okDays, wanted, asked, since, db, files, got, cur, tried,
                          nextId, nextFun, pending, deaths, faults, refused, removed>>
BY DEF Start, clock, staging

LEMMA NothingToDoFacts ==
    ASSUME NothingToDo
    PROVE  /\ at = "download" /\ todo = {} /\ got = {} /\ at' = "off"
           /\ dayFile' = asked /\ okDays' = okDays \cup {asked}
           /\ UNCHANGED <<day, utc, built, wanted, asked, since, today, db, files, raw, todo, got, cur, tried,
                          nextId, nextFun, pending, staged, meta, tree, dirs, deaths, faults, refused, missed,
                          removed, mishaps>>
BY DEF NothingToDo, Recorded, clock, dates, work, staging, history

LEMMA DownloadFacts ==
    ASSUME NEW x \in Bins, Download(x)
    PROVE  /\ at = "download" /\ x \in todo /\ todo' = todo \ {x}
           /\ at' \in {"download", "stage", "giveUp"}
           /\ at' = "download" <=> todo' # {}
           /\ at' = "giveUp" => got' = {}
           /\ \/ got' = got \cup {x} /\ missed' = missed
              \/ got' = got /\ missed' = missed \cup {<<x, today>>}
           /\ \/ raw' = raw /\ raw[x] # "no"
              \/ /\ raw[x] = "no"
                 /\ \E c \in {"no", "whole", "cut"} :
                       raw' = [raw EXCEPT ![x] = c] /\ (got' # got => c # "no")
           /\ faults' \in {faults, faults + 1}
           /\ UNCHANGED <<day, utc, built, dayFile, okDays, wanted, asked, since, today, db, files, cur, tried,
                          nextId, nextFun, pending, staged, meta, tree, dirs, deaths, refused, removed, mishaps>>
BY DEF Download, Fault, NoFault, clock, dates, staging

LEMMA StageFacts ==
    ASSUME NEW x \in Bins, Stage(x)
    PROVE  /\ at \in {"stage", "staging"} /\ x \in got /\ got' = got \ {x}
           /\ \/ at' \in {"stage", "staging"} /\ got' # {}
              \/ at' \in {"connect", "giveUp"} /\ got' = {}
           /\ at' \in {"stage", "giveUp"} => at = "stage" /\ missed' = missed \cup {<<x, today>>}
           /\ faults' \in {faults, faults + 1}
           /\ UNCHANGED <<day, utc, built, dayFile, okDays, wanted, asked, since, today, db, files, raw, todo,
                          cur, tried, nextId, nextFun, pending, tree, dirs, deaths, refused, removed, mishaps>>
BY DEF Stage, Fault, NoFault, clock, dates

(* The file joins the staged ones and its entries the metadata, or it is   *)
(* missed.                                                                 *)
LEMMA StageFile ==
    ASSUME NEW x \in Bins, Stage(x)
    PROVE  \/ /\ staged' = {f \in staged : <<f.ident, f.name>> # Key(x)}
                 \cup {[ident |-> Ident[x], name |-> Name[x], bin |-> x, cut |-> raw[x] = "cut"]}
              /\ \E entries \in {Found(x), Extracted(x), {}} :
                    meta' = [meta EXCEPT ![Ident[x]] =
                        [first |-> IF meta[Ident[x]].first = None THEN x ELSE meta[Ident[x]].first,
                         infos |-> Joined(meta[Ident[x]].infos, entries)]]
              /\ missed' = missed
           \/ /\ missed' = missed \cup {<<x, today>>}
              /\ UNCHANGED <<staged, meta>>
BY DEF Stage

LEMMA GiveUpFacts ==
    ASSUME GiveUp
    PROVE  /\ at = "giveUp" /\ at' = "off"
           /\ staged' = {} /\ meta' = NoMeta /\ tree' = {} /\ dirs' = {}
           /\ dayFile' = asked /\ okDays' = okDays \cup {asked}
           /\ mishaps' = mishaps \cup {<<"wiped", today>>}
           /\ UNCHANGED <<day, utc, built, wanted, asked, since, today, db, files, raw, todo, got, cur, tried,
                          nextId, nextFun, pending, deaths, faults, refused, missed, removed>>
BY DEF GiveUp, Recorded, RemoveStaging, clock, dates, work

LEMMA ConnectFacts ==
    ASSUME Connect, db = [exists |-> db.exists, rows |-> db.rows, funs |-> db.funs, rvas |-> db.rvas]
    PROVE  /\ at = "connect" /\ at' \in {"off", "construct"}
           /\ db' = [exists |-> db'.exists, rows |-> db.rows, funs |-> db.funs, rvas |-> db.rvas]
           /\ at' = "construct" => db'.exists
           /\ \/ ~db.exists /\ at' = "construct" /\ db'.exists /\ nextId' = FirstId /\ nextFun' = 1
              \/ db.exists /\ at' = "off" /\ UNCHANGED <<db, nextId, nextFun>>
              \/ /\ db.exists /\ at' = "construct" /\ db.rows # {} /\ db.funs # {} /\ db' = db
                 /\ nextId' = Max({r.id : r \in db.rows}) + 1
                 /\ nextFun' = Max({f.id : f \in db.funs}) + 1
           /\ UNCHANGED <<day, utc, built, dayFile, okDays, wanted, asked, since, today, files, raw, todo, got,
                          cur, tried, pending, staged, meta, tree, dirs, deaths, faults, refused, missed,
                          removed, mishaps>>
BY DEF Connect, clock, dates, staging, history

(* What the three ends of a file's turn have in common.                    *)
Turns(file) == Add(file) \/ Leave(file) \/ PassOver(file)

LEMMA TurnFacts ==
    ASSUME NEW file \in staged, Turns(file)
    PROVE  /\ at = "construct" /\ at' \in {"construct", "clear"} /\ cur' = file.ident
           /\ file \notin tried /\ cur \in {None, file.ident}
           /\ at' = "clear" => \A f \in staged' : f.ident = file.ident => f \in tried'
           /\ \/ staged' = staged \ {file} /\ tried' = tried
              \/ staged' = staged /\ tried' = tried \cup {file} /\ missed' = missed \cup {<<file.bin, today>>}
           /\ missed \subseteq missed' /\ mishaps \subseteq mishaps'
           /\ UNCHANGED <<day, utc, built, dayFile, okDays, wanted, asked, since, today, db, files, raw, todo,
                          got, meta, deaths, faults, refused>>
<1>1. CASE Add(file)
    BY <1>1 DEF Add, Takes, Turn, clock, dates
<1>2. CASE Leave(file)
    BY <1>2 DEF Leave, Takes, Turn, clock, dates
<1>3. CASE PassOver(file)
    BY <1>3 DEF PassOver, Takes, Turn, clock, dates
<1> QED
    BY <1>1, <1>2, <1>3 DEF Turns

LEMMA AddFacts ==
    ASSUME NEW file \in staged, Add(file)
    PROVE  /\ staged' = staged \ {file} /\ tried' = tried
           /\ tree' = {f \in tree \ InTheWay : f.path # AssignPath(IdFor(file.name)) \/ f.name # file.name}
                         \cup {[path |-> AssignPath(IdFor(file.name)), name |-> file.name,
                                bin |-> file.bin]}
           /\ dirs' = MadeDirs /\ AssignPath(IdFor(file.name)) \in MadeDirs
           /\ removed' = removed \cup {<<today, f.path, f.name>> : f \in InTheWay}
           /\ nextId' = IdFor(file.name)
           /\ mishaps' = mishaps \cup IF FreeIds(file.name) = {} THEN {<<"crowded", today>>} ELSE {}
           /\ nextFun' = nextFun + Cardinality(EntriesOf(file))
           /\ missed' = missed
           /\ \E number \in Numberings(EntriesOf(file), nextFun) :
                 pending' = [rows |-> pending.rows \cup {Row(file, IdFor(file.name))},
                             funs |-> pending.funs \cup
                                {[id |-> number[e], row |-> IdFor(file.name), from |-> e.from] :
                                 e \in EntriesOf(file)}]
BY DEF Add, MakeDirectory

LEMMA LeaveFacts ==
    ASSUME NEW file \in staged, Leave(file)
    PROVE  /\ staged' = staged /\ tried' = tried \cup {file}
           /\ tree' = tree \ InTheWay /\ dirs' = MadeDirs
           /\ removed' = removed \cup {<<today, f.path, f.name>> : f \in InTheWay}
           /\ nextId' = IdFor(file.name)
           /\ missed' = missed \cup {<<file.bin, today>>}
           /\ UNCHANGED <<nextFun, pending, mishaps>>
BY DEF Leave, MakeDirectory

LEMMA PassOverFacts ==
    ASSUME NEW file \in staged, PassOver(file)
    PROVE  /\ staged' = staged /\ tried' = tried \cup {file}
           /\ missed' = missed \cup {<<file.bin, today>>}
           /\ UNCHANGED <<tree, dirs, nextId, nextFun, pending, removed, mishaps>>
BY DEF PassOver

LEMMA ClearFacts ==
    ASSUME Clear
    PROVE  /\ at = "clear" /\ at' \in {"flush", "construct"}
           /\ staged' = staged \ tried
           /\ meta' = [meta EXCEPT ![cur] = NoMeta[cur]]
           /\ cur' = None /\ tried' = {}
           /\ UNCHANGED <<day, utc, built, dayFile, okDays, wanted, asked, since, today, db, files, raw, todo,
                          got, nextId, nextFun, pending, tree, dirs, deaths, faults, refused, missed, removed,
                          mishaps>>
BY DEF Clear, clock, dates, history

(* What is left of an identifier whose removal was cut short.              *)
Remains ==
    \/ staged' \subseteq staged /\ meta' = meta
    \/ staged' = staged \ tried /\ meta' = [meta EXCEPT ![cur] = NoMeta[cur]]

LEMMA TimeOutFacts ==
    ASSUME TimeOut
    PROVE  /\ at = "clear" /\ at' = "off" /\ Remains
           /\ todo' = {} /\ got' = {} /\ cur' = None /\ tried' = {}
           /\ nextId' = 0 /\ nextFun' = 0 /\ pending' = Nothing
           /\ dayFile' = asked /\ mishaps' = mishaps \cup {<<"timed out", today>>}
           /\ faults' = faults + 1
           /\ UNCHANGED <<day, utc, built, okDays, wanted, asked, since, today, db, files, raw, tree, dirs,
                          deaths, refused, missed, removed>>
BY DEF TimeOut, HalfCleared, Remains, Forget, Recorded, Fault, clock, dates

LEMMA FlushBinariesFacts ==
    ASSUME FlushBinaries, db = [exists |-> db.exists, rows |-> db.rows, funs |-> db.funs, rvas |-> db.rvas]
    PROVE  /\ at = "flush" /\ at' = "flushFunctions"
           /\ db' = [exists |-> db.exists, rows |-> db'.rows, funs |-> db.funs, rvas |-> db.rvas]
           /\ db.rows \subseteq db'.rows /\ db'.rows \subseteq db.rows \cup pending.rows
           /\ missed \subseteq missed' /\ refused \subseteq refused'
           /\ missed' \subseteq missed \cup {<<r.bin, today>> : r \in pending.rows}
           /\ \A r \in pending.rows :
                 r \in db'.rows \/ (<<r.bin, today>> \in missed' /\ <<"binaries", r.id>> \in refused')
           /\ faults' \in {faults, faults + 1}
           /\ UNCHANGED <<day, utc, built, dayFile, okDays, wanted, asked, since, today, files, raw, todo, got,
                          cur, tried, nextId, nextFun, pending, staged, meta, tree, dirs, deaths, removed,
                          mishaps>>
BY DEF FlushBinaries, Fault, NoFault, clock, dates, work, staging

LEMMA FlushFunctionsFacts ==
    ASSUME FlushFunctions, db = [exists |-> db.exists, rows |-> db.rows, funs |-> db.funs, rvas |-> db.rvas]
    PROVE  /\ at = "flushFunctions" /\ at' = "flushRvas"
           /\ db' = [exists |-> db.exists, rows |-> db.rows, funs |-> db'.funs, rvas |-> db.rvas]
           /\ db.funs \subseteq db'.funs /\ db'.funs \subseteq db.funs \cup pending.funs
           /\ refused \subseteq refused'
           /\ \A f \in pending.funs : f \in db'.funs \/ <<"functions", f.id>> \in refused'
           /\ faults' \in {faults, faults + 1}
           /\ UNCHANGED <<day, utc, built, dayFile, okDays, wanted, asked, since, today, files, raw, todo, got,
                          cur, tried, nextId, nextFun, pending, staged, meta, tree, dirs, deaths, missed,
                          removed, mishaps>>
BY DEF FlushFunctions, Fault, NoFault, clock, dates, work, staging

LEMMA FlushRvasFacts ==
    ASSUME FlushRvas, db = [exists |-> db.exists, rows |-> db.rows, funs |-> db.funs, rvas |-> db.rvas]
    PROVE  /\ at = "flushRvas" /\ at' = IF staged = {} THEN "copy" ELSE "construct"
           /\ db' = [exists |-> db.exists, rows |-> db.rows, funs |-> db.funs, rvas |-> db'.rvas]
           /\ \A v \in db'.rvas : v \in db.rvas \/ \E f \in pending.funs : v = [fun |-> f.id, from |-> f.from]
           /\ pending' = Nothing
           /\ faults' \in {faults, faults + 1}
           /\ UNCHANGED <<day, utc, built, dayFile, okDays, wanted, asked, since, today, files, raw, todo, got,
                          cur, tried, nextId, nextFun, staged, meta, tree, dirs, deaths, refused, missed,
                          removed, mishaps>>
BY DEF FlushRvas, Fault, NoFault, clock, dates, staging, history

LEMMA CopyFacts ==
    ASSUME Copy
    PROVE  /\ at = "copy" /\ at' = "remove"
           /\ files' = Published(tree)
           /\ UNCHANGED <<day, utc, built, dayFile, okDays, wanted, asked, since, today, db, raw, todo, got,
                          cur, tried, nextId, nextFun, pending, staged, meta, tree, dirs, deaths, faults,
                          refused, missed, removed, mishaps>>
BY DEF Copy, clock, dates, work, staging, history

LEMMA FinishFacts ==
    ASSUME Finish
    PROVE  /\ at = "remove" /\ at' = "off"
           /\ staged' = {} /\ meta' = NoMeta /\ tree' = {} /\ dirs' = {}
           /\ dayFile' = asked /\ okDays' = okDays \cup {asked}
           /\ UNCHANGED <<day, utc, built, wanted, asked, since, today, db, files, raw, todo, got, cur, tried,
                          nextId, nextFun, pending, deaths, faults, refused, missed, removed, mishaps>>
BY DEF Finish, Recorded, RemoveStaging, clock, dates, work, history

LEMMA DieFacts ==
    ASSUME Die
    PROVE  /\ at \notin {"off", "asked", "start"} /\ at' = "off"
           /\ \/ staged' = staged /\ meta' = meta
              \/ at = "clear" /\ Remains
           /\ todo' = {} /\ got' = {} /\ cur' = None /\ tried' = {}
           /\ nextId' = 0 /\ nextFun' = 0 /\ pending' = Nothing
           /\ \/ files' = files
              \/ at = "copy" /\ \E half \in SUBSET tree : files' = Published(half)
           /\ \/ UNCHANGED <<tree, dirs>>
              \/ /\ at \in {"giveUp", "remove"} /\ tree' \in SUBSET tree
                 /\ dirs' \in {dirs, UNION {Along(f.path) : f \in tree'}}
           /\ \A x \in Bins : raw'[x] \in {raw[x], "cut"}
           /\ raw' = [x \in Bins |-> raw'[x]]
           /\ mishaps' = mishaps \cup {<<"died", today>>}
                            \cup IF at = "giveUp" THEN {<<"wiped", today>>} ELSE {}
           /\ deaths' = deaths + 1
           /\ UNCHANGED <<day, utc, built, dayFile, okDays, wanted, asked, since, today, db, faults, refused,
                          missed, removed>>
<1>1. PICK half \in SUBSET tree, cut \in SUBSET {x \in todo : raw[x] = "no"} :
          /\ at \notin {"copy", "giveUp", "remove"} => half = tree
          /\ files' = IF at = "copy" THEN Published(half) ELSE files
          /\ tree' = IF at \in {"giveUp", "remove"} THEN half ELSE tree
          /\ dirs' \in IF at \in {"giveUp", "remove"}
                       THEN {dirs, UNION {Along(f.path) : f \in half}} ELSE {dirs}
          /\ raw' = [x \in Bins |-> IF x \in cut THEN "cut" ELSE raw[x]]
    BY DEF Die
<1>2. (\A x \in Bins : raw'[x] \in {raw[x], "cut"}) /\ raw' = [x \in Bins |-> raw'[x]]
    BY <1>1
<1>3. (staged' = staged /\ meta' = meta) \/ (at = "clear" /\ Remains)
    BY DEF Die, HalfCleared, Remains
<1>4. \/ UNCHANGED <<tree, dirs>>
      \/ /\ at \in {"giveUp", "remove"} /\ tree' \in SUBSET tree
         /\ dirs' \in {dirs, UNION {Along(f.path) : f \in tree'}}
    BY <1>1
<1>5. files' = files \/ (at = "copy" /\ \E h \in SUBSET tree : files' = Published(h))
    BY <1>1
<1> QED
    BY <1>2, <1>3, <1>4, <1>5 DEF Die, Forget, clock, dates
-----------------------------------------------------------------------------
Entries == {[from |-> x, file |-> Name[x]] : x \in Bins}
              \cup {[from |-> x, file |-> RawName[x]] : x \in Bins}
Metadata == [first : Bins \cup {None}, infos : SUBSET Entries]

(* What db, pending and the metadata are made of; all of it is finite.     *)
Shape ==
    /\ db = [exists |-> db.exists, rows |-> db.rows, funs |-> db.funs, rvas |-> db.rvas]
    /\ pending = [rows |-> pending.rows, funs |-> pending.funs]
    /\ IsFiniteSet(db.rows) /\ IsFiniteSet(db.funs)
    /\ IsFiniteSet(pending.rows) /\ IsFiniteSet(pending.funs)
    /\ \A r \in db.rows \cup pending.rows : r.id \in Nat /\ r.bin \in Bins
    /\ \A f \in db.funs \cup pending.funs : f.id \in Nat
    /\ nextId \in Nat /\ nextFun \in Nat
    /\ meta \in [Idents -> Metadata]

(* The dates a run read one after the other, and the days recorded. A run  *)
(* whose dates are not all of one day that is not yet done goes astray.    *)
Days ==
    /\ utc \in Nat
    /\ wanted # 0 => dayFile <= wanted /\ (at # "off" => asked <= wanted)
    /\ at # "off" => 1 <= asked /\ dayFile <= asked
    /\ at \in AfterStart \cup {"start"} => asked <= since
    /\ at \in AfterStart =>
          /\ since <= today
          /\ (asked = today /\ dayFile < asked) \/ \A d \in asked..today : Had("astray", d)
    /\ \A d \in okDays : d <= dayFile
    /\ \A r \in db.rows : r.day \in 1..today
    /\ \A r \in pending.rows : r.day = today

Phases ==
    /\ at # "download" => todo = {}
    /\ at \notin {"download", "stage", "staging"} => got = {}
    /\ at \in AfterConnect => db.exists
    /\ at \in {"copy", "remove"} => staged = {}
    /\ at \notin {"construct", "clear"} => cur = None /\ tried = {}
    /\ cur \in Idents \cup {None}
    /\ at = "clear" => cur # None /\ \A f \in staged : f.ident = cur => f \in tried

Staging ==
    /\ \A f \in staged : f.bin \in Bins /\ f.ident = Ident[f.bin] /\ f.name = Name[f.bin]
    /\ \A f, g \in staged : f.ident = g.ident /\ f.name = g.name => f = g

TypeInv == TypeOK /\ Shape /\ Days /\ Phases /\ Staging

LEMMA EntriesFinite == IsFiniteSet(Entries)
<1> DEFINE Own == {[from |-> x, file |-> Name[x]] : x \in Bins}
           Raws == {[from |-> x, file |-> RawName[x]] : x \in Bins}
           own == [x \in Bins |-> [from |-> x, file |-> Name[x]]]
           raws == [x \in Bins |-> [from |-> x, file |-> RawName[x]]]
<1>1. own \in Surjection(Bins, Own) /\ raws \in Surjection(Bins, Raws)
    BY DEF Surjection
<1>2. IsFiniteSet(Own) /\ IsFiniteSet(Raws)
    BY <1>1, DatasetAssumption, FS_Surjection
<1> QED
    BY <1>2, FS_Union DEF Entries

LEMMA IdentInIdents ==
    ASSUME NEW x \in Bins
    PROVE  Ident[x] \in Idents
BY DatasetAssumption DEF Idents, Range

(* The entries a binary brings are of its identifier.                      *)
LEMMA BroughtEntries ==
    ASSUME NEW x \in Bins, NEW infos, NEW entries \in {Found(x), Extracted(x), {}}
    PROVE  \A e \in Joined(infos, entries) :
              e \in infos \/ (e \in Entries /\ Ident[e.from] = Ident[x])
<1>1. \A e \in Extracted(x) : e \in Entries /\ e.from = x
    BY DEF Extracted, Entries
<1>2. x \in Rust => \A e \in Listed(x) : e \in Entries /\ Ident[e.from] = Ident[x]
    <2> SUFFICES ASSUME x \in Rust, NEW e \in Listed(x) PROVE e \in Entries /\ Ident[e.from] = Ident[x]
        OBVIOUS
    <2>1. PICK y \in Rust : Made[y] = Made[x] /\ e = [from |-> y, file |-> Name[y]]
        BY DEF Listed
    <2>2. y \in Bins /\ e.from = y
        BY <2>1, DatasetAssumption
    <2>3. Ident[y] = Ident[x]
        BY <2>1, DatasetAssumption
    <2> QED
        BY <2>1, <2>2, <2>3 DEF Entries
<1>3. \A e \in entries : e \in Entries /\ Ident[e.from] = Ident[x]
    BY <1>1, <1>2 DEF Found
<1> QED
    BY <1>3 DEF Joined

LEMMA EntriesOfFinite ==
    ASSUME TypeInv, NEW file \in staged
    PROVE  /\ IsFiniteSet(EntriesOf(file))
           /\ \A e \in EntriesOf(file) : e \in meta[file.ident].infos /\ StagedNameMatches(e.file, file.name)
<1>1. file.ident \in Idents
    BY IdentInIdents DEF TypeInv, Staging
<1>2. meta[file.ident].infos \subseteq Entries
    BY <1>1 DEF TypeInv, Shape, Metadata
<1>3. EntriesOf(file) \in SUBSET Entries
    BY <1>2 DEF EntriesOf
<1>4. IsFiniteSet(EntriesOf(file))
    BY <1>3, EntriesFinite, FS_Subset
<1> QED
    BY <1>4 DEF EntriesOf

LEMMA PhasesStep == TypeInv /\ [Next]_vars => Phases'
<1>1. SUFFICES ASSUME TypeInv, [Next]_vars PROVE Phases'
    OBVIOUS
<1> USE DEF TypeInv
<1>2. CASE Quiet
    BY <1>1, <1>2, QuietFacts DEF Phases, AfterConnect
<1>3. ASSUME NEW x \in Bins, Build(x) PROVE Phases'
    BY <1>1, <1>3, BuildFacts DEF Phases
<1>4. CASE Start
    BY <1>1, <1>4, StartFacts DEF Phases, AfterConnect
<1>5. CASE NothingToDo
    BY <1>1, <1>5, NothingToDoFacts DEF Phases, AfterConnect
<1>6. ASSUME NEW x \in Bins, Download(x) PROVE Phases'
    BY <1>1, <1>6, DownloadFacts DEF Phases, AfterConnect
<1>7. ASSUME NEW x \in Bins, Stage(x) PROVE Phases'
    BY <1>1, <1>7, StageFacts DEF Phases, AfterConnect
<1>8. CASE GiveUp
    BY <1>1, <1>8, GiveUpFacts DEF Phases, AfterConnect
<1>9. CASE Connect
    BY <1>1, <1>9, ConnectFacts DEF Phases, AfterConnect, Shape
<1>10. ASSUME NEW file \in staged, Turns(file) PROVE Phases'
    <2>1. file.ident \in Idents /\ file.ident # None
        BY <1>1, IdentInIdents, DatasetAssumption DEF Staging, Idents
    <2> QED
        BY <1>1, <1>10, <2>1, TurnFacts DEF Phases, AfterConnect
<1>11. CASE Clear
    BY <1>1, <1>11, ClearFacts DEF Phases, AfterConnect
<1>12. CASE TimeOut
    BY <1>1, <1>12, TimeOutFacts DEF Phases, AfterConnect
<1>13. CASE FlushBinaries
    BY <1>1, <1>13, FlushBinariesFacts DEF Phases, AfterConnect, Shape
<1>14. CASE FlushFunctions
    BY <1>1, <1>14, FlushFunctionsFacts DEF Phases, AfterConnect, Shape
<1>15. CASE FlushRvas
    BY <1>1, <1>15, FlushRvasFacts DEF Phases, AfterConnect, Shape
<1>16. CASE Copy
    BY <1>1, <1>16, CopyFacts DEF Phases, AfterConnect
<1>17. CASE Finish
    BY <1>1, <1>17, FinishFacts DEF Phases, AfterConnect
<1>18. CASE Die
    BY <1>1, <1>18, DieFacts DEF Phases, AfterConnect
<1> QED
    BY <1>1, <1>2, <1>3, <1>4, <1>5, <1>6, <1>7, <1>8, <1>9, <1>10, <1>11, <1>12, <1>13, <1>14,
       <1>15, <1>16, <1>17, <1>18 DEF Next, Quiet, Turns
LEMMA Typed ==
    ASSUME TypeOK
    PROVE  /\ day \in Nat /\ day <= MaxDay /\ 1 <= day
           /\ dayFile \in Nat /\ dayFile <= day /\ wanted \in Nat /\ wanted <= day
           /\ asked \in Nat /\ asked <= day /\ since \in Nat /\ since <= day
           /\ today \in Nat /\ today <= day
           /\ okDays \subseteq Nat
           /\ at \notin {"construct", "clear", "flush", "flushFunctions", "flushRvas"} => pending = Nothing
BY DatasetAssumption DEF TypeOK

LEMMA DaysStep == TypeInv /\ [Next]_vars => Days'
<1>1. SUFFICES ASSUME TypeInv, [Next]_vars PROVE Days'
    OBVIOUS
<1> USE DEF TypeInv
<1>2. CASE Quiet
    <2>1. CASE Midnight
        BY <1>1, Typed, <1>2, <2>1, QuietFacts, DatasetAssumption
        DEF Midnight, dates, Days, AfterStart, Had
    <2>2. CASE LoopLooks
        BY <1>1, Typed, <1>2, <2>2, QuietFacts DEF LoopLooks, clock, dates, Days, AfterStart, Had
    <2>3. CASE Locked
        BY <1>1, Typed, <1>2, <2>3, QuietFacts DEF Locked, clock, dates, Days, AfterStart, Had
    <2>4. CASE RunDaily
        BY <1>1, Typed, <1>2, <2>4, QuietFacts DEF RunDaily, clock, Days, AfterStart, Had
    <2>5. CASE Yesterday
        BY <1>1, Typed, <1>2, <2>5, QuietFacts DEF Yesterday, clock, Days, AfterStart, Had
    <2>6. CASE UNCHANGED vars
        BY <1>1, <2>6 DEF vars, clock, dates, work, history, Days, AfterStart, Had
    <2> QED
        BY <1>2, <2>1, <2>2, <2>3, <2>4, <2>5, <2>6 DEF Quiet
<1>3. ASSUME NEW x \in Bins, Build(x) PROVE Days'
    BY <1>1, <1>3, BuildFacts, Typed DEF Days, Had
<1>4. CASE Start
    <2>1. \A d \in mishaps : d \in mishaps'
        BY <1>4, StartFacts
    <2>2. ~(asked' = today' /\ dayFile' < asked') => \A d \in asked'..today' : Had("astray", d)'
        BY <1>4, StartFacts DEF Had
    <2>3. since' <= today' /\ 1 <= asked' /\ asked' <= since'
        BY <1>1, Typed, <1>4, StartFacts DEF Days, AfterStart
    <2>4. \A r \in db.rows : r.day \in 1..today'
        <3>1. today <= today' /\ today \in Nat /\ today' \in Nat
            BY <1>1, Typed, <1>4, StartFacts
        <3> QED
            BY <1>1, <3>1 DEF Days
    <2>5. pending.rows = {}
        BY <1>1, Typed, <1>4, StartFacts DEF Nothing
    <2> QED
        BY <1>1, Typed, <1>4, StartFacts, <2>2, <2>3, <2>4, <2>5 DEF Days, AfterStart
<1>5. CASE NothingToDo
    <2>1. at \in AfterStart /\ at' \notin AfterStart \cup {"start"}
        BY <1>1, <1>5, NothingToDoFacts DEF AfterStart
    <2> QED
        BY <1>1, <1>5, <2>1, NothingToDoFacts, Typed DEF Days
<1>6. ASSUME NEW x \in Bins, Download(x) PROVE Days'
    <2>1. at \in AfterStart /\ at' \in AfterStart
        BY <1>1, <1>6, DownloadFacts DEF AfterStart
    <2> QED
        BY <1>1, <1>6, <2>1, DownloadFacts, Typed DEF Days, Had
<1>7. ASSUME NEW x \in Bins, Stage(x) PROVE Days'
    <2>1. at \in AfterStart /\ at' \in AfterStart
        BY <1>1, <1>7, StageFacts DEF AfterStart
    <2> QED
        BY <1>1, <1>7, <2>1, StageFacts, Typed DEF Days, Had
<1>8. CASE GiveUp
    <2>1. at \in AfterStart /\ at' \notin AfterStart \cup {"start"}
        BY <1>1, <1>8, GiveUpFacts DEF AfterStart
    <2> QED
        BY <1>1, <1>8, <2>1, GiveUpFacts, Typed DEF Days
<1>9. CASE Connect
    <2>1. (\A r \in db'.rows : r \in db.rows) /\ at \in AfterStart
        BY <1>1, Typed, <1>9, ConnectFacts DEF Shape, AfterStart
    <2> QED
        BY <1>1, Typed, <1>9, <2>1, ConnectFacts DEF Days, AfterStart, Had, Shape
<1>10. ASSUME NEW file \in staged, Turns(file) PROVE Days'
    <2>1. \A r \in pending'.rows : r.day = today
        <3>1. CASE Add(file)
            BY <1>1, <3>1, AddFacts DEF Days, Row
        <3>2. CASE Leave(file)
            BY <1>1, <3>2, LeaveFacts DEF Days
        <3>3. CASE PassOver(file)
            BY <1>1, <3>3, PassOverFacts DEF Days
        <3> QED
            BY <1>10, <3>1, <3>2, <3>3 DEF Turns
    <2>2. at \in AfterStart /\ \A m \in mishaps : m \in mishaps'
        BY <1>10, TurnFacts DEF AfterStart
    <2> QED
        BY <1>1, Typed, <1>10, <2>1, <2>2, TurnFacts DEF Days, AfterStart, Had
<1>11. CASE Clear
    BY <1>1, <1>11, ClearFacts DEF Days, AfterStart, Had
<1>12. CASE TimeOut
    <2>0. pending' = Nothing
        BY <1>12, TimeOutFacts
    <2>1. pending'.rows = {}
        BY <2>0 DEF Nothing
    <2>2. at = "clear" /\ at' = "off" /\ dayFile' = asked
          /\ UNCHANGED <<day, utc, okDays, wanted, asked, since, today, db>>
        BY <1>12, TimeOutFacts
    <2>3. at \in AfterStart /\ at # "off" /\ at' \notin AfterStart \cup {"start"}
        BY <2>2 DEF AfterStart
    <2> QED
        BY <1>1, Typed, <2>1, <2>2, <2>3 DEF Days
<1>13. CASE FlushBinaries
    <2>1. at \in AfterStart /\ at' \in AfterStart
        BY <1>1, Typed, <1>13, FlushBinariesFacts DEF Shape, AfterStart
    <2>2. today \in 1..today
        BY <1>1, Typed, <1>13, <2>1, FlushBinariesFacts DEF Days, Shape
    <2>3. \A r \in db'.rows : r.day \in 1..today
        BY <1>1, Typed, <1>13, <2>2, FlushBinariesFacts DEF Days, Shape
    <2> QED
        BY <1>1, Typed, <1>13, <2>1, <2>3, FlushBinariesFacts DEF Days, Had, Shape
<1>14. CASE FlushFunctions
    <2>1. at \in AfterStart /\ at' \in AfterStart
        BY <1>1, Typed, <1>14, FlushFunctionsFacts DEF Shape, AfterStart
    <2>2. \A r \in db'.rows : r \in db.rows
        BY <1>1, Typed, <1>14, FlushFunctionsFacts DEF Shape
    <2> QED
        BY <1>1, Typed, <1>14, <2>1, <2>2, FlushFunctionsFacts DEF Days, Had, Shape
<1>15. CASE FlushRvas
    <2>1. at \in AfterStart /\ at' \in AfterStart
        BY <1>1, Typed, <1>15, FlushRvasFacts DEF Shape, AfterStart
    <2>2. (\A r \in db'.rows : r \in db.rows) /\ pending'.rows = {}
        BY <1>1, Typed, <1>15, FlushRvasFacts DEF Shape, Nothing
    <2> QED
        BY <1>1, Typed, <1>15, <2>1, <2>2, FlushRvasFacts DEF Days, Had, Shape
<1>16. CASE Copy
    BY <1>1, <1>16, CopyFacts DEF Days, AfterStart, Had
<1>17. CASE Finish
    <2>1. at \in AfterStart /\ at' \notin AfterStart \cup {"start"}
        BY <1>1, <1>17, FinishFacts DEF AfterStart
    <2> QED
        BY <1>1, <1>17, <2>1, FinishFacts, Typed DEF Days
<1>18. CASE Die
    <2>1. pending'.rows = {} /\ at' \notin AfterStart \cup {"start"} /\ at # "off"
        BY <1>18, DieFacts DEF Nothing, AfterStart
    <2> QED
        BY <1>1, Typed, <1>18, <2>1, DieFacts DEF Days
<1> QED
    BY <1>1, <1>2, <1>3, <1>4, <1>5, <1>6, <1>7, <1>8, <1>9, <1>10, <1>11, <1>12, <1>13, <1>14,
       <1>15, <1>16, <1>17, <1>18 DEF Next, Quiet, Turns
(* What Add gives out: an id beyond the last, a row of it, and functions   *)
(* with numbers of their own from the next one on.                         *)
LEMMA Added ==
    ASSUME TypeInv, NEW file \in staged, Add(file)
    PROVE  /\ nextId' \in Nat /\ nextId < nextId'
           /\ nextFun' \in Nat /\ nextFun <= nextFun'
           /\ pending' = [rows |-> pending'.rows, funs |-> pending'.funs]
           /\ pending'.rows = pending.rows \cup {Row(file, nextId')}
           /\ pending.funs \subseteq pending'.funs
           /\ \A f \in pending'.funs \ pending.funs :
                 /\ f.id \in Nat /\ nextFun <= f.id /\ f.id < nextFun' /\ f.row = nextId'
                 /\ \E e \in EntriesOf(file) : f.from = e.from
           /\ \A f, g \in pending'.funs \ pending.funs : f.id = g.id => f = g
           /\ IsFiniteSet(pending'.rows) /\ IsFiniteSet(pending'.funs)
<1> DEFINE E == EntriesOf(file)
           id == IdFor(file.name)
<1>1. nextId \in Nat /\ nextFun \in Nat /\ IsFiniteSet(pending.rows) /\ IsFiniteSet(pending.funs)
    BY DEF TypeInv, Shape
<1>2. nextId' = id /\ id \in Nat /\ nextId < id
    BY <1>1, AddFacts, IdForFile
<1>3. IsFiniteSet(E)
    BY EntriesOfFinite
<1>4. PICK number \in Numberings(E, nextFun) :
          pending' = [rows |-> pending.rows \cup {Row(file, id)},
                      funs |-> pending.funs \cup {[id |-> number[e], row |-> id, from |-> e.from] : e \in E}]
    BY AddFacts
<1> HIDE DEF id, E
<1> DEFINE News == {[id |-> number[e], row |-> id, from |-> e.from] : e \in E}
<1>5. /\ Cardinality(E) \in Nat
      /\ \A e \in E : number[e] \in Nat /\ nextFun <= number[e] /\ number[e] < nextFun + Cardinality(E)
      /\ \A d, e \in E : number[d] = number[e] => d = e
      /\ IsFiniteSet(News)
    <2> DEFINE new == [e \in E |-> [id |-> number[e], row |-> id, from |-> e.from]]
    <2>1. Cardinality(E) \in Nat
        BY <1>3, FS_CardinalityType
    <2>2. number \in [E -> nextFun..(nextFun + Cardinality(E) - 1)]
          /\ \A d, e \in E : number[d] = number[e] => d = e
        BY DEF Numberings
    <2>3. \A e \in E : number[e] \in Nat /\ nextFun <= number[e] /\ number[e] < nextFun + Cardinality(E)
        BY <1>1, <2>1, <2>2
    <2>4. new \in Surjection(E, News)
        BY DEF Surjection
    <2>5. IsFiniteSet(News)
        BY <1>3, <2>4, FS_Surjection
    <2> QED
        BY <2>1, <2>2, <2>3, <2>5
<1>6. nextFun' = nextFun + Cardinality(E)
    BY AddFacts DEF E
<1>7. pending'.rows = pending.rows \cup {Row(file, id)} /\ pending'.funs = pending.funs \cup News
      /\ pending' = [rows |-> pending'.rows, funs |-> pending'.funs]
    BY <1>4
<1>8. IsFiniteSet(pending'.rows) /\ IsFiniteSet(pending'.funs)
    <2>1. IsFiniteSet({Row(file, id)}) /\ IsFiniteSet(News)
        BY <1>5, FS_Singleton
    <2>2. IsFiniteSet(pending.rows \cup {Row(file, id)}) /\ IsFiniteSet(pending.funs \cup News)
        BY <1>1, <2>1, FS_Union
    <2> QED
        BY <1>7, <2>2
<1>9. \A f \in News : /\ f.id \in Nat /\ nextFun <= f.id /\ f.id < nextFun' /\ f.row = id
                      /\ \E e \in E : f.from = e.from
    BY <1>5, <1>6
<1>10. \A f, g \in News : f.id = g.id => f = g
    BY <1>5
<1>11. nextFun' \in Nat /\ nextFun <= nextFun'
    BY <1>1, <1>5, <1>6
<1>12. \A f \in pending'.funs \ pending.funs : f \in News
    BY <1>7
<1>13. pending.funs \subseteq pending'.funs
    BY <1>7
<1> HIDE DEF News
<1> QED
    BY <1>2, <1>7, <1>8, <1>9, <1>10, <1>11, <1>12, <1>13 DEF E

LEMMA RemainsMeta ==
    ASSUME TypeInv, Remains
    PROVE  meta' \in [Idents -> Metadata]
<1>1. meta \in [Idents -> Metadata]
    BY DEF TypeInv, Shape
<1>2. NoMeta \in [Idents -> Metadata]
    BY DEF NoMeta, Metadata
<1> QED
    BY <1>1, <1>2 DEF Remains

LEMMA ShapeStep == TypeInv /\ [Next]_vars => Shape'
<1>1. SUFFICES ASSUME TypeInv, [Next]_vars PROVE Shape'
    OBVIOUS
<1> USE DEF TypeInv
<1>2. CASE Quiet
    BY <1>1, <1>2, QuietFacts DEF Shape
<1>3. ASSUME NEW x \in Bins, Build(x) PROVE Shape'
    BY <1>1, <1>3, BuildFacts DEF Shape
<1>4. CASE Start
    <2>1. NoMeta \in [Idents -> Metadata]
        BY DEF NoMeta, Metadata
    <2> QED
        BY <1>1, <1>4, <2>1, StartFacts DEF Shape
<1>5. CASE NothingToDo
    BY <1>1, <1>5, NothingToDoFacts DEF Shape
<1>6. ASSUME NEW x \in Bins, Download(x) PROVE Shape'
    BY <1>1, <1>6, DownloadFacts DEF Shape
<1>7. ASSUME NEW x \in Bins, Stage(x) PROVE Shape'
    <2>1. Ident[x] \in Idents
        BY IdentInIdents
    <2>2. meta' \in [Idents -> Metadata]
        <3>1. CASE meta' = meta
            BY <1>1, <3>1 DEF Shape
        <3>2. ASSUME NEW entries \in {Found(x), Extracted(x), {}},
                     meta' = [meta EXCEPT ![Ident[x]] =
                        [first |-> IF meta[Ident[x]].first = None THEN x ELSE meta[Ident[x]].first,
                         infos |-> Joined(meta[Ident[x]].infos, entries)]]
              PROVE  meta' \in [Idents -> Metadata]
            <4> DEFINE M == meta[Ident[x]]
            <4>1. M \in Metadata
                BY <1>1, <2>1 DEF Shape
            <4>2. M.infos \subseteq Entries /\ M.first \in Bins \cup {None}
                BY <4>1 DEF Metadata
            <4>3. Joined(M.infos, entries) \subseteq Entries
                BY <3>2, <4>2, BroughtEntries
            <4>4. [first |-> IF M.first = None THEN x ELSE M.first, infos |-> Joined(M.infos, entries)] \in Metadata
                BY <4>2, <4>3 DEF Metadata
            <4> HIDE DEF M
            <4> QED
                BY <1>1, <2>1, <3>2, <4>4 DEF M, Shape
        <3> QED
            BY <1>7, <3>1, <3>2, StageFile
    <2> QED
        BY <1>1, <1>7, <2>2, StageFacts DEF Shape
<1>8. CASE GiveUp
    <2>1. NoMeta \in [Idents -> Metadata]
        BY DEF NoMeta, Metadata
    <2> QED
        BY <1>1, <1>8, <2>1, GiveUpFacts DEF Shape
<1>9. CASE Connect
    <2>1. db'.rows = db.rows /\ db'.funs = db.funs
          /\ db' = [exists |-> db'.exists, rows |-> db'.rows, funs |-> db'.funs, rvas |-> db'.rvas]
        BY <1>1, <1>9, ConnectFacts DEF Shape
    <2>2. nextId' \in Nat /\ nextFun' \in Nat
        <3>1. CASE db.rows # {} /\ db.funs # {}
            <4>1. Max({r.id : r \in db.rows}) \in Nat
                BY <1>1, <3>1, MaxId DEF Shape
            <4>2. Max({f.id : f \in db.funs}) \in Nat
                BY <1>1, <3>1, MaxId DEF Shape
            <4> QED
                BY <1>1, <1>9, <4>1, <4>2, ConnectFacts, DatasetAssumption DEF Shape
        <3>2. CASE ~(db.rows # {} /\ db.funs # {})
            BY <1>1, <1>9, <3>2, ConnectFacts, DatasetAssumption DEF Shape
        <3> QED
            BY <3>1, <3>2
    <2> QED
        BY <1>1, <1>9, <2>1, <2>2, ConnectFacts DEF Shape
<1>10. ASSUME NEW file \in staged, Turns(file) PROVE Shape'
    <2>1. CASE Add(file)
        <3>1. Row(file, nextId').id = nextId' /\ Row(file, nextId').bin = file.bin /\ file.bin \in Bins
            BY <1>1 DEF Row, Staging
        <3>2. \A r \in pending'.rows : r.id \in Nat /\ r.bin \in Bins
            BY <1>1, <2>1, <3>1, Added DEF Shape
        <3>3. \A f \in pending'.funs : f.id \in Nat
            BY <1>1, <2>1, Added DEF Shape
        <3> QED
            BY <1>1, <1>10, <2>1, <3>2, <3>3, Added, TurnFacts DEF Shape
    <2>2. CASE Leave(file)
        BY <1>1, <1>10, <2>2, LeaveFacts, IdForFile, TurnFacts DEF Shape
    <2>3. CASE PassOver(file)
        BY <1>1, <1>10, <2>3, PassOverFacts, TurnFacts DEF Shape
    <2> QED
        BY <1>10, <2>1, <2>2, <2>3 DEF Turns
<1>11. CASE Clear
    <2>1. NoMeta \in [Idents -> Metadata]
        BY DEF NoMeta, Metadata
    <2>2. [meta EXCEPT ![cur] = NoMeta[cur]] \in [Idents -> Metadata]
        BY <1>1, <2>1 DEF Shape
    <2> QED
        BY <1>1, <1>11, <2>2, ClearFacts DEF Shape
<1>12. CASE TimeOut
    <2>1. meta' \in [Idents -> Metadata]
        <3>1. Remains
            BY <1>12, TimeOutFacts
        <3> QED
            BY <1>1, <3>1, RemainsMeta
    <2>2. pending' = [rows |-> pending'.rows, funs |-> pending'.funs]
          /\ pending'.rows = {} /\ pending'.funs = {} /\ IsFiniteSet({})
        <3>1. pending' = Nothing
            BY <1>12, TimeOutFacts
        <3> QED
            BY <3>1, FS_EmptySet DEF Nothing
    <2>3. nextId' = 0 /\ nextFun' = 0 /\ db' = db
        BY <1>12, TimeOutFacts
    <2> QED
        BY <1>1, <2>1, <2>2, <2>3 DEF Shape
<1>13. CASE FlushBinaries
    <2>1. db.rows \cup pending.rows \in SUBSET (db.rows \cup pending.rows)
          /\ IsFiniteSet(db.rows \cup pending.rows)
        BY <1>1, FS_Union DEF Shape
    <2>2. db' = [exists |-> db'.exists, rows |-> db'.rows, funs |-> db'.funs, rvas |-> db'.rvas]
          /\ db'.rows \subseteq db.rows \cup pending.rows /\ db'.funs = db.funs
        BY <1>1, <1>13, FlushBinariesFacts DEF Shape
    <2>3. IsFiniteSet(db'.rows)
        BY <2>1, <2>2, FS_Subset
    <2> QED
        BY <1>1, <1>13, <2>2, <2>3, FlushBinariesFacts DEF Shape
<1>14. CASE FlushFunctions
    <2>1. IsFiniteSet(db.funs \cup pending.funs)
        BY <1>1, FS_Union DEF Shape
    <2>2. db' = [exists |-> db'.exists, rows |-> db'.rows, funs |-> db'.funs, rvas |-> db'.rvas]
          /\ db'.funs \subseteq db.funs \cup pending.funs /\ db'.rows = db.rows
        BY <1>1, <1>14, FlushFunctionsFacts DEF Shape
    <2>3. IsFiniteSet(db'.funs)
        BY <2>1, <2>2, FS_Subset
    <2> QED
        BY <1>1, <1>14, <2>2, <2>3, FlushFunctionsFacts DEF Shape
<1>15. CASE FlushRvas
    <2>1. db' = [exists |-> db'.exists, rows |-> db'.rows, funs |-> db'.funs, rvas |-> db'.rvas]
          /\ db'.rows = db.rows /\ db'.funs = db.funs
        BY <1>1, <1>15, FlushRvasFacts DEF Shape
    <2>2. pending' = [rows |-> pending'.rows, funs |-> pending'.funs]
          /\ pending'.rows = {} /\ pending'.funs = {} /\ IsFiniteSet({})
        BY <1>1, <1>15, FlushRvasFacts, FS_EmptySet DEF Shape, Nothing
    <2> QED
        BY <1>1, <1>15, <2>1, <2>2, FlushRvasFacts DEF Shape
<1>16. CASE Copy
    BY <1>1, <1>16, CopyFacts DEF Shape
<1>17. CASE Finish
    <2>1. NoMeta \in [Idents -> Metadata]
        BY DEF NoMeta, Metadata
    <2> QED
        BY <1>1, <1>17, <2>1, FinishFacts DEF Shape
<1>18. CASE Die
    <2>1. meta' \in [Idents -> Metadata]
        BY <1>1, <1>18, DieFacts, RemainsMeta DEF Shape
    <2>2. pending' = [rows |-> pending'.rows, funs |-> pending'.funs]
          /\ pending'.rows = {} /\ pending'.funs = {} /\ IsFiniteSet({})
        <3>1. pending' = Nothing
            BY <1>18, DieFacts
        <3> QED
            BY <3>1, FS_EmptySet DEF Nothing
    <2>3. nextId' \in Nat /\ nextFun' \in Nat /\ db' = db
        BY <1>18, DieFacts
    <2> QED
        BY <1>1, <2>1, <2>2, <2>3 DEF Shape
<1> QED
    BY <1>1, <1>2, <1>3, <1>4, <1>5, <1>6, <1>7, <1>8, <1>9, <1>10, <1>11, <1>12, <1>13, <1>14,
       <1>15, <1>16, <1>17, <1>18 DEF Next, Quiet, Turns
LEMMA StagingStep == TypeInv /\ [Next]_vars => Staging'
<1>1. SUFFICES ASSUME TypeInv, [Next]_vars PROVE Staging'
    OBVIOUS
<1> USE DEF TypeInv
<1>2. CASE Quiet
    BY <1>1, <1>2, QuietFacts DEF Staging
<1>3. ASSUME NEW x \in Bins, Build(x) PROVE Staging'
    BY <1>1, <1>3, BuildFacts DEF Staging
<1>4. CASE Start
    BY <1>1, <1>4, StartFacts DEF Staging
<1>5. CASE NothingToDo
    BY <1>1, <1>5, NothingToDoFacts DEF Staging
<1>6. ASSUME NEW x \in Bins, Download(x) PROVE Staging'
    BY <1>1, <1>6, DownloadFacts DEF Staging
<1>7. ASSUME NEW x \in Bins, Stage(x) PROVE Staging'
    <2>1. \/ staged' = staged
          \/ staged' = {f \in staged : <<f.ident, f.name>> # Key(x)}
                 \cup {[ident |-> Ident[x], name |-> Name[x], bin |-> x, cut |-> raw[x] = "cut"]}
        BY <1>7, StageFile
    <2> QED
        BY <1>1, <2>1 DEF Staging, Key
<1>8. CASE GiveUp
    BY <1>1, <1>8, GiveUpFacts DEF Staging
<1>9. CASE Connect
    BY <1>1, <1>9, ConnectFacts DEF Staging, Shape
<1>10. ASSUME NEW file \in staged, Turns(file) PROVE Staging'
    <2>1. staged' \subseteq staged
        BY <1>10, TurnFacts
    <2> QED
        BY <1>1, <2>1 DEF Staging
<1>11. CASE Clear
    BY <1>1, <1>11, ClearFacts DEF Staging
<1>12. CASE TimeOut
    <2>1. staged' \subseteq staged
        BY <1>12, TimeOutFacts DEF Remains
    <2> QED
        BY <1>1, <2>1 DEF Staging
<1>13. CASE FlushBinaries
    BY <1>1, <1>13, FlushBinariesFacts DEF Staging, Shape
<1>14. CASE FlushFunctions
    BY <1>1, <1>14, FlushFunctionsFacts DEF Staging, Shape
<1>15. CASE FlushRvas
    BY <1>1, <1>15, FlushRvasFacts DEF Staging, Shape
<1>16. CASE Copy
    BY <1>1, <1>16, CopyFacts DEF Staging
<1>17. CASE Finish
    BY <1>1, <1>17, FinishFacts DEF Staging
<1>18. CASE Die
    <2>1. staged' \subseteq staged
        BY <1>18, DieFacts DEF Remains
    <2> QED
        BY <1>1, <2>1 DEF Staging
<1> QED
    BY <1>1, <1>2, <1>3, <1>4, <1>5, <1>6, <1>7, <1>8, <1>9, <1>10, <1>11, <1>12, <1>13, <1>14,
       <1>15, <1>16, <1>17, <1>18 DEF Next, Quiet, Turns
-----------------------------------------------------------------------------
TypedDates ==
    /\ day \in 1..MaxDay /\ utc - day \in UtcAhead
    /\ built \in [Bins -> [day : 0..day, utc : 0..utc]]
    /\ dayFile \in 0..day /\ okDays \subseteq 1..day
    /\ wanted \in 0..day /\ asked \in 0..day /\ since \in 0..day /\ today \in 0..day
    /\ missed \subseteq Bins \X (1..day)

TypedWork ==
    /\ at \in {"off", "asked", "start", "download", "stage", "staging", "giveUp", "connect",
              "construct", "clear", "flush", "flushFunctions", "flushRvas", "copy", "remove"}
    /\ db.exists \in BOOLEAN /\ (db.rows # {} \/ db.funs # {} => db.exists)
    /\ raw \in [Bins -> {"no", "whole", "cut"}]
    /\ todo \subseteq Bins /\ got \subseteq {x \in Bins : raw[x] # "no"}
    /\ \A f \in staged : meta[f.ident].first # None
    /\ tried \subseteq staged /\ (tried # {} => cur # None) /\ (at = "clear" => cur # None)
    /\ pending # Nothing => at \in {"construct", "clear", "flush", "flushFunctions", "flushRvas"}

LEMMA TypeParts == TypeOK <=> TypedDates /\ TypedWork
BY DEF TypeOK, TypedDates, TypedWork

(* A run that has started has a day. *)
LEMMA TodayNat ==
    ASSUME TypeInv, at \in AfterStart
    PROVE  today \in 1..day
BY Typed DEF TypeInv, Days, AfterStart

LEMMA DatesStep == TypeInv /\ [Next]_vars => TypedDates'
<1>1. SUFFICES ASSUME TypeInv, [Next]_vars PROVE TypedDates'
    OBVIOUS
<1> USE TypeParts DEF TypeInv
<1>2. CASE Quiet
    <2>1. CASE Midnight
        <3>1. day \in Nat /\ day' \in Nat /\ day <= day' /\ day' <= MaxDay /\ utc \in Nat /\ utc' \in Nat
              /\ utc <= utc' /\ utc' - day' \in UtcAhead
            BY <1>1, <2>1, Typed, DatasetAssumption DEF Midnight, Days
        <3>2. 0..day \subseteq 0..day' /\ 0..utc \subseteq 0..utc' /\ 1..day \subseteq 1..day'
            BY <3>1
        <3>3. built \in [Bins -> [day : 0..day', utc : 0..utc']]
            BY <1>1, <3>2 DEF TypedDates
        <3> QED
            BY <1>1, <2>1, <3>1, <3>2, <3>3, Typed, DatasetAssumption
            DEF Midnight, dates, history, TypedDates
    <2>2. CASE LoopLooks
        BY <1>1, <2>2, Typed DEF LoopLooks, clock, dates, history, TypedDates
    <2>3. CASE Locked
        BY <1>1, <2>3, Typed DEF Locked, clock, dates, history, TypedDates
    <2>4. CASE RunDaily
        BY <1>1, <2>4, Typed DEF RunDaily, clock, history, TypedDates
    <2>5. CASE Yesterday
        BY <1>1, <2>5, Typed DEF Yesterday, clock, history, TypedDates
    <2>6. CASE UNCHANGED vars
        BY <1>1, <2>6 DEF vars, clock, dates, history, TypedDates
    <2> QED
        BY <1>2, <2>1, <2>2, <2>3, <2>4, <2>5, <2>6 DEF Quiet
<1>3. ASSUME NEW x \in Bins, Build(x) PROVE TypedDates'
    <2>1. day \in 0..day /\ utc \in 0..utc
        BY <1>1, Typed DEF Days
    <2>2. built' \in [Bins -> [day : 0..day, utc : 0..utc]]
        BY <1>1, <1>3, <2>1, BuildFacts DEF TypedDates
    <2> QED
        BY <1>1, <1>3, <2>2, BuildFacts DEF TypedDates
<1>4. CASE Start
    <2>1. day \in 0..day
        BY <1>1, Typed
    <2>2. missed' \subseteq missed
        BY <1>4, StartFacts
    <2> QED
        BY <1>1, <1>4, <2>1, <2>2, StartFacts DEF TypedDates
<1>5. CASE NothingToDo
    <2>1. asked \in 1..day
        BY <1>1, <1>5, NothingToDoFacts, Typed DEF Days
    <2> QED
        BY <1>1, <1>5, <2>1, NothingToDoFacts DEF TypedDates
<1>6. ASSUME NEW x \in Bins, Download(x) PROVE TypedDates'
    <2>1. today \in 1..day
        BY <1>1, <1>6, DownloadFacts, TodayNat DEF AfterStart
    <2>2. missed' \subseteq Bins \X (1..day)
        BY <1>1, <1>6, <2>1, DownloadFacts DEF TypedDates
    <2> QED
        BY <1>1, <1>6, <2>2, DownloadFacts DEF TypedDates
<1>7. ASSUME NEW x \in Bins, Stage(x) PROVE TypedDates'
    <2>1. today \in 1..day
        BY <1>1, <1>7, StageFacts, TodayNat DEF AfterStart
    <2>2. missed' \subseteq missed \cup {<<x, today>>}
        BY <1>7, StageFile
    <2>3. missed' \subseteq Bins \X (1..day)
        BY <1>1, <2>1, <2>2 DEF TypedDates
    <2> QED
        BY <1>1, <1>7, <2>3, StageFacts DEF TypedDates
<1>8. CASE GiveUp
    <2>1. asked \in 1..day
        BY <1>1, <1>8, GiveUpFacts, Typed DEF Days
    <2> QED
        BY <1>1, <1>8, <2>1, GiveUpFacts DEF TypedDates
<1>9. CASE Connect
    BY <1>1, <1>9, ConnectFacts DEF TypedDates, Shape
<1>10. ASSUME NEW file \in staged, Turns(file) PROVE TypedDates'
    <2>1. today \in 1..day /\ file.bin \in Bins
        BY <1>1, <1>10, TurnFacts, TodayNat DEF AfterStart, Staging
    <2>2. missed' \subseteq missed \cup {<<file.bin, today>>}
        BY <1>10, AddFacts, LeaveFacts, PassOverFacts DEF Turns
    <2>3. missed' \subseteq Bins \X (1..day)
        BY <1>1, <2>1, <2>2 DEF TypedDates
    <2> QED
        BY <1>1, <1>10, <2>3, TurnFacts DEF TypedDates
<1>11. CASE Clear
    BY <1>1, <1>11, ClearFacts DEF TypedDates
<1>12. CASE TimeOut
    <2>1. dayFile' = asked /\ UNCHANGED <<day, utc, built, okDays, wanted, asked, since, today, missed>>
        BY <1>12, TimeOutFacts
    <2> QED
        BY <1>1, <2>1 DEF TypedDates
<1>13. CASE FlushBinaries
    <2>1. today \in 1..day /\ \A r \in pending.rows : r.bin \in Bins
        BY <1>1, <1>13, FlushBinariesFacts, TodayNat DEF AfterStart, Shape
    <2>2. missed' \subseteq missed \cup {<<r.bin, today>> : r \in pending.rows}
        BY <1>1, <1>13, FlushBinariesFacts DEF Shape
    <2>3. missed' \subseteq Bins \X (1..day)
        BY <1>1, <2>1, <2>2 DEF TypedDates
    <2> QED
        BY <1>1, <1>13, <2>3, FlushBinariesFacts DEF TypedDates, Shape
<1>14. CASE FlushFunctions
    BY <1>1, <1>14, FlushFunctionsFacts DEF TypedDates, Shape
<1>15. CASE FlushRvas
    BY <1>1, <1>15, FlushRvasFacts DEF TypedDates, Shape
<1>16. CASE Copy
    BY <1>1, <1>16, CopyFacts DEF TypedDates
<1>17. CASE Finish
    <2>1. asked \in 1..day
        BY <1>1, <1>17, FinishFacts, Typed DEF Days
    <2> QED
        BY <1>1, <1>17, <2>1, FinishFacts DEF TypedDates
<1>18. CASE Die
    BY <1>1, <1>18, DieFacts DEF TypedDates
<1> QED
    BY <1>1, <1>2, <1>3, <1>4, <1>5, <1>6, <1>7, <1>8, <1>9, <1>10, <1>11, <1>12, <1>13, <1>14,
       <1>15, <1>16, <1>17, <1>18 DEF Next, Quiet, Turns
(* Clearing an identifier takes all its files and its metadata.            *)
LEMMA CutMeta ==
    ASSUME TypeInv, at = "clear", staged' = staged \ tried, meta' = [meta EXCEPT ![cur] = NoMeta[cur]]
    PROVE  \A f \in staged' : meta'[f.ident].first # None
<1> SUFFICES ASSUME NEW f \in staged' PROVE meta'[f.ident].first # None
    OBVIOUS
<1>1. f \in staged /\ f.ident # cur
    BY DEF TypeInv, Phases
<1>2. f.ident \in Idents
    BY <1>1, IdentInIdents DEF TypeInv, Staging
<1>3. meta'[f.ident] = meta[f.ident]
    BY <1>1, <1>2 DEF TypeInv, Shape
<1> QED
    BY <1>1, <1>3 DEF TypeInv, TypeOK

LEMMA WorkStep == TypeInv /\ [Next]_vars => TypedWork'
<1>1. SUFFICES ASSUME TypeInv, [Next]_vars PROVE TypedWork'
    OBVIOUS
<1> USE TypeParts DEF TypeInv
<1>2. CASE Quiet
    <2>1. at' \in {"off", "asked", "start", "download", "stage", "staging", "giveUp", "connect",
              "construct", "clear", "flush", "flushFunctions", "flushRvas", "copy", "remove"}
        BY <1>1, <1>2, QuietFacts DEF TypedWork
    <2> QED
        BY <1>1, <1>2, <2>1, QuietFacts DEF TypedWork
<1>3. ASSUME NEW x \in Bins, Build(x) PROVE TypedWork'
    BY <1>1, <1>3, BuildFacts DEF TypedWork
<1>4. CASE Start
    <2>1. todo' \subseteq Bins /\ got' = {} /\ tried' = {} /\ cur' = None
        BY <1>1, <1>4, StartFacts DEF QueryNewBinaries, Phases
    <2>2. raw' \in [Bins -> {"no", "whole", "cut"}]
        BY <1>1, <1>4, StartFacts DEF TypedWork
    <2>3. \A f \in staged' : meta'[f.ident].first # None
        BY <1>1, <1>4, StartFacts DEF TypedWork
    <2> QED
        BY <1>1, <1>4, <2>1, <2>2, <2>3, StartFacts DEF TypedWork
<1>5. CASE NothingToDo
    BY <1>1, <1>5, NothingToDoFacts DEF TypedWork
<1>6. ASSUME NEW x \in Bins, Download(x) PROVE TypedWork'
    <2>1. raw' \in [Bins -> {"no", "whole", "cut"}]
        BY <1>1, <1>6, DownloadFacts DEF TypedWork
    <2>2. got' \subseteq {y \in Bins : raw'[y] # "no"}
        BY <1>1, <1>6, DownloadFacts DEF TypedWork
    <2>3. pending' = Nothing /\ at' # "clear" /\ todo' \subseteq Bins
        BY <1>1, <1>6, DownloadFacts DEF TypedWork
    <2>4. UNCHANGED <<db, staged, meta, tried, cur>> /\ at' \in {"download", "stage", "giveUp"}
        BY <1>6, DownloadFacts
    <2> QED
        BY <1>1, <2>1, <2>2, <2>3, <2>4 DEF TypedWork
<1>7. ASSUME NEW x \in Bins, Stage(x) PROVE TypedWork'
    <2>1. tried' = {} /\ got' \subseteq got
        BY <1>1, <1>7, StageFacts DEF Phases
    <2>2. \A f \in staged' : meta'[f.ident].first # None
        <3>1. CASE UNCHANGED <<staged, meta>>
            BY <1>1, <3>1 DEF TypedWork
        <3>2. ASSUME NEW entries \in {Found(x), Extracted(x), {}},
                     staged' = {f \in staged : <<f.ident, f.name>> # Key(x)}
                        \cup {[ident |-> Ident[x], name |-> Name[x], bin |-> x, cut |-> raw[x] = "cut"]},
                     meta' = [meta EXCEPT ![Ident[x]] =
                        [first |-> IF meta[Ident[x]].first = None THEN x ELSE meta[Ident[x]].first,
                         infos |-> Joined(meta[Ident[x]].infos, entries)]]
              PROVE  \A f \in staged' : meta'[f.ident].first # None
            <4>1. meta'[Ident[x]].first # None
                BY <1>1, <3>2, IdentInIdents, DatasetAssumption DEF Shape
            <4>2. \A f \in staged' : f.ident # Ident[x] => f \in staged /\ f.ident \in Idents
                BY <1>1, <3>2, IdentInIdents DEF Staging
            <4>3. \A i \in Idents : i # Ident[x] => meta'[i] = meta[i]
                BY <1>1, <3>2 DEF Shape
            <4>4. \A f \in staged : meta[f.ident].first # None
                BY <1>1 DEF TypedWork
            <4> QED
                BY <4>1, <4>2, <4>3, <4>4
        <3> QED
            BY <1>7, <3>1, <3>2, StageFile
    <2>3. pending' = Nothing /\ at' \in {"stage", "staging", "giveUp", "connect"}
        BY <1>1, <1>7, StageFacts DEF TypedWork
    <2>4. UNCHANGED <<db, raw, todo, cur>>
        BY <1>7, StageFacts
    <2> QED
        BY <1>1, <2>1, <2>2, <2>3, <2>4 DEF TypedWork
<1>8. CASE GiveUp
    BY <1>1, <1>8, GiveUpFacts DEF TypedWork, Phases
<1>9. CASE Connect
    BY <1>1, <1>9, ConnectFacts DEF TypedWork, Shape
<1>10. ASSUME NEW file \in staged, Turns(file) PROVE TypedWork'
    <2>1. \A f \in staged' : meta'[f.ident].first # None
        BY <1>1, <1>10, TurnFacts DEF TypedWork
    <2>2. file.ident # None
        BY <1>1, IdentInIdents, DatasetAssumption DEF Staging, Idents
    <2>3. tried' \subseteq staged'
        BY <1>1, <1>10, TurnFacts DEF TypedWork
    <2> QED
        BY <1>1, <1>10, <2>1, <2>2, <2>3, TurnFacts DEF TypedWork
<1>11. CASE Clear
    <2>1. \A f \in staged' : meta'[f.ident].first # None
        BY <1>1, <1>11, ClearFacts, CutMeta
    <2> QED
        BY <1>1, <1>11, <2>1, ClearFacts DEF TypedWork
<1>12. CASE TimeOut
    <2>1. at = "clear" /\ Remains
        BY <1>12, TimeOutFacts
    <2>2. \A f \in staged' : meta'[f.ident].first # None
        BY <1>1, <2>1, CutMeta DEF Remains, TypedWork
    <2>3. UNCHANGED <<db, raw>> /\ at' = "off" /\ todo' = {} /\ got' = {} /\ tried' = {} /\ pending' = Nothing
        BY <1>12, TimeOutFacts
    <2> QED
        BY <1>1, <2>2, <2>3 DEF TypedWork
<1>13. CASE FlushBinaries
    <2>1. db'.exists = db.exists /\ db.exists /\ pending' = pending
        BY <1>1, <1>13, FlushBinariesFacts DEF Phases, AfterConnect, Shape
    <2> QED
        BY <1>1, <1>13, <2>1, FlushBinariesFacts DEF TypedWork, Shape
<1>14. CASE FlushFunctions
    <2>1. db'.exists = db.exists /\ db.exists /\ pending' = pending
        BY <1>1, <1>14, FlushFunctionsFacts DEF Phases, AfterConnect, Shape
    <2> QED
        BY <1>1, <1>14, <2>1, FlushFunctionsFacts DEF TypedWork, Shape
<1>15. CASE FlushRvas
    <2>1. db'.exists = db.exists /\ db.exists /\ pending' = Nothing
        BY <1>1, <1>15, FlushRvasFacts DEF Phases, AfterConnect, Shape
    <2> QED
        BY <1>1, <1>15, <2>1, FlushRvasFacts DEF TypedWork, Shape
<1>16. CASE Copy
    BY <1>1, <1>16, CopyFacts DEF TypedWork
<1>17. CASE Finish
    BY <1>1, <1>17, FinishFacts DEF TypedWork, Phases
<1>18. CASE Die
    <2>1. \/ staged' = staged /\ meta' = meta
          \/ at = "clear" /\ Remains
        BY <1>18, DieFacts
    <2>2. \A f \in staged' : meta'[f.ident].first # None
        BY <1>1, <2>1, CutMeta DEF Remains, TypedWork
    <2>3. raw' \in [Bins -> {"no", "whole", "cut"}]
        BY <1>1, <1>18, DieFacts DEF TypedWork
    <2>4. UNCHANGED db /\ at' = "off" /\ todo' = {} /\ got' = {} /\ tried' = {} /\ pending' = Nothing
        BY <1>18, DieFacts
    <2> QED
        BY <1>1, <2>2, <2>3, <2>4 DEF TypedWork
<1> QED
    BY <1>1, <1>2, <1>3, <1>4, <1>5, <1>6, <1>7, <1>8, <1>9, <1>10, <1>11, <1>12, <1>13, <1>14,
       <1>15, <1>16, <1>17, <1>18 DEF Next, Quiet, Turns
LEMMA TypeInit == Init => TypeInv
<1> SUFFICES ASSUME Init PROVE TypeInv
    OBVIOUS
<1>1. TypeOK
    BY DatasetAssumption DEF Init, TypeOK, NotBuilt, Nothing
<1>2. NoMeta \in [Idents -> Metadata]
    BY DEF NoMeta, Metadata
<1>3. Shape
    <2>1. pending.rows = {} /\ pending.funs = {} /\ db.rows = {} /\ db.funs = {} /\ IsFiniteSet({})
        BY FS_EmptySet DEF Init, Nothing
    <2>2. pending = [rows |-> pending.rows, funs |-> pending.funs]
          /\ db = [exists |-> db.exists, rows |-> db.rows, funs |-> db.funs, rvas |-> db.rvas]
        BY DEF Init, Nothing
    <2> QED
        BY <1>2, <2>1, <2>2 DEF Init, Shape
<1>4. Days
    BY DEF Init, Days, AfterStart, Nothing
<1>5. Phases /\ Staging
    BY DEF Init, Phases, AfterConnect, Staging
<1> QED
    BY <1>1, <1>3, <1>4, <1>5 DEF TypeInv

LEMMA TypeStep == TypeInv /\ [Next]_vars => TypeInv'
<1> SUFFICES ASSUME TypeInv, [Next]_vars PROVE TypeInv'
    OBVIOUS
<1>1. TypedDates' /\ TypedWork'
    BY DatesStep, WorkStep
<1>2. TypeOK'
    BY <1>1 DEF TypeOK, TypedDates, TypedWork
<1>3. Shape' /\ Days' /\ Phases' /\ Staging'
    BY ShapeStep, DaysStep, PhasesStep, StagingStep
<1> QED
    BY <1>2, <1>3 DEF TypeInv

LEMMA TypeInvHolds == Spec => []TypeInv
<1>1. Init => TypeInv
    BY TypeInit
<1>2. TypeInv /\ [Next]_vars => TypeInv'
    BY TypeStep
<1> QED
    BY <1>1, <1>2, PTL DEF Spec

(* Type correctness: every variable keeps its type, rows are in memory     *)
(* only between reading the ids and flushing, and a staged file's          *)
(* identifier has metadata.                                                *)
THEOREM TypeCorrect == Spec => []TypeOK
<1>1. TypeInv => TypeOK
    BY DEF TypeInv
<1> QED
    BY <1>1, TypeInvHolds, PTL

-----------------------------------------------------------------------------
(* Ids and what refers to them.                                            *)

Counting == {"construct", "clear", "flush", "flushFunctions", "flushRvas"}

(* While a run counts, what it counts from is not below what was used.     *)
Ids ==
    /\ \A r, s \in db.rows \cup pending.rows : r.id = s.id => r = s
    /\ at \in Counting => \A r \in db.rows \cup pending.rows : r.id <= nextId

FunIds ==
    /\ \A f, g \in db.funs \cup pending.funs : f.id = g.id => f = g
    /\ at \in Counting => \A f \in db.funs \cup pending.funs : f.id < nextFun

(* The entries of an identifier are of its binaries, the functions of a    *)
(* run are of its rows, and a table refers to what was flushed before it.  *)
Functions ==
    /\ \A i \in Idents : \A e \in meta[i].infos : Ident[e.from] = i
    /\ \A f \in pending.funs : \E r \in pending.rows : Belongs(f, r)
    /\ at \in {"flushFunctions", "flushRvas"} =>
          \A r \in pending.rows : r \in db.rows \/ <<"binaries", r.id>> \in refused
    /\ at = "flushRvas" =>
          \A f \in pending.funs : f \in db.funs \/ <<"functions", f.id>> \in refused
    /\ \A f \in db.funs : (\E r \in db.rows : Belongs(f, r)) \/ <<"binaries", f.row>> \in refused
    /\ \A v \in db.rvas :
          \/ \E f \in db.funs : f.id = v.fun /\ f.from = v.from
          \/ <<"functions", v.fun>> \in refused

IdInv == TypeInv /\ Ids /\ FunIds /\ Functions

LEMMA IdsStep == IdInv /\ [Next]_vars => Ids'
<1>1. SUFFICES ASSUME IdInv, [Next]_vars PROVE Ids'
    OBVIOUS
<1> USE DEF IdInv, TypeInv
<1>2. CASE Quiet
    BY <1>1, <1>2, QuietFacts DEF Ids, Counting
<1>3. ASSUME NEW x \in Bins, Build(x) PROVE Ids'
    BY <1>1, <1>3, BuildFacts DEF Ids, Counting
<1>4. CASE Start
    BY <1>1, <1>4, StartFacts DEF Ids, Counting
<1>5. CASE NothingToDo
    BY <1>1, <1>5, NothingToDoFacts DEF Ids, Counting
<1>6. ASSUME NEW x \in Bins, Download(x) PROVE Ids'
    BY <1>1, <1>6, DownloadFacts DEF Ids, Counting
<1>7. ASSUME NEW x \in Bins, Stage(x) PROVE Ids'
    BY <1>1, <1>7, StageFacts DEF Ids, Counting
<1>8. CASE GiveUp
    BY <1>1, <1>8, GiveUpFacts DEF Ids, Counting
<1>9. CASE Connect
    <2>1. db'.rows = db.rows /\ pending'.rows = {} /\ pending.rows = {}
        BY <1>1, <1>9, ConnectFacts, Typed DEF Shape, Nothing
    <2>2. at' = "construct" => \A r \in db.rows : r.id <= nextId'
        <3>1. CASE db.rows # {} /\ db.funs # {}
            <4>1. Max({r.id : r \in db.rows}) \in Nat /\ \A r \in db.rows : r.id <= Max({q.id : q \in db.rows})
                BY <1>1, <3>1, MaxId DEF Shape
            <4>2. \A r \in db.rows : r.id \in Nat
                BY <1>1 DEF Shape
            <4>3. db.exists
                BY <1>1, <3>1 DEF TypeOK
            <4>4. at' = "construct" => nextId' = Max({q.id : q \in db.rows}) + 1
                BY <1>1, <1>9, <4>3, ConnectFacts DEF Shape
            <4> QED
                BY <4>1, <4>2, <4>4
        <3>2. CASE at' = "construct" /\ ~(db.rows # {} /\ db.funs # {})
            <4>1. db.rows = {}
                BY <1>1, <1>9, <3>2, ConnectFacts DEF Shape, TypeOK
            <4> QED
                BY <4>1
        <3> QED
            BY <3>1, <3>2
    <2>3. at' \in Counting => at' = "construct"
        BY <1>1, <1>9, ConnectFacts DEF Shape, Counting
    <2> QED
        BY <1>1, <2>1, <2>2, <2>3 DEF Ids
<1>10. ASSUME NEW file \in staged, Turns(file) PROVE Ids'
    <2>1. at \in Counting /\ db' = db
        BY <1>10, TurnFacts DEF Counting
    <2>2. CASE Add(file)
        <3>1. /\ nextId \in Nat /\ nextId' \in Nat /\ nextId < nextId'
              /\ pending'.rows = pending.rows \cup {Row(file, nextId')}
            BY <1>1, <2>2, Added DEF Shape
        <3>2. Row(file, nextId').id = nextId'
            BY DEF Row
        <3>3. \A r \in db.rows \cup pending.rows : r.id \in Nat /\ r.id <= nextId
            BY <1>1, <2>1 DEF Ids, Shape
        <3> QED
            BY <1>1, <2>1, <3>1, <3>2, <3>3 DEF Ids
    <2>3. CASE Leave(file)
        <3>1. pending' = pending /\ nextId \in Nat /\ nextId' \in Nat /\ nextId < nextId'
            BY <1>1, <2>3, LeaveFacts, IdForFile DEF Shape
        <3>2. \A r \in db.rows \cup pending.rows : r.id \in Nat /\ r.id <= nextId
            BY <1>1, <2>1 DEF Ids, Shape
        <3> QED
            BY <1>1, <2>1, <3>1, <3>2 DEF Ids
    <2>4. CASE PassOver(file)
        BY <1>1, <2>1, <2>4, PassOverFacts DEF Ids
    <2> QED
        BY <1>10, <2>2, <2>3, <2>4 DEF Turns
<1>11. CASE Clear
    BY <1>1, <1>11, ClearFacts DEF Ids, Counting
<1>12. CASE TimeOut
    <2>1. UNCHANGED db /\ at' \notin Counting /\ pending' = Nothing
        BY <1>12, TimeOutFacts DEF Counting
    <2> QED
        BY <1>1, <2>1 DEF Ids, Nothing
<1>13. CASE FlushBinaries
    <2>1. db'.rows \cup pending'.rows \subseteq db.rows \cup pending.rows /\ at \in Counting
        BY <1>1, <1>13, FlushBinariesFacts DEF Shape, Counting
    <2> QED
        BY <1>1, <1>13, <2>1, FlushBinariesFacts DEF Ids, Shape
<1>14. CASE FlushFunctions
    <2>1. db'.rows \cup pending'.rows \subseteq db.rows \cup pending.rows /\ at \in Counting
        BY <1>1, <1>14, FlushFunctionsFacts DEF Shape, Counting
    <2> QED
        BY <1>1, <1>14, <2>1, FlushFunctionsFacts DEF Ids, Shape
<1>15. CASE FlushRvas
    <2>1. db'.rows = db.rows /\ pending'.rows = {} /\ at \in Counting
        BY <1>1, <1>15, FlushRvasFacts DEF Shape, Nothing, Counting
    <2> QED
        BY <1>1, <1>15, <2>1, FlushRvasFacts DEF Ids, Shape
<1>16. CASE Copy
    BY <1>1, <1>16, CopyFacts DEF Ids, Counting
<1>17. CASE Finish
    BY <1>1, <1>17, FinishFacts DEF Ids, Counting
<1>18. CASE Die
    <2>1. UNCHANGED db /\ at' \notin Counting /\ pending' = Nothing
        BY <1>18, DieFacts DEF Counting
    <2> QED
        BY <1>1, <2>1 DEF Ids, Nothing
<1> QED
    BY <1>1, <1>2, <1>3, <1>4, <1>5, <1>6, <1>7, <1>8, <1>9, <1>10, <1>11, <1>12, <1>13, <1>14,
       <1>15, <1>16, <1>17, <1>18 DEF Next, Quiet, Turns
LEMMA FunIdsStep == IdInv /\ [Next]_vars => FunIds'
<1>1. SUFFICES ASSUME IdInv, [Next]_vars PROVE FunIds'
    OBVIOUS
<1> USE DEF IdInv, TypeInv
<1>2. CASE Quiet
    BY <1>1, <1>2, QuietFacts DEF FunIds, Counting
<1>3. ASSUME NEW x \in Bins, Build(x) PROVE FunIds'
    BY <1>1, <1>3, BuildFacts DEF FunIds, Counting
<1>4. CASE Start
    BY <1>1, <1>4, StartFacts DEF FunIds, Counting
<1>5. CASE NothingToDo
    BY <1>1, <1>5, NothingToDoFacts DEF FunIds, Counting
<1>6. ASSUME NEW x \in Bins, Download(x) PROVE FunIds'
    BY <1>1, <1>6, DownloadFacts DEF FunIds, Counting
<1>7. ASSUME NEW x \in Bins, Stage(x) PROVE FunIds'
    BY <1>1, <1>7, StageFacts DEF FunIds, Counting
<1>8. CASE GiveUp
    BY <1>1, <1>8, GiveUpFacts DEF FunIds, Counting
<1>9. CASE Connect
    <2>1. db'.funs = db.funs /\ pending'.funs = {} /\ pending.funs = {}
        BY <1>1, <1>9, ConnectFacts, Typed DEF Shape, Nothing
    <2>2. at' = "construct" => \A r \in db.funs : r.id < nextFun'
        <3>1. CASE db.rows # {} /\ db.funs # {}
            <4>1. Max({r.id : r \in db.funs}) \in Nat /\ \A r \in db.funs : r.id <= Max({q.id : q \in db.funs})
                BY <1>1, <3>1, MaxId DEF Shape
            <4>2. \A r \in db.funs : r.id \in Nat
                BY <1>1 DEF Shape
            <4>3. db.exists
                BY <1>1, <3>1 DEF TypeOK
            <4>4. at' = "construct" => nextFun' = Max({q.id : q \in db.funs}) + 1
                BY <1>1, <1>9, <4>3, ConnectFacts DEF Shape
            <4> QED
                BY <4>1, <4>2, <4>4
        <3>2. CASE at' = "construct" /\ ~(db.rows # {} /\ db.funs # {})
            <4>1. db.funs = {}
                BY <1>1, <1>9, <3>2, ConnectFacts DEF Shape, TypeOK
            <4> QED
                BY <4>1
        <3> QED
            BY <3>1, <3>2
    <2>3. at' \in Counting => at' = "construct"
        BY <1>1, <1>9, ConnectFacts DEF Shape, Counting
    <2> QED
        BY <1>1, <2>1, <2>2, <2>3 DEF FunIds
<1>10. ASSUME NEW file \in staged, Turns(file) PROVE FunIds'
    <2>1. at \in Counting /\ db' = db
        BY <1>10, TurnFacts DEF Counting
    <2>2. CASE Add(file)
        <3> DEFINE Old == db.funs \cup pending.funs
                   New == pending'.funs \ pending.funs
        <3>1. /\ nextFun \in Nat /\ nextFun' \in Nat /\ nextFun <= nextFun'
              /\ \A f \in New : f.id \in Nat /\ nextFun <= f.id /\ f.id < nextFun'
              /\ \A f, g \in New : f.id = g.id => f = g
            BY <1>1, <2>2, Added DEF Shape
        <3>2. \A f \in Old : f.id \in Nat /\ f.id < nextFun
            BY <1>1, <2>1 DEF FunIds, Shape
        <3>3. \A f, g \in Old : f.id = g.id => f = g
            BY <1>1 DEF FunIds
        <3>4. \A f \in db'.funs \cup pending'.funs : f \in Old \/ f \in New
            BY <2>1
        <3> HIDE DEF Old, New
        <3>5. \A f \in db'.funs \cup pending'.funs : f.id < nextFun'
            BY <3>1, <3>2, <3>4
        <3>6. ASSUME NEW f \in db'.funs \cup pending'.funs, NEW g \in db'.funs \cup pending'.funs, f.id = g.id
              PROVE  f = g
            BY <3>1, <3>2, <3>3, <3>4, <3>6
        <3> QED
            BY <3>5, <3>6 DEF FunIds
    <2>3. CASE Leave(file)
        BY <1>1, <2>1, <2>3, LeaveFacts DEF FunIds
    <2>4. CASE PassOver(file)
        BY <1>1, <2>1, <2>4, PassOverFacts DEF FunIds
    <2> QED
        BY <1>10, <2>2, <2>3, <2>4 DEF Turns
<1>11. CASE Clear
    BY <1>1, <1>11, ClearFacts DEF FunIds, Counting
<1>12. CASE TimeOut
    <2>1. UNCHANGED db /\ at' \notin Counting /\ pending' = Nothing
        BY <1>12, TimeOutFacts DEF Counting
    <2> QED
        BY <1>1, <2>1 DEF FunIds, Nothing
<1>13. CASE FlushBinaries
    <2>1. db'.funs \cup pending'.funs \subseteq db.funs \cup pending.funs /\ at \in Counting
        BY <1>1, <1>13, FlushBinariesFacts DEF Shape, Counting
    <2> QED
        BY <1>1, <1>13, <2>1, FlushBinariesFacts DEF FunIds, Shape
<1>14. CASE FlushFunctions
    <2>1. db'.funs \cup pending'.funs \subseteq db.funs \cup pending.funs /\ at \in Counting
        BY <1>1, <1>14, FlushFunctionsFacts DEF Shape, Counting
    <2> QED
        BY <1>1, <1>14, <2>1, FlushFunctionsFacts DEF FunIds, Shape
<1>15. CASE FlushRvas
    <2>1. db'.funs = db.funs /\ pending'.funs = {} /\ at \in Counting
        BY <1>1, <1>15, FlushRvasFacts DEF Shape, Nothing, Counting
    <2> QED
        BY <1>1, <1>15, <2>1, FlushRvasFacts DEF FunIds, Shape
<1>16. CASE Copy
    BY <1>1, <1>16, CopyFacts DEF FunIds, Counting
<1>17. CASE Finish
    BY <1>1, <1>17, FinishFacts DEF FunIds, Counting
<1>18. CASE Die
    <2>1. UNCHANGED db /\ at' \notin Counting /\ pending' = Nothing
        BY <1>18, DieFacts DEF Counting
    <2> QED
        BY <1>1, <2>1 DEF FunIds, Nothing
<1> QED
    BY <1>1, <1>2, <1>3, <1>4, <1>5, <1>6, <1>7, <1>8, <1>9, <1>10, <1>11, <1>12, <1>13, <1>14,
       <1>15, <1>16, <1>17, <1>18 DEF Next, Quiet, Turns
(* The functions of a file that is added are of its row.                   *)
LEMMA AddedBelong ==
    ASSUME IdInv, NEW file \in staged, Add(file)
    PROVE  \A f \in pending'.funs : \E r \in pending'.rows : Belongs(f, r)
<1>1. /\ pending'.rows = pending.rows \cup {Row(file, nextId')}
      /\ \A f \in pending'.funs \ pending.funs : f.row = nextId' /\ \E e \in EntriesOf(file) : f.from = e.from
    BY Added DEF IdInv
<1>2. file.bin \in Bins /\ file.ident = Ident[file.bin] /\ file.ident \in Idents
    BY IdentInIdents DEF IdInv, TypeInv, Staging
<1> DEFINE R == Row(file, nextId')
<1>3. R.id = nextId' /\ R.bin = file.bin /\ R.name = file.name
    BY DEF Row
<1>4. ASSUME NEW f \in pending'.funs \ pending.funs
      PROVE  Belongs(f, R)
    <2>1. PICK e \in EntriesOf(file) : f.from = e.from
        BY <1>1, <1>4
    <2>2. e \in meta[file.ident].infos /\ StagedNameMatches(e.file, file.name)
        BY EntriesOfFinite DEF IdInv
    <2>3. Ident[e.from] = file.ident
        BY <1>2, <2>2 DEF IdInv, Functions
    <2>4. e \in Entries
        BY <1>2, <2>2 DEF IdInv, TypeInv, Shape, Metadata
    <2>5. e.from \in Bins /\ e.file \in {Name[e.from], RawName[e.from]}
        BY <2>4 DEF Entries
    <2>6. Strip[RawName[e.from]] = Name[e.from]
        BY <2>5, DatasetAssumption
    <2>7. file.name \in {Name[e.from], Strip[Name[e.from]], RawName[e.from]}
        BY <2>2, <2>5, <2>6 DEF StagedNameMatches
    <2>8. f.row = nextId'
        BY <1>1, <1>4
    <2> QED
        BY <1>2, <1>3, <2>1, <2>3, <2>7, <2>8 DEF Belongs
<1>5. \A f \in pending.funs : \E r \in pending.rows : Belongs(f, r)
    BY DEF IdInv, Functions
<1> QED
    BY <1>1, <1>4, <1>5

LEMMA FunctionsStep == IdInv /\ [Next]_vars => Functions'
<1>1. SUFFICES ASSUME IdInv, [Next]_vars PROVE Functions'
    OBVIOUS
<1> USE DEF IdInv, TypeInv
<1>2. CASE Quiet
    BY <1>1, <1>2, QuietFacts DEF Functions
<1>3. ASSUME NEW x \in Bins, Build(x) PROVE Functions'
    BY <1>1, <1>3, BuildFacts DEF Functions
<1>4. CASE Start
    <2>1. \A i \in Idents : meta'[i].infos \subseteq meta[i].infos
        BY <1>4, StartFacts DEF NoMeta
    <2> QED
        BY <1>1, <1>4, <2>1, StartFacts DEF Functions
<1>5. CASE NothingToDo
    BY <1>1, <1>5, NothingToDoFacts DEF Functions
<1>6. ASSUME NEW x \in Bins, Download(x) PROVE Functions'
    BY <1>1, <1>6, DownloadFacts DEF Functions
<1>7. ASSUME NEW x \in Bins, Stage(x) PROVE Functions'
    <2>1. \A i \in Idents : \A e \in meta'[i].infos : Ident[e.from] = i
        <3>1. CASE meta' = meta
            BY <1>1, <3>1 DEF Functions
        <3>2. ASSUME NEW entries \in {Found(x), Extracted(x), {}},
                     meta' = [meta EXCEPT ![Ident[x]] =
                        [first |-> IF meta[Ident[x]].first = None THEN x ELSE meta[Ident[x]].first,
                         infos |-> Joined(meta[Ident[x]].infos, entries)]]
              PROVE  \A i \in Idents : \A e \in meta'[i].infos : Ident[e.from] = i
            <4>1. meta'[Ident[x]].infos = Joined(meta[Ident[x]].infos, entries)
                BY <1>1, <3>2, IdentInIdents DEF Shape
            <4>2. \A i \in Idents : i # Ident[x] => meta'[i] = meta[i]
                BY <1>1, <3>2 DEF Shape
            <4>3. \A infos : \A e \in Joined(infos, entries) : e \in infos \/ Ident[e.from] = Ident[x]
                BY BroughtEntries
            <4> QED
                BY <1>1, <4>1, <4>2, <4>3, IdentInIdents DEF Functions
        <3> QED
            BY <1>7, <3>1, <3>2, StageFile
    <2> QED
        BY <1>1, <1>7, <2>1, StageFacts DEF Functions
<1>8. CASE GiveUp
    <2>1. \A i \in Idents : meta'[i].infos = {}
        BY <1>8, GiveUpFacts DEF NoMeta
    <2> QED
        BY <1>1, <1>8, <2>1, GiveUpFacts DEF Functions
<1>9. CASE Connect
    <2>1. db'.rows = db.rows /\ db'.funs = db.funs /\ db'.rvas = db.rvas /\ at' \notin {"flushFunctions", "flushRvas"}
        BY <1>1, <1>9, ConnectFacts DEF Shape
    <2> QED
        BY <1>1, <1>9, <2>1, ConnectFacts DEF Functions, Shape
<1>10. ASSUME NEW file \in staged, Turns(file) PROVE Functions'
    <2>1. \A f \in pending'.funs : \E r \in pending'.rows : Belongs(f, r)
        <3>1. CASE Add(file)
            BY <1>1, <3>1, AddedBelong
        <3>2. CASE Leave(file)
            BY <1>1, <3>2, LeaveFacts DEF Functions
        <3>3. CASE PassOver(file)
            BY <1>1, <3>3, PassOverFacts DEF Functions
        <3> QED
            BY <1>10, <3>1, <3>2, <3>3 DEF Turns
    <2> QED
        BY <1>1, <1>10, <2>1, TurnFacts DEF Functions
<1>11. CASE Clear
    <2>1. \A i \in Idents : meta'[i].infos \subseteq meta[i].infos
        BY <1>1, <1>11, ClearFacts DEF NoMeta, Shape
    <2> QED
        BY <1>1, <1>11, <2>1, ClearFacts DEF Functions
<1>12. CASE TimeOut
    <2>1. UNCHANGED <<db, refused>> /\ at' = "off" /\ pending' = Nothing
        BY <1>12, TimeOutFacts
    <2>2. meta' = meta \/ meta' = [meta EXCEPT ![cur] = NoMeta[cur]]
        BY <1>12, TimeOutFacts DEF Remains
    <2>3. \A i \in Idents : meta'[i].infos \subseteq meta[i].infos
        BY <1>1, <2>2 DEF NoMeta, Shape
    <2> QED
        BY <1>1, <2>1, <2>3 DEF Functions, Nothing
<1>13. CASE FlushBinaries
    <2>5. db'.funs = db.funs /\ db'.rvas = db.rvas /\ db.rows \subseteq db'.rows
        BY <1>1, <1>13, FlushBinariesFacts DEF Shape
    <2>1. /\ UNCHANGED <<pending, meta>> /\ at' = "flushFunctions" /\ refused \subseteq refused'
          /\ \A r \in pending.rows : r \in db'.rows \/ <<"binaries", r.id>> \in refused'
        BY <1>1, <1>13, FlushBinariesFacts DEF Shape
    <2>2. \A f \in db'.funs : (\E r \in db'.rows : Belongs(f, r)) \/ <<"binaries", f.row>> \in refused'
        BY <1>1, <2>1, <2>5 DEF Functions
    <2>3. \A v \in db'.rvas : \/ \E f \in db'.funs : f.id = v.fun /\ f.from = v.from
                              \/ <<"functions", v.fun>> \in refused'
        BY <1>1, <2>1, <2>5 DEF Functions
    <2>4. /\ \A i \in Idents : \A e \in meta'[i].infos : Ident[e.from] = i
          /\ \A f \in pending'.funs : \E r \in pending'.rows : Belongs(f, r)
        BY <1>1, <2>1 DEF Functions
    <2> QED
        BY <2>1, <2>2, <2>3, <2>4 DEF Functions, Belongs
<1>14. CASE FlushFunctions
    <2>1. /\ db'.rows = db.rows /\ db'.rvas = db.rvas /\ db.funs \subseteq db'.funs /\ refused \subseteq refused'
          /\ UNCHANGED <<pending, meta>> /\ at' = "flushRvas" /\ db'.funs \subseteq db.funs \cup pending.funs
          /\ \A f \in pending.funs : f \in db'.funs \/ <<"functions", f.id>> \in refused'
        BY <1>1, <1>14, FlushFunctionsFacts DEF Shape
    <2>2. \A r \in pending.rows : r \in db.rows \/ <<"binaries", r.id>> \in refused
        BY <1>1, <1>14, FlushFunctionsFacts DEF Functions, Shape
    <2>3. \A f \in pending.funs : (\E r \in db.rows : Belongs(f, r)) \/ <<"binaries", f.row>> \in refused
        BY <1>1, <2>2 DEF Functions, Belongs
    <2> QED
        BY <1>1, <2>1, <2>2, <2>3 DEF Functions
<1>15. CASE FlushRvas
    <2>1. /\ db'.rows = db.rows /\ db'.funs = db.funs /\ UNCHANGED <<refused, meta>> /\ at \in {"flushRvas"}
          /\ at' \notin {"flushFunctions", "flushRvas"} /\ pending'.rows = {} /\ pending'.funs = {}
          /\ \A v \in db'.rvas : v \in db.rvas \/ \E f \in pending.funs : v = [fun |-> f.id, from |-> f.from]
        BY <1>1, <1>15, FlushRvasFacts DEF Shape, Nothing
    <2> QED
        BY <1>1, <2>1 DEF Functions
<1>16. CASE Copy
    BY <1>1, <1>16, CopyFacts DEF Functions
<1>17. CASE Finish
    <2>1. \A i \in Idents : meta'[i].infos = {}
        BY <1>17, FinishFacts DEF NoMeta
    <2> QED
        BY <1>1, <1>17, <2>1, FinishFacts DEF Functions
<1>18. CASE Die
    <2>1. UNCHANGED <<db, refused>> /\ at' = "off" /\ pending' = Nothing
        BY <1>18, DieFacts
    <2>2. meta' = meta \/ meta' = [meta EXCEPT ![cur] = NoMeta[cur]]
        BY <1>18, DieFacts DEF Remains
    <2>3. \A i \in Idents : meta'[i].infos \subseteq meta[i].infos
        BY <1>1, <2>2 DEF NoMeta, Shape
    <2> QED
        BY <1>1, <2>1, <2>3 DEF Functions, Nothing
<1> QED
    BY <1>1, <1>2, <1>3, <1>4, <1>5, <1>6, <1>7, <1>8, <1>9, <1>10, <1>11, <1>12, <1>13, <1>14,
       <1>15, <1>16, <1>17, <1>18 DEF Next, Quiet, Turns
LEMMA IdInvHolds == Spec => []IdInv
<1>1. Init => IdInv
    <2>1. Init => Functions
        BY DEF Init, Functions, NoMeta, Nothing
    <2> QED
        BY <2>1, TypeInit DEF Init, IdInv, Ids, FunIds, Nothing, Counting
<1>2. IdInv /\ [Next]_vars => IdInv'
    BY TypeStep, IdsStep, FunIdsStep, FunctionsStep DEF IdInv
<1> QED
    BY <1>1, <1>2, PTL DEF Spec

(* Across runs, deaths and refused rows no id is used twice, every         *)
(* function is of a binary staged with the row's, under a name that the    *)
(* match takes for the row's, and every rva of its function.               *)
THEOREM FunctionsBelongHolds == Spec => []FunctionsBelong
<1>1. IdInv => FunctionsBelong
    BY DEF IdInv, Ids, FunIds, Functions, FunctionsBelong
<1> QED
    BY <1>1, IdInvHolds, PTL

-----------------------------------------------------------------------------
(* Windows.                                                                *)

InWindow(x, d) ==
    /\ built[x].day > 0
    /\ d \in built[x].day..(built[x].utc + 1) \/ Had("astray", d)

(* A run works on what was built since the day before, and so are its rows *)
(* unless it goes astray.                                                  *)
Windows ==
    /\ \A x \in todo \cup got : InWindow(x, today)
    /\ \A f \in staged : InWindow(f.bin, today)
    /\ \A r \in db.rows \cup pending.rows : InWindow(r.bin, r.day)

WindowInv == TypeInv /\ Windows

LEMMA InWindowKept ==
    ASSUME built' = built, mishaps \subseteq mishaps', NEW x, NEW d, InWindow(x, d)
    PROVE  InWindow(x, d)'
BY DEF InWindow, Had

LEMMA WindowsStep == WindowInv /\ [Next]_vars => Windows'
<1>1. SUFFICES ASSUME WindowInv, [Next]_vars PROVE Windows'
    OBVIOUS
<1> USE DEF WindowInv, TypeInv
<1>2. CASE Quiet
    <2>1. UNCHANGED <<built, today>> /\ mishaps \subseteq mishaps'
        BY <1>2, QuietFacts
    <2>2. todo' \cup got' \subseteq todo \cup got /\ staged' \subseteq staged
        BY <1>1, <1>2, QuietFacts
    <2>3. db'.rows \cup pending'.rows \subseteq db.rows \cup pending.rows
        BY <1>1, <1>2, QuietFacts DEF Shape, Nothing
    <2> QED
        BY <1>1, <2>1, <2>2, <2>3, InWindowKept DEF Windows
<1>3. ASSUME NEW x \in Bins, Build(x) PROVE Windows'
    <2>1. \A y \in Bins : \A d : InWindow(y, d) => InWindow(y, d)'
        <3> SUFFICES ASSUME NEW y \in Bins, NEW d, InWindow(y, d) PROVE InWindow(y, d)'
            OBVIOUS
        <3>1. y # x
            BY <1>3, BuildFacts DEF InWindow, NotBuilt
        <3>2. built'[y] = built[y]
            BY <1>1, <1>3, <3>1, BuildFacts DEF TypeOK
        <3> QED
            BY <1>3, <3>2, BuildFacts DEF InWindow, Had
    <2>2. todo \cup got \subseteq Bins /\ \A f \in staged : f.bin \in Bins
        BY <1>1 DEF TypeOK, Staging
    <2>3. \A r \in db.rows \cup pending.rows : r.bin \in Bins
        BY <1>1 DEF Shape
    <2> QED
        BY <1>1, <1>3, <2>1, <2>2, <2>3, BuildFacts DEF Windows
<1>4. CASE Start
    <2>1. UNCHANGED built /\ mishaps \subseteq mishaps'
        BY <1>4, StartFacts
    <2>2. ASSUME NEW x \in todo' PROVE InWindow(x, day)'
        <3>1. x \in Bins /\ built[x].day > 0 /\ built[x].utc >= since - 1
            BY <1>4, <2>2, StartFacts DEF QueryNewBinaries
        <3>2. built[x].day \in 0..day /\ built[x].utc \in 0..utc /\ utc \in Nat
            BY <1>1, <3>1 DEF TypeOK, Days
        <3>3. asked <= since /\ since <= day /\ asked \in Nat /\ since \in Nat /\ day \in Nat
            BY <1>1, <1>4, StartFacts, Typed DEF Days
        <3>4. CASE asked = day
            <4>1. day \in built[x].day..(built[x].utc + 1)
                BY <3>1, <3>2, <3>3, <3>4
            <4> QED
                BY <2>1, <3>1, <4>1, <1>4, StartFacts DEF InWindow
        <3>5. CASE asked # day
            <4>1. day \in asked..day
                BY <3>3
            <4>2. <<"astray", day>> \in mishaps'
                BY <1>4, <3>5, <4>1, StartFacts
            <4> QED
                BY <2>1, <3>1, <4>2, <1>4, StartFacts DEF InWindow, Had
        <3> QED
            BY <3>4, <3>5
    <2>3. got' = {}
        BY <1>1, <1>4, StartFacts DEF Phases
    <2>4. \A f \in staged' : f \in staged /\ today' = today
        BY <1>4, StartFacts
    <2>5. UNCHANGED <<db, pending, day>> /\ today' = day
        BY <1>4, StartFacts
    <2> QED
        BY <1>1, <2>1, <2>2, <2>3, <2>4, <2>5, InWindowKept DEF Windows
<1>5. CASE NothingToDo
    <2>1. UNCHANGED <<built, today>> /\ mishaps \subseteq mishaps'
        BY <1>5, NothingToDoFacts
    <2>2. todo' \cup got' \subseteq todo \cup got /\ staged' \subseteq staged
        BY <1>1, <1>5, NothingToDoFacts
    <2>3. db'.rows \cup pending'.rows \subseteq db.rows \cup pending.rows
        BY <1>1, <1>5, NothingToDoFacts DEF Shape, Nothing
    <2> QED
        BY <1>1, <2>1, <2>2, <2>3, InWindowKept DEF Windows
<1>6. ASSUME NEW x \in Bins, Download(x) PROVE Windows'
    <2>1. UNCHANGED <<built, today>> /\ mishaps \subseteq mishaps'
        BY <1>6, DownloadFacts
    <2>2. todo' \cup got' \subseteq todo \cup got /\ staged' \subseteq staged
        BY <1>1, <1>6, DownloadFacts
    <2>3. db'.rows \cup pending'.rows \subseteq db.rows \cup pending.rows
        BY <1>1, <1>6, DownloadFacts DEF Shape, Nothing
    <2> QED
        BY <1>1, <2>1, <2>2, <2>3, InWindowKept DEF Windows
<1>7. ASSUME NEW x \in Bins, Stage(x) PROVE Windows'
    <2>1. UNCHANGED <<built, today, db, pending, todo, mishaps>> /\ got' \subseteq got /\ x \in got
        BY <1>7, StageFacts
    <2>2. \A f \in staged' : f \in staged \/ f.bin = x
        <3>1. \/ staged' = staged
              \/ staged' = {f \in staged : <<f.ident, f.name>> # Key(x)}
                    \cup {[ident |-> Ident[x], name |-> Name[x], bin |-> x, cut |-> raw[x] = "cut"]}
            BY <1>7, StageFile
        <3> QED
            BY <3>1
    <2> QED
        BY <1>1, <2>1, <2>2, InWindowKept DEF Windows
<1>8. CASE GiveUp
    <2>1. UNCHANGED <<built, today>> /\ mishaps \subseteq mishaps'
        BY <1>8, GiveUpFacts
    <2>2. todo' \cup got' \subseteq todo \cup got /\ staged' \subseteq staged
        BY <1>1, <1>8, GiveUpFacts
    <2>3. db'.rows \cup pending'.rows \subseteq db.rows \cup pending.rows
        BY <1>1, <1>8, GiveUpFacts DEF Shape, Nothing
    <2> QED
        BY <1>1, <2>1, <2>2, <2>3, InWindowKept DEF Windows
<1>9. CASE Connect
    <2>1. UNCHANGED <<built, today>> /\ mishaps \subseteq mishaps'
        BY <1>1, <1>9, ConnectFacts DEF Shape
    <2>2. todo' \cup got' \subseteq todo \cup got /\ staged' \subseteq staged
        BY <1>1, <1>9, ConnectFacts DEF Shape
    <2>3. db'.rows \cup pending'.rows \subseteq db.rows \cup pending.rows
        BY <1>1, <1>9, ConnectFacts DEF Shape, Nothing
    <2> QED
        BY <1>1, <2>1, <2>2, <2>3, InWindowKept DEF Windows
<1>10. ASSUME NEW file \in staged, Turns(file) PROVE Windows'
    <2>1. UNCHANGED <<built, today, db, todo, got>> /\ mishaps \subseteq mishaps' /\ staged' \subseteq staged
        BY <1>10, TurnFacts
    <2>2. ASSUME NEW r \in pending'.rows PROVE r \in pending.rows \/ (r.bin = file.bin /\ r.day = today)
        <3>1. CASE Add(file)
            BY <1>1, <3>1, Added DEF Row
        <3>2. CASE Leave(file)
            BY <3>2, LeaveFacts
        <3>3. CASE PassOver(file)
            BY <3>3, PassOverFacts
        <3> QED
            BY <1>10, <3>1, <3>2, <3>3 DEF Turns
    <2>3. InWindow(file.bin, today)
        BY <1>1 DEF Windows
    <2>4. \A r \in db'.rows \cup pending'.rows : InWindow(r.bin, r.day)
        BY <1>1, <2>1, <2>2, <2>3 DEF Windows
    <2> QED
        BY <1>1, <2>1, <2>4, InWindowKept DEF Windows
<1>11. CASE Clear
    <2>1. UNCHANGED <<built, today>> /\ mishaps \subseteq mishaps'
        BY <1>11, ClearFacts
    <2>2. todo' \cup got' \subseteq todo \cup got /\ staged' \subseteq staged
        BY <1>1, <1>11, ClearFacts
    <2>3. db'.rows \cup pending'.rows \subseteq db.rows \cup pending.rows
        BY <1>1, <1>11, ClearFacts DEF Shape, Nothing
    <2> QED
        BY <1>1, <2>1, <2>2, <2>3, InWindowKept DEF Windows
<1>12. CASE TimeOut
    <2>1. UNCHANGED <<built, today, db>> /\ todo' = {} /\ got' = {} /\ pending' = Nothing
        BY <1>12, TimeOutFacts
    <2>2. mishaps \subseteq mishaps'
        BY <1>12, TimeOutFacts
    <2>3. staged' \subseteq staged
        BY <1>12, TimeOutFacts DEF Remains
    <2>4. pending'.rows = {}
        BY <2>1 DEF Nothing
    <2> QED
        BY <1>1, <2>1, <2>2, <2>3, <2>4, InWindowKept DEF Windows
<1>13. CASE FlushBinaries
    <2>1. UNCHANGED <<built, today>> /\ mishaps \subseteq mishaps'
        BY <1>1, <1>13, FlushBinariesFacts DEF Shape
    <2>2. todo' \cup got' \subseteq todo \cup got /\ staged' \subseteq staged
        BY <1>1, <1>13, FlushBinariesFacts DEF Shape
    <2>3. db'.rows \cup pending'.rows \subseteq db.rows \cup pending.rows
        BY <1>1, <1>13, FlushBinariesFacts DEF Shape, Nothing
    <2> QED
        BY <1>1, <2>1, <2>2, <2>3, InWindowKept DEF Windows
<1>14. CASE FlushFunctions
    <2>1. UNCHANGED <<built, today>> /\ mishaps \subseteq mishaps'
        BY <1>1, <1>14, FlushFunctionsFacts DEF Shape
    <2>2. todo' \cup got' \subseteq todo \cup got /\ staged' \subseteq staged
        BY <1>1, <1>14, FlushFunctionsFacts DEF Shape
    <2>3. db'.rows \cup pending'.rows \subseteq db.rows \cup pending.rows
        BY <1>1, <1>14, FlushFunctionsFacts DEF Shape, Nothing
    <2> QED
        BY <1>1, <2>1, <2>2, <2>3, InWindowKept DEF Windows
<1>15. CASE FlushRvas
    <2>1. UNCHANGED <<built, today>> /\ mishaps \subseteq mishaps'
        BY <1>1, <1>15, FlushRvasFacts DEF Shape
    <2>2. todo' \cup got' \subseteq todo \cup got /\ staged' \subseteq staged
        BY <1>1, <1>15, FlushRvasFacts DEF Shape
    <2>3. db'.rows \cup pending'.rows \subseteq db.rows \cup pending.rows
        BY <1>1, <1>15, FlushRvasFacts DEF Shape, Nothing
    <2> QED
        BY <1>1, <2>1, <2>2, <2>3, InWindowKept DEF Windows
<1>16. CASE Copy
    <2>1. UNCHANGED <<built, today>> /\ mishaps \subseteq mishaps'
        BY <1>16, CopyFacts
    <2>2. todo' \cup got' \subseteq todo \cup got /\ staged' \subseteq staged
        BY <1>1, <1>16, CopyFacts
    <2>3. db'.rows \cup pending'.rows \subseteq db.rows \cup pending.rows
        BY <1>1, <1>16, CopyFacts DEF Shape, Nothing
    <2> QED
        BY <1>1, <2>1, <2>2, <2>3, InWindowKept DEF Windows
<1>17. CASE Finish
    <2>1. UNCHANGED <<built, today>> /\ mishaps \subseteq mishaps'
        BY <1>17, FinishFacts
    <2>2. todo' \cup got' \subseteq todo \cup got /\ staged' \subseteq staged
        BY <1>1, <1>17, FinishFacts
    <2>3. db'.rows \cup pending'.rows \subseteq db.rows \cup pending.rows
        BY <1>1, <1>17, FinishFacts DEF Shape, Nothing
    <2> QED
        BY <1>1, <2>1, <2>2, <2>3, InWindowKept DEF Windows
<1>18. CASE Die
    <2>1. UNCHANGED <<built, today, db>> /\ todo' = {} /\ got' = {} /\ pending' = Nothing
        BY <1>18, DieFacts
    <2>2. mishaps \subseteq mishaps'
        BY <1>18, DieFacts
    <2>3. staged' \subseteq staged
        BY <1>18, DieFacts DEF Remains
    <2>4. pending'.rows = {}
        BY <2>1 DEF Nothing
    <2> QED
        BY <1>1, <2>1, <2>2, <2>3, <2>4, InWindowKept DEF Windows
<1> QED
    BY <1>1, <1>2, <1>3, <1>4, <1>5, <1>6, <1>7, <1>8, <1>9, <1>10, <1>11, <1>12, <1>13, <1>14,
       <1>15, <1>16, <1>17, <1>18 DEF Next, Quiet, Turns
LEMMA WindowInvHolds == Spec => []WindowInv
<1>1. Init => WindowInv
    BY TypeInit DEF Init, WindowInv, Windows, Nothing
<1>2. WindowInv /\ [Next]_vars => WindowInv'
    BY TypeStep, WindowsStep DEF WindowInv
<1> QED
    BY <1>1, <1>2, PTL DEF Spec

-----------------------------------------------------------------------------
(* Where the rows' files are.                                              *)

Blur(d) == Had("died", d) \/ Had("crowded", d)
Excused(d) == Had("astray", d) \/ Had("wiped", d)
Gone(r) == <<r.day, r.path, r.name>> \in removed
InTree(r) ==
    \E f \in tree : f.path = r.path /\ f.name = r.name /\ (f.bin = r.bin \/ Blur(today))
InFiles(r) ==
    \E f \in files : /\ f.day = r.day /\ f.name = r.name
                     /\ f.path \in {r.path, Append(r.path, r.name)}
                     /\ (f.bin = r.bin \/ Blur(r.day))

(* RowsHaveFiles by these names.                                           *)
Done == \A r \in db.rows : r.day \in okDays => InFiles(r) \/ Gone(r) \/ Excused(r.day)

(* Until the day is done, the file of a row of it is where db_construct    *)
(* has put it, or a run that died after copying it has published it.       *)
TodayPlaced ==
    dayFile < today =>
        \A r \in db.rows \cup pending.rows : r.day = today =>
            InTree(r) \/ (InFiles(r) /\ Had("died", today)) \/ Gone(r) \/ Excused(today)

(* Before the staging directory is removed all of it is published.         *)
Copied ==
    at = "remove" =>
        \A r \in db.rows : r.day = today => InFiles(r) \/ Gone(r) \/ Excused(today)

(* A day on which there is nothing to do has no rows from before.          *)
NoneBefore ==
    at = "download" /\ todo = {} =>
        \A r \in db.rows : r.day = today => Excused(today)

FileInv == WindowInv /\ RowsHaveFiles /\ TodayPlaced /\ Copied /\ NoneBefore

(* What was published and went wrong stays so.                             *)
LEMMA Unmoved ==
    ASSUME files' = files, mishaps \subseteq mishaps', removed \subseteq removed'
    PROVE  /\ \A r : (InFiles(r) => InFiles(r)') /\ (Gone(r) => Gone(r)')
           /\ \A d : (Excused(d) => Excused(d)') /\ (Had("died", d) => Had("died", d)')
                     /\ (Blur(d) => Blur(d)')
<1>1. \A w, d : Had(w, d) => Had(w, d)'
    BY DEF Had
<1>2. \A d : (Excused(d) => Excused(d)') /\ (Blur(d) => Blur(d)')
    BY <1>1 DEF Excused, Blur
<1>3. \A r : (InFiles(r) => InFiles(r)') /\ (Gone(r) => Gone(r)')
    BY <1>2 DEF InFiles, Gone
<1> QED
    BY <1>1, <1>2, <1>3

(* A copy takes the place only of what has its path, name and day.         *)
LEMMA PublishedKeeps ==
    ASSUME NEW placed, files' = Published(placed), mishaps \subseteq mishaps',
           NEW r, InFiles(r), r.day = today => Blur(r.day)'
    PROVE  InFiles(r)'
<1> DEFINE taken == UNION {Along(f.path) : f \in {g \in files : g.day = today}}
           copies == {[day |-> today, path |-> IF Place(f) \in taken THEN Place(f) ELSE f.path,
                       name |-> f.name, bin |-> f.bin] : f \in placed}
           Same(f, g) == f.day = g.day /\ f.path = g.path /\ f.name = g.name
<1>1. files' = {f \in files : ~ \E g \in copies : Same(f, g)} \cup copies
    BY DEF Published
<1>2. \A g \in copies : g.day = today
    OBVIOUS
<1>3. Blur(r.day) => Blur(r.day)'
    BY DEF Blur, Had
<1> HIDE DEF copies
<1>4. PICK f \in files : /\ f.day = r.day /\ f.name = r.name
                         /\ f.path \in {r.path, Append(r.path, r.name)}
                         /\ (f.bin = r.bin \/ Blur(r.day))
    BY DEF InFiles
<1>5. CASE f \in files'
    BY <1>3, <1>4, <1>5 DEF InFiles
<1>6. CASE f \notin files'
    <2>1. PICK g \in copies : Same(f, g)
        BY <1>1, <1>4, <1>6
    <2>2. g \in files' /\ g.day = today
        BY <1>1, <1>2
    <2>3. g.day = r.day /\ g.name = r.name /\ g.path \in {r.path, Append(r.path, r.name)}
        BY <1>4, <2>1
    <2>4. Blur(r.day)'
        BY <2>2, <2>3
    <2> QED
        BY <2>2, <2>3, <2>4 DEF InFiles
<1> QED
    BY <1>5, <1>6

LEMMA PublishedHas ==
    ASSUME files' = Published(tree), today' = today, mishaps' = mishaps, NEW r, InTree(r), r.day = today
    PROVE  InFiles(r)'
<1> DEFINE taken == UNION {Along(f.path) : f \in {g \in files : g.day = today}}
           Copied1(f) == [day |-> today, path |-> IF Place(f) \in taken THEN Place(f) ELSE f.path,
                          name |-> f.name, bin |-> f.bin]
<1>1. \A f \in tree : Copied1(f) \in files'
    BY DEF Published
<1>2. PICK f \in tree : f.path = r.path /\ f.name = r.name /\ (f.bin = r.bin \/ Blur(today))
    BY DEF InTree
<1>3. /\ Copied1(f).day = today /\ Copied1(f).name = f.name /\ Copied1(f).bin = f.bin
      /\ Copied1(f).path \in {f.path, Append(f.path, f.name)}
    BY DEF Place
<1>4. Copied1(f) \in files'
    BY <1>1, <1>2
<1>5. Blur(today) => Blur(r.day)'
    BY DEF Blur, Had
<1> HIDE DEF Copied1
<1> QED
    BY <1>2, <1>3, <1>4, <1>5 DEF InFiles

LEMMA RowsHaveFilesOf == RowsHaveFiles <=> Done
BY DEF Done, RowsHaveFiles, InFiles, Gone, Excused, Blur

(* The rows of a day that a run under way records as done.                 *)
LEMMA RecordedDay ==
    ASSUME FileInv, at \in AfterStart, ~Excused(asked) \/ ~Excused(today)
    PROVE  asked = today /\ dayFile < today
<1>1. (asked = today /\ dayFile < asked) \/ \A d \in asked..today : Had("astray", d)
    BY DEF FileInv, WindowInv, TypeInv, Days
<1>2. asked \in asked..today /\ today \in asked..today
    BY Typed DEF FileInv, WindowInv, TypeInv, Days, AfterStart
<1> QED
    BY <1>1, <1>2 DEF Excused

LEMMA DoneStep == FileInv /\ [Next]_vars => Done'
<1>1. SUFFICES ASSUME FileInv, [Next]_vars PROVE Done'
    OBVIOUS
<1> USE DEF FileInv, WindowInv, TypeInv
<1>0. Done
    BY <1>1, RowsHaveFilesOf DEF Done
<1>2. CASE Quiet
    <2>1. UNCHANGED <<files, okDays>> /\ mishaps \subseteq mishaps' /\ removed \subseteq removed' /\ db'.rows = db.rows
        BY <1>1, <1>2, QuietFacts
    <2> QED
        BY <1>0, <2>1, Unmoved DEF Done
<1>3. ASSUME NEW x \in Bins, Build(x) PROVE Done'
    <2>1. UNCHANGED <<files, okDays>> /\ mishaps \subseteq mishaps' /\ removed \subseteq removed' /\ db'.rows = db.rows
        BY <1>1, <1>3, BuildFacts
    <2> QED
        BY <1>0, <2>1, Unmoved DEF Done
<1>4. CASE Start
    <2>1. UNCHANGED <<files, okDays>> /\ mishaps \subseteq mishaps' /\ removed \subseteq removed' /\ db'.rows = db.rows
        BY <1>1, <1>4, StartFacts
    <2> QED
        BY <1>0, <2>1, Unmoved DEF Done
<1>5. CASE NothingToDo
    <2>1. /\ UNCHANGED <<db, files, today, asked, removed>> /\ mishaps \subseteq mishaps' /\ okDays' = okDays \cup {asked}
          /\ at \in AfterStart
        BY <1>5, NothingToDoFacts DEF AfterStart
    <2>2. ASSUME NEW r \in db.rows, r.day = asked, ~Excused(asked)'
          PROVE  InFiles(r)' \/ Gone(r)'
        <3>1. ~Excused(asked)
            BY <2>1, <2>2, Unmoved
        <3>2. asked = today
            BY <1>1, <2>1, <3>1, RecordedDay
        <3> QED
            BY <1>1, <1>5, <2>1, <2>2, <3>1, <3>2, NothingToDoFacts, Unmoved
            DEF NoneBefore, Excused, Had
    <2> QED
        BY <1>0, <2>1, <2>2, Unmoved DEF Done
<1>6. ASSUME NEW x \in Bins, Download(x) PROVE Done'
    <2>1. UNCHANGED <<files, okDays>> /\ mishaps \subseteq mishaps' /\ removed \subseteq removed' /\ db'.rows = db.rows
        BY <1>1, <1>6, DownloadFacts
    <2> QED
        BY <1>0, <2>1, Unmoved DEF Done
<1>7. ASSUME NEW x \in Bins, Stage(x) PROVE Done'
    <2>1. UNCHANGED <<files, okDays>> /\ mishaps \subseteq mishaps' /\ removed \subseteq removed' /\ db'.rows = db.rows
        BY <1>1, <1>7, StageFacts
    <2> QED
        BY <1>0, <2>1, Unmoved DEF Done
<1>8. CASE GiveUp
    <2>1. /\ UNCHANGED <<db, files, today, asked, removed>> /\ mishaps \subseteq mishaps' /\ okDays' = okDays \cup {asked}
          /\ at \in AfterStart
        BY <1>8, GiveUpFacts DEF AfterStart
    <2>2. ASSUME NEW r \in db.rows, r.day = asked, ~Excused(asked)'
          PROVE  InFiles(r)' \/ Gone(r)'
        <3>1. ~Excused(asked)
            BY <2>1, <2>2, Unmoved
        <3>2. asked = today
            BY <1>1, <2>1, <3>1, RecordedDay
        <3> QED
            BY <1>1, <1>8, <2>1, <2>2, <3>1, <3>2, GiveUpFacts, Unmoved DEF Excused, Had
    <2> QED
        BY <1>0, <2>1, <2>2, Unmoved DEF Done
<1>9. CASE Connect
    <2>1. UNCHANGED <<files, okDays>> /\ mishaps \subseteq mishaps' /\ removed \subseteq removed' /\ db'.rows = db.rows
        BY <1>1, <1>9, ConnectFacts DEF Shape
    <2> QED
        BY <1>0, <2>1, Unmoved DEF Done
<1>10. ASSUME NEW file \in staged, Turns(file) PROVE Done'
    <2>1. UNCHANGED <<files, okDays, db>> /\ mishaps \subseteq mishaps'
        BY <1>10, TurnFacts
    <2>2. removed \subseteq removed'
        BY <1>10, AddFacts, LeaveFacts, PassOverFacts DEF Turns
    <2> QED
        BY <1>0, <2>1, <2>2, Unmoved DEF Done
<1>11. CASE Clear
    <2>1. UNCHANGED <<files, okDays>> /\ mishaps \subseteq mishaps' /\ removed \subseteq removed' /\ db'.rows = db.rows
        BY <1>1, <1>11, ClearFacts
    <2> QED
        BY <1>0, <2>1, Unmoved DEF Done
<1>12. CASE TimeOut
    <2>1. UNCHANGED <<files, okDays>> /\ mishaps \subseteq mishaps' /\ removed \subseteq removed' /\ db'.rows = db.rows
        BY <1>1, <1>12, TimeOutFacts
    <2> QED
        BY <1>0, <2>1, Unmoved DEF Done
<1>13. CASE FlushBinaries
    <2>1. /\ UNCHANGED <<files, okDays, mishaps, removed, today, asked, dayFile>> /\ at \in AfterStart
          /\ db'.rows \subseteq db.rows \cup pending.rows
        BY <1>1, <1>13, FlushBinariesFacts DEF AfterStart, Shape
    <2>2. ASSUME NEW r \in pending.rows, r.day \in okDays PROVE Excused(r.day)
        <3>1. r.day = today /\ r.day <= dayFile /\ today \in Nat /\ dayFile \in Nat
            BY <1>1, <2>2, Typed DEF Days
        <3> QED
            BY <1>1, <2>1, <3>1, RecordedDay
    <2> QED
        BY <1>0, <2>1, <2>2, Unmoved DEF Done
<1>14. CASE FlushFunctions
    <2>1. UNCHANGED <<files, okDays>> /\ mishaps \subseteq mishaps' /\ removed \subseteq removed' /\ db'.rows = db.rows
        BY <1>1, <1>14, FlushFunctionsFacts DEF Shape
    <2> QED
        BY <1>0, <2>1, Unmoved DEF Done
<1>15. CASE FlushRvas
    <2>1. UNCHANGED <<files, okDays>> /\ mishaps \subseteq mishaps' /\ removed \subseteq removed' /\ db'.rows = db.rows
        BY <1>1, <1>15, FlushRvasFacts DEF Shape
    <2> QED
        BY <1>0, <2>1, Unmoved DEF Done
<1>16. CASE Copy
    <2>1. /\ UNCHANGED <<okDays, db, today, dayFile, removed>> /\ mishaps \subseteq mishaps' /\ at \in AfterStart
        BY <1>16, CopyFacts DEF AfterStart
    <2>2. \E placed : files' = Published(placed)
        BY <1>16, CopyFacts
    <2>3. \A r : Gone(r) => Gone(r)'
        BY <2>1 DEF Gone
    <2>4. \A d : Excused(d) => Excused(d)'
        BY <2>1 DEF Excused, Had
    <2>5. ASSUME NEW r \in db.rows, r.day \in okDays, InFiles(r), ~Excused(r.day) PROVE InFiles(r)'
        <3>1. r.day # today
            <4>1. r.day <= dayFile /\ today \in Nat /\ dayFile \in Nat
                BY <1>1, <2>5, Typed DEF Days
            <4> QED
                BY <1>1, <2>1, <2>5, <4>1, RecordedDay
        <3> QED
            BY <2>1, <2>2, <2>5, <3>1, PublishedKeeps
    <2> QED
        BY <1>0, <2>1, <2>3, <2>4, <2>5 DEF Done
<1>17. CASE Finish
    <2>1. /\ UNCHANGED <<db, files, today, asked, removed>> /\ mishaps \subseteq mishaps' /\ okDays' = okDays \cup {asked}
          /\ at \in AfterStart
        BY <1>17, FinishFacts DEF AfterStart
    <2>2. ASSUME NEW r \in db.rows, r.day = asked, ~Excused(asked)'
          PROVE  InFiles(r)' \/ Gone(r)'
        <3>1. ~Excused(asked)
            BY <2>1, <2>2, Unmoved
        <3>2. asked = today
            BY <1>1, <2>1, <3>1, RecordedDay
        <3> QED
            BY <1>1, <1>17, <2>1, <2>2, <3>1, <3>2, FinishFacts, Unmoved DEF Copied, Excused, Had
    <2> QED
        BY <1>0, <2>1, <2>2, Unmoved DEF Done
<1>18. CASE Die
    <2>1. /\ UNCHANGED <<okDays, db, today, dayFile, removed>> /\ mishaps \subseteq mishaps'
          /\ files' = files \/ (at = "copy" /\ \E placed : files' = Published(placed))
        BY <1>18, DieFacts
    <2>2. CASE files' = files
        BY <1>0, <2>1, <2>2, Unmoved DEF Done
    <2>3. CASE at = "copy" /\ \E placed : files' = Published(placed)
        <3>1. \A r : Gone(r) => Gone(r)'
            BY <2>1 DEF Gone
        <3>2. \A d : Excused(d) => Excused(d)'
            BY <2>1 DEF Excused, Had
        <3>3. ASSUME NEW r \in db.rows, r.day \in okDays, InFiles(r), ~Excused(r.day) PROVE InFiles(r)'
            <4>1. r.day <= dayFile /\ today \in Nat /\ dayFile \in Nat
                BY <1>1, <3>3, Typed DEF Days
            <4>2. r.day # today
                BY <1>1, <2>3, <3>3, <4>1, RecordedDay DEF AfterStart
            <4> QED
                BY <2>1, <2>3, <3>3, <4>2, PublishedKeeps
        <3> QED
            BY <1>0, <2>1, <3>1, <3>2, <3>3 DEF Done
    <2> QED
        BY <2>1, <2>2, <2>3
<1> QED
    BY <1>1, <1>2, <1>3, <1>4, <1>5, <1>6, <1>7, <1>8, <1>9, <1>10, <1>11, <1>12, <1>13, <1>14,
       <1>15, <1>16, <1>17, <1>18 DEF Next, Quiet, Turns
(* TodayPlaced where the files stay where they are.                        *)
LEMMA PlacedKept ==
    ASSUME FileInv, UNCHANGED <<tree, today, files>>, mishaps \subseteq mishaps', removed \subseteq removed',
           dayFile' < today => dayFile < today,
           db'.rows \cup pending'.rows \subseteq db.rows \cup pending.rows
    PROVE  TodayPlaced'
<1>1. \A r : InTree(r) => InTree(r)'
    BY Unmoved DEF InTree
<1> QED
    BY <1>1, Unmoved DEF FileInv, TodayPlaced

(* ... and where the day is done with.                                     *)
LEMMA PlacedDone ==
    ASSUME FileInv, at \in AfterStart, dayFile' = asked, UNCHANGED today, mishaps \subseteq mishaps'
    PROVE  TodayPlaced'
<1>1. asked = today \/ Excused(today)
    BY RecordedDay
<1>2. Excused(today) => Excused(today)'
    BY DEF Excused, Had
<1>3. asked \in Nat
    BY Typed DEF FileInv, WindowInv, TypeInv
<1> QED
    BY <1>1, <1>2, <1>3 DEF TodayPlaced

LEMMA PlacedStep == FileInv /\ [Next]_vars => TodayPlaced'
<1>1. SUFFICES ASSUME FileInv, [Next]_vars PROVE TodayPlaced'
    OBVIOUS
<1> USE DEF FileInv, WindowInv, TypeInv
<1>2. CASE Quiet
    <2>1. UNCHANGED <<tree, today, files, dayFile>> /\ mishaps \subseteq mishaps' /\ removed \subseteq removed'
        BY <1>1, <1>2, QuietFacts
    <2>2. db'.rows \cup pending'.rows \subseteq db.rows \cup pending.rows
        BY <1>1, <1>2, QuietFacts DEF Shape, Nothing
    <2> QED
        BY <1>1, <2>1, <2>2, PlacedKept
<1>3. ASSUME NEW x \in Bins, Build(x) PROVE TodayPlaced'
    <2>1. UNCHANGED <<tree, today, files, dayFile>> /\ mishaps \subseteq mishaps' /\ removed \subseteq removed'
        BY <1>1, <1>3, BuildFacts
    <2>2. db'.rows \cup pending'.rows \subseteq db.rows \cup pending.rows
        BY <1>1, <1>3, BuildFacts DEF Shape, Nothing
    <2> QED
        BY <1>1, <2>1, <2>2, PlacedKept
<1>4. CASE Start
    <2>1. UNCHANGED <<files, removed, dayFile, db, pending>> /\ mishaps \subseteq mishaps' /\ pending.rows = {}
        BY <1>1, <1>4, StartFacts, Typed DEF Nothing
    <2>2. CASE day = today
        BY <1>1, <1>4, <2>1, <2>2, StartFacts, PlacedKept
    <2>3. CASE day # today
        <3>1. \A r \in db.rows : r.day # day
            BY <1>1, <2>3, Typed DEF Days
        <3> QED
            BY <1>4, <2>1, <3>1, StartFacts DEF TodayPlaced
    <2> QED
        BY <2>2, <2>3
<1>5. CASE NothingToDo
    <2>1. at \in AfterStart /\ dayFile' = asked /\ UNCHANGED today /\ mishaps \subseteq mishaps'
        BY <1>5, NothingToDoFacts DEF AfterStart
    <2> QED
        BY <1>1, <2>1, PlacedDone
<1>6. ASSUME NEW x \in Bins, Download(x) PROVE TodayPlaced'
    <2>1. UNCHANGED <<tree, today, files, dayFile>> /\ mishaps \subseteq mishaps' /\ removed \subseteq removed'
        BY <1>1, <1>6, DownloadFacts
    <2>2. db'.rows \cup pending'.rows \subseteq db.rows \cup pending.rows
        BY <1>1, <1>6, DownloadFacts DEF Shape, Nothing
    <2> QED
        BY <1>1, <2>1, <2>2, PlacedKept
<1>7. ASSUME NEW x \in Bins, Stage(x) PROVE TodayPlaced'
    <2>1. UNCHANGED <<tree, today, files, dayFile>> /\ mishaps \subseteq mishaps' /\ removed \subseteq removed'
        BY <1>1, <1>7, StageFacts
    <2>2. db'.rows \cup pending'.rows \subseteq db.rows \cup pending.rows
        BY <1>1, <1>7, StageFacts DEF Shape, Nothing
    <2> QED
        BY <1>1, <2>1, <2>2, PlacedKept
<1>8. CASE GiveUp
    <2>1. at \in AfterStart /\ dayFile' = asked /\ UNCHANGED today /\ mishaps \subseteq mishaps'
        BY <1>8, GiveUpFacts DEF AfterStart
    <2> QED
        BY <1>1, <2>1, PlacedDone
<1>9. CASE Connect
    <2>1. UNCHANGED <<tree, today, files, dayFile>> /\ mishaps \subseteq mishaps' /\ removed \subseteq removed'
        BY <1>1, <1>9, ConnectFacts DEF Shape
    <2>2. db'.rows \cup pending'.rows \subseteq db.rows \cup pending.rows
        BY <1>1, <1>9, ConnectFacts DEF Shape, Nothing
    <2> QED
        BY <1>1, <2>1, <2>2, PlacedKept
<1>10. ASSUME NEW file \in staged, Turns(file) PROVE TodayPlaced'
    <2>1. UNCHANGED <<files, today, db, dayFile>> /\ mishaps \subseteq mishaps'
        BY <1>10, TurnFacts
    <2>2. CASE Add(file)
        <3> DEFINE id == IdFor(file.name)
                   path == AssignPath(id)
                   new == [path |-> path, name |-> file.name, bin |-> file.bin]
        <3>1. /\ tree' = {f \in tree \ InTheWay : f.path # path \/ f.name # file.name} \cup {new}
              /\ removed' = removed \cup {<<today, f.path, f.name>> : f \in InTheWay}
              /\ mishaps' = mishaps \cup IF FreeIds(file.name) = {} THEN {<<"crowded", today>>} ELSE {}
              /\ nextId' = id
            BY <2>2, AddFacts
        <3>2. pending'.rows = pending.rows \cup {Row(file, id)}
            BY <1>1, <2>2, <3>1, Added
        <3>3. Row(file, id).path = path /\ Row(file, id).name = file.name /\ Row(file, id).bin = file.bin
            BY DEF Row
        <3>4. new \in tree' /\ new.path = path /\ new.name = file.name /\ new.bin = file.bin
            BY <3>1
        <3>5. \A r : r = Row(file, id) => InTree(r)'
            BY <3>3, <3>4 DEF InTree
        <3>6. ASSUME NEW r, InTree(r), r.day = today PROVE InTree(r)' \/ Gone(r)'
            <4>1. PICK f \in tree : f.path = r.path /\ f.name = r.name /\ (f.bin = r.bin \/ Blur(today))
                BY <3>6 DEF InTree
            <4>2. CASE f \in InTheWay
                BY <3>1, <3>6, <4>1, <4>2 DEF Gone
            <4>3. CASE f \notin InTheWay /\ (f.path # path \/ f.name # file.name)
                <5>1. f \in tree'
                    BY <3>1, <4>3
                <5> QED
                    BY <2>1, <4>1, <5>1, Unmoved DEF InTree, Blur, Had
            <4>4. CASE f \notin InTheWay /\ f.path = path /\ f.name = file.name
                <5>1. Taken(id, file.name)
                    BY <4>4 DEF Taken
                <5>2. FreeIds(file.name) = {}
                    BY <1>1, <5>1, IdForFile DEF Shape
                <5>3. Blur(today)'
                    BY <2>1, <3>1, <5>2 DEF Blur, Had
                <5> QED
                    BY <3>4, <4>1, <4>4, <5>3 DEF InTree
            <4> QED
                BY <4>2, <4>3, <4>4
        <3>7. removed \subseteq removed'
            BY <3>1
        <3> HIDE DEF id, path, new
        <3> QED
            BY <1>1, <2>1, <3>2, <3>5, <3>6, <3>7, Unmoved DEF TodayPlaced
    <2>3. CASE Leave(file)
        <3>1. /\ tree' = tree \ InTheWay
              /\ removed' = removed \cup {<<today, f.path, f.name>> : f \in InTheWay}
              /\ pending' = pending
            BY <2>3, LeaveFacts
        <3>2. ASSUME NEW r, InTree(r), r.day = today PROVE InTree(r)' \/ Gone(r)'
            <4>1. PICK f \in tree : f.path = r.path /\ f.name = r.name /\ (f.bin = r.bin \/ Blur(today))
                BY <3>2 DEF InTree
            <4>2. CASE f \in InTheWay
                BY <3>1, <3>2, <4>1, <4>2 DEF Gone
            <4>3. CASE f \notin InTheWay
                <5>1. f \in tree'
                    BY <3>1, <4>3
                <5> QED
                    BY <2>1, <4>1, <5>1 DEF InTree, Blur, Had
            <4> QED
                BY <4>2, <4>3
        <3>3. removed \subseteq removed'
            BY <3>1
        <3> QED
            BY <1>1, <2>1, <3>1, <3>2, <3>3, Unmoved DEF TodayPlaced
    <2>4. CASE PassOver(file)
        <3>1. UNCHANGED <<tree, removed, pending>>
            BY <2>4, PassOverFacts
        <3> QED
            BY <1>1, <2>1, <3>1, PlacedKept
    <2> QED
        BY <1>10, <2>2, <2>3, <2>4 DEF Turns
<1>11. CASE Clear
    <2>1. UNCHANGED <<tree, today, files, dayFile>> /\ mishaps \subseteq mishaps' /\ removed \subseteq removed'
        BY <1>1, <1>11, ClearFacts
    <2>2. db'.rows \cup pending'.rows \subseteq db.rows \cup pending.rows
        BY <1>1, <1>11, ClearFacts DEF Shape, Nothing
    <2> QED
        BY <1>1, <2>1, <2>2, PlacedKept
<1>12. CASE TimeOut
    <2>1. at \in AfterStart /\ dayFile' = asked /\ UNCHANGED today /\ mishaps \subseteq mishaps'
        BY <1>12, TimeOutFacts DEF AfterStart
    <2> QED
        BY <1>1, <2>1, PlacedDone
<1>13. CASE FlushBinaries
    <2>1. UNCHANGED <<tree, today, files, dayFile>> /\ mishaps \subseteq mishaps' /\ removed \subseteq removed'
        BY <1>1, <1>13, FlushBinariesFacts DEF Shape
    <2>2. db'.rows \cup pending'.rows \subseteq db.rows \cup pending.rows
        BY <1>1, <1>13, FlushBinariesFacts DEF Shape, Nothing
    <2> QED
        BY <1>1, <2>1, <2>2, PlacedKept
<1>14. CASE FlushFunctions
    <2>1. UNCHANGED <<tree, today, files, dayFile>> /\ mishaps \subseteq mishaps' /\ removed \subseteq removed'
        BY <1>1, <1>14, FlushFunctionsFacts DEF Shape
    <2>2. db'.rows \cup pending'.rows \subseteq db.rows \cup pending.rows
        BY <1>1, <1>14, FlushFunctionsFacts DEF Shape, Nothing
    <2> QED
        BY <1>1, <2>1, <2>2, PlacedKept
<1>15. CASE FlushRvas
    <2>1. UNCHANGED <<tree, today, files, dayFile>> /\ mishaps \subseteq mishaps' /\ removed \subseteq removed'
        BY <1>1, <1>15, FlushRvasFacts DEF Shape
    <2>2. db'.rows \cup pending'.rows \subseteq db.rows \cup pending.rows
        BY <1>1, <1>15, FlushRvasFacts DEF Shape, Nothing
    <2> QED
        BY <1>1, <2>1, <2>2, PlacedKept
<1>16. CASE Copy
    <2>1. UNCHANGED <<tree, today, db, pending, dayFile, mishaps, removed>> /\ files' = Published(tree)
        BY <1>16, CopyFacts
    <2>2. ASSUME NEW r, InFiles(r), Had("died", today), r.day = today PROVE InFiles(r)'
        <3>1. Blur(r.day)' /\ mishaps \subseteq mishaps'
            BY <2>1, <2>2 DEF Blur, Had
        <3> QED
            BY <2>1, <2>2, <3>1, PublishedKeeps
    <2>3. \A r : (InTree(r) <=> InTree(r)') /\ (Gone(r) <=> Gone(r)')
        BY <2>1 DEF InTree, Gone, Blur, Had
    <2> QED
        BY <1>1, <2>1, <2>2, <2>3 DEF TodayPlaced, Excused, Had
<1>17. CASE Finish
    <2>1. at \in AfterStart /\ dayFile' = asked /\ UNCHANGED today /\ mishaps \subseteq mishaps'
        BY <1>17, FinishFacts DEF AfterStart
    <2> QED
        BY <1>1, <2>1, PlacedDone
<1>18. CASE Die
    <2>1. /\ UNCHANGED <<today, db, dayFile, removed>> /\ pending' = Nothing /\ mishaps \subseteq mishaps'
          /\ <<"died", today>> \in mishaps' /\ at \in AfterStart
        BY <1>1, <1>18, DieFacts DEF AfterStart, TypeOK
    <2>2. pending'.rows = {}
        BY <2>1 DEF Nothing
    <2>3. Had("died", today)' /\ Blur(today)'
        BY <2>1 DEF Had, Blur
    <2>4. CASE at = "giveUp"
        <3>1. <<"wiped", today>> \in mishaps'
            BY <1>18, <2>4, DieFacts
        <3> QED
            BY <2>1, <3>1 DEF TodayPlaced, Excused, Had
    <2>5. CASE at = "remove"
        <3>1. files' = files
            BY <1>18, <2>5, DieFacts
        <3> QED
            BY <1>1, <2>1, <2>2, <2>3, <2>5, <3>1, Unmoved DEF Copied, TodayPlaced
    <2>6. CASE at = "copy"
        <3>1. tree' = tree /\ (files' = files \/ \E half : files' = Published(half))
            BY <1>18, <2>6, DieFacts
        <3>2. ASSUME NEW r, InFiles(r), r.day = today PROVE InFiles(r)'
            <4>1. Blur(r.day)'
                BY <2>1, <2>3, <3>2
            <4> QED
                BY <2>1, <3>1, <3>2, <4>1, Unmoved, PublishedKeeps
        <3>3. \A r : (InTree(r) => InTree(r)') /\ (Gone(r) => Gone(r)')
            BY <2>1, <3>1 DEF InTree, Gone, Blur, Had
        <3> QED
            BY <1>1, <2>1, <2>2, <2>3, <3>2, <3>3 DEF TodayPlaced, Excused, Had
    <2>7. CASE at \notin {"giveUp", "remove", "copy"}
        <3>1. UNCHANGED <<tree, files>>
            BY <1>18, <2>7, DieFacts
        <3> QED
            BY <1>1, <2>1, <2>2, <3>1, PlacedKept
    <2> QED
        BY <2>4, <2>5, <2>6, <2>7
<1> QED
    BY <1>1, <1>2, <1>3, <1>4, <1>5, <1>6, <1>7, <1>8, <1>9, <1>10, <1>11, <1>12, <1>13, <1>14,
       <1>15, <1>16, <1>17, <1>18 DEF Next, Quiet, Turns
LEMMA CopiedStep == FileInv /\ [Next]_vars => Copied'
<1>1. SUFFICES ASSUME FileInv, [Next]_vars PROVE Copied'
    OBVIOUS
<1> USE DEF FileInv, WindowInv, TypeInv
<1>2. CASE Quiet
    <2>1. UNCHANGED <<db, files, today, mishaps, removed>> /\ (at' = "remove" => at = "remove")
        BY <1>2, QuietFacts
    <2> QED
        BY <1>1, <2>1, Unmoved DEF Copied
<1>3. ASSUME NEW x \in Bins, Build(x) PROVE Copied'
    <2>1. UNCHANGED <<db, files, today, mishaps, removed>> /\ (at' = "remove" => at = "remove")
        BY <1>3, BuildFacts
    <2> QED
        BY <1>1, <2>1, Unmoved DEF Copied
<1>4. CASE Start
    <2>1. at' # "remove"
        BY <1>1, <1>4, StartFacts
    <2> QED
        BY <2>1 DEF Copied
<1>5. CASE NothingToDo
    <2>1. at' # "remove"
        BY <1>1, <1>5, NothingToDoFacts
    <2> QED
        BY <2>1 DEF Copied
<1>6. ASSUME NEW x \in Bins, Download(x) PROVE Copied'
    <2>1. at' # "remove"
        BY <1>1, <1>6, DownloadFacts
    <2> QED
        BY <2>1 DEF Copied
<1>7. ASSUME NEW x \in Bins, Stage(x) PROVE Copied'
    <2>1. at' # "remove"
        BY <1>1, <1>7, StageFacts
    <2> QED
        BY <2>1 DEF Copied
<1>8. CASE GiveUp
    <2>1. at' # "remove"
        BY <1>1, <1>8, GiveUpFacts
    <2> QED
        BY <2>1 DEF Copied
<1>9. CASE Connect
    <2>1. at' # "remove"
        BY <1>1, <1>9, ConnectFacts DEF Shape
    <2> QED
        BY <2>1 DEF Copied
<1>10. ASSUME NEW file \in staged, Turns(file) PROVE Copied'
    <2>1. at' # "remove"
        BY <1>1, <1>10, TurnFacts
    <2> QED
        BY <2>1 DEF Copied
<1>11. CASE Clear
    <2>1. at' # "remove"
        BY <1>1, <1>11, ClearFacts
    <2> QED
        BY <2>1 DEF Copied
<1>12. CASE TimeOut
    <2>1. at' # "remove"
        BY <1>1, <1>12, TimeOutFacts
    <2> QED
        BY <2>1 DEF Copied
<1>13. CASE FlushBinaries
    <2>1. at' # "remove"
        BY <1>1, <1>13, FlushBinariesFacts DEF Shape
    <2> QED
        BY <2>1 DEF Copied
<1>14. CASE FlushFunctions
    <2>1. at' # "remove"
        BY <1>1, <1>14, FlushFunctionsFacts DEF Shape
    <2> QED
        BY <2>1 DEF Copied
<1>15. CASE FlushRvas
    <2>1. at' # "remove"
        BY <1>1, <1>15, FlushRvasFacts DEF Shape
    <2> QED
        BY <2>1 DEF Copied
<1>16. CASE Copy
    <2>1. /\ UNCHANGED <<tree, today, db, pending, dayFile, mishaps, removed>> /\ files' = Published(tree)
          /\ at \in AfterStart
        BY <1>16, CopyFacts DEF AfterStart
    <2>2. ASSUME NEW r \in db.rows, r.day = today, ~Excused(today) PROVE InFiles(r)' \/ Gone(r)'
        <3>1. dayFile < today
            BY <1>1, <2>1, <2>2, RecordedDay
        <3>2. InTree(r) \/ (InFiles(r) /\ Had("died", today)) \/ Gone(r)
            BY <1>1, <2>2, <3>1 DEF TodayPlaced
        <3>3. InTree(r) => InFiles(r)'
            BY <2>1, <2>2, PublishedHas
        <3>4. InFiles(r) /\ Had("died", today) => InFiles(r)'
            <4>1. Had("died", today) => Blur(r.day)'
                BY <2>1, <2>2 DEF Blur, Had
            <4>2. mishaps \subseteq mishaps'
                BY <2>1
            <4> QED
                BY <2>1, <2>2, <4>1, <4>2, PublishedKeeps
        <3>5. Gone(r) => Gone(r)'
            BY <2>1 DEF Gone
        <3> QED
            BY <3>2, <3>3, <3>4, <3>5
    <2> QED
        BY <2>1, <2>2 DEF Copied, Excused, Had
<1>17. CASE Finish
    <2>1. at' # "remove"
        BY <1>1, <1>17, FinishFacts
    <2> QED
        BY <2>1 DEF Copied
<1>18. CASE Die
    <2>1. at' # "remove"
        BY <1>1, <1>18, DieFacts
    <2> QED
        BY <2>1 DEF Copied
<1> QED
    BY <1>1, <1>2, <1>3, <1>4, <1>5, <1>6, <1>7, <1>8, <1>9, <1>10, <1>11, <1>12, <1>13, <1>14,
       <1>15, <1>16, <1>17, <1>18 DEF Next, Quiet, Turns
LEMMA NoneBeforeStep == FileInv /\ [Next]_vars => NoneBefore'
<1>1. SUFFICES ASSUME FileInv, [Next]_vars PROVE NoneBefore'
    OBVIOUS
<1> USE DEF FileInv, WindowInv, TypeInv
<1>2. CASE Quiet
    <2>1. UNCHANGED <<db, today, mishaps, todo>> /\ (at' = "download" => at = "download")
        BY <1>2, QuietFacts
    <2> QED
        BY <1>1, <2>1 DEF NoneBefore, Excused, Had
<1>3. ASSUME NEW x \in Bins, Build(x) PROVE NoneBefore'
    <2>1. UNCHANGED <<db, today, mishaps, todo>> /\ (at' = "download" => at = "download")
        BY <1>3, BuildFacts
    <2> QED
        BY <1>1, <2>1 DEF NoneBefore, Excused, Had
<1>4. CASE Start
    <2>1. UNCHANGED <<db, built, day>> /\ today' = day /\ mishaps \subseteq mishaps'
        BY <1>4, StartFacts
    <2>2. ASSUME NEW r \in db.rows, r.day = day, todo' = {} PROVE Excused(day)'
        <3>1. InWindow(r.bin, day)
            BY <1>1, <2>2 DEF Windows
        <3>2. r.bin \in Bins /\ built[r.bin].day \in Nat /\ built[r.bin].utc \in Nat
            <4>1. r.bin \in Bins
                BY <1>1 DEF Shape
            <4> QED
                BY <1>1, <4>1, Typed DEF TypeOK, Days
        <3>3. CASE day \in built[r.bin].day..(built[r.bin].utc + 1)
            <4>1. since <= day /\ since \in Nat /\ day \in Nat
                BY <1>1, Typed
            <4>2. r.bin \in QueryNewBinaries(since)
                BY <3>1, <3>2, <3>3, <4>1 DEF QueryNewBinaries, InWindow
            <4> QED
                BY <1>4, <2>2, <4>2, StartFacts
        <3>4. CASE Had("astray", day)
            BY <2>1, <3>4 DEF Excused, Had
        <3> QED
            BY <3>1, <3>3, <3>4 DEF InWindow
    <2>3. Excused(day)' => Excused(today)'
        BY <2>1, <1>4, StartFacts DEF Excused, Had
    <2> QED
        BY <2>1, <2>2, <2>3 DEF NoneBefore
<1>5. CASE NothingToDo
    <2>1. at' # "download"
        BY <1>1, <1>5, NothingToDoFacts
    <2> QED
        BY <2>1 DEF NoneBefore
<1>6. ASSUME NEW x \in Bins, Download(x) PROVE NoneBefore'
    <2>1. at' = "download" => todo' # {}
        BY <1>6, DownloadFacts
    <2> QED
        BY <2>1 DEF NoneBefore
<1>7. ASSUME NEW x \in Bins, Stage(x) PROVE NoneBefore'
    <2>1. at' # "download"
        BY <1>1, <1>7, StageFacts
    <2> QED
        BY <2>1 DEF NoneBefore
<1>8. CASE GiveUp
    <2>1. at' # "download"
        BY <1>1, <1>8, GiveUpFacts
    <2> QED
        BY <2>1 DEF NoneBefore
<1>9. CASE Connect
    <2>1. at' # "download"
        BY <1>1, <1>9, ConnectFacts DEF Shape
    <2> QED
        BY <2>1 DEF NoneBefore
<1>10. ASSUME NEW file \in staged, Turns(file) PROVE NoneBefore'
    <2>1. at' # "download"
        BY <1>1, <1>10, TurnFacts
    <2> QED
        BY <2>1 DEF NoneBefore
<1>11. CASE Clear
    <2>1. at' # "download"
        BY <1>1, <1>11, ClearFacts
    <2> QED
        BY <2>1 DEF NoneBefore
<1>12. CASE TimeOut
    <2>1. at' # "download"
        BY <1>1, <1>12, TimeOutFacts
    <2> QED
        BY <2>1 DEF NoneBefore
<1>13. CASE FlushBinaries
    <2>1. at' # "download"
        BY <1>1, <1>13, FlushBinariesFacts DEF Shape
    <2> QED
        BY <2>1 DEF NoneBefore
<1>14. CASE FlushFunctions
    <2>1. at' # "download"
        BY <1>1, <1>14, FlushFunctionsFacts DEF Shape
    <2> QED
        BY <2>1 DEF NoneBefore
<1>15. CASE FlushRvas
    <2>1. at' # "download"
        BY <1>1, <1>15, FlushRvasFacts DEF Shape
    <2> QED
        BY <2>1 DEF NoneBefore
<1>16. CASE Copy
    <2>1. at' # "download"
        BY <1>1, <1>16, CopyFacts
    <2> QED
        BY <2>1 DEF NoneBefore
<1>17. CASE Finish
    <2>1. at' # "download"
        BY <1>1, <1>17, FinishFacts
    <2> QED
        BY <2>1 DEF NoneBefore
<1>18. CASE Die
    <2>1. at' # "download"
        BY <1>1, <1>18, DieFacts
    <2> QED
        BY <2>1 DEF NoneBefore
<1> QED
    BY <1>1, <1>2, <1>3, <1>4, <1>5, <1>6, <1>7, <1>8, <1>9, <1>10, <1>11, <1>12, <1>13, <1>14,
       <1>15, <1>16, <1>17, <1>18 DEF Next, Quiet, Turns
LEMMA FileInvHolds == Spec => []FileInv
<1>1. Init => FileInv
    <2>1. Init => WindowInv
        BY TypeInit DEF Init, WindowInv, Windows, Nothing
    <2> QED
        BY <2>1 DEF Init, FileInv, RowsHaveFiles, TodayPlaced, Copied, NoneBefore, Nothing
<1>2. FileInv /\ [Next]_vars => FileInv'
    <2>1. FileInv /\ [Next]_vars => RowsHaveFiles'
        <3> SUFFICES ASSUME FileInv, [Next]_vars PROVE RowsHaveFiles'
            OBVIOUS
        <3>1. Done'
            BY DoneStep
        <3> QED
            BY <3>1, RowsHaveFilesOf DEF RowsHaveFiles, Done, InFiles, Gone, Excused, Blur
    <2> QED
        BY <2>1, TypeStep, WindowsStep, PlacedStep, CopiedStep, NoneBeforeStep
        DEF FileInv, WindowInv
<1> QED
    BY <1>1, <1>2, PTL DEF Spec

(* Whatever dies when, a row of a day whose run returned has its file      *)
(* below that day, but for the exceptions RowsHaveFiles names.             *)
THEOREM RowsHaveFilesHolds == Spec => []RowsHaveFiles
<1>1. FileInv => RowsHaveFiles
    BY DEF FileInv
<1> QED
    BY <1>1, FileInvHolds, PTL

-----------------------------------------------------------------------------
(* Nothing missed.                                                         *)

Due(x, d) == built[x].day > 0 /\ built[x].utc >= built[x].day /\ built[x].day + 1 = d

Overlaid(x) == \E y \in Bins \ {x} : Key(y) = Key(x) /\ built[y].day > 0

Seen(x, d) ==
    \/ \E r \in db.rows : r.bin = x
    \/ <<x, d>> \in missed \/ Had("astray", d)
    \/ Overlaid(x)

Underway(x) == x \in todo \cup got \/ \E y \in staged \cup pending.rows : y.bin = x

RecordedSeen == \A x \in Bins : \A d \in okDays : Due(x, d) => Seen(x, d)

(* What is due today is being worked on or has been seen to; until the     *)
(* first file is staged, the run has it still before it.                   *)
Covered ==
    \A x \in Bins : Due(x, today) =>
        /\ at \in AfterStart => Underway(x) \/ Seen(x, today)
        /\ at \in {"download", "stage", "giveUp"} => x \in todo \cup got \/ Seen(x, today)

TriedMissed == \A f \in tried : <<f.bin, today>> \in missed

FlushedSeen ==
    at \in {"flushFunctions", "flushRvas"} =>
        \A r \in pending.rows : r \in db.rows \/ <<r.bin, today>> \in missed

ProgressInv == WindowInv /\ RecordedSeen /\ Covered /\ TriedMissed /\ FlushedSeen

(* What has been seen to stays so, but for the start of a run.             *)
LEMMA SeenKept ==
    ASSUME NEW x \in Bins, NEW d, Seen(x, d), built' = built, db.rows \subseteq db'.rows,
           missed \subseteq missed', mishaps \subseteq mishaps'
    PROVE  Seen(x, d)'
BY DEF Seen, Overlaid, Had

(* ... and while nothing is taken out of work nothing is lost.             *)
LEMMA CoveredKept ==
    ASSUME ProgressInv, UNCHANGED <<built, today>>, db.rows \subseteq db'.rows,
           missed \subseteq missed', mishaps \subseteq mishaps',
           at' \in AfterStart => at \in AfterStart,
           at' \in {"download", "stage", "giveUp"} => at \in {"download", "stage", "giveUp"},
           \A x \in Bins : Due(x, today) => /\ Underway(x) => Underway(x)' \/ Seen(x, today)'
                                            /\ x \in todo \cup got => x \in todo' \cup got' \/ Seen(x, today)'
    PROVE  Covered'
<1>1. \A x \in Bins : Due(x, today)' => Due(x, today)
    BY DEF Due
<1>2. \A x \in Bins : Seen(x, today) => Seen(x, today)'
    BY SeenKept
<1>3. \A x \in Bins : Due(x, today) =>
        /\ at' \in AfterStart => Underway(x)' \/ Seen(x, today)'
        /\ at' \in {"download", "stage", "giveUp"} => x \in todo' \cup got' \/ Seen(x, today)'
    BY <1>2 DEF ProgressInv, Covered
<1> HIDE DEF Due, Seen, Underway
<1> QED
    BY <1>1, <1>3 DEF Covered

LEMMA RecordedSeenStep == ProgressInv /\ [Next]_vars => RecordedSeen'
<1>1. SUFFICES ASSUME ProgressInv, [Next]_vars PROVE RecordedSeen'
    OBVIOUS
<1> USE DEF ProgressInv, WindowInv, TypeInv
<1>2. CASE Quiet
    <2>1. UNCHANGED <<built, okDays>> /\ db.rows \subseteq db'.rows /\ mishaps \subseteq mishaps'
        BY <1>1, <1>2, QuietFacts
    <2>2. missed \subseteq missed'
        BY <1>1, <1>2, QuietFacts
    <2> QED
        BY <1>1, <2>1, <2>2, SeenKept DEF RecordedSeen, Due
<1>3. ASSUME NEW x \in Bins, Build(x) PROVE RecordedSeen'
    <2>1. UNCHANGED <<okDays, db, missed, mishaps>>
        BY <1>3, BuildFacts
    <2>2. built'[x].day = day /\ \A y \in Bins \ {x} : built'[y] = built[y]
        BY <1>1, <1>3, BuildFacts DEF TypeOK
    <2>3. ASSUME NEW y \in Bins, NEW d \in okDays, Due(y, d)' PROVE Due(y, d)
        <3>1. d \in Nat /\ d <= day /\ day \in Nat
            <4>1. d \in 1..day /\ day \in Nat
                BY <1>1, Typed DEF TypeOK
            <4> QED
                BY <4>1
        <3>2. y # x
            BY <2>2, <2>3, <3>1 DEF Due
        <3> QED
            BY <2>2, <2>3, <3>2 DEF Due
    <2>4. \A y \in Bins : Overlaid(y) => Overlaid(y)'
        BY <1>1, <1>3, <2>2, BuildFacts, Typed DEF Overlaid
    <2>5. \A y \in Bins : \A d : Seen(y, d) => Seen(y, d)'
        BY <2>1, <2>4 DEF Seen, Had
    <2> QED
        BY <1>1, <2>1, <2>3, <2>5 DEF RecordedSeen
<1>4. CASE Start
    <2>1. UNCHANGED <<built, okDays, db, dayFile, asked, day>> /\ mishaps \subseteq mishaps'
        BY <1>4, StartFacts
    <2>2. ASSUME NEW x \in Bins, NEW d \in okDays, Seen(x, d) PROVE Seen(x, d)'
        <3>1. CASE d = day
            <4>1. day <= dayFile /\ day \in Nat /\ dayFile \in Nat /\ asked \in Nat /\ asked <= day
                BY <1>1, <3>1, Typed DEF Days
            <4>2. ~(asked = day /\ dayFile < asked) /\ day \in asked..day
                BY <4>1
            <4>3. <<"astray", day>> \in mishaps'
                BY <1>4, <4>2, StartFacts
            <4> QED
                BY <2>1, <3>1, <4>3 DEF Seen, Had
        <3>2. CASE d # day
            <4>1. <<x, d>> \in missed => <<x, d>> \in missed'
                BY <1>4, <3>2, StartFacts
            <4> QED
                BY <2>1, <2>2, <4>1 DEF Seen, Overlaid, Had
        <3> QED
            BY <3>1, <3>2
    <2> QED
        BY <1>1, <2>1, <2>2 DEF RecordedSeen, Due
<1>5. CASE NothingToDo
    <2>1. /\ UNCHANGED <<built, db, missed, asked, today>> /\ mishaps \subseteq mishaps'
          /\ okDays' = okDays \cup {asked} /\ at \in AfterStart
        BY <1>5, NothingToDoFacts DEF AfterStart
    <2>2. at = "download" /\ todo = {} /\ got = {}
        BY <1>1, <1>5, NothingToDoFacts, Typed DEF Phases, Nothing
    <2>3. ASSUME NEW x \in Bins, Due(x, asked) PROVE Seen(x, asked)
        <3>1. CASE asked = today
            BY <1>1, <2>1, <2>2, <2>3, <3>1 DEF Covered, Underway
        <3>2. CASE asked # today
            <4>1. asked \in asked..today
                BY <1>1, <2>1, Typed DEF Days, AfterStart
            <4> QED
                BY <1>1, <2>1, <3>2, <4>1 DEF Days, Seen
        <3> QED
            BY <3>1, <3>2
    <2>4. \A x \in Bins : \A d \in okDays' : Due(x, d) => Seen(x, d)
        BY <1>1, <2>1, <2>3 DEF RecordedSeen
    <2> QED
        BY <2>1, <2>4, SeenKept DEF RecordedSeen, Due
<1>6. ASSUME NEW x \in Bins, Download(x) PROVE RecordedSeen'
    <2>1. UNCHANGED <<built, okDays>> /\ db.rows \subseteq db'.rows /\ mishaps \subseteq mishaps'
        BY <1>1, <1>6, DownloadFacts
    <2>2. missed \subseteq missed'
        BY <1>1, <1>6, DownloadFacts
    <2> QED
        BY <1>1, <2>1, <2>2, SeenKept DEF RecordedSeen, Due
<1>7. ASSUME NEW x \in Bins, Stage(x) PROVE RecordedSeen'
    <2>1. UNCHANGED <<built, okDays>> /\ db.rows \subseteq db'.rows /\ mishaps \subseteq mishaps'
        BY <1>1, <1>7, StageFacts
    <2>2. missed \subseteq missed'
        BY <1>7, StageFile
    <2> QED
        BY <1>1, <2>1, <2>2, SeenKept DEF RecordedSeen, Due
<1>8. CASE GiveUp
    <2>1. /\ UNCHANGED <<built, db, missed, asked, today>> /\ mishaps \subseteq mishaps'
          /\ okDays' = okDays \cup {asked} /\ at \in AfterStart
        BY <1>8, GiveUpFacts DEF AfterStart
    <2>2. at = "giveUp" /\ todo = {} /\ got = {}
        BY <1>1, <1>8, GiveUpFacts, Typed DEF Phases, Nothing
    <2>3. ASSUME NEW x \in Bins, Due(x, asked) PROVE Seen(x, asked)
        <3>1. CASE asked = today
            BY <1>1, <2>1, <2>2, <2>3, <3>1 DEF Covered, Underway
        <3>2. CASE asked # today
            <4>1. asked \in asked..today
                BY <1>1, <2>1, Typed DEF Days, AfterStart
            <4> QED
                BY <1>1, <2>1, <3>2, <4>1 DEF Days, Seen
        <3> QED
            BY <3>1, <3>2
    <2>4. \A x \in Bins : \A d \in okDays' : Due(x, d) => Seen(x, d)
        BY <1>1, <2>1, <2>3 DEF RecordedSeen
    <2> QED
        BY <2>1, <2>4, SeenKept DEF RecordedSeen, Due
<1>9. CASE Connect
    <2>1. UNCHANGED <<built, okDays>> /\ db.rows \subseteq db'.rows /\ mishaps \subseteq mishaps'
        BY <1>1, <1>9, ConnectFacts DEF Shape
    <2>2. missed \subseteq missed'
        BY <1>1, <1>9, ConnectFacts DEF Shape
    <2> QED
        BY <1>1, <2>1, <2>2, SeenKept DEF RecordedSeen, Due
<1>10. ASSUME NEW file \in staged, Turns(file) PROVE RecordedSeen'
    <2>1. UNCHANGED <<built, okDays>> /\ db.rows \subseteq db'.rows /\ mishaps \subseteq mishaps'
        BY <1>1, <1>10, TurnFacts
    <2>2. missed \subseteq missed'
        BY <1>1, <1>10, TurnFacts
    <2> QED
        BY <1>1, <2>1, <2>2, SeenKept DEF RecordedSeen, Due
<1>11. CASE Clear
    <2>1. UNCHANGED <<built, okDays>> /\ db.rows \subseteq db'.rows /\ mishaps \subseteq mishaps'
        BY <1>1, <1>11, ClearFacts
    <2>2. missed \subseteq missed'
        BY <1>1, <1>11, ClearFacts
    <2> QED
        BY <1>1, <2>1, <2>2, SeenKept DEF RecordedSeen, Due
<1>12. CASE TimeOut
    <2>1. UNCHANGED <<built, okDays>> /\ db.rows \subseteq db'.rows /\ mishaps \subseteq mishaps'
        BY <1>1, <1>12, TimeOutFacts
    <2>2. missed \subseteq missed'
        BY <1>1, <1>12, TimeOutFacts
    <2> QED
        BY <1>1, <2>1, <2>2, SeenKept DEF RecordedSeen, Due
<1>13. CASE FlushBinaries
    <2>1. UNCHANGED <<built, okDays>> /\ db.rows \subseteq db'.rows /\ mishaps \subseteq mishaps'
        BY <1>1, <1>13, FlushBinariesFacts DEF Shape
    <2>2. missed \subseteq missed'
        BY <1>1, <1>13, FlushBinariesFacts DEF Shape
    <2> QED
        BY <1>1, <2>1, <2>2, SeenKept DEF RecordedSeen, Due
<1>14. CASE FlushFunctions
    <2>1. UNCHANGED <<built, okDays>> /\ db.rows \subseteq db'.rows /\ mishaps \subseteq mishaps'
        BY <1>1, <1>14, FlushFunctionsFacts DEF Shape
    <2>2. missed \subseteq missed'
        BY <1>1, <1>14, FlushFunctionsFacts DEF Shape
    <2> QED
        BY <1>1, <2>1, <2>2, SeenKept DEF RecordedSeen, Due
<1>15. CASE FlushRvas
    <2>1. UNCHANGED <<built, okDays>> /\ db.rows \subseteq db'.rows /\ mishaps \subseteq mishaps'
        BY <1>1, <1>15, FlushRvasFacts DEF Shape
    <2>2. missed \subseteq missed'
        BY <1>1, <1>15, FlushRvasFacts DEF Shape
    <2> QED
        BY <1>1, <2>1, <2>2, SeenKept DEF RecordedSeen, Due
<1>16. CASE Copy
    <2>1. UNCHANGED <<built, okDays>> /\ db.rows \subseteq db'.rows /\ mishaps \subseteq mishaps'
        BY <1>1, <1>16, CopyFacts
    <2>2. missed \subseteq missed'
        BY <1>1, <1>16, CopyFacts
    <2> QED
        BY <1>1, <2>1, <2>2, SeenKept DEF RecordedSeen, Due
<1>17. CASE Finish
    <2>1. /\ UNCHANGED <<built, db, missed, asked, today>> /\ mishaps \subseteq mishaps'
          /\ okDays' = okDays \cup {asked} /\ at \in AfterStart
        BY <1>17, FinishFacts DEF AfterStart
    <2>2. at = "remove" /\ todo = {} /\ got = {} /\ staged = {} /\ pending.rows = {}
        BY <1>1, <1>17, FinishFacts, Typed DEF Phases, Nothing
    <2>3. ASSUME NEW x \in Bins, Due(x, asked) PROVE Seen(x, asked)
        <3>1. CASE asked = today
            BY <1>1, <2>1, <2>2, <2>3, <3>1 DEF Covered, Underway
        <3>2. CASE asked # today
            <4>1. asked \in asked..today
                BY <1>1, <2>1, Typed DEF Days, AfterStart
            <4> QED
                BY <1>1, <2>1, <3>2, <4>1 DEF Days, Seen
        <3> QED
            BY <3>1, <3>2
    <2>4. \A x \in Bins : \A d \in okDays' : Due(x, d) => Seen(x, d)
        BY <1>1, <2>1, <2>3 DEF RecordedSeen
    <2> QED
        BY <2>1, <2>4, SeenKept DEF RecordedSeen, Due
<1>18. CASE Die
    <2>1. UNCHANGED <<built, okDays>> /\ db.rows \subseteq db'.rows /\ mishaps \subseteq mishaps'
        BY <1>1, <1>18, DieFacts
    <2>2. missed \subseteq missed'
        BY <1>1, <1>18, DieFacts
    <2> QED
        BY <1>1, <2>1, <2>2, SeenKept DEF RecordedSeen, Due
<1> QED
    BY <1>1, <1>2, <1>3, <1>4, <1>5, <1>6, <1>7, <1>8, <1>9, <1>10, <1>11, <1>12, <1>13, <1>14,
       <1>15, <1>16, <1>17, <1>18 DEF Next, Quiet, Turns
LEMMA CoveredStep == ProgressInv /\ [Next]_vars => Covered'
<1>1. SUFFICES ASSUME ProgressInv, [Next]_vars PROVE Covered'
    OBVIOUS
<1> USE DEF ProgressInv, WindowInv, TypeInv
<1>2. CASE Quiet
    <2>1. /\ UNCHANGED <<built, today>> /\ db.rows \subseteq db'.rows /\ mishaps \subseteq mishaps'
          /\ missed \subseteq missed'
        BY <1>1, <1>2, QuietFacts
    <2>2. /\ at' \in AfterStart => at \in AfterStart
          /\ at' \in {"download", "stage", "giveUp"} => at \in {"download", "stage", "giveUp"}
        BY <1>1, <1>2, QuietFacts DEF AfterStart
    <2>3. UNCHANGED <<todo, got, staged, pending>>
        BY <1>1, <1>2, QuietFacts
    <2>4. \A x \in Bins : (Underway(x) => Underway(x)') /\ (x \in todo \cup got => x \in todo' \cup got')
        BY <2>3 DEF Underway
    <2> QED
        BY <1>1, <2>1, <2>2, <2>4, CoveredKept
<1>3. ASSUME NEW x \in Bins, Build(x) PROVE Covered'
    <2>1. UNCHANGED <<at, db, missed, mishaps, today, todo, got, staged, pending>>
        BY <1>3, BuildFacts
    <2>2. built'[x].day = day /\ \A y \in Bins \ {x} : built'[y] = built[y]
        BY <1>1, <1>3, BuildFacts DEF TypeOK
    <2>3. \A y \in Bins : Due(y, today)' => Due(y, today)
        BY <1>1, <2>1, <2>2, Typed DEF Due
    <2>4. \A y \in Bins : Overlaid(y) => Overlaid(y)'
        BY <1>1, <1>3, <2>2, BuildFacts, Typed DEF Overlaid
    <2>5. \A y \in Bins : (Seen(y, today) => Seen(y, today)') /\ (Underway(y) => Underway(y)')
        BY <2>1, <2>4 DEF Seen, Had, Underway
    <2> QED
        BY <1>1, <2>1, <2>3, <2>5 DEF Covered
<1>4. CASE Start
    <2>1. UNCHANGED <<built, day>> /\ today' = day /\ todo' = QueryNewBinaries(since)
        BY <1>4, StartFacts
    <2>2. ASSUME NEW x \in Bins, Due(x, day) PROVE x \in todo' \/ Had("astray", day)'
        <3>1. asked <= since /\ since <= day /\ asked \in Nat /\ since \in Nat /\ day \in Nat
            BY <1>1, <1>4, StartFacts, Typed DEF Days
        <3>2. built[x].day \in Nat /\ built[x].utc \in Nat
            BY <1>1, Typed DEF TypeOK, Days
        <3>3. CASE asked = day
            BY <2>1, <2>2, <3>1, <3>2, <3>3 DEF Due, QueryNewBinaries
        <3>4. CASE asked # day
            <4>1. day \in asked..day
                BY <3>1
            <4>2. <<"astray", day>> \in mishaps'
                BY <1>4, <3>4, <4>1, StartFacts
            <4> QED
                BY <2>1, <4>2 DEF Had
        <3> QED
            BY <3>3, <3>4
    <2>3. \A x \in Bins : Due(x, today)' => x \in todo' \/ Had("astray", today)'
        BY <2>1, <2>2 DEF Due, Had
    <2> QED
        BY <2>3 DEF Covered, Underway, Seen
<1>5. CASE NothingToDo
    <2>1. at' = "off"
        BY <1>5, NothingToDoFacts
    <2> QED
        BY <2>1 DEF Covered, AfterStart
<1>6. ASSUME NEW x \in Bins, Download(x) PROVE Covered'
    <2>1. /\ UNCHANGED <<built, today>> /\ db.rows \subseteq db'.rows /\ mishaps \subseteq mishaps'
          /\ missed \subseteq missed'
        BY <1>1, <1>6, DownloadFacts
    <2>2. /\ at' \in AfterStart => at \in AfterStart
          /\ at' \in {"download", "stage", "giveUp"} => at \in {"download", "stage", "giveUp"}
        BY <1>1, <1>6, DownloadFacts DEF AfterStart
    <2>3. ASSUME NEW y \in Bins
          PROVE  /\ Underway(y) => Underway(y)' \/ Seen(y, today)'
                 /\ y \in todo \cup got => y \in todo' \cup got' \/ Seen(y, today)'
        <3>1. y \in todo \cup got => y \in todo' \cup got' \/ <<y, today>> \in missed'
            BY <1>6, DownloadFacts
        <3>2. UNCHANGED <<staged, pending, today>>
            BY <1>6, DownloadFacts
        <3> QED
            BY <3>1, <3>2 DEF Underway, Seen
    <2> QED
        BY <1>1, <2>1, <2>2, <2>3, CoveredKept
<1>7. ASSUME NEW x \in Bins, Stage(x) PROVE Covered'
    <2>1. UNCHANGED <<built, today, db, mishaps, todo, pending>> /\ got' = got \ {x} /\ x \in got
          /\ at \in {"stage", "staging"}
        BY <1>7, StageFacts
    <2>2. missed \subseteq missed'
        BY <1>7, StageFile
    <2>3. /\ at' \in AfterStart => at \in AfterStart
          /\ at' \in {"download", "stage", "giveUp"} => at \in {"download", "stage", "giveUp"}
        BY <1>7, StageFacts DEF AfterStart
    <2>4. CASE missed' = missed \cup {<<x, today>>} /\ staged' = staged
        <3>1. ASSUME NEW y \in Bins
              PROVE  /\ Underway(y) => Underway(y)' \/ Seen(y, today)'
                     /\ y \in todo \cup got => y \in todo' \cup got' \/ Seen(y, today)'
            BY <2>1, <2>4 DEF Underway, Seen
        <3> QED
            BY <1>1, <2>1, <2>2, <2>3, <3>1, CoveredKept
    <2>5. CASE staged' = {f \in staged : <<f.ident, f.name>> # Key(x)}
                 \cup {[ident |-> Ident[x], name |-> Name[x], bin |-> x, cut |-> raw[x] = "cut"]}
        <3>4. Underway(x)'
            <4> DEFINE new == [ident |-> Ident[x], name |-> Name[x], bin |-> x, cut |-> raw[x] = "cut"]
            <4>1. new \in staged'
                BY <2>5
            <4>2. new.bin = x
                OBVIOUS
            <4> HIDE DEF new
            <4> QED
                BY <4>1, <4>2 DEF Underway
        <3>1. ASSUME NEW y \in Bins, Underway(y) PROVE Underway(y)' \/ Seen(y, today)'
            <4>1. CASE y \in todo \cup got
                BY <2>1, <3>4, <4>1 DEF Underway
            <4>2. CASE \E r \in pending.rows : r.bin = y
                BY <2>1, <4>2 DEF Underway
            <4>3. ASSUME NEW f \in staged, f.bin = y PROVE Underway(y)' \/ Seen(y, today)'
                <5>1. CASE f \in staged' \/ y = x
                    BY <3>4, <4>3, <5>1 DEF Underway
                <5>2. CASE f \notin staged' /\ y # x
                    <6>1. <<f.ident, f.name>> = Key(x)
                        BY <2>5, <5>2
                    <6>2. Key(y) = Key(x)
                        BY <1>1, <4>3, <6>1 DEF Staging, Key
                    <6>3. built[x].day > 0
                        BY <1>1, <2>1 DEF Windows, InWindow
                    <6> QED
                        BY <2>1, <5>2, <6>2, <6>3 DEF Seen, Overlaid
                <5> QED
                    BY <5>1, <5>2
            <4> QED
                BY <3>1, <4>1, <4>2, <4>3 DEF Underway
        <3>2. CASE at' \in {"staging", "connect"}
            <4>1. \A y \in Bins : Seen(y, today) => Seen(y, today)'
                BY <2>1, <2>2, SeenKept
            <4>2. at \in AfterStart
                BY <2>1 DEF AfterStart
            <4>3. \A y \in Bins : Due(y, today)' => Due(y, today)
                BY <2>1 DEF Due
            <4>4. \A y \in Bins : Due(y, today)' => Underway(y)' \/ Seen(y, today)'
                BY <1>1, <3>1, <4>1, <4>2, <4>3 DEF Covered
            <4> QED
                BY <3>2, <4>4 DEF Covered
        <3>3. CASE at' \in {"stage", "giveUp"}
            <4>1. <<x, today>> \in missed'
                BY <1>7, <3>3, StageFacts
            <4>2. ASSUME NEW y \in Bins, y \in todo \cup got PROVE y \in todo' \cup got' \/ Seen(y, today)'
                BY <2>1, <4>1, <4>2 DEF Seen
            <4> QED
                BY <1>1, <2>1, <2>2, <2>3, <3>1, <4>2, CoveredKept
        <3> QED
            BY <1>7, <3>2, <3>3, StageFacts
    <2> QED
        BY <1>7, <2>4, <2>5, StageFile
<1>8. CASE GiveUp
    <2>1. at' = "off"
        BY <1>8, GiveUpFacts
    <2> QED
        BY <2>1 DEF Covered, AfterStart
<1>9. CASE Connect
    <2>1. /\ UNCHANGED <<built, today>> /\ db.rows \subseteq db'.rows /\ mishaps \subseteq mishaps'
          /\ missed \subseteq missed'
        BY <1>1, <1>9, ConnectFacts DEF Shape
    <2>2. /\ at' \in AfterStart => at \in AfterStart
          /\ at' \in {"download", "stage", "giveUp"} => at \in {"download", "stage", "giveUp"}
        BY <1>1, <1>9, ConnectFacts DEF AfterStart, Shape
    <2>3. UNCHANGED <<todo, got, staged, pending>>
        BY <1>1, <1>9, ConnectFacts DEF Shape
    <2>4. \A x \in Bins : (Underway(x) => Underway(x)') /\ (x \in todo \cup got => x \in todo' \cup got')
        BY <2>3 DEF Underway
    <2> QED
        BY <1>1, <2>1, <2>2, <2>4, CoveredKept
<1>10. ASSUME NEW file \in staged, Turns(file) PROVE Covered'
    <2>1. /\ UNCHANGED <<built, today>> /\ db.rows \subseteq db'.rows /\ mishaps \subseteq mishaps'
          /\ missed \subseteq missed'
        BY <1>1, <1>10, TurnFacts
    <2>2. /\ at' \in AfterStart => at \in AfterStart
          /\ at' \in {"download", "stage", "giveUp"} => at \in {"download", "stage", "giveUp"}
        BY <1>1, <1>10, TurnFacts DEF AfterStart
    <2>3. ASSUME NEW x \in Bins
          PROVE  (Underway(x) => Underway(x)' \/ Seen(x, today)') /\ (x \in todo \cup got => x \in todo' \cup got')
        <3>1. UNCHANGED <<todo, got>>
            BY <1>10, TurnFacts
        <3>2. pending.rows \subseteq pending'.rows
              /\ (staged' = staged \/ (staged' = staged \ {file} /\ \E r \in pending'.rows : r.bin = file.bin))
            <4>1. CASE Add(file)
                <5>1. Row(file, nextId').bin = file.bin
                    BY DEF Row
                <5> QED
                    BY <1>1, <4>1, <5>1, Added, AddFacts
            <4>2. CASE Leave(file)
                BY <4>2, LeaveFacts
            <4>3. CASE PassOver(file)
                BY <4>3, PassOverFacts
            <4> QED
                BY <1>10, <4>1, <4>2, <4>3 DEF Turns
        <3> QED
            BY <3>1, <3>2 DEF Underway
    <2> QED
        BY <1>1, <2>1, <2>2, <2>3, CoveredKept
<1>11. CASE Clear
    <2>1. /\ UNCHANGED <<built, today>> /\ db.rows \subseteq db'.rows /\ mishaps \subseteq mishaps'
          /\ missed \subseteq missed'
        BY <1>1, <1>11, ClearFacts
    <2>2. /\ at' \in AfterStart => at \in AfterStart
          /\ at' \in {"download", "stage", "giveUp"} => at \in {"download", "stage", "giveUp"}
        BY <1>1, <1>11, ClearFacts DEF AfterStart
    <2>3. ASSUME NEW x \in Bins
          PROVE  (Underway(x) => Underway(x)' \/ Seen(x, today)') /\ (x \in todo \cup got => x \in todo' \cup got')
        <3>1. staged' = staged \ tried /\ UNCHANGED <<todo, got, pending, missed, today>>
            BY <1>11, ClearFacts
        <3> QED
            BY <1>1, <3>1 DEF Underway, Seen, TriedMissed
    <2> QED
        BY <1>1, <2>1, <2>2, <2>3, CoveredKept
<1>12. CASE TimeOut
    <2>1. at' = "off"
        BY <1>12, TimeOutFacts
    <2> QED
        BY <2>1 DEF Covered, AfterStart
<1>13. CASE FlushBinaries
    <2>1. /\ UNCHANGED <<built, today>> /\ db.rows \subseteq db'.rows /\ mishaps \subseteq mishaps'
          /\ missed \subseteq missed'
        BY <1>1, <1>13, FlushBinariesFacts DEF Shape
    <2>2. /\ at' \in AfterStart => at \in AfterStart
          /\ at' \in {"download", "stage", "giveUp"} => at \in {"download", "stage", "giveUp"}
        BY <1>1, <1>13, FlushBinariesFacts DEF AfterStart, Shape
    <2>3. UNCHANGED <<todo, got, staged, pending>>
        BY <1>1, <1>13, FlushBinariesFacts DEF Shape
    <2>4. \A x \in Bins : (Underway(x) => Underway(x)') /\ (x \in todo \cup got => x \in todo' \cup got')
        BY <2>3 DEF Underway
    <2> QED
        BY <1>1, <2>1, <2>2, <2>4, CoveredKept
<1>14. CASE FlushFunctions
    <2>1. /\ UNCHANGED <<built, today>> /\ db.rows \subseteq db'.rows /\ mishaps \subseteq mishaps'
          /\ missed \subseteq missed'
        BY <1>1, <1>14, FlushFunctionsFacts DEF Shape
    <2>2. /\ at' \in AfterStart => at \in AfterStart
          /\ at' \in {"download", "stage", "giveUp"} => at \in {"download", "stage", "giveUp"}
        BY <1>1, <1>14, FlushFunctionsFacts DEF AfterStart, Shape
    <2>3. UNCHANGED <<todo, got, staged, pending>>
        BY <1>1, <1>14, FlushFunctionsFacts DEF Shape
    <2>4. \A x \in Bins : (Underway(x) => Underway(x)') /\ (x \in todo \cup got => x \in todo' \cup got')
        BY <2>3 DEF Underway
    <2> QED
        BY <1>1, <2>1, <2>2, <2>4, CoveredKept
<1>15. CASE FlushRvas
    <2>1. /\ UNCHANGED <<built, today>> /\ db.rows \subseteq db'.rows /\ mishaps \subseteq mishaps'
          /\ missed \subseteq missed'
        BY <1>1, <1>15, FlushRvasFacts DEF Shape
    <2>2. /\ at' \in AfterStart => at \in AfterStart
          /\ at' \in {"download", "stage", "giveUp"} => at \in {"download", "stage", "giveUp"}
        BY <1>1, <1>15, FlushRvasFacts DEF AfterStart, Shape
    <2>3. ASSUME NEW x \in Bins
          PROVE  (Underway(x) => Underway(x)' \/ Seen(x, today)') /\ (x \in todo \cup got => x \in todo' \cup got')
        <3>1. UNCHANGED <<todo, got, staged, missed, today>> /\ at = "flushRvas" /\ db'.rows = db.rows
            BY <1>1, <1>15, FlushRvasFacts DEF Shape
        <3> QED
            BY <1>1, <3>1 DEF Underway, Seen, FlushedSeen
    <2> QED
        BY <1>1, <2>1, <2>2, <2>3, CoveredKept
<1>16. CASE Copy
    <2>1. /\ UNCHANGED <<built, today>> /\ db.rows \subseteq db'.rows /\ mishaps \subseteq mishaps'
          /\ missed \subseteq missed'
        BY <1>1, <1>16, CopyFacts
    <2>2. /\ at' \in AfterStart => at \in AfterStart
          /\ at' \in {"download", "stage", "giveUp"} => at \in {"download", "stage", "giveUp"}
        BY <1>1, <1>16, CopyFacts DEF AfterStart
    <2>3. UNCHANGED <<todo, got, staged, pending>>
        BY <1>1, <1>16, CopyFacts
    <2>4. \A x \in Bins : (Underway(x) => Underway(x)') /\ (x \in todo \cup got => x \in todo' \cup got')
        BY <2>3 DEF Underway
    <2> QED
        BY <1>1, <2>1, <2>2, <2>4, CoveredKept
<1>17. CASE Finish
    <2>1. at' = "off"
        BY <1>17, FinishFacts
    <2> QED
        BY <2>1 DEF Covered, AfterStart
<1>18. CASE Die
    <2>1. at' = "off"
        BY <1>18, DieFacts
    <2> QED
        BY <2>1 DEF Covered, AfterStart
<1> QED
    BY <1>1, <1>2, <1>3, <1>4, <1>5, <1>6, <1>7, <1>8, <1>9, <1>10, <1>11, <1>12, <1>13, <1>14,
       <1>15, <1>16, <1>17, <1>18 DEF Next, Quiet, Turns
LEMMA TriedMissedStep == ProgressInv /\ [Next]_vars => TriedMissed'
<1>1. SUFFICES ASSUME ProgressInv, [Next]_vars PROVE TriedMissed'
    OBVIOUS
<1> USE DEF ProgressInv, WindowInv, TypeInv
<1>2. CASE Quiet
    <2>1. tried' = tried /\ (tried = {} \/ (today' = today /\ missed \subseteq missed'))
        BY <1>1, <1>2, QuietFacts DEF Phases
    <2> QED
        BY <1>1, <2>1 DEF TriedMissed
<1>3. ASSUME NEW x \in Bins, Build(x) PROVE TriedMissed'
    <2>1. tried' = tried /\ (tried = {} \/ (today' = today /\ missed \subseteq missed'))
        BY <1>1, <1>3, BuildFacts DEF Phases
    <2> QED
        BY <1>1, <2>1 DEF TriedMissed
<1>4. CASE Start
    <2>1. tried' = tried /\ (tried = {} \/ (today' = today /\ missed \subseteq missed'))
        BY <1>1, <1>4, StartFacts DEF Phases
    <2> QED
        BY <1>1, <2>1 DEF TriedMissed
<1>5. CASE NothingToDo
    <2>1. tried' = tried /\ (tried = {} \/ (today' = today /\ missed \subseteq missed'))
        BY <1>1, <1>5, NothingToDoFacts DEF Phases
    <2> QED
        BY <1>1, <2>1 DEF TriedMissed
<1>6. ASSUME NEW x \in Bins, Download(x) PROVE TriedMissed'
    <2>1. tried' = tried /\ (tried = {} \/ (today' = today /\ missed \subseteq missed'))
        BY <1>1, <1>6, DownloadFacts DEF Phases
    <2> QED
        BY <1>1, <2>1 DEF TriedMissed
<1>7. ASSUME NEW x \in Bins, Stage(x) PROVE TriedMissed'
    <2>1. tried' = tried /\ (tried = {} \/ (today' = today /\ missed \subseteq missed'))
        BY <1>1, <1>7, StageFacts DEF Phases
    <2> QED
        BY <1>1, <2>1 DEF TriedMissed
<1>8. CASE GiveUp
    <2>1. tried' = tried /\ (tried = {} \/ (today' = today /\ missed \subseteq missed'))
        BY <1>1, <1>8, GiveUpFacts DEF Phases
    <2> QED
        BY <1>1, <2>1 DEF TriedMissed
<1>9. CASE Connect
    <2>1. tried' = tried /\ (tried = {} \/ (today' = today /\ missed \subseteq missed'))
        BY <1>1, <1>9, ConnectFacts DEF Phases, Shape
    <2> QED
        BY <1>1, <2>1 DEF TriedMissed
<1>10. ASSUME NEW file \in staged, Turns(file) PROVE TriedMissed'
    <2>1. today' = today /\ missed \subseteq missed' /\ \A f \in tried' : f \in tried \/ <<f.bin, today>> \in missed'
        BY <1>10, TurnFacts
    <2> QED
        BY <1>1, <2>1 DEF TriedMissed
<1>11. CASE Clear
    <2>1. tried' = {}
        BY <1>11, ClearFacts
    <2> QED
        BY <2>1 DEF TriedMissed
<1>12. CASE TimeOut
    <2>1. tried' = {}
        BY <1>12, TimeOutFacts
    <2> QED
        BY <2>1 DEF TriedMissed
<1>13. CASE FlushBinaries
    <2>1. tried' = tried /\ (tried = {} \/ (today' = today /\ missed \subseteq missed'))
        BY <1>1, <1>13, FlushBinariesFacts DEF Phases, Shape
    <2> QED
        BY <1>1, <2>1 DEF TriedMissed
<1>14. CASE FlushFunctions
    <2>1. tried' = tried /\ (tried = {} \/ (today' = today /\ missed \subseteq missed'))
        BY <1>1, <1>14, FlushFunctionsFacts DEF Phases, Shape
    <2> QED
        BY <1>1, <2>1 DEF TriedMissed
<1>15. CASE FlushRvas
    <2>1. tried' = tried /\ (tried = {} \/ (today' = today /\ missed \subseteq missed'))
        BY <1>1, <1>15, FlushRvasFacts DEF Phases, Shape
    <2> QED
        BY <1>1, <2>1 DEF TriedMissed
<1>16. CASE Copy
    <2>1. tried' = tried /\ (tried = {} \/ (today' = today /\ missed \subseteq missed'))
        BY <1>1, <1>16, CopyFacts DEF Phases
    <2> QED
        BY <1>1, <2>1 DEF TriedMissed
<1>17. CASE Finish
    <2>1. tried' = tried /\ (tried = {} \/ (today' = today /\ missed \subseteq missed'))
        BY <1>1, <1>17, FinishFacts DEF Phases
    <2> QED
        BY <1>1, <2>1 DEF TriedMissed
<1>18. CASE Die
    <2>1. tried' = {}
        BY <1>18, DieFacts
    <2> QED
        BY <2>1 DEF TriedMissed
<1> QED
    BY <1>1, <1>2, <1>3, <1>4, <1>5, <1>6, <1>7, <1>8, <1>9, <1>10, <1>11, <1>12, <1>13, <1>14,
       <1>15, <1>16, <1>17, <1>18 DEF Next, Quiet, Turns
LEMMA FlushedSeenStep == ProgressInv /\ [Next]_vars => FlushedSeen'
<1>1. SUFFICES ASSUME ProgressInv, [Next]_vars PROVE FlushedSeen'
    OBVIOUS
<1> USE DEF ProgressInv, WindowInv, TypeInv
<1>2. CASE Quiet
    <2>1. UNCHANGED <<db, pending, missed, today>>
        BY <1>2, QuietFacts
    <2>2. at' \in {"flushFunctions", "flushRvas"} => at' = at
        BY <1>2, QuietFacts
    <2> QED
        BY <1>1, <2>1, <2>2 DEF FlushedSeen
<1>3. ASSUME NEW x \in Bins, Build(x) PROVE FlushedSeen'
    <2>1. UNCHANGED <<db, pending, missed, today>>
        BY <1>3, BuildFacts
    <2>2. at' \in {"flushFunctions", "flushRvas"} => at' = at
        BY <1>3, BuildFacts
    <2> QED
        BY <1>1, <2>1, <2>2 DEF FlushedSeen
<1>4. CASE Start
    <2>1. at' \notin {"flushFunctions", "flushRvas"}
        BY <1>1, <1>4, StartFacts
    <2> QED
        BY <2>1 DEF FlushedSeen
<1>5. CASE NothingToDo
    <2>1. at' \notin {"flushFunctions", "flushRvas"}
        BY <1>1, <1>5, NothingToDoFacts
    <2> QED
        BY <2>1 DEF FlushedSeen
<1>6. ASSUME NEW x \in Bins, Download(x) PROVE FlushedSeen'
    <2>1. at' \notin {"flushFunctions", "flushRvas"}
        BY <1>1, <1>6, DownloadFacts
    <2> QED
        BY <2>1 DEF FlushedSeen
<1>7. ASSUME NEW x \in Bins, Stage(x) PROVE FlushedSeen'
    <2>1. at' \notin {"flushFunctions", "flushRvas"}
        BY <1>1, <1>7, StageFacts
    <2> QED
        BY <2>1 DEF FlushedSeen
<1>8. CASE GiveUp
    <2>1. at' \notin {"flushFunctions", "flushRvas"}
        BY <1>1, <1>8, GiveUpFacts
    <2> QED
        BY <2>1 DEF FlushedSeen
<1>9. CASE Connect
    <2>1. at' \notin {"flushFunctions", "flushRvas"}
        BY <1>1, <1>9, ConnectFacts DEF Shape
    <2> QED
        BY <2>1 DEF FlushedSeen
<1>10. ASSUME NEW file \in staged, Turns(file) PROVE FlushedSeen'
    <2>1. at' \notin {"flushFunctions", "flushRvas"}
        BY <1>1, <1>10, TurnFacts
    <2> QED
        BY <2>1 DEF FlushedSeen
<1>11. CASE Clear
    <2>1. at' \notin {"flushFunctions", "flushRvas"}
        BY <1>1, <1>11, ClearFacts
    <2> QED
        BY <2>1 DEF FlushedSeen
<1>12. CASE TimeOut
    <2>1. at' \notin {"flushFunctions", "flushRvas"}
        BY <1>1, <1>12, TimeOutFacts
    <2> QED
        BY <2>1 DEF FlushedSeen
<1>13. CASE FlushBinaries
    <2>1. \A r \in pending.rows : r \in db'.rows \/ <<r.bin, today>> \in missed'
        BY <1>1, <1>13, FlushBinariesFacts DEF Shape
    <2>2. UNCHANGED <<pending, today>>
        BY <1>1, <1>13, FlushBinariesFacts DEF Shape
    <2> QED
        BY <2>1, <2>2 DEF FlushedSeen
<1>14. CASE FlushFunctions
    <2>1. UNCHANGED <<pending, today, missed>> /\ db'.rows = db.rows /\ at = "flushFunctions"
        BY <1>1, <1>14, FlushFunctionsFacts DEF Shape
    <2> QED
        BY <1>1, <2>1 DEF FlushedSeen
<1>15. CASE FlushRvas
    <2>1. at' \notin {"flushFunctions", "flushRvas"}
        BY <1>1, <1>15, FlushRvasFacts DEF Shape
    <2> QED
        BY <2>1 DEF FlushedSeen
<1>16. CASE Copy
    <2>1. at' \notin {"flushFunctions", "flushRvas"}
        BY <1>1, <1>16, CopyFacts
    <2> QED
        BY <2>1 DEF FlushedSeen
<1>17. CASE Finish
    <2>1. at' \notin {"flushFunctions", "flushRvas"}
        BY <1>1, <1>17, FinishFacts
    <2> QED
        BY <2>1 DEF FlushedSeen
<1>18. CASE Die
    <2>1. at' \notin {"flushFunctions", "flushRvas"}
        BY <1>1, <1>18, DieFacts
    <2> QED
        BY <2>1 DEF FlushedSeen
<1> QED
    BY <1>1, <1>2, <1>3, <1>4, <1>5, <1>6, <1>7, <1>8, <1>9, <1>10, <1>11, <1>12, <1>13, <1>14,
       <1>15, <1>16, <1>17, <1>18 DEF Next, Quiet, Turns
LEMMA ProgressInvHolds == Spec => []ProgressInv
<1>1. Init => ProgressInv
    <2>1. Init => WindowInv
        BY TypeInit DEF Init, WindowInv, Windows, Nothing
    <2> QED
        BY <2>1 DEF Init, ProgressInv, RecordedSeen, Covered, TriedMissed, FlushedSeen, AfterStart
<1>2. ProgressInv /\ [Next]_vars => ProgressInv'
    BY TypeStep, WindowsStep, RecordedSeenStep, CoveredStep, TriedMissedStep, FlushedSeenStep
    DEF ProgressInv, WindowInv
<1> QED
    BY <1>1, <1>2, PTL DEF Spec

(* A binary is in the dataset once a run of the day after it was built has *)
(* returned, but for the exceptions NothingMissed names.                   *)
THEOREM NothingMissedHolds == Spec => []NothingMissed
<1>1. ProgressInv => NothingMissed
    <2> SUFFICES ASSUME ProgressInv, NEW x \in Bins,
                        built[x].day > 0 /\ built[x].utc >= built[x].day /\ built[x].day + 1 \in okDays
                 PROVE  Seen(x, built[x].day + 1)
        BY DEF NothingMissed, Seen, Overlaid
    <2> QED
        BY DEF ProgressInv, RecordedSeen, Due
<1> QED
    BY <1>1, ProgressInvHolds, PTL

-----------------------------------------------------------------------------
(* Appended once a day.                                                    *)

Sound(d) == ~Had("died", d) /\ ~Had("astray", d)

(* No binary is in memory twice, as a file to be added or as a row.        *)
Once ==
    /\ \A r, s \in pending.rows : r.bin = s.bin => r = s
    /\ \A f \in staged : \A r \in pending.rows : f.bin # r.bin

(* A day with rows is done, or the run that works on it has written them.  *)
Closed ==
    \A r \in db.rows : Sound(r.day) => r.day <= dayFile \/ (at \in AfterStart /\ r.day = today)

(* What a run has still to write is not in the file under the day.         *)
Fresh ==
    Sound(today) =>
        \A r \in db.rows : r.day = today =>
            /\ at \notin {"download", "stage", "staging", "giveUp", "connect"}
            /\ at \in Counting => \A f \in staged : f.bin # r.bin
            /\ at \in {"construct", "clear", "flush"} => \A p \in pending.rows : p.bin # r.bin

Unique ==
    \A r, s \in db.rows : r.bin = s.bin /\ r.day = s.day /\ Sound(r.day) => r = s

AppendInv == WindowInv /\ Once /\ Closed /\ Fresh /\ Unique

LEMMA SoundBefore ==
    ASSUME mishaps \subseteq mishaps', NEW d, Sound(d)'
    PROVE  Sound(d)
BY DEF Sound, Had

LEMMA OnceStep == AppendInv /\ [Next]_vars => Once'
<1>1. SUFFICES ASSUME AppendInv, [Next]_vars PROVE Once'
    OBVIOUS
<1> USE DEF AppendInv, WindowInv, TypeInv
<1>2. CASE Quiet
    <2>1. pending' = pending /\ staged' \subseteq staged
        BY <1>1, <1>2, QuietFacts
    <2> QED
        BY <1>1, <2>1 DEF Once
<1>3. ASSUME NEW x \in Bins, Build(x) PROVE Once'
    <2>1. pending' = pending /\ staged' \subseteq staged
        BY <1>1, <1>3, BuildFacts
    <2> QED
        BY <1>1, <2>1 DEF Once
<1>4. CASE Start
    <2>1. pending' = Nothing
        BY <1>1, <1>4, StartFacts, Typed
    <2> QED
        BY <2>1 DEF Once, Nothing
<1>5. CASE NothingToDo
    <2>1. pending' = pending /\ staged' \subseteq staged
        BY <1>1, <1>5, NothingToDoFacts
    <2> QED
        BY <1>1, <2>1 DEF Once
<1>6. ASSUME NEW x \in Bins, Download(x) PROVE Once'
    <2>1. pending' = pending /\ staged' \subseteq staged
        BY <1>1, <1>6, DownloadFacts
    <2> QED
        BY <1>1, <2>1 DEF Once
<1>7. ASSUME NEW x \in Bins, Stage(x) PROVE Once'
    <2>1. pending' = Nothing
        BY <1>1, <1>7, StageFacts, Typed
    <2> QED
        BY <2>1 DEF Once, Nothing
<1>8. CASE GiveUp
    <2>1. pending' = pending /\ staged' \subseteq staged
        BY <1>1, <1>8, GiveUpFacts
    <2> QED
        BY <1>1, <2>1 DEF Once
<1>9. CASE Connect
    <2>1. pending' = pending /\ staged' \subseteq staged
        BY <1>1, <1>9, ConnectFacts DEF Shape
    <2> QED
        BY <1>1, <2>1 DEF Once
<1>10. ASSUME NEW file \in staged, Turns(file) PROVE Once'
    <2>1. CASE Add(file)
        <3>1. pending'.rows = pending.rows \cup {Row(file, nextId')} /\ staged' = staged \ {file}
            BY <1>1, <2>1, Added, AddFacts
        <3>2. Row(file, nextId').bin = file.bin
            BY DEF Row
        <3>3. \A f \in staged' : f.bin # file.bin
            BY <1>1, <3>1 DEF Staging
        <3> QED
            BY <1>1, <3>1, <3>2, <3>3 DEF Once
    <2>2. CASE Leave(file)
        BY <1>1, <2>2, LeaveFacts DEF Once
    <2>3. CASE PassOver(file)
        BY <1>1, <2>3, PassOverFacts DEF Once
    <2> QED
        BY <1>10, <2>1, <2>2, <2>3 DEF Turns
<1>11. CASE Clear
    <2>1. pending' = pending /\ staged' \subseteq staged
        BY <1>1, <1>11, ClearFacts
    <2> QED
        BY <1>1, <2>1 DEF Once
<1>12. CASE TimeOut
    <2>1. pending' = Nothing
        BY <1>1, <1>12, TimeOutFacts
    <2> QED
        BY <2>1 DEF Once, Nothing
<1>13. CASE FlushBinaries
    <2>1. pending' = pending /\ staged' \subseteq staged
        BY <1>1, <1>13, FlushBinariesFacts DEF Shape
    <2> QED
        BY <1>1, <2>1 DEF Once
<1>14. CASE FlushFunctions
    <2>1. pending' = pending /\ staged' \subseteq staged
        BY <1>1, <1>14, FlushFunctionsFacts DEF Shape
    <2> QED
        BY <1>1, <2>1 DEF Once
<1>15. CASE FlushRvas
    <2>1. pending' = Nothing
        BY <1>1, <1>15, FlushRvasFacts DEF Shape
    <2> QED
        BY <2>1 DEF Once, Nothing
<1>16. CASE Copy
    <2>1. pending' = pending /\ staged' \subseteq staged
        BY <1>1, <1>16, CopyFacts
    <2> QED
        BY <1>1, <2>1 DEF Once
<1>17. CASE Finish
    <2>1. pending' = pending /\ staged' \subseteq staged
        BY <1>1, <1>17, FinishFacts
    <2> QED
        BY <1>1, <2>1 DEF Once
<1>18. CASE Die
    <2>1. pending' = Nothing
        BY <1>1, <1>18, DieFacts
    <2> QED
        BY <2>1 DEF Once, Nothing
<1> QED
    BY <1>1, <1>2, <1>3, <1>4, <1>5, <1>6, <1>7, <1>8, <1>9, <1>10, <1>11, <1>12, <1>13, <1>14,
       <1>15, <1>16, <1>17, <1>18 DEF Next, Quiet, Turns
LEMMA ClosedStep == AppendInv /\ [Next]_vars => Closed'
<1>1. SUFFICES ASSUME AppendInv, [Next]_vars PROVE Closed'
    OBVIOUS
<1> USE DEF AppendInv, WindowInv, TypeInv
<1>2. CASE Quiet
    <2>1. UNCHANGED <<dayFile, today, db, mishaps>>
        BY <1>2, QuietFacts
    <2>2. at \in AfterStart => at' \in AfterStart
        BY <1>2, QuietFacts DEF AfterStart
    <2> QED
        BY <1>1, <2>1, <2>2, SoundBefore DEF Closed
<1>3. ASSUME NEW x \in Bins, Build(x) PROVE Closed'
    <2>1. UNCHANGED <<dayFile, today, db, mishaps>>
        BY <1>3, BuildFacts
    <2>2. at \in AfterStart => at' \in AfterStart
        BY <1>3, BuildFacts DEF AfterStart
    <2> QED
        BY <1>1, <2>1, <2>2, SoundBefore DEF Closed
<1>4. CASE Start
    <2>1. UNCHANGED <<db, dayFile>> /\ mishaps \subseteq mishaps' /\ at \notin AfterStart
        BY <1>4, StartFacts DEF AfterStart
    <2> QED
        BY <1>1, <2>1, SoundBefore DEF Closed
<1>5. CASE NothingToDo
    <2>1. UNCHANGED <<db, asked, today>> /\ mishaps \subseteq mishaps' /\ dayFile' = asked /\ at \in AfterStart /\ at # "off"
        BY <1>5, NothingToDoFacts DEF AfterStart
    <2>2. dayFile \in Nat /\ asked \in Nat /\ dayFile <= asked
        BY <1>1, <2>1, Typed DEF Days
    <2>3. Sound(today) => today <= asked
        <3>1. today \in asked..today
            BY <1>1, <2>1, Typed DEF Days, AfterStart
        <3> QED
            BY <1>1, <2>1, <2>2, <3>1 DEF Days, Sound
    <2>4. \A r \in db.rows : r.day \in Nat
        BY <1>1, Typed DEF Days
    <2> QED
        BY <1>1, <2>1, <2>2, <2>3, <2>4, SoundBefore DEF Closed
<1>6. ASSUME NEW x \in Bins, Download(x) PROVE Closed'
    <2>1. UNCHANGED <<dayFile, today>> /\ db'.rows = db.rows /\ mishaps \subseteq mishaps'
        BY <1>1, <1>6, DownloadFacts
    <2>2. at \in AfterStart /\ at' \in AfterStart
        BY <1>1, <1>6, DownloadFacts DEF AfterStart
    <2> QED
        BY <1>1, <2>1, <2>2, SoundBefore DEF Closed
<1>7. ASSUME NEW x \in Bins, Stage(x) PROVE Closed'
    <2>1. UNCHANGED <<dayFile, today>> /\ db'.rows = db.rows /\ mishaps \subseteq mishaps'
        BY <1>1, <1>7, StageFacts
    <2>2. at \in AfterStart /\ at' \in AfterStart
        BY <1>1, <1>7, StageFacts DEF AfterStart
    <2> QED
        BY <1>1, <2>1, <2>2, SoundBefore DEF Closed
<1>8. CASE GiveUp
    <2>1. UNCHANGED <<db, asked, today>> /\ mishaps \subseteq mishaps' /\ dayFile' = asked /\ at \in AfterStart /\ at # "off"
        BY <1>8, GiveUpFacts DEF AfterStart
    <2>2. dayFile \in Nat /\ asked \in Nat /\ dayFile <= asked
        BY <1>1, <2>1, Typed DEF Days
    <2>3. Sound(today) => today <= asked
        <3>1. today \in asked..today
            BY <1>1, <2>1, Typed DEF Days, AfterStart
        <3> QED
            BY <1>1, <2>1, <2>2, <3>1 DEF Days, Sound
    <2>4. \A r \in db.rows : r.day \in Nat
        BY <1>1, Typed DEF Days
    <2> QED
        BY <1>1, <2>1, <2>2, <2>3, <2>4, SoundBefore DEF Closed
<1>9. CASE Connect
    <2>1. UNCHANGED <<dayFile, today>> /\ db'.rows = db.rows /\ mishaps' = mishaps /\ at = "connect"
        BY <1>1, <1>9, ConnectFacts DEF Shape
    <2>2. \A r \in db.rows : Sound(r.day) => r.day # today
        BY <1>1, <2>1 DEF Fresh
    <2> QED
        BY <1>1, <2>1, <2>2, SoundBefore DEF Closed
<1>10. ASSUME NEW file \in staged, Turns(file) PROVE Closed'
    <2>1. UNCHANGED <<dayFile, today>> /\ db'.rows = db.rows /\ mishaps \subseteq mishaps'
        BY <1>1, <1>10, TurnFacts
    <2>2. at \in AfterStart /\ at' \in AfterStart
        BY <1>1, <1>10, TurnFacts DEF AfterStart
    <2> QED
        BY <1>1, <2>1, <2>2, SoundBefore DEF Closed
<1>11. CASE Clear
    <2>1. UNCHANGED <<dayFile, today>> /\ db'.rows = db.rows /\ mishaps \subseteq mishaps'
        BY <1>1, <1>11, ClearFacts
    <2>2. at \in AfterStart /\ at' \in AfterStart
        BY <1>1, <1>11, ClearFacts DEF AfterStart
    <2> QED
        BY <1>1, <2>1, <2>2, SoundBefore DEF Closed
<1>12. CASE TimeOut
    <2>1. UNCHANGED <<db, asked, today>> /\ mishaps \subseteq mishaps' /\ dayFile' = asked /\ at \in AfterStart /\ at # "off"
        BY <1>12, TimeOutFacts DEF AfterStart
    <2>2. dayFile \in Nat /\ asked \in Nat /\ dayFile <= asked
        BY <1>1, <2>1, Typed DEF Days
    <2>3. Sound(today) => today <= asked
        <3>1. today \in asked..today
            BY <1>1, <2>1, Typed DEF Days, AfterStart
        <3> QED
            BY <1>1, <2>1, <2>2, <3>1 DEF Days, Sound
    <2>4. \A r \in db.rows : r.day \in Nat
        BY <1>1, Typed DEF Days
    <2> QED
        BY <1>1, <2>1, <2>2, <2>3, <2>4, SoundBefore DEF Closed
<1>13. CASE FlushBinaries
    <2>1. UNCHANGED <<dayFile, today, mishaps>> /\ db'.rows \subseteq db.rows \cup pending.rows
        BY <1>1, <1>13, FlushBinariesFacts DEF Shape
    <2>2. at' \in AfterStart
        BY <1>1, <1>13, FlushBinariesFacts DEF AfterStart, Shape
    <2>3. \A r \in pending.rows : r.day = today
        BY <1>1 DEF Days
    <2> QED
        BY <1>1, <2>1, <2>2, <2>3, SoundBefore DEF Closed
<1>14. CASE FlushFunctions
    <2>1. UNCHANGED <<dayFile, today>> /\ db'.rows = db.rows /\ mishaps \subseteq mishaps'
        BY <1>1, <1>14, FlushFunctionsFacts DEF Shape
    <2>2. at \in AfterStart /\ at' \in AfterStart
        BY <1>1, <1>14, FlushFunctionsFacts DEF AfterStart, Shape
    <2> QED
        BY <1>1, <2>1, <2>2, SoundBefore DEF Closed
<1>15. CASE FlushRvas
    <2>1. UNCHANGED <<dayFile, today>> /\ db'.rows = db.rows /\ mishaps \subseteq mishaps'
        BY <1>1, <1>15, FlushRvasFacts DEF Shape
    <2>2. at \in AfterStart /\ at' \in AfterStart
        BY <1>1, <1>15, FlushRvasFacts DEF AfterStart, Shape
    <2> QED
        BY <1>1, <2>1, <2>2, SoundBefore DEF Closed
<1>16. CASE Copy
    <2>1. UNCHANGED <<dayFile, today>> /\ db'.rows = db.rows /\ mishaps \subseteq mishaps'
        BY <1>1, <1>16, CopyFacts
    <2>2. at \in AfterStart /\ at' \in AfterStart
        BY <1>1, <1>16, CopyFacts DEF AfterStart
    <2> QED
        BY <1>1, <2>1, <2>2, SoundBefore DEF Closed
<1>17. CASE Finish
    <2>1. UNCHANGED <<db, asked, today>> /\ mishaps \subseteq mishaps' /\ dayFile' = asked /\ at \in AfterStart /\ at # "off"
        BY <1>17, FinishFacts DEF AfterStart
    <2>2. dayFile \in Nat /\ asked \in Nat /\ dayFile <= asked
        BY <1>1, <2>1, Typed DEF Days
    <2>3. Sound(today) => today <= asked
        <3>1. today \in asked..today
            BY <1>1, <2>1, Typed DEF Days, AfterStart
        <3> QED
            BY <1>1, <2>1, <2>2, <3>1 DEF Days, Sound
    <2>4. \A r \in db.rows : r.day \in Nat
        BY <1>1, Typed DEF Days
    <2> QED
        BY <1>1, <2>1, <2>2, <2>3, <2>4, SoundBefore DEF Closed
<1>18. CASE Die
    <2>1. UNCHANGED <<dayFile, today, db>> /\ mishaps \subseteq mishaps' /\ <<"died", today>> \in mishaps'
        BY <1>18, DieFacts
    <2>3. \A d : Sound(d)' => d # today
        BY <2>1 DEF Sound, Had
    <2> QED
        BY <1>1, <2>1, <2>3, SoundBefore DEF Closed
<1> QED
    BY <1>1, <1>2, <1>3, <1>4, <1>5, <1>6, <1>7, <1>8, <1>9, <1>10, <1>11, <1>12, <1>13, <1>14,
       <1>15, <1>16, <1>17, <1>18 DEF Next, Quiet, Turns
LEMMA FreshStep == AppendInv /\ [Next]_vars => Fresh'
<1>1. SUFFICES ASSUME AppendInv, [Next]_vars PROVE Fresh'
    OBVIOUS
<1> USE DEF AppendInv, WindowInv, TypeInv
<1>2. CASE Quiet
    <2>1. UNCHANGED <<today, db, mishaps, staged, pending>> /\ (at' = at \/ at' \in {"asked", "start"})
        BY <1>2, QuietFacts
    <2> QED
        BY <1>1, <2>1, SoundBefore DEF Fresh, Counting
<1>3. ASSUME NEW x \in Bins, Build(x) PROVE Fresh'
    <2>1. UNCHANGED <<today, db, mishaps, staged, pending>> /\ (at' = at \/ at' \in {"asked", "start"})
        BY <1>3, BuildFacts
    <2> QED
        BY <1>1, <2>1, SoundBefore DEF Fresh, Counting
<1>4. CASE Start
    <2>1. UNCHANGED <<db, asked, dayFile>> /\ mishaps \subseteq mishaps' /\ at \notin AfterStart /\ today' = day
        BY <1>4, StartFacts DEF AfterStart
    <2>2. ASSUME Sound(today)' PROVE asked = today' /\ dayFile < today'
        <3>1. day \in asked..day
            BY <1>1, Typed
        <3>2. <<"astray", day>> \notin mishaps'
            BY <2>1, <2>2 DEF Sound, Had
        <3> QED
            BY <1>4, <2>1, <3>1, <3>2, StartFacts
    <2>3. ASSUME Sound(today)', NEW r \in db.rows PROVE r.day # today'
        <3>1. Sound(r.day) => r.day <= dayFile
            BY <1>1, <2>1 DEF Closed
        <3>2. r.day = today' => Sound(r.day)
            BY <2>1, <2>3, SoundBefore DEF Sound, Had
        <3>3. dayFile \in Nat /\ today' \in Nat
            BY <1>1, <2>1, Typed
        <3> QED
            BY <2>2, <2>3, <3>1, <3>2, <3>3
    <2> QED
        BY <2>1, <2>3 DEF Fresh
<1>5. CASE NothingToDo
    <2>1. at' \in {"off", "copy", "remove"}
        BY <1>1, <1>5, NothingToDoFacts
    <2> QED
        BY <2>1 DEF Fresh, Counting
<1>6. ASSUME NEW x \in Bins, Download(x) PROVE Fresh'
    <2>1. UNCHANGED <<today, db, mishaps>> /\ at \in {"download", "stage", "staging"}
        BY <1>6, DownloadFacts
    <2>2. Sound(today)' => \A r \in db'.rows : r.day # today
        BY <1>1, <2>1, SoundBefore DEF Fresh
    <2> QED
        BY <2>1, <2>2 DEF Fresh
<1>7. ASSUME NEW x \in Bins, Stage(x) PROVE Fresh'
    <2>1. UNCHANGED <<today, db, mishaps>> /\ at \in {"download", "stage", "staging"}
        BY <1>7, StageFacts
    <2>2. Sound(today)' => \A r \in db'.rows : r.day # today
        BY <1>1, <2>1, SoundBefore DEF Fresh
    <2> QED
        BY <2>1, <2>2 DEF Fresh
<1>8. CASE GiveUp
    <2>1. at' \in {"off", "copy", "remove"}
        BY <1>1, <1>8, GiveUpFacts
    <2> QED
        BY <2>1 DEF Fresh, Counting
<1>9. CASE Connect
    <2>1. UNCHANGED <<today, mishaps>> /\ db'.rows = db.rows /\ at = "connect"
        BY <1>1, <1>9, ConnectFacts DEF Shape
    <2>2. Sound(today)' => \A r \in db'.rows : r.day # today
        BY <1>1, <2>1, SoundBefore DEF Fresh
    <2> QED
        BY <2>1, <2>2 DEF Fresh
<1>10. ASSUME NEW file \in staged, Turns(file) PROVE Fresh'
    <2>1. UNCHANGED <<today, db>> /\ mishaps \subseteq mishaps' /\ at = "construct" /\ staged' \subseteq staged
        BY <1>10, TurnFacts
    <2>2. at' \in {"construct", "clear"}
        BY <1>10, TurnFacts
    <2>3. \A p \in pending'.rows : p \in pending.rows \/ p.bin = file.bin
        <3>1. CASE Add(file)
            BY <1>1, <3>1, Added DEF Row
        <3>2. CASE Leave(file)
            BY <3>2, LeaveFacts
        <3>3. CASE PassOver(file)
            BY <3>3, PassOverFacts
        <3> QED
            BY <1>10, <3>1, <3>2, <3>3 DEF Turns
    <2>4. Sound(today)' => Sound(today)
        BY <2>1 DEF Sound, Had
    <2>5. ASSUME Sound(today), NEW r \in db.rows, r.day = today
          PROVE  (\A f \in staged' : f.bin # r.bin) /\ \A p \in pending'.rows : p.bin # r.bin
        BY <1>1, <2>1, <2>3, <2>5 DEF Fresh, Counting
    <2> QED
        BY <2>1, <2>2, <2>4, <2>5 DEF Fresh, Counting
<1>11. CASE Clear
    <2>1. UNCHANGED <<today, db, mishaps, pending>> /\ at = "clear" /\ staged' \subseteq staged
          /\ at' \in {"flush", "construct"}
        BY <1>11, ClearFacts
    <2>2. Sound(today)' => Sound(today)
        BY <2>1 DEF Sound, Had
    <2> QED
        BY <1>1, <2>1, <2>2 DEF Fresh, Counting
<1>12. CASE TimeOut
    <2>1. at' \in {"off", "copy", "remove"}
        BY <1>1, <1>12, TimeOutFacts
    <2> QED
        BY <2>1 DEF Fresh, Counting
<1>13. CASE FlushBinaries
    <2>1. UNCHANGED <<today, mishaps, pending, staged>> /\ at = "flush" /\ at' = "flushFunctions"
          /\ db'.rows \subseteq db.rows \cup pending.rows
        BY <1>1, <1>13, FlushBinariesFacts DEF Shape
    <2>2. Sound(today)' => Sound(today)
        BY <2>1 DEF Sound, Had
    <2> QED
        BY <1>1, <2>1, <2>2 DEF Fresh, Counting, Once
<1>14. CASE FlushFunctions
    <2>1. UNCHANGED <<today, mishaps, staged>> /\ at = "flushFunctions" /\ at' = "flushRvas" /\ db'.rows = db.rows
        BY <1>1, <1>14, FlushFunctionsFacts DEF Shape
    <2>2. Sound(today)' => Sound(today)
        BY <2>1 DEF Sound, Had
    <2> QED
        BY <1>1, <2>1, <2>2 DEF Fresh, Counting
<1>15. CASE FlushRvas
    <2>1. UNCHANGED <<today, mishaps, staged>> /\ at = "flushRvas" /\ at' \in {"copy", "construct"}
          /\ db'.rows = db.rows /\ pending'.rows = {}
        BY <1>1, <1>15, FlushRvasFacts DEF Shape, Nothing
    <2>2. Sound(today)' => Sound(today)
        BY <2>1 DEF Sound, Had
    <2> QED
        BY <1>1, <2>1, <2>2 DEF Fresh, Counting
<1>16. CASE Copy
    <2>1. at' \in {"off", "copy", "remove"}
        BY <1>1, <1>16, CopyFacts
    <2> QED
        BY <2>1 DEF Fresh, Counting
<1>17. CASE Finish
    <2>1. at' \in {"off", "copy", "remove"}
        BY <1>1, <1>17, FinishFacts
    <2> QED
        BY <2>1 DEF Fresh, Counting
<1>18. CASE Die
    <2>1. at' \in {"off", "copy", "remove"}
        BY <1>1, <1>18, DieFacts
    <2> QED
        BY <2>1 DEF Fresh, Counting
<1> QED
    BY <1>1, <1>2, <1>3, <1>4, <1>5, <1>6, <1>7, <1>8, <1>9, <1>10, <1>11, <1>12, <1>13, <1>14,
       <1>15, <1>16, <1>17, <1>18 DEF Next, Quiet, Turns
LEMMA UniqueStep == AppendInv /\ [Next]_vars => Unique'
<1>1. SUFFICES ASSUME AppendInv, [Next]_vars PROVE Unique'
    OBVIOUS
<1> USE DEF AppendInv, WindowInv, TypeInv
<1>2. CASE Quiet
    <2>1. db'.rows = db.rows /\ mishaps \subseteq mishaps'
        BY <1>1, <1>2, QuietFacts
    <2> QED
        BY <1>1, <2>1, SoundBefore DEF Unique
<1>3. ASSUME NEW x \in Bins, Build(x) PROVE Unique'
    <2>1. db'.rows = db.rows /\ mishaps \subseteq mishaps'
        BY <1>1, <1>3, BuildFacts
    <2> QED
        BY <1>1, <2>1, SoundBefore DEF Unique
<1>4. CASE Start
    <2>1. db'.rows = db.rows /\ mishaps \subseteq mishaps'
        BY <1>1, <1>4, StartFacts
    <2> QED
        BY <1>1, <2>1, SoundBefore DEF Unique
<1>5. CASE NothingToDo
    <2>1. db'.rows = db.rows /\ mishaps \subseteq mishaps'
        BY <1>1, <1>5, NothingToDoFacts
    <2> QED
        BY <1>1, <2>1, SoundBefore DEF Unique
<1>6. ASSUME NEW x \in Bins, Download(x) PROVE Unique'
    <2>1. db'.rows = db.rows /\ mishaps \subseteq mishaps'
        BY <1>1, <1>6, DownloadFacts
    <2> QED
        BY <1>1, <2>1, SoundBefore DEF Unique
<1>7. ASSUME NEW x \in Bins, Stage(x) PROVE Unique'
    <2>1. db'.rows = db.rows /\ mishaps \subseteq mishaps'
        BY <1>1, <1>7, StageFacts
    <2> QED
        BY <1>1, <2>1, SoundBefore DEF Unique
<1>8. CASE GiveUp
    <2>1. db'.rows = db.rows /\ mishaps \subseteq mishaps'
        BY <1>1, <1>8, GiveUpFacts
    <2> QED
        BY <1>1, <2>1, SoundBefore DEF Unique
<1>9. CASE Connect
    <2>1. db'.rows = db.rows /\ mishaps \subseteq mishaps'
        BY <1>1, <1>9, ConnectFacts DEF Shape
    <2> QED
        BY <1>1, <2>1, SoundBefore DEF Unique
<1>10. ASSUME NEW file \in staged, Turns(file) PROVE Unique'
    <2>1. db'.rows = db.rows /\ mishaps \subseteq mishaps'
        BY <1>1, <1>10, TurnFacts
    <2> QED
        BY <1>1, <2>1, SoundBefore DEF Unique
<1>11. CASE Clear
    <2>1. db'.rows = db.rows /\ mishaps \subseteq mishaps'
        BY <1>1, <1>11, ClearFacts
    <2> QED
        BY <1>1, <2>1, SoundBefore DEF Unique
<1>12. CASE TimeOut
    <2>1. db'.rows = db.rows /\ mishaps \subseteq mishaps'
        BY <1>1, <1>12, TimeOutFacts
    <2> QED
        BY <1>1, <2>1, SoundBefore DEF Unique
<1>13. CASE FlushBinaries
    <2>1. UNCHANGED <<mishaps, today>> /\ at = "flush" /\ db'.rows \subseteq db.rows \cup pending.rows
        BY <1>1, <1>13, FlushBinariesFacts DEF Shape
    <2>2. \A r \in pending.rows : r.day = today
        BY <1>1 DEF Days
    <2>3. \A r \in db.rows : \A p \in pending.rows : Sound(today) /\ r.day = today => p.bin # r.bin
        BY <1>1, <2>1 DEF Fresh
    <2>4. \A d : Sound(d)' => Sound(d)
        BY <2>1, SoundBefore
    <2> QED
        BY <1>1, <2>1, <2>2, <2>3, <2>4 DEF Unique, Once
<1>14. CASE FlushFunctions
    <2>1. db'.rows = db.rows /\ mishaps \subseteq mishaps'
        BY <1>1, <1>14, FlushFunctionsFacts DEF Shape
    <2> QED
        BY <1>1, <2>1, SoundBefore DEF Unique
<1>15. CASE FlushRvas
    <2>1. db'.rows = db.rows /\ mishaps \subseteq mishaps'
        BY <1>1, <1>15, FlushRvasFacts DEF Shape
    <2> QED
        BY <1>1, <2>1, SoundBefore DEF Unique
<1>16. CASE Copy
    <2>1. db'.rows = db.rows /\ mishaps \subseteq mishaps'
        BY <1>1, <1>16, CopyFacts
    <2> QED
        BY <1>1, <2>1, SoundBefore DEF Unique
<1>17. CASE Finish
    <2>1. db'.rows = db.rows /\ mishaps \subseteq mishaps'
        BY <1>1, <1>17, FinishFacts
    <2> QED
        BY <1>1, <2>1, SoundBefore DEF Unique
<1>18. CASE Die
    <2>1. db'.rows = db.rows /\ mishaps \subseteq mishaps'
        BY <1>1, <1>18, DieFacts
    <2> QED
        BY <1>1, <2>1, SoundBefore DEF Unique
<1> QED
    BY <1>1, <1>2, <1>3, <1>4, <1>5, <1>6, <1>7, <1>8, <1>9, <1>10, <1>11, <1>12, <1>13, <1>14,
       <1>15, <1>16, <1>17, <1>18 DEF Next, Quiet, Turns
LEMMA AppendInvHolds == Spec => []AppendInv
<1>1. Init => AppendInv
    <2>1. Init => WindowInv
        BY TypeInit DEF Init, WindowInv, Windows, Nothing
    <2> QED
        BY <2>1 DEF Init, AppendInv, Once, Closed, Fresh, Unique, Nothing
<1>2. AppendInv /\ [Next]_vars => AppendInv'
    BY TypeStep, WindowsStep, OnceStep, ClosedStep, FreshStep, UniqueStep DEF AppendInv, WindowInv
<1> QED
    BY <1>1, <1>2, PTL DEF Spec

(* A binary is appended from the day it was built to the day after its     *)
(* date in UTC, and once a day, but for runs that died or went astray.     *)
THEOREM AppendedOnceADayHolds == Spec => []AppendedOnceADay
<1>1. AppendInv => AppendedOnceADay
    BY DEF AppendInv, WindowInv, Windows, InWindow, Unique, Sound, AppendedOnceADay
<1> QED
    BY <1>1, AppendInvHolds, PTL

=============================================================================
