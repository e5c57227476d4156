------------------------- MODULE BuilderTask_proofs -------------------------
(* Proofs about the sources a builder works on, what it stores and         *)
(* reports and the time it takes, for any repositories, tasks and builders, and any number of    *)
(* pushes and faults.                                                      *)
EXTENDS BuilderTask, FiniteSetTheorems, SequenceTheorems, WellFoundedInduction, TLAPS

-----------------------------------------------------------------------------
(* A tree is none, or that of a commit.                                    *)
Trees == {tr \in Tree_ : tr = NoTree \/ tr.commit \in Commits}

(* Where a builder has a source, and where it may have built in it.        *)
Sourced == {"restored", "cloned", "archive", "point", "report", "build"}
Built == {"debug", "metadata", "binaries", "ir", "manifest", "finish", "clean", "down"}

(* The invariant, of what builders share ...                               *)
SharedInv ==
    /\ \A r \in Repos : head[r] \in 1..MaxHead[r]
    /\ DOMAIN head = Repos
    /\ archives \in [Repos -> [Labels -> Trees]]
    /\ pointer \in [Repos -> Labels \cup {None}]
    /\ PointerHasArchive
    /\ \A r \in Repos \ unswept, c \in Labels : archives[r][c].products = {}

(* ... and of one builder: what it is about to point at is archived, and   *)
(* it has products of a build only between that build and the clean-up,    *)
(* if that cleans.                                                         *)
BuilderInv(b) ==
    /\ DOMAIN job[b] = DOMAIN Idle
    /\ at[b] \notin {"idle", "down"} => job[b].task \in Tasks
    /\ at[b] \in {"fetch", "archive", "point"} => job[b].label \in Labels
    /\ tree[b] \in [Repos -> Trees]
    /\ at[b] \in Sourced => Tree(b).commit \in Commits
    /\ at[b] = "point" => archives[Repo(b)][job[b].label] # NoTree
    /\ \A r \in Repos \ unswept : tree[b][r].products # {} => at[b] \in Built /\ r = Repo(b)

SourceInv ==
    /\ DOMAIN at = Builders /\ DOMAIN job = Builders /\ DOMAIN tree = Builders
    /\ SharedInv
    /\ \A b \in Builders : BuilderInv(b)

LEMMA CommitsAreNumbers == Commits \subseteq Nat /\ None \notin Commits /\ Commits \subseteq Labels
BY BuilderAssumption DEF Commits, Labels

LEMMA NoTreeIsTree == NoTree \in Trees /\ NoTree.products = {} /\ NoTree.commit \notin Commits
BY CommitsAreNumbers DEF Trees, Tree_, NoTree

LEMMA SourceInit == Init => SourceInv
<1> SUFFICES ASSUME Init PROVE SourceInv
  OBVIOUS
<1>1. SharedInv
  <2>1. \A r \in Repos : 1 \in 1..MaxHead[r]
    BY BuilderAssumption
  <2> QED BY <2>1, NoTreeIsTree DEF Init, SharedInv, PointerHasArchive
<1>2. ASSUME NEW b \in Builders PROVE BuilderInv(b)
  BY <1>2, NoTreeIsTree DEF Init, BuilderInv, Sourced
<1> QED BY <1>1, <1>2 DEF Init, SourceInv

(* A step of one builder has to be looked at there, and in what is shared, *)
(* where archives are replaced but never taken away.                       *)
LEMMA OneBuilder ==
    ASSUME SourceInv, NEW b \in Builders,
           DOMAIN at' = Builders, DOMAIN job' = Builders, DOMAIN tree' = Builders,
           \A c \in Builders : c # b => /\ at'[c] = at[c] /\ job'[c] = job[c]
                                       /\ tree'[c] = tree[c],
           \A r \in Repos, c \in Labels : archives[r][c] # NoTree => archives'[r][c] # NoTree,
           SharedInv', BuilderInv(b)', unswept \subseteq unswept'
    PROVE  SourceInv'
<1>2. ASSUME NEW c \in Builders, c # b PROVE BuilderInv(c)'
  <2>1. at'[c] = at[c] /\ job'[c] = job[c] /\ tree'[c] = tree[c]
    BY <1>2
  <2>2. BuilderInv(c)
    BY DEF SourceInv
  <2>3. at[c] = "point" => RepoOf[job[c].task] \in Repos /\ job[c].label \in Labels
    BY <2>2, BuilderAssumption DEF BuilderInv
  <2>4. at[c] = "point" => archives'[RepoOf[job[c].task]][job[c].label] # NoTree
    BY <2>2, <2>3 DEF BuilderInv, Repo
  <2> QED BY <2>1, <2>2, <2>4 DEF BuilderInv, Tree, Repo
<1> QED BY <1>2 DEF SourceInv

(* It moves on, and its task and tree stay.                                *)
LEMMA MovesOn ==
    ASSUME SourceInv, NEW b \in Builders, NEW a, Goes(b, a),
           UNCHANGED <<tree, shared, unswept>>, DOMAIN job' = Builders,
           \A c \in Builders : c # b => job'[c] = job[c],
           DOMAIN job'[b] = DOMAIN Idle, job'[b].task = job[b].task,
           at[b] \notin {"idle", "down"},
           a \in {"fetch", "archive"} => job'[b].label \in Labels,
           a # "point",
           a \in Sourced => at[b] \in Sourced,
           at[b] \in Built => a \in Built
    PROVE  SourceInv'
<1>1. SharedInv'
  BY DEF SourceInv, SharedInv, PointerHasArchive, shared
<1>2. /\ at'[b] = a /\ tree' = tree
      /\ DOMAIN at' = Builders /\ DOMAIN tree' = Builders
      /\ \A c \in Builders : c # b => at'[c] = at[c]
      /\ archives' = archives /\ BuilderInv(b)
  BY DEF SourceInv, shared, Goes
<1>3. BuilderInv(b)'
  BY <1>2 DEF BuilderInv, Tree, Repo
<1> QED BY <1>1, <1>2, <1>3, OneBuilder

(* What run_task notes about its task besides. *)
LEMMA JobNotes ==
    ASSUME SourceInv, NEW b \in Builders,
           \/ UNCHANGED job
           \/ \E v : SetJob(b, "label", v)
           \/ \E v : SetJob(b, "dwarf", v)
           \/ \E v : SetJob(b, "saved", v)
           \/ \E v, u : job' = [job EXCEPT ![b].saved = v, ![b].dwarf = u]
           \/ \E v, u : job' = [job EXCEPT ![b].status = v, ![b].binary = u]
    PROVE  /\ DOMAIN job' = Builders /\ DOMAIN job'[b] = DOMAIN Idle
           /\ \A c \in Builders : c # b => job'[c] = job[c]
           /\ job'[b].task = job[b].task
<1>1. DOMAIN job = Builders /\ DOMAIN job[b] = DOMAIN Idle /\ "task" \in DOMAIN Idle
  BY DEF SourceInv, BuilderInv, Idle
<1>2. CASE \E v, u : job' = [job EXCEPT ![b].saved = v, ![b].dwarf = u]
  BY <1>1, <1>2
<1>3. CASE \E v, u : job' = [job EXCEPT ![b].status = v, ![b].binary = u]
  BY <1>1, <1>3
<1>4. ASSUME NEW e, DOMAIN e = DOMAIN Idle, e.task = job[b].task, job' = [job EXCEPT ![b] = e]
      PROVE  /\ DOMAIN job' = Builders /\ DOMAIN job'[b] = DOMAIN Idle
             /\ \A c \in Builders : c # b => job'[c] = job[c]
             /\ job'[b].task = job[b].task
  BY <1>1, <1>4
<1>5. CASE \/ \E v : SetJob(b, "label", v)
           \/ \E v : SetJob(b, "dwarf", v)
           \/ \E v : SetJob(b, "saved", v)
  <2>1. \E e : /\ DOMAIN e = DOMAIN Idle /\ e.task = job[b].task
               /\ job' = [job EXCEPT ![b] = e]
    BY <1>1, <1>5 DEF SetJob
  <2> QED BY <1>4, <2>1
<1>6. CASE job' = job
  BY <1>1, <1>6
<1> QED BY <1>2, <1>3, <1>5, <1>6

-----------------------------------------------------------------------------
(* The steps that touch the sources.                                       *)

LEMMA SourceOfTake == ASSUME SourceInv, NEW b \in Builders, TakeTask(b) PROVE SourceInv'
<1>1. PICK t \in Tasks : job' = [job EXCEPT ![b] = [Idle EXCEPT !.task = t]]
  BY DEF TakeTask
<1>2. /\ at[b] = "idle" /\ at'[b] = "pointer" /\ tree' = tree /\ archives' = archives
      /\ UNCHANGED <<shared, unswept>>
      /\ DOMAIN at' = Builders /\ DOMAIN job' = Builders /\ DOMAIN tree' = Builders
      /\ \A c \in Builders : c # b => at'[c] = at[c] /\ job'[c] = job[c]
      /\ DOMAIN job'[b] = DOMAIN Idle /\ job'[b].task \in Tasks
  BY <1>1 DEF TakeTask, Goes, SourceInv, shared, Idle
<1>3. SharedInv'
  BY <1>2 DEF SourceInv, SharedInv, PointerHasArchive, shared
<1>4. BuilderInv(b)'
  BY <1>2 DEF SourceInv, BuilderInv, Sourced, Built
<1> QED BY <1>2, <1>3, <1>4, OneBuilder

(* Whatever ends a task before the build leaves no products behind. *)
LEMMA SourceOfIdle ==
    ASSUME SourceInv, NEW b \in Builders,
           at' = [at EXCEPT ![b] = "idle"], job' = [job EXCEPT ![b] = Idle],
           UNCHANGED shared, unswept \subseteq unswept', DOMAIN tree' = Builders, tree'[b] \in [Repos -> Trees],
           \A c \in Builders : c # b => tree'[c] = tree[c],
           \A r \in Repos \ unswept' : tree'[b][r].products = {}
    PROVE  SourceInv'
<1>1. /\ at'[b] = "idle" /\ job'[b] = Idle /\ archives' = archives
      /\ DOMAIN at' = Builders /\ DOMAIN job' = Builders
      /\ \A c \in Builders : c # b => at'[c] = at[c] /\ job'[c] = job[c]
  BY DEF SourceInv, shared
<1>2. SharedInv'
  BY DEF SourceInv, SharedInv, PointerHasArchive, shared
<1>3. BuilderInv(b)'
  BY <1>1 DEF BuilderInv, Sourced
<1> QED BY <1>1, <1>2, <1>3, OneBuilder

LEMMA SourceOfRestore == ASSUME SourceInv, NEW b \in Builders, RestoreArchive(b) PROVE SourceInv'
<1> DEFINE r == Repo(b)
           archive == archives[r][job[b].label]
           lingers == IF Tree(b) = NoTree THEN {} ELSE Contents(Tree(b))
           new == [archive EXCEPT !.extra = (@ \cup lingers) \ {archive.commit},
                                  !.products = @ \cup Tree(b).products]
<1>1. /\ at[b] = "fetch" /\ BuilderInv(b) /\ job' = job /\ UNCHANGED <<shared, unswept>>
      /\ DOMAIN at' = Builders /\ DOMAIN job' = Builders /\ DOMAIN tree' = Builders
      /\ \A c \in Builders : c # b => at'[c] = at[c] /\ tree'[c] = tree[c]
      /\ archives' = archives
  BY DEF RestoreArchive, SourceInv, Goes, SetTree, shared, rest
<1>2. /\ r \in Repos /\ archive \in Trees /\ Tree(b) \in Trees
      /\ r \notin unswept => archive.products = {}
  <2>1. job[b].task \in Tasks /\ job[b].label \in Labels /\ tree[b] \in [Repos -> Trees]
    BY <1>1 DEF BuilderInv
  <2>2. r \in Repos
    BY <2>1, BuilderAssumption DEF Repo
  <2>3. archive \in Trees /\ (r \notin unswept => archive.products = {})
    BY <2>1, <2>2 DEF SourceInv, SharedInv
  <2>4. Tree(b) \in Trees
    BY <2>1, <2>2 DEF Tree
  <2> QED BY <2>2, <2>3, <2>4
<1>3. \A x \in Repos \ unswept : tree[b][x].products = {}
  BY <1>1 DEF BuilderInv, Built
<1>4. /\ \/ at'[b] = "restored" /\ archive # NoTree /\ tree'[b] = [tree[b] EXCEPT ![r] = new]
         \/ at'[b] = "clone" /\ tree'[b] = tree[b]
         \/ at'[b] = "clone" /\ tree'[b] = [tree[b] EXCEPT ![r] = NoTree]
  BY DEF RestoreArchive, SourceInv, Goes, SetTree
<1>5. lingers \subseteq Commits
  BY <1>2 DEF Trees, Tree_, Contents
<1>6. archive # NoTree => /\ new \in Trees /\ new.commit \in Commits
                          /\ r \notin unswept => new.products = {}
  <2>1. archive # NoTree => archive.commit \in Commits
    BY <1>2 DEF Trees
  <2>2. r \notin unswept => Tree(b).products = {}
    BY <1>2, <1>3 DEF Tree
  <2>3. archive \in Tree_
    BY <1>2 DEF Trees
  <2> HIDE DEF archive, lingers
  <2>4. archive # NoTree => /\ new \in Tree_ /\ new.commit = archive.commit
                            /\ new.products = archive.products \cup Tree(b).products
    BY <1>2, <1>5, <2>1, <2>3 DEF Trees, Tree_
  <2> QED BY <1>2, <2>1, <2>2, <2>4 DEF Trees
<1>7. SharedInv'
  BY <1>1 DEF SourceInv, SharedInv, PointerHasArchive, shared
<1>8. BuilderInv(b)'
  <2> HIDE DEF archive, lingers, new
  <2>1. tree[b] \in [Repos -> Trees] /\ job'[b] = job[b] /\ Repo(b)' = r
    BY <1>1 DEF BuilderInv, Repo
  <2>2. tree'[b] \in [Repos -> Trees]
    BY <1>4, <1>6, <2>1, NoTreeIsTree
  <2>3. \A x \in Repos \ unswept : tree'[b][x].products = {}
    BY <1>2, <1>3, <1>4, <1>6, <2>1, NoTreeIsTree
  <2>4. at'[b] = "restored" => tree'[b][r].commit \in Commits
    BY <1>2, <1>4, <1>6, <2>1
  <2> HIDE DEF r
  <2>5. at'[b] \in {"restored", "clone"} /\ job[b].task \in Tasks
    BY <1>1, <1>4 DEF BuilderInv
  <2> QED BY <1>1, <2>1, <2>2, <2>3, <2>4, <2>5 DEF BuilderInv, Tree, Sourced
<1> QED BY <1>1, <1>7, <1>8, OneBuilder

LEMMA SourceOfClone == ASSUME SourceInv, NEW b \in Builders, Clone(b) PROVE SourceInv'
<1> DEFINE r == Repo(b)
           new == [commit |-> head[r], extra |-> Tree(b).extra \ {head[r]},
                   products |-> Tree(b).products]
<1>1. /\ at[b] = "clone" /\ BuilderInv(b) /\ UNCHANGED <<shared, unswept>>
      /\ DOMAIN at' = Builders /\ DOMAIN job' = Builders /\ DOMAIN tree' = Builders
      /\ \A c \in Builders : c # b => at'[c] = at[c] /\ job'[c] = job[c] /\ tree'[c] = tree[c]
      /\ archives' = archives
  BY DEF Clone, SourceInv, Goes, SetTree, shared
<1>2. r \in Repos /\ Tree(b) \in Trees /\ head[r] \in Commits
  <2>1. r \in Repos
    BY <1>1, BuilderAssumption DEF BuilderInv, Repo
  <2>2. Tree(b) \in Trees
    BY <1>1, <2>1 DEF BuilderInv, Tree
  <2>3. head[r] \in Commits
    BY <2>1, BuilderAssumption DEF SourceInv, SharedInv, Commits
  <2> QED BY <2>1, <2>2, <2>3
<1>3. \A x \in Repos \ unswept : tree[b][x].products = {}
  BY <1>1 DEF BuilderInv, Built
<1>4. new \in Trees /\ new.commit \in Commits /\ (r \notin unswept => new.products = {})
  BY <1>2, <1>3 DEF Trees, Tree_, Tree
<1>5. \/ at'[b] = "cloned" /\ job' = job /\ tree'[b] = [tree[b] EXCEPT ![r] = new]
      \/ /\ at' = [at EXCEPT ![b] = "idle"] /\ job' = [job EXCEPT ![b] = Idle]
         /\ tree'[b] = tree[b] \/ tree'[b] = [tree[b] EXCEPT ![r] = new]
  BY DEF Clone, SourceInv, Goes, SetTree
<1>6. tree[b] \in [Repos -> Trees]
  BY <1>1 DEF BuilderInv
<1> HIDE DEF new
<1>7. tree'[b] \in [Repos -> Trees] /\ \A x \in Repos \ unswept : tree'[b][x].products = {}
  BY <1>2, <1>3, <1>4, <1>5, <1>6
<1>8. CASE at' = [at EXCEPT ![b] = "idle"] /\ job' = [job EXCEPT ![b] = Idle]
  BY <1>1, <1>7, <1>8, SourceOfIdle
<1>9. CASE at'[b] = "cloned" /\ job' = job /\ tree'[b] = [tree[b] EXCEPT ![r] = new]
  <2>1. SharedInv'
    BY <1>1 DEF SourceInv, SharedInv, PointerHasArchive, shared
  <2>2. Repo(b)' = r /\ tree'[b][r].commit \in Commits
    BY <1>2, <1>4, <1>6, <1>9 DEF Repo
  <2> HIDE DEF r
  <2>3. BuilderInv(b)'
    BY <1>1, <1>7, <1>9, <2>2 DEF BuilderInv, Tree
  <2> QED BY <1>1, <2>1, <2>3, OneBuilder
<1> QED BY <1>5, <1>8, <1>9

LEMMA SourceOfArchive == ASSUME SourceInv, NEW b \in Builders, UploadArchive(b) PROVE SourceInv'
<1> DEFINE r == Repo(b)
           label == job[b].label
<1>1. /\ at[b] = "archive" /\ BuilderInv(b) /\ job' = job /\ tree' = tree
      /\ UNCHANGED <<head, pointer, unswept>> /\ SharedInv
      /\ DOMAIN at' = Builders /\ DOMAIN job' = Builders /\ DOMAIN tree' = Builders
      /\ \A c \in Builders : c # b => at'[c] = at[c]
  BY DEF UploadArchive, SourceInv, Goes, rest
<1>2. r \in Repos /\ label \in Labels
  BY <1>1, BuilderAssumption DEF BuilderInv, Repo
<1>3. Tree(b) \in Trees /\ Tree(b) # NoTree /\ (r \notin unswept => Tree(b).products = {})
  BY <1>1, <1>2, NoTreeIsTree DEF BuilderInv, Tree, Built, Sourced
<1>4. \/ at'[b] = "point" /\ archives' = [archives EXCEPT ![r][label] = Tree(b)]
      \/ at'[b] = "report" /\ archives' = archives
  BY DEF UploadArchive, SourceInv, Goes
<1>5. archives \in [Repos -> [Labels -> Trees]]
  BY <1>1 DEF SharedInv
<1> HIDE DEF r, label
<1>6. \A x \in Repos, c \in Labels :
         \/ archives'[x][c] = archives[x][c]
         \/ x = r /\ archives'[x][c] = Tree(b)
  BY <1>2, <1>4, <1>5
<1>7. archives' \in [Repos -> [Labels -> Trees]]
  BY <1>2, <1>3, <1>4, <1>5
<1>8. SharedInv'
  BY <1>1, <1>3, <1>6, <1>7 DEF SharedInv, PointerHasArchive
<1>9. at'[b] = "point" => archives'[r][label] # NoTree
  BY <1>2, <1>3, <1>4, <1>5
<1>10. BuilderInv(b)'
  <2>1. Repo(b)' = r /\ job'[b].label = label /\ Tree(b)' = Tree(b)
    BY <1>1 DEF r, label, Repo, Tree
  <2> QED BY <1>1, <1>2, <1>4, <1>9, <2>1 DEF BuilderInv, Sourced, Built
<1> QED BY <1>1, <1>3, <1>6, <1>8, <1>10, OneBuilder

LEMMA SourceOfPointer == ASSUME SourceInv, NEW b \in Builders, PutPointer(b) PROVE SourceInv'
<1> DEFINE r == Repo(b)
           label == job[b].label
<1>1. /\ at[b] = "point" /\ at'[b] = "report" /\ BuilderInv(b) /\ job' = job /\ tree' = tree
      /\ UNCHANGED <<head, archives, unswept>> /\ SharedInv
      /\ DOMAIN at' = Builders /\ DOMAIN job' = Builders /\ DOMAIN tree' = Builders
      /\ \A c \in Builders : c # b => at'[c] = at[c]
  BY DEF PutPointer, SourceInv, Goes, rest
<1>2. r \in Repos /\ label \in Labels /\ archives[r][label] # NoTree
  BY <1>1, BuilderAssumption DEF BuilderInv, Repo
<1>3. pointer' = pointer \/ pointer' = [pointer EXCEPT ![r] = label]
  BY DEF PutPointer
<1> HIDE DEF r, label
<1>4. SharedInv'
  BY <1>1, <1>2, <1>3 DEF SharedInv, PointerHasArchive
<1>5. BuilderInv(b)'
  BY <1>1 DEF BuilderInv, Sourced, Built, Tree, Repo
<1> QED BY <1>1, <1>4, <1>5, OneBuilder

LEMMA SourceOfBuild == ASSUME SourceInv, NEW b \in Builders, Build(b) PROVE SourceInv'
<1> DEFINE r == Repo(b)
           t == job[b].task
           new == [Tree(b) EXCEPT !.products = @ \cup {t}]
<1>1. /\ at[b] = "build" /\ at'[b] = "debug" /\ BuilderInv(b) /\ UNCHANGED <<shared, unswept>>
      /\ archives' = archives
      /\ DOMAIN at' = Builders /\ DOMAIN tree' = Builders
      /\ \A c \in Builders : c # b => at'[c] = at[c] /\ tree'[c] = tree[c]
  BY DEF Build, SourceInv, Goes, SetTree, shared, rest
<1>2. r \in Repos /\ t \in Tasks /\ Tree(b) \in Trees /\ Tree(b).commit \in Commits
  BY <1>1, BuilderAssumption DEF BuilderInv, Repo, Tree, Sourced
<1>3. \A x \in Repos \ unswept : tree[b][x].products = {}
  BY <1>1 DEF BuilderInv, Built
<1>4. tree'[b] = [tree[b] EXCEPT ![r] = new] \/ tree'[b] = [tree[b] EXCEPT ![r] = Tree(b)]
  BY DEF Build, SourceInv, SetTree
<1>5. new \in Trees
  BY <1>2 DEF Trees, Tree_
<1>6. \E v, u : job' = [job EXCEPT ![b].status = v, ![b].binary = u]
  BY DEF Build
<1>7. /\ DOMAIN job' = Builders /\ DOMAIN job'[b] = DOMAIN Idle
      /\ \A c \in Builders : c # b => job'[c] = job[c]
      /\ job'[b].task = t
  BY <1>6, JobNotes
<1>8. SharedInv'
  BY <1>1 DEF SourceInv, SharedInv, PointerHasArchive, shared
<1>9. tree[b] \in [Repos -> Trees] /\ Repo(b)' = r
  BY <1>1, <1>7 DEF BuilderInv, Repo
<1> HIDE DEF r, t, new
<1>10. /\ tree'[b] \in [Repos -> Trees]
       /\ \A x \in Repos \ unswept : tree'[b][x].products # {} => x = r
  BY <1>2, <1>3, <1>4, <1>5, <1>9 DEF Tree
<1>11. BuilderInv(b)'
  BY <1>1, <1>2, <1>7, <1>9, <1>10 DEF BuilderInv, Sourced, Built
<1> QED BY <1>1, <1>7, <1>8, <1>11, OneBuilder

LEMMA SourceOfEnd ==
    ASSUME SourceInv, NEW b \in Builders, RaiseEarly(b) \/ CleanFolder(b) \/ Restart(b)
    PROVE  SourceInv'
<1>1. /\ at' = [at EXCEPT ![b] = "idle"] /\ job' = [job EXCEPT ![b] = Idle] /\ UNCHANGED shared
      /\ DOMAIN tree' = Builders /\ \A c \in Builders : c # b => tree'[c] = tree[c]
      /\ unswept \subseteq unswept'
  BY DEF SourceInv, RaiseEarly, CleanFolder, Restart, Goes, SetTree, shared, Remains
<1>2. BuilderInv(b) /\ tree[b] \in [Repos -> Trees]
  BY DEF SourceInv, BuilderInv
<1>3. tree'[b] \in [Repos -> Trees] /\ \A r \in Repos \ unswept' : tree'[b][r].products = {}
  <2>1. CASE RaiseEarly(b)
    BY <1>2, <2>1 DEF RaiseEarly, BuilderInv, Built
  <2>2. CASE CleanFolder(b)
    <3>1. \/ tree'[b] = [tree[b] EXCEPT ![Repo(b)] = NoTree] /\ unswept' = unswept
          \/ tree' = tree /\ unswept' = unswept \cup {Repo(b)}
      BY <2>2 DEF CleanFolder, SetTree, SourceInv, Remains
    <3>2. \A r \in Repos \ unswept : r # Repo(b) => tree[b][r].products = {}
      BY <1>2 DEF BuilderInv
    <3> QED BY <1>2, <3>1, <3>2, NoTreeIsTree
  <2>3. CASE Restart(b)
    <3>1. PICK left \in SUBSET Repos :
             /\ tree' = [tree EXCEPT ![b] = [r \in Repos |-> IF r \in left THEN @[r] ELSE NoTree]]
             /\ unswept' = unswept \cup left
      BY <2>3 DEF Restart, Remains
    <3>2. tree'[b] = [r \in Repos |-> IF r \in left THEN tree[b][r] ELSE NoTree]
      BY <3>1 DEF SourceInv
    <3> QED BY <1>2, <3>1, <3>2, NoTreeIsTree
  <2> QED BY <2>1, <2>2, <2>3
<1> QED BY <1>1, <1>3, SourceOfIdle

LEMMA SourceOfMove ==
    ASSUME SourceInv, NEW b \in Builders,
           \/ ReadPointer(b) \/ GetProjectCommit(b) \/ ReportProcessing(b) \/ DebugInfo(b)
           \/ SaveMetadata(b) \/ SaveBinaries(b) \/ PersistIr(b) \/ SaveExportManifest(b)
           \/ ReportFinished(b) \/ RaiseLate(b) \/ Crash(b)
    PROVE  SourceInv'
<1>0. BuilderInv(b) /\ DOMAIN job = Builders /\ DOMAIN job[b] = DOMAIN Idle
  BY DEF SourceInv, BuilderInv
<1>1. CASE ReadPointer(b)
  <2>1. \/ Goes(b, "fetch") /\ SetJob(b, "label", pointer[Repo(b)]) /\ pointer[Repo(b)] # None
        \/ Goes(b, "clone") /\ UNCHANGED job
    BY <1>1 DEF ReadPointer, rest
  <2>2. at[b] = "pointer" /\ UNCHANGED <<tree, shared, unswept>>
    BY <1>1 DEF ReadPointer, shared, rest
  <2>3. /\ DOMAIN job' = Builders /\ DOMAIN job'[b] = DOMAIN Idle
        /\ \A c \in Builders : c # b => job'[c] = job[c]
        /\ job'[b].task = job[b].task
    BY <2>1, JobNotes
  <2>4. Repo(b) \in Repos
    BY <1>0, <2>2, BuilderAssumption DEF BuilderInv, Repo
  <2>5. SetJob(b, "label", pointer[Repo(b)]) /\ pointer[Repo(b)] # None => job'[b].label \in Labels
    BY <1>0, <2>4 DEF SetJob, SourceInv, SharedInv, Idle
  <2> QED BY <2>1, <2>2, <2>3, <2>5, MovesOn DEF Sourced, Built
<1>2. CASE GetProjectCommit(b)
  <2>1. SetJob(b, "label", Tree(b).commit) \/ SetJob(b, "label", Unknown)
    BY <1>2 DEF GetProjectCommit, rest
  <2>2. /\ at[b] \in {"restored", "cloned"} /\ UNCHANGED <<tree, shared, unswept>>
        /\ Goes(b, "report") \/ Goes(b, "archive")
    BY <1>2 DEF GetProjectCommit, rest
  <2>3. /\ DOMAIN job' = Builders /\ DOMAIN job'[b] = DOMAIN Idle
        /\ \A c \in Builders : c # b => job'[c] = job[c]
        /\ job'[b].task = job[b].task
    BY <2>1, JobNotes
  <2>4. job'[b].label \in Labels
    BY <1>0, <2>1, <2>2, CommitsAreNumbers DEF SetJob, BuilderInv, Sourced, Labels, Idle
  <2> QED BY <2>2, <2>3, <2>4, MovesOn DEF Sourced, Built
<1>3. CASE ReportProcessing(b)
  <2>1. Goes(b, "build") /\ at[b] = "report" /\ UNCHANGED <<tree, shared, job, unswept>>
    BY <1>3 DEF ReportProcessing, rest
  <2> QED BY <1>0, <2>1, MovesOn DEF Sourced, Built
<1>4. CASE DebugInfo(b)
  <2>1. /\ Goes(b, "metadata") \/ Goes(b, "finish")
        /\ at[b] = "debug" /\ UNCHANGED <<tree, shared, unswept>>
        /\ \E v : SetJob(b, "dwarf", v)
    BY <1>4 DEF DebugInfo, rest
  <2>2. /\ DOMAIN job' = Builders /\ DOMAIN job'[b] = DOMAIN Idle
        /\ \A c \in Builders : c # b => job'[c] = job[c]
        /\ job'[b].task = job[b].task
    BY <2>1, JobNotes
  <2> QED BY <2>1, <2>2, MovesOn DEF Sourced, Built
<1>5. CASE SaveMetadata(b) \/ SaveBinaries(b) \/ PersistIr(b) \/ SaveExportManifest(b)
  <2>1. /\ Goes(b, "binaries") \/ Goes(b, "ir") \/ Goes(b, "manifest") \/ Goes(b, "finish")
        /\ at[b] \in {"metadata", "binaries", "ir", "manifest"} /\ UNCHANGED <<tree, shared, unswept>>
    BY <1>5 DEF SaveMetadata, SaveBinaries, PersistIr, SaveExportManifest, rest
  <2>2. \/ UNCHANGED job
        \/ \E v : SetJob(b, "dwarf", v)
        \/ \E v : SetJob(b, "saved", v)
        \/ \E v, u : job' = [job EXCEPT ![b].saved = v, ![b].dwarf = u]
    BY <1>5 DEF SaveMetadata, SaveBinaries, PersistIr, SaveExportManifest, rest
  <2>3. /\ DOMAIN job' = Builders /\ DOMAIN job'[b] = DOMAIN Idle
        /\ \A c \in Builders : c # b => job'[c] = job[c]
        /\ job'[b].task = job[b].task
    BY <2>2, JobNotes
  <2> QED BY <2>1, <2>3, MovesOn DEF Sourced, Built
<1>6. CASE ReportFinished(b) \/ RaiseLate(b) \/ Crash(b)
  <2>1. /\ Goes(b, "clean") \/ Goes(b, "down")
        /\ at[b] \notin {"idle", "down"} /\ UNCHANGED <<tree, shared, job, unswept>>
    BY <1>6 DEF ReportFinished, RaiseLate, Crash, rest
  <2> QED BY <1>0, <2>1, MovesOn DEF Sourced, Built
<1> QED BY <1>1, <1>2, <1>3, <1>4, <1>5, <1>6

LEMMA SourceStep == SourceInv /\ [Next]_vars => SourceInv'
<1> SUFFICES ASSUME SourceInv, [Next]_vars PROVE SourceInv'
  OBVIOUS
<1>1. ASSUME UNCHANGED <<archives, pointer, at, job, tree, unswept>>, DOMAIN head' = Repos,
             \A r \in Repos : head'[r] \in 1..MaxHead[r]
      PROVE  SourceInv'
  BY <1>1 DEF SourceInv, SharedInv, PointerHasArchive, BuilderInv, Tree, Repo
<1>2. ASSUME NEW r \in Repos, Push(r) PROVE SourceInv'
  <2>1. head[r] \in 1..MaxHead[r] /\ MaxHead[r] \in Nat /\ DOMAIN head = Repos
    BY BuilderAssumption DEF SourceInv, SharedInv
  <2>2. head[r] < MaxHead[r] /\ head' = [head EXCEPT ![r] = head[r] + 1]
    BY <1>2 DEF Push
  <2>3. \A x \in Repos : head[x] \in 1..MaxHead[x]
    BY DEF SourceInv, SharedInv
  <2>4. DOMAIN head' = Repos /\ \A x \in Repos : head'[x] \in 1..MaxHead[x]
    BY <2>1, <2>2, <2>3
  <2> QED BY <1>1, <1>2, <2>4 DEF Push, rest
<1>3. ASSUME NEW t \in Tasks, Duplicate(t) PROVE SourceInv'
  BY <1>1, <1>3 DEF Duplicate, shared, SourceInv, SharedInv
<1>4. CASE UNCHANGED vars
  BY <1>1, <1>4 DEF vars, SourceInv, SharedInv
<1>5. ASSUME NEW b \in Builders,
             TakeTask(b) \/ Work(b) \/ RaiseEarly(b) \/ RaiseLate(b) \/ Crash(b) \/ Restart(b)
      PROVE  SourceInv'
  BY <1>5, SourceOfTake, SourceOfRestore, SourceOfClone, SourceOfArchive, SourceOfPointer,
     SourceOfBuild, SourceOfEnd, SourceOfMove DEF Work
<1> QED BY <1>2, <1>3, <1>4, <1>5 DEF Next

(* Whatever fails or is killed between the two uploads, the pointer of a   *)
(* repository names an archive that is there.                              *)
THEOREM PointerHasArchiveHolds == Spec => []PointerHasArchive
<1>1. SourceInv => PointerHasArchive
  BY DEF SourceInv, SharedInv
<1> QED BY <1>1, SourceInit, SourceStep, PTL DEF Spec

(* No builder acquires a source, and none archives it, over the products   *)
(* of an earlier task, while every tree of the repository could be removed. *)
THEOREM SourcesArePristineHolds == Spec => []SourcesArePristine
<1>1. SourceInv => SourcesArePristine
  BY DEF SourceInv, SharedInv, BuilderInv, SourcesArePristine, Built
<1> QED BY <1>1, SourceInit, SourceStep, PTL DEF Spec

-----------------------------------------------------------------------------
(* What lies under a commit's name.                                        *)

Before == {"idle", "pointer", "fetch", "clone"}
Labelled == {"archive", "point", "report", "build", "debug", "metadata", "binaries", "ir",
             "manifest", "finish"}

(* The invariant: files of other commits linger only where a tree was left *)
(* behind; a tree that is there before its task has a source was; and from *)
(* the moment the source is named, the name is what is checked out.        *)
LabelOf(b) ==
    /\ \A r \in Repos : tree[b][r].extra # {} => r \in orphaned
    /\ \A r \in Repos : tree[b][r] # NoTree =>
          r \in orphaned \/ (r = Repo(b) /\ at[b] \notin Before)
    /\ at[b] \in Labelled => job[b].label = Unknown \/ job[b].label = Tree(b).commit

LabelInv ==
    /\ \A r \in Repos, c \in Labels : archives[r][c].extra # {} => r \in orphaned
    /\ \A b \in Builders : LabelOf(b)
    /\ ContentIsLabelled

LEMMA LabelInit == Init => LabelInv
BY DEF Init, LabelInv, LabelOf, ContentIsLabelled, NoTree, Labelled

(* A step of one builder has to be looked at there, in the archives and in *)
(* the objects.                                                            *)
LEMMA LabelOfOne ==
    ASSUME LabelInv, NEW b \in Builders, orphaned \subseteq orphaned',
           \A c \in Builders : c # b => /\ at'[c] = at[c] /\ job'[c] = job[c]
                                       /\ tree'[c] = tree[c],
           \/ archives' = archives
           \/ \A r \in Repos, c \in Labels :
                 archives'[r][c] = archives[r][c] \/ (r = Repo(b) /\ archives'[r][c] = Tree(b)),
           LabelOf(b)', ContentIsLabelled'
    PROVE  LabelInv'
<1>1. ASSUME NEW c \in Builders, c # b PROVE LabelOf(c)'
  <2>1. at'[c] = at[c] /\ job'[c] = job[c] /\ tree'[c] = tree[c]
    BY <1>1
  <2>2. LabelOf(c)
    BY DEF LabelInv
  <2> QED BY <2>1, <2>2 DEF LabelOf, Tree, Repo
<1>2. \A r \in Repos, c \in Labels : archives'[r][c].extra # {} => r \in orphaned'
  BY DEF LabelInv, LabelOf, Tree
<1> QED BY <1>1, <1>2 DEF LabelInv

(* What a builder stores carries the name of its source.                   *)
LEMMA StoredIsLabelled ==
    ASSUME LabelInv, NEW b \in Builders, Repo(b) \in Repos, at[b] \in Labelled,
           orphaned' = orphaned,
           \A o \in objects' : o \in objects \/ (o.dir = Dir(b) /\ o.from = Contents(Tree(b)))
    PROVE  ContentIsLabelled'
<1> SUFFICES ASSUME NEW o \in objects', o.dir[2] # Unknown
             PROVE  o.dir[2] \in o.from /\ (o.from # {o.dir[2]} => o.dir[1] \in orphaned)
  BY DEF ContentIsLabelled
<1>1. CASE o \in objects
  BY <1>1 DEF LabelInv, ContentIsLabelled
<1>2. CASE o.dir = Dir(b) /\ o.from = Contents(Tree(b))
  <2>1. o.dir[1] = Repo(b) /\ o.dir[2] = job[b].label
    BY <1>2 DEF Dir
  <2>2. o.dir[2] = Tree(b).commit /\ (Tree(b).extra # {} => Repo(b) \in orphaned)
    BY <2>1 DEF LabelInv, LabelOf, Tree
  <2> QED BY <1>2, <2>1, <2>2 DEF Contents
<1> QED BY <1>1, <1>2

(* It moves on with its tree.                                              *)
LEMMA LabelMovesOn ==
    ASSUME LabelInv, SourceInv, NEW b \in Builders, NEW a, Goes(b, a),
           UNCHANGED <<tree, archives, orphaned>>,
           \A c \in Builders : c # b => job'[c] = job[c],
           job'[b].task = job[b].task, job'[b].label = job[b].label,
           a \in Labelled => at[b] \in Labelled,
           a \in Before => at[b] \in Before,
           ContentIsLabelled'
    PROVE  LabelInv'
<1>1. at'[b] = a /\ \A c \in Builders : c # b => at'[c] = at[c]
  BY DEF SourceInv, Goes
<1>2. LabelOf(b)'
  BY <1>1 DEF LabelInv, LabelOf, Tree, Repo
<1> QED BY <1>1, <1>2, LabelOfOne

LEMMA LabelOfStart == ASSUME LabelInv, SourceInv, NEW b \in Builders, TakeTask(b) PROVE LabelInv'
<1>1. /\ at[b] = "idle" /\ at'[b] = "pointer"
      /\ \A c \in Builders : c # b => at'[c] = at[c] /\ job'[c] = job[c]
      /\ tree' = tree /\ archives' = archives /\ objects' = objects /\ orphaned' = orphaned
  BY DEF TakeTask, Goes, SourceInv, shared
<1>2. LabelOf(b)'
  BY <1>1 DEF LabelInv, LabelOf, Before, Labelled
<1>3. ContentIsLabelled'
  BY <1>1 DEF LabelInv, ContentIsLabelled
<1> QED BY <1>1, <1>2, <1>3, LabelOfOne

LEMMA LabelOfRestore ==
    ASSUME LabelInv, SourceInv, NEW b \in Builders, RestoreArchive(b) PROVE LabelInv'
<1> DEFINE r == Repo(b)
           archive == archives[r][job[b].label]
           lingers == IF Tree(b) = NoTree THEN {} ELSE Contents(Tree(b))
           new == [archive EXCEPT !.extra = (@ \cup lingers) \ {archive.commit},
                                  !.products = @ \cup Tree(b).products]
<1>1. /\ at[b] = "fetch" /\ BuilderInv(b) /\ job' = job /\ LabelOf(b)
      /\ \A c \in Builders : c # b => at'[c] = at[c] /\ tree'[c] = tree[c]
      /\ archives' = archives /\ objects' = objects /\ orphaned' = orphaned
  BY DEF RestoreArchive, SourceInv, LabelInv, Goes, SetTree, shared, rest
<1>2. r \in Repos /\ job[b].label \in Labels /\ archive \in Trees
  BY <1>1, BuilderAssumption DEF BuilderInv, SourceInv, SharedInv, Repo
<1>3. /\ \/ at'[b] = "restored" /\ archive # NoTree /\ tree'[b] = [tree[b] EXCEPT ![r] = new]
         \/ at'[b] = "clone" /\ tree'[b] = tree[b]
         \/ at'[b] = "clone" /\ tree'[b] = [tree[b] EXCEPT ![r] = NoTree]
  BY DEF RestoreArchive, SourceInv, Goes, SetTree
<1>4. new.extra # {} => r \in orphaned
  <2>1. archive.extra # {} => r \in orphaned
    BY <1>2 DEF LabelInv
  <2>2. lingers # {} => r \in orphaned
    BY <1>1, <1>2 DEF LabelOf, Tree, Before
  <2>3. "extra" \in DOMAIN archive /\ "products" \in DOMAIN archive
    BY <1>2 DEF Trees, Tree_
  <2> HIDE DEF archive, lingers
  <2>4. new.extra \subseteq archive.extra \cup lingers
    BY <2>3
  <2> QED BY <2>1, <2>2, <2>4
<1>5. LabelOf(b)'
  <2>1. tree[b] \in [Repos -> Trees] /\ Repo(b)' = r /\ NoTree.extra = {}
    BY <1>1 DEF BuilderInv, Repo, NoTree
  <2> HIDE DEF new, r
  <2>2. \A x \in Repos : tree'[b][x].extra # {} => x \in orphaned
    BY <1>1, <1>2, <1>3, <1>4, <2>1 DEF LabelOf
  <2>3. \A x \in Repos : tree'[b][x] # NoTree =>
           x \in orphaned \/ (x = r /\ at'[b] \notin Before)
    BY <1>1, <1>2, <1>3, <2>1 DEF LabelOf, Before
  <2> QED BY <1>1, <1>3, <2>1, <2>2, <2>3 DEF LabelOf, Labelled
<1>6. ContentIsLabelled'
  BY <1>1 DEF LabelInv, ContentIsLabelled
<1> QED BY <1>1, <1>5, <1>6, LabelOfOne

LEMMA LabelOfClone ==
    ASSUME LabelInv, SourceInv, NEW b \in Builders, Clone(b) PROVE LabelInv'
<1> DEFINE r == Repo(b)
           new == [commit |-> head[r], extra |-> Tree(b).extra \ {head[r]},
                   products |-> Tree(b).products]
<1>1. /\ at[b] = "clone" /\ BuilderInv(b) /\ LabelOf(b)
      /\ \A c \in Builders : c # b => at'[c] = at[c] /\ job'[c] = job[c] /\ tree'[c] = tree[c]
      /\ archives' = archives /\ objects' = objects /\ orphaned \subseteq orphaned'
  BY DEF Clone, SourceInv, LabelInv, Goes, SetTree, shared
<1>2. r \in Repos /\ new.extra \subseteq Tree(b).extra
  BY <1>1, BuilderAssumption DEF BuilderInv, Repo
<1>3. \/ at'[b] = "cloned" /\ job' = job /\ tree'[b] = [tree[b] EXCEPT ![r] = new]
      \/ /\ at'[b] = "idle"
         /\ \/ tree'[b] = tree[b]
            \/ tree'[b] = [tree[b] EXCEPT ![r] = new] /\ r \in orphaned'
  BY DEF Clone, SourceInv, Goes, SetTree
<1>4. LabelOf(b)'
  <2>1. tree[b] \in [Repos -> Trees] /\ (Tree(b).extra # {} => r \in orphaned)
    BY <1>1, <1>2 DEF BuilderInv, LabelOf, Tree
  <2>2. job' = job => Repo(b)' = r
    BY DEF Repo
  <2> HIDE DEF new, r
  <2>3. \A x \in Repos : tree'[b][x].extra # {} => x \in orphaned'
    BY <1>1, <1>2, <1>3, <2>1 DEF LabelOf
  <2>4. \A x \in Repos : tree[b][x] # NoTree => x \in orphaned
    BY <1>1 DEF LabelOf, Before
  <2>5. \A x \in Repos : tree'[b][x] # NoTree =>
           x \in orphaned' \/ (x = Repo(b)' /\ at'[b] \notin Before)
    BY <1>1, <1>2, <1>3, <2>1, <2>2, <2>4 DEF Before
  <2> QED BY <1>3, <2>3, <2>5 DEF LabelOf, Labelled
<1>5. ContentIsLabelled'
  BY <1>1 DEF LabelInv, ContentIsLabelled
<1> QED BY <1>1, <1>4, <1>5, LabelOfOne

LEMMA LabelOfCommit ==
    ASSUME LabelInv, SourceInv, NEW b \in Builders, GetProjectCommit(b) PROVE LabelInv'
<1>1. /\ at[b] \in {"restored", "cloned"} /\ at'[b] \in {"report", "archive"}
      /\ \A c \in Builders : c # b => at'[c] = at[c] /\ job'[c] = job[c]
      /\ tree' = tree /\ archives' = archives /\ objects' = objects /\ orphaned' = orphaned
  BY DEF GetProjectCommit, SourceInv, Goes, SetJob, shared, rest
<1>2. DOMAIN job = Builders /\ DOMAIN job[b] = DOMAIN Idle
  BY DEF SourceInv, BuilderInv
<1>3. job'[b].task = job[b].task /\ (job'[b].label = Unknown \/ job'[b].label = Tree(b).commit)
  BY <1>2 DEF GetProjectCommit, SetJob, Idle
<1>4. LabelOf(b)'
  BY <1>1, <1>3 DEF LabelInv, LabelOf, Before, Tree, Repo
<1>5. ContentIsLabelled'
  BY <1>1 DEF LabelInv, ContentIsLabelled
<1> QED BY <1>1, <1>4, <1>5, LabelOfOne

LEMMA LabelOfArchive ==
    ASSUME LabelInv, SourceInv, NEW b \in Builders, UploadArchive(b) PROVE LabelInv'
<1>1. /\ at[b] = "archive" /\ at'[b] \in {"point", "report"} /\ job' = job /\ tree' = tree
      /\ \A c \in Builders : c # b => at'[c] = at[c]
      /\ objects' = objects /\ orphaned' = orphaned
  BY DEF UploadArchive, SourceInv, Goes, rest
<1>2. archives' = archives \/ archives' = [archives EXCEPT ![Repo(b)][job[b].label] = Tree(b)]
  BY DEF UploadArchive
<1>3. archives \in [Repos -> [Labels -> Trees]]
  BY DEF SourceInv, SharedInv
<1>4. \A r \in Repos, c \in Labels :
         archives'[r][c] = archives[r][c] \/ (r = Repo(b) /\ archives'[r][c] = Tree(b))
  BY <1>2, <1>3
<1>5. LabelOf(b)'
  BY <1>1 DEF LabelInv, LabelOf, Before, Labelled, Tree, Repo
<1>6. ContentIsLabelled'
  BY <1>1 DEF LabelInv, ContentIsLabelled
<1> QED BY <1>1, <1>4, <1>5, <1>6, LabelOfOne

LEMMA LabelOfBuild ==
    ASSUME LabelInv, SourceInv, NEW b \in Builders, Build(b) PROVE LabelInv'
<1> DEFINE r == Repo(b)
           new == [Tree(b) EXCEPT !.products = @ \cup {job[b].task}]
<1>1. /\ at[b] = "build" /\ at'[b] = "debug" /\ BuilderInv(b) /\ LabelOf(b)
      /\ archives' = archives /\ objects' = objects /\ orphaned' = orphaned
      /\ \A c \in Builders : c # b => at'[c] = at[c] /\ tree'[c] = tree[c]
  BY DEF Build, SourceInv, LabelInv, Goes, SetTree, shared, rest
<1>2. r \in Repos /\ Tree(b) \in Trees
  BY <1>1, BuilderAssumption DEF BuilderInv, Repo, Tree
<1>3. tree'[b] = [tree[b] EXCEPT ![r] = new] \/ tree'[b] = [tree[b] EXCEPT ![r] = Tree(b)]
  BY DEF Build, SourceInv, SetTree
<1>4. new.commit = Tree(b).commit /\ new.extra = Tree(b).extra
  BY <1>2 DEF Trees, Tree_
<1>5. /\ \A c \in Builders : c # b => job'[c] = job[c]
      /\ job'[b].task = job[b].task /\ job'[b].label = job[b].label
  <2>1. \E v, u : job' = [job EXCEPT ![b].status = v, ![b].binary = u]
    BY DEF Build
  <2>2. DOMAIN job = Builders /\ DOMAIN job[b] = DOMAIN Idle /\ {"task", "label"} \subseteq DOMAIN Idle
    BY DEF SourceInv, BuilderInv, Idle
  <2> QED BY <2>1, <2>2
<1>6. LabelOf(b)'
  <2>1. tree[b] \in [Repos -> Trees] /\ Repo(b)' = r
    BY <1>1, <1>5 DEF BuilderInv, Repo
  <2>2. Tree(b) = tree[b][r] /\ Tree(b)' = tree'[b][r] /\ Repo(b) = r
    BY <2>1 DEF Tree
  <2> HIDE DEF new, r
  <2>3. /\ \A x \in Repos : tree'[b][x].extra = tree[b][x].extra
        /\ \A x \in Repos : x # r => tree'[b][x] = tree[b][x]
        /\ tree'[b][r].commit = tree[b][r].commit
    BY <1>2, <1>3, <1>4, <2>1, <2>2
  <2>4. \A x \in Repos : tree'[b][x] # NoTree => x \in orphaned \/ x = r
    BY <1>1, <2>2, <2>3 DEF LabelOf
  <2>5. job'[b].label = Unknown \/ job'[b].label = Tree(b)'.commit
    BY <1>1, <1>5, <2>2, <2>3 DEF LabelOf, Labelled
  <2> QED BY <1>1, <2>1, <2>3, <2>4, <2>5 DEF LabelOf, Before
<1>7. ContentIsLabelled'
  BY <1>1 DEF LabelInv, ContentIsLabelled
<1> QED BY <1>1, <1>5, <1>6, <1>7, LabelOfOne

LEMMA LabelOfEnd ==
    ASSUME LabelInv, SourceInv, NEW b \in Builders, RaiseEarly(b) \/ CleanFolder(b) \/ Restart(b)
    PROVE  LabelInv'
<1>1. /\ at'[b] = "idle" /\ archives' = archives /\ objects' = objects
      /\ orphaned \subseteq orphaned' /\ LabelOf(b)
      /\ \A c \in Builders : c # b => at'[c] = at[c] /\ job'[c] = job[c] /\ tree'[c] = tree[c]
  BY DEF SourceInv, LabelInv, RaiseEarly, CleanFolder, Restart, Goes, SetTree, shared, Remains
<1>2. tree[b] \in [Repos -> Trees] /\ NoTree.extra = {}
  BY DEF SourceInv, BuilderInv, NoTree
<1>3. /\ \A r \in Repos : tree'[b][r].extra # {} => r \in orphaned'
      /\ \A r \in Repos : tree'[b][r] # NoTree => r \in orphaned'
  <2>1. CASE RaiseEarly(b)
    <3>1. tree' = tree /\ orphaned' = orphaned \cup (IF Tree(b) = NoTree THEN {} ELSE {Repo(b)})
      BY <2>1 DEF RaiseEarly
    <3> QED BY <1>1, <3>1 DEF LabelOf, Tree
  <2>2. CASE CleanFolder(b)
    <3>1. \/ tree'[b] = [tree[b] EXCEPT ![Repo(b)] = NoTree]
          \/ tree' = tree /\ orphaned' = orphaned \cup {Repo(b)}
      BY <2>2 DEF CleanFolder, SetTree, SourceInv, Remains
    <3> QED BY <1>1, <1>2, <3>1 DEF LabelOf
  <2>3. CASE Restart(b)
    <3>1. PICK left \in SUBSET Repos :
             /\ tree' = [tree EXCEPT ![b] = [r \in Repos |-> IF r \in left THEN @[r] ELSE NoTree]]
             /\ orphaned' = orphaned \cup left
      BY <2>3 DEF Restart, Remains
    <3>2. tree'[b] = [r \in Repos |-> IF r \in left THEN tree[b][r] ELSE NoTree]
      BY <3>1 DEF SourceInv
    <3>3. \A r \in Repos : r \in left \/ tree'[b][r] = NoTree
      BY <3>2
    <3> QED BY <1>2, <3>1, <3>3
  <2> QED BY <2>1, <2>2, <2>3
<1>4. LabelOf(b)'
  BY <1>1, <1>3 DEF LabelOf, Labelled
<1>5. ContentIsLabelled'
  BY <1>1 DEF LabelInv, ContentIsLabelled
<1> QED BY <1>1, <1>4, <1>5, LabelOfOne

(* The steps that store something. *)
LEMMA LabelOfSave ==
    ASSUME LabelInv, SourceInv, NEW b \in Builders,
           SaveMetadata(b) \/ SaveBinaries(b) \/ PersistIr(b) \/ SaveExportManifest(b)
    PROVE  LabelInv'
<1>1. /\ Goes(b, "binaries") \/ Goes(b, "ir") \/ Goes(b, "manifest") \/ Goes(b, "finish")
      /\ at[b] \in {"metadata", "binaries", "ir", "manifest"}
      /\ UNCHANGED <<tree, archives, orphaned>>
  BY DEF SaveMetadata, SaveBinaries, PersistIr, SaveExportManifest, shared
<1>2. \/ UNCHANGED job
      \/ \E v : SetJob(b, "dwarf", v)
      \/ \E v : SetJob(b, "saved", v)
      \/ \E v, u : job' = [job EXCEPT ![b].saved = v, ![b].dwarf = u]
  BY DEF SaveMetadata, SaveBinaries, PersistIr, SaveExportManifest
<1>3. /\ \A c \in Builders : c # b => job'[c] = job[c]
      /\ job'[b].task = job[b].task /\ job'[b].label = job[b].label
  <2>1. DOMAIN job = Builders /\ DOMAIN job[b] = DOMAIN Idle
        /\ {"task", "label"} \subseteq DOMAIN Idle
    BY DEF SourceInv, BuilderInv, Idle
  <2>2. CASE \E v, u : job' = [job EXCEPT ![b].saved = v, ![b].dwarf = u]
    BY <2>1, <2>2
  <2> QED BY <1>2, <2>1, <2>2 DEF SetJob
<1>4. Repo(b) \in Repos /\ at[b] \in Labelled
  BY <1>1, BuilderAssumption DEF SourceInv, BuilderInv, Repo, Labelled
<1>5. \A o \in objects' : o \in objects \/ (o.dir = Dir(b) /\ o.from = Contents(Tree(b)))
  <2>1. CASE SaveMetadata(b)
    BY <2>1 DEF SaveMetadata, Put, Refuse
  <2>2. CASE SaveBinaries(b)
    BY <2>2 DEF SaveBinaries, Put, Refuse
  <2>3. CASE SaveExportManifest(b)
    BY <2>3 DEF SaveExportManifest, Put, Refuse
  <2>4. CASE PersistIr(b)
    <3>1. PICK dumps, put : objects' = {o \in objects : ~(o.dir = Dir(b) /\ o.file \in put)}
                                       \cup IrObjects(b, dumps, put)
      BY <2>4 DEF PersistIr
    <3> QED BY <3>1 DEF IrObjects
  <2> QED BY <2>1, <2>2, <2>3, <2>4
<1>6. ContentIsLabelled'
  BY <1>1, <1>4, <1>5, StoredIsLabelled
<1> QED BY <1>1, <1>3, <1>4, <1>6, LabelMovesOn DEF Labelled, Before

LEMMA LabelOfMove ==
    ASSUME LabelInv, SourceInv, NEW b \in Builders,
           \/ ReadPointer(b) \/ PutPointer(b) \/ ReportProcessing(b) \/ DebugInfo(b)
           \/ ReportFinished(b) \/ RaiseLate(b) \/ Crash(b)
    PROVE  LabelInv'
<1>1. ContentIsLabelled' /\ UNCHANGED <<tree, archives, orphaned>>
  BY DEF ReadPointer, PutPointer, ReportProcessing, DebugInfo, ReportFinished, RaiseLate, Crash,
         shared, rest, LabelInv, ContentIsLabelled
<1>2. CASE ReadPointer(b)
  <2>1. /\ at[b] = "pointer" /\ at'[b] \in {"fetch", "clone"}
        /\ \A c \in Builders : c # b => at'[c] = at[c] /\ job'[c] = job[c]
    BY <1>2 DEF ReadPointer, Goes, SetJob, SourceInv
  <2>2. job'[b].task = job[b].task
    BY <1>2, JobNotes DEF ReadPointer
  <2>3. LabelOf(b)'
    BY <1>1, <2>1, <2>2 DEF LabelInv, LabelOf, Before, Labelled, Repo
  <2> QED BY <1>1, <2>1, <2>3, LabelOfOne
<1>3. CASE DebugInfo(b)
  <2>1. /\ Goes(b, "metadata") \/ Goes(b, "finish")
        /\ at[b] = "debug"
        /\ \E v : SetJob(b, "dwarf", v)
    BY <1>3 DEF DebugInfo
  <2>2. DOMAIN job = Builders /\ DOMAIN job[b] = DOMAIN Idle
        /\ {"task", "label"} \subseteq DOMAIN Idle
    BY DEF SourceInv, BuilderInv, Idle
  <2>3. /\ \A c \in Builders : c # b => job'[c] = job[c]
        /\ job'[b].task = job[b].task /\ job'[b].label = job[b].label
    BY <2>1, <2>2 DEF SetJob
  <2> QED BY <1>1, <2>1, <2>3, LabelMovesOn DEF Labelled, Before
<1>4. CASE PutPointer(b) \/ ReportProcessing(b) \/ ReportFinished(b) \/ RaiseLate(b) \/ Crash(b)
  <2>1. /\ UNCHANGED job
        /\ \/ Goes(b, "report") /\ at[b] = "point"
           \/ Goes(b, "build") /\ at[b] = "report"
           \/ Goes(b, "clean") \/ Goes(b, "down")
    BY <1>4 DEF PutPointer, ReportProcessing, ReportFinished, RaiseLate, Crash
  <2> QED BY <1>1, <2>1, LabelMovesOn DEF Labelled, Before
<1> QED BY <1>2, <1>3, <1>4

LEMMA LabelStep == LabelInv /\ SourceInv /\ [Next]_vars => LabelInv'
<1> SUFFICES ASSUME LabelInv, SourceInv, [Next]_vars PROVE LabelInv'
  OBVIOUS
<1>1. ASSUME UNCHANGED <<archives, at, job, tree, objects, orphaned>> PROVE LabelInv'
  BY <1>1 DEF LabelInv, LabelOf, ContentIsLabelled, Tree, Repo
<1>2. ASSUME NEW r \in Repos, Push(r) PROVE LabelInv'
  BY <1>1, <1>2 DEF Push, rest
<1>3. ASSUME NEW t \in Tasks, Duplicate(t) PROVE LabelInv'
  BY <1>1, <1>3 DEF Duplicate, shared
<1>4. CASE UNCHANGED vars
  BY <1>1, <1>4 DEF vars
<1>5. ASSUME NEW b \in Builders,
             TakeTask(b) \/ Work(b) \/ RaiseEarly(b) \/ RaiseLate(b) \/ Crash(b) \/ Restart(b)
      PROVE  LabelInv'
  BY <1>5, LabelOfStart, LabelOfRestore, LabelOfClone, LabelOfCommit, LabelOfArchive,
     LabelOfBuild, LabelOfEnd, LabelOfSave, LabelOfMove DEF Work
<1> QED BY <1>2, <1>3, <1>4, <1>5 DEF Next

(* What is stored under a commit's name was built from that commit, and    *)
(* from nothing else unless a failed acquire_source left a tree behind.    *)
THEOREM ContentIsLabelledHolds == Spec => []ContentIsLabelled
<1>1. LabelInv => ContentIsLabelled
  BY DEF LabelInv
<1> QED BY <1>1, SourceInit, SourceStep, LabelInit, LabelStep, PTL DEF Spec

-----------------------------------------------------------------------------
(* Whose dumps a stage's tarball has.                                      *)

OwnTasks(b, r) == {t \in Tasks : RepoOf[t] = r /\ OptOf[t] = Serves[b]}

(* The invariant: a builder works for its option, and the products in a    *)
(* tree that can be removed are of its repository and that option.         *)
OwnOf(b) ==
    /\ at[b] \notin {"idle", "down"} => OptOf[job[b].task] = Serves[b]
    /\ \A r \in Repos \ unswept : tree[b][r].products \subseteq OwnTasks(b, r)

OwnInv == (\A b \in Builders : OwnOf(b)) /\ IrIsOwn

LEMMA OwnInit == Init => OwnInv
BY DEF Init, OwnInv, OwnOf, IrIsOwn, NoTree

LEMMA OwnOfOne ==
    ASSUME OwnInv, SourceInv', NEW b \in Builders,
           \A c \in Builders : c # b => /\ at'[c] = at[c] /\ job'[c] = job[c]
                                       /\ tree'[c] = tree[c],
           at'[b] \notin {"idle", "down"} => OptOf[job'[b].task] = Serves[b],
           at'[b] \in Built => \A r \in Repos \ unswept' : tree'[b][r].products \subseteq OwnTasks(b, r),
           IrIsOwn', unswept \subseteq unswept'
    PROVE  OwnInv'
<1>1. ASSUME NEW c \in Builders, c # b PROVE OwnOf(c)'
  BY <1>1 DEF OwnInv, OwnOf, OwnTasks
<1>2. at'[b] \notin Built => \A r \in Repos \ unswept' : tree'[b][r].products = {}
  BY DEF SourceInv, BuilderInv
<1>3. OwnOf(b)'
  BY <1>2 DEF OwnOf, OwnTasks
<1> QED BY <1>1, <1>3 DEF OwnInv

(* A file that is no stage is none of IrIsOwn's. *)
LEMMA NoStage == "metadata" \notin Stages /\ "binary" \notin Stages /\ "manifest" \notin Stages
BY DEF Stages, IrStage

LEMMA OwnObjects ==
    ASSUME IrIsOwn, unswept \subseteq unswept', \A o \in objects' : o \in objects \/ o.file \notin Stages
    PROVE  IrIsOwn'
BY DEF IrIsOwn

LEMMA DumpsAreOwn ==
    ASSUME OwnInv, NEW b \in Builders, at[b] = "ir", Repo(b) \in Repos \ unswept,
           NEW without, NEW d \in Dumps(b, without)
    PROVE  \/ RepoOf[d.task] = Repo(b) /\ OptOf[d.task] = Serves[b]
           \/ d.stage = "GIMPLE" /\ (RepoScope => Crate[RepoOf[d.task]] = Crate[Repo(b)])
<1> DEFINE backend == Strategy[Serves[b]]
           target == DumpsOf(RideAlongEmit(Stages, backend), Tree(b).products)
           directory == DumpsOf({"GIMPLE"}, gccjit[b])
<1>1. \/ d \in DiscoverRideAlong(target, Stages, Members(b), RepoScope)
      \/ d \in DiscoverGimple(directory, Members(b), RepoScope)
      \/ d \in RunUnpretty(Stages, backend, Members(b), job[b].task, without)
  BY DEF Dumps
<1>2. CASE d \in DiscoverRideAlong(target, Stages, Members(b), RepoScope)
  <2>1. d \in target
    BY <1>2 DEF DiscoverRideAlong
  <2>2. d.task \in Tree(b).products
    BY <2>1 DEF DumpsOf
  <2> QED BY <2>2 DEF OwnInv, OwnOf, OwnTasks, Tree
<1>3. CASE d \in DiscoverGimple(directory, Members(b), RepoScope)
  <2>1. d \in directory /\ InScope(d.crate, Members(b), RepoScope)
    BY <1>3 DEF DiscoverGimple
  <2>2. d.stage = "GIMPLE" /\ d.crate = Crate[RepoOf[d.task]]
    BY <2>1 DEF DumpsOf
  <2> QED BY <2>1, <2>2 DEF InScope, Members
<1>4. CASE d \in RunUnpretty(Stages, backend, Members(b), job[b].task, without)
  <2>1. d.task = job[b].task
    BY <1>4 DEF RunUnpretty
  <2> QED BY <2>1 DEF OwnInv, OwnOf, Repo
<1> QED BY <1>1, <1>2, <1>3, <1>4

LEMMA OwnOfPersist ==
    ASSUME OwnInv, NEW b \in Builders, Repo(b) \in Repos, PersistIr(b)
    PROVE  IrIsOwn'
<1>1. PICK without, put :
         objects' = {o \in objects : ~(o.dir = Dir(b) /\ o.file \in put)}
                    \cup IrObjects(b, Dumps(b, without), put)
  BY DEF PersistIr
<1>2. at[b] = "ir" /\ unswept' = unswept
  BY DEF PersistIr
<1> SUFFICES ASSUME NEW o \in objects', o.file \in Stages, o.dir[1] \notin unswept,
                    NEW t \in o.builds
             PROVE  \/ RepoOf[t] = o.dir[1] /\ OptOf[t] = o.dir[3]
                    \/ o.file = "GIMPLE" /\ (RepoScope => Crate[RepoOf[t]] = Crate[o.dir[1]])
  BY <1>2 DEF IrIsOwn
<1>3. CASE o \in objects
  BY <1>3 DEF OwnInv, IrIsOwn
<1>4. CASE o \in IrObjects(b, Dumps(b, without), put)
  <2>1. /\ o.dir = Dir(b)
        /\ o.builds = {d.task : d \in {e \in Dumps(b, without) : e.stage = o.file}}
    BY <1>4 DEF IrObjects
  <2>2. PICK d \in Dumps(b, without) : d.stage = o.file /\ t = d.task
    BY <2>1
  <2>3. o.dir[1] = Repo(b) /\ o.dir[3] = Serves[b]
    BY <2>1 DEF Dir
  <2> QED BY <1>2, <2>2, <2>3, DumpsAreOwn
<1> QED BY <1>1, <1>3, <1>4

(* A step that leaves the tree or ends the task. *)
LEMMA OwnOfStep ==
    ASSUME OwnInv, SourceInv, SourceInv', NEW b \in Builders, Work(b) \/ TakeTask(b)
           \/ RaiseEarly(b) \/ RaiseLate(b) \/ Crash(b) \/ Restart(b)
    PROVE  OwnInv'
<1>1. BuilderInv(b) /\ DOMAIN job = Builders /\ DOMAIN job[b] = DOMAIN Idle /\ OwnOf(b)
      /\ DOMAIN at = Builders /\ DOMAIN tree = Builders
  BY DEF SourceInv, BuilderInv, OwnInv
<1>2. CASE TakeTask(b)
  <2>1. PICK t \in Tasks : /\ OptOf[t] = Serves[b]
                           /\ job' = [job EXCEPT ![b] = [Idle EXCEPT !.task = t]]
    BY <1>2 DEF TakeTask
  <2>2. job'[b].task = t /\ \A c \in Builders : c # b => job'[c] = job[c]
    BY <1>1, <2>1 DEF Idle
  <2>3. at'[b] = "pointer" /\ tree' = tree /\ objects' = objects /\ unswept' = unswept
        /\ \A c \in Builders : c # b => at'[c] = at[c]
    BY <1>1, <1>2 DEF TakeTask, Goes
  <2>4. IrIsOwn'
    BY <2>3 DEF OwnInv, IrIsOwn
  <2> QED BY <2>1, <2>2, <2>3, <2>4, OwnOfOne DEF Built
<1>3. CASE RaiseEarly(b) \/ CleanFolder(b) \/ Restart(b)
  <2>1. /\ at'[b] = "idle" /\ objects' = objects /\ unswept \subseteq unswept'
        /\ \A c \in Builders : c # b => at'[c] = at[c] /\ job'[c] = job[c] /\ tree'[c] = tree[c]
    BY <1>1, <1>3 DEF RaiseEarly, CleanFolder, Restart, Goes, SetTree, Remains
  <2>2. IrIsOwn'
    BY <2>1 DEF OwnInv, IrIsOwn
  <2> QED BY <2>1, <2>2, OwnOfOne DEF Built
<1>4. CASE RestoreArchive(b) \/ Clone(b)
  <2>1. /\ at'[b] \in {"restored", "cloned", "clone", "idle"} /\ objects' = objects
        /\ unswept' = unswept
        /\ at'[b] # "idle" => job' = job
        /\ at[b] \in {"fetch", "clone"}
        /\ \A c \in Builders : c # b => at'[c] = at[c] /\ job'[c] = job[c] /\ tree'[c] = tree[c]
    BY <1>1, <1>4 DEF RestoreArchive, Clone, Goes, SetTree, rest
  <2>2. IrIsOwn'
    BY <2>1 DEF OwnInv, IrIsOwn
  <2>3. at'[b] # "idle" => OptOf[job'[b].task] = Serves[b]
    BY <1>1, <2>1 DEF OwnOf
  <2> QED BY <2>1, <2>2, <2>3, OwnOfOne DEF Built
<1>5. CASE Build(b)
  <2>1. /\ at[b] = "build" /\ at'[b] = "debug" /\ objects' = objects /\ unswept' = unswept
        /\ \A c \in Builders : c # b => at'[c] = at[c] /\ tree'[c] = tree[c]
    BY <1>1, <1>5 DEF Build, Goes, SetTree, rest
  <2>2. \E v, u : job' = [job EXCEPT ![b].status = v, ![b].binary = u]
    BY <1>5 DEF Build
  <2>3. job'[b].task = job[b].task /\ \A c \in Builders : c # b => job'[c] = job[c]
    BY <2>2, JobNotes
  <2>4. Repo(b) \in Repos /\ job[b].task \in OwnTasks(b, Repo(b))
    BY <1>1, <2>1, BuilderAssumption DEF BuilderInv, OwnOf, OwnTasks, Repo
  <2>5. Tree(b) \in Trees /\ Tree(b) = tree[b][Repo(b)] /\ tree[b] \in [Repos -> Trees]
    BY <1>1, <2>4 DEF BuilderInv, Tree
  <2>6. \/ tree'[b] = [tree[b] EXCEPT ![Repo(b)] = Tree(b)]
        \/ tree'[b] = [tree[b] EXCEPT ![Repo(b)] =
              [Tree(b) EXCEPT !.products = @ \cup {job[b].task}]]
    BY <1>1, <1>5 DEF Build, SetTree
  <2>7. [Tree(b) EXCEPT !.products = @ \cup {job[b].task}].products
           = Tree(b).products \cup {job[b].task}
    BY <2>5 DEF Trees, Tree_
  <2>8. ASSUME NEW r \in Repos \ unswept' PROVE tree'[b][r].products \subseteq OwnTasks(b, r)
    <3>1. r \in Repos \ unswept /\ tree[b][r].products \subseteq OwnTasks(b, r)
      BY <1>1, <2>1 DEF OwnOf
    <3>2. CASE r # Repo(b)
      BY <2>4, <2>5, <2>6, <3>1, <3>2
    <3>3. CASE r = Repo(b)
      <4>1. tree'[b][r] \in {Tree(b), [Tree(b) EXCEPT !.products = @ \cup {job[b].task}]}
        BY <2>4, <2>5, <2>6, <3>3
      <4> QED BY <2>4, <2>5, <2>7, <3>1, <3>3, <4>1
    <3> QED BY <3>2, <3>3
  <2>9. IrIsOwn'
    BY <2>1 DEF OwnInv, IrIsOwn
  <2> QED BY <1>1, <2>1, <2>3, <2>8, <2>9, OwnOfOne DEF OwnOf
<1>6. CASE \/ ReadPointer(b) \/ GetProjectCommit(b) \/ UploadArchive(b) \/ PutPointer(b)
           \/ ReportProcessing(b) \/ DebugInfo(b) \/ SaveMetadata(b) \/ SaveBinaries(b)
           \/ PersistIr(b) \/ SaveExportManifest(b) \/ ReportFinished(b) \/ RaiseLate(b) \/ Crash(b)
  <2>1. /\ UNCHANGED <<tree, unswept>> /\ at[b] \notin {"idle", "down"}
        /\ \A c \in Builders : c # b => at'[c] = at[c]
    BY <1>1, <1>6 DEF ReadPointer, GetProjectCommit, UploadArchive, PutPointer, ReportProcessing,
       DebugInfo, SaveMetadata, SaveBinaries, PersistIr, SaveExportManifest, ReportFinished,
       RaiseLate, Crash, Goes, rest
  <2>2. \/ UNCHANGED job
        \/ \E v : SetJob(b, "label", v)
        \/ \E v : SetJob(b, "dwarf", v)
        \/ \E v : SetJob(b, "saved", v)
        \/ \E v, u : job' = [job EXCEPT ![b].saved = v, ![b].dwarf = u]
    BY <1>6 DEF ReadPointer, GetProjectCommit, UploadArchive, PutPointer, ReportProcessing,
       DebugInfo, SaveMetadata, SaveBinaries, PersistIr, SaveExportManifest, ReportFinished,
       RaiseLate, Crash
  <2>3. job'[b].task = job[b].task /\ \A c \in Builders : c # b => job'[c] = job[c]
    BY <2>2, JobNotes
  <2>4. Repo(b) \in Repos
    BY <1>1, <2>1, BuilderAssumption DEF BuilderInv, Repo
  <2>5. IrIsOwn'
    <3>1. CASE PersistIr(b)
      BY <2>4, <3>1, OwnOfPersist
    <3>2. CASE ~PersistIr(b)
      <4>1. \A o \in objects' : o \in objects \/ o.file \in {"metadata", "binary", "manifest"}
        BY <1>6, <3>2 DEF ReadPointer, GetProjectCommit, UploadArchive, PutPointer,
           ReportProcessing, DebugInfo, SaveMetadata, SaveBinaries, SaveExportManifest,
           ReportFinished, RaiseLate, Crash, Put, Refuse
      <4> QED BY <2>1, <4>1, NoStage, OwnObjects DEF OwnInv
    <3> QED BY <3>1, <3>2
  <2> QED BY <1>1, <2>1, <2>3, <2>5, OwnOfOne DEF OwnOf
<1> QED BY <1>2, <1>3, <1>4, <1>5, <1>6 DEF Work

LEMMA OwnStep == OwnInv /\ SourceInv /\ SourceInv' /\ [Next]_vars => OwnInv'
<1> SUFFICES ASSUME OwnInv, SourceInv, SourceInv', [Next]_vars PROVE OwnInv'
  OBVIOUS
<1>1. ASSUME UNCHANGED <<at, job, tree, objects, unswept>> PROVE OwnInv'
  BY <1>1 DEF OwnInv, OwnOf, OwnTasks, IrIsOwn
<1>2. ASSUME NEW r \in Repos, Push(r) PROVE OwnInv'
  BY <1>1, <1>2 DEF Push, rest
<1>3. ASSUME NEW t \in Tasks, Duplicate(t) PROVE OwnInv'
  BY <1>1, <1>3 DEF Duplicate
<1>4. CASE UNCHANGED vars
  BY <1>1, <1>4 DEF vars
<1>5. ASSUME NEW b \in Builders,
             TakeTask(b) \/ Work(b) \/ RaiseEarly(b) \/ RaiseLate(b) \/ Crash(b) \/ Restart(b)
      PROVE  OwnInv'
  BY <1>5, OwnOfStep
<1> QED BY <1>2, <1>3, <1>4, <1>5 DEF Next

(* A stage's tarball has dumps of this repository's builds with this       *)
(* option only, but for GIMPLE, where a crate's name is all that tells     *)
(* builds apart, while the repository's trees could be removed.            *)
THEOREM IrIsOwnHolds == Spec => []IrIsOwn
<1>1. OwnInv => IrIsOwn
  BY DEF OwnInv
<1> QED BY <1>1, SourceInit, SourceStep, OwnInit, OwnStep, PTL DEF Spec

-----------------------------------------------------------------------------
(* What is on record is stored.                                            *)

(* A repository has one task for an option (BuildMatrix).                  *)
OnePerPair ==
    \A t, u \in Tasks : RepoOf[t] = RepoOf[u] /\ OptOf[t] = OptOf[u] => t = u

RowShape ==
    /\ DOMAIN rows = Tasks
    /\ \A t \in Tasks : /\ DOMAIN rows[t] = {"status", "commit", "binaries", "ir"}
                        /\ DOMAIN rows[t].ir = Stages

(* A status and a commit are written: the rest of the row, and the others, *)
(* stay.                                                                   *)
Writes(u, status, commit) == rows' = [rows EXCEPT ![u].status = status, ![u].commit = commit]

LEMMA StatusWritten ==
    ASSUME RowShape, NEW u \in Tasks, NEW status, NEW commit, Writes(u, status, commit)
    PROVE  /\ DOMAIN rows' = Tasks
           /\ \A t \in Tasks :
                 /\ DOMAIN rows'[t] = DOMAIN rows[t]
                 /\ rows'[t].binaries = rows[t].binaries /\ rows'[t].ir = rows[t].ir
                 /\ t # u => rows'[t] = rows[t]
           /\ rows'[u].status = status /\ rows'[u].commit = commit
<1>1. DOMAIN rows = Tasks /\ DOMAIN rows[u] = {"status", "commit", "binaries", "ir"}
  BY DEF RowShape
<1>2. PICK row : row = rows[u]
  OBVIOUS
<1>3. PICK new : new = [row EXCEPT !.status = status, !.commit = commit]
  OBVIOUS
<1>4. rows' = [rows EXCEPT ![u] = new]
  BY <1>1, <1>2, <1>3 DEF Writes
<1>5. /\ DOMAIN new = DOMAIN row /\ new.status = status /\ new.commit = commit
      /\ new.binaries = row.binaries /\ new.ir = row.ir
  BY <1>1, <1>2, <1>3
<1>6. /\ DOMAIN rows' = Tasks /\ rows'[u] = new
      /\ \A t \in Tasks : t # u => rows'[t] = rows[t]
  BY <1>1, <1>4
<1> QED BY <1>2, <1>5, <1>6

(* A file of a task is in these objects, below a commit or anywhere, or it *)
(* was refused.                                                            *)
Has(O, R, t, c, f) ==
    <<t, f>> \in R \/ \E o \in O : /\ o.file = f /\ t \in o.builds /\ o.dir[1] = RepoOf[t]
                                  /\ o.dir[2] = c /\ o.dir[3] = OptOf[t]
HasAny(O, R, t, f) ==
    <<t, f>> \in R \/ \E o \in O : /\ o.file = f /\ t \in o.builds /\ o.dir[1] = RepoOf[t]
                                  /\ o.dir[3] = OptOf[t]

RecordedHas ==
    /\ \A t \in Tasks :
          /\ rows[t].binaries > 0 => HasAny(objects, Excused, t, "binary")
          /\ \A s \in Stages : rows[t].ir[s] > 0 => HasAny(objects, Excused, t, s)
          /\ rows[t].status = "SUCCESS" =>
                \A f \in {"metadata", "manifest"} : Has(objects, Excused, t, rows[t].commit, f)
    /\ \A o \in objects : \A f \in o.lists : \A t \in o.builds :
          t \in Tasks /\ Has(objects, Excused, t, o.dir[2], f)

LEMMA HasIsStored == RecordedHas => RecordedIsStored
<1>1. ASSUME NEW t, NEW c, NEW f, Has(objects, Excused, t, c, f) PROVE Stored(t, c, f)
  BY <1>1 DEF Has, Stored, Uploaded
<1>2. ASSUME NEW t, NEW f, HasAny(objects, Excused, t, f) PROVE StoredSomewhere(t, f)
  BY <1>2 DEF HasAny, StoredSomewhere, Uploaded
<1> QED BY <1>1, <1>2 DEF RecordedHas, RecordedIsStored

(* The invariant: what a builder means to list or has passed is stored; it *)
(* only saves after a success; and what its build left is its own: the     *)
(* products, and among others the GIMPLE dumps.                            *)
SavedOf(b) ==
    /\ at[b] \notin {"idle", "down", "binaries", "ir", "manifest", "finish", "clean"} =>
          job[b].saved = {}
    /\ at[b] \in {"binaries", "ir", "manifest", "finish"} =>
          \A f \in job[b].saved : Has(objects, Excused, job[b].task, job[b].label, f)

PassedOf(b) ==
    /\ at[b] \in {"metadata", "binaries", "ir", "manifest"} => job[b].status = "SUCCESS"
    /\ at[b] \in {"binaries", "ir", "manifest", "finish"} /\ job[b].status = "SUCCESS" =>
          Has(objects, Excused, job[b].task, job[b].label, "metadata")
    /\ at[b] = "finish" /\ job[b].status = "SUCCESS" =>
          Has(objects, Excused, job[b].task, job[b].label, "manifest")

DumpedOf(b) ==
    at[b] \in {"debug", "metadata", "binaries", "ir"} =>
       /\ Repo(b) \notin unswept => Tree(b).products \subseteq {job[b].task}
       /\ job[b].status = "SUCCESS" /\ Strategy[Serves[b]] # "c"
             /\ DumpsGimple(Stages, Strategy[Serves[b]]) => job[b].task \in gccjit[b]

RecordInv ==
    /\ RowShape /\ DOMAIN gccjit = Builders
    /\ \A b \in Builders : SavedOf(b) /\ PassedOf(b) /\ DumpedOf(b)
    /\ RecordedHas

LEMMA RecordInit == Init => RecordInv
BY DEF Init, RecordInv, RowShape, SavedOf, PassedOf, DumpedOf, RecordedHas, Idle

(* Nothing that is stored goes. *)
Kept ==
    \A t \in Tasks : \A c, f :
        /\ Has(objects, Excused, t, c, f) => Has(objects', Excused', t, c, f)
        /\ HasAny(objects, Excused, t, f) => HasAny(objects', Excused', t, f)

LEMMA ExcusedGrows ==
    /\ refused \subseteq refused' /\ unswept \subseteq unswept' => Excused \subseteq Excused'
    /\ refused \subseteq Excused /\ refused' \subseteq Excused'
BY DEF Excused

LEMMA KeptWithObjects ==
    ASSUME UNCHANGED objects, Excused \subseteq Excused'
    PROVE  Kept
<1>1. \A O, R, Q, x, y, z : R \subseteq Q =>
         (Has(O, R, x, y, z) => Has(O, Q, x, y, z)) /\ (HasAny(O, R, x, z) => HasAny(O, Q, x, z))
  BY DEF Has, HasAny
<1> QED BY <1>1 DEF Kept

LEMMA KeptByOwner ==
    ASSUME OnePerPair, NEW b \in Builders, NEW u \in Tasks, job[b].task = u,
           OptOf[u] = Serves[b], Excused \subseteq Excused',
           \A o \in objects :
              \/ o \in objects'
              \/ o.dir = Dir(b) /\ <<u, o.file>> \in Excused'
              \/ o.dir = Dir(b) /\ \E n \in objects' : /\ n.dir = Dir(b) /\ n.file = o.file
                                                      /\ u \in n.builds
    PROVE  Kept
<1>1. ASSUME NEW t \in Tasks, NEW f, NEW o \in objects, o.file = f, t \in o.builds,
             o.dir[1] = RepoOf[t], o.dir[3] = OptOf[t]
      PROVE  \/ <<t, f>> \in Excused'
             \/ \E n \in objects' : /\ n.file = f /\ t \in n.builds
                                    /\ n.dir = o.dir
  <2>1. CASE o \in objects'
    BY <1>1, <2>1
  <2>2. CASE /\ o.dir = Dir(b)
             /\ \/ <<u, o.file>> \in Excused'
                \/ \E n \in objects' : /\ n.dir = Dir(b) /\ n.file = o.file
                                       /\ u \in n.builds
    <3>1. Dir(b)[1] = RepoOf[u] /\ Dir(b)[3] = Serves[b]
      BY DEF Dir, Repo
    <3>2. t = u
      BY <1>1, <2>2, <3>1 DEF OnePerPair
    <3> QED BY <1>1, <2>2, <3>2
  <2> QED BY <2>1, <2>2
<1>2. ASSUME NEW t \in Tasks, NEW c, NEW f, Has(objects, Excused, t, c, f)
      PROVE  Has(objects', Excused', t, c, f)
  <2>1. CASE <<t, f>> \in Excused \/ <<t, f>> \in Excused'
    BY <2>1 DEF Has
  <2>2. CASE <<t, f>> \notin Excused /\ <<t, f>> \notin Excused'
    <3>1. PICK o \in objects : /\ o.file = f /\ t \in o.builds /\ o.dir[1] = RepoOf[t]
                               /\ o.dir[2] = c /\ o.dir[3] = OptOf[t]
      BY <1>2, <2>2 DEF Has
    <3>2. PICK n \in objects' : n.file = f /\ t \in n.builds /\ n.dir = o.dir
      BY <1>1, <2>2, <3>1
    <3> QED BY <3>1, <3>2 DEF Has
  <2> QED BY <2>1, <2>2
<1>3. ASSUME NEW t \in Tasks, NEW f, HasAny(objects, Excused, t, f)
      PROVE  HasAny(objects', Excused', t, f)
  <2>1. CASE <<t, f>> \in Excused \/ <<t, f>> \in Excused'
    BY <2>1 DEF HasAny
  <2>2. CASE <<t, f>> \notin Excused /\ <<t, f>> \notin Excused'
    <3>1. PICK o \in objects : /\ o.file = f /\ t \in o.builds /\ o.dir[1] = RepoOf[t]
                               /\ o.dir[3] = OptOf[t]
      BY <1>3, <2>2 DEF HasAny
    <3>2. PICK n \in objects' : n.file = f /\ t \in n.builds /\ n.dir = o.dir
      BY <1>1, <2>2, <3>1
    <3> QED BY <3>1, <3>2 DEF HasAny
  <2> QED BY <2>1, <2>2
<1> QED BY <1>2, <1>3 DEF Kept

(* A step of one builder.                                                  *)
LEMMA RecordOfOne ==
    ASSUME RecordInv, SourceInv, NEW b \in Builders, Kept, RowShape',
           DOMAIN gccjit' = Builders, unswept \subseteq unswept',
           \A c \in Builders : c # b => /\ at'[c] = at[c] /\ job'[c] = job[c]
                                       /\ gccjit'[c] = gccjit[c] /\ tree'[c] = tree[c],
           \A o \in objects' : o \in objects \/
              (\A f \in o.lists, t \in o.builds :
                  t \in Tasks /\ Has(objects', Excused', t, o.dir[2], f)),
           \A t \in Tasks :
              /\ rows'[t].binaries = rows[t].binaries \/ HasAny(objects', Excused', t, "binary")
              /\ \A s \in Stages : rows'[t].ir[s] = rows[t].ir[s]
                                   \/ HasAny(objects', Excused', t, s)
              /\ \/ rows'[t].status # "SUCCESS"
                 \/ rows'[t].status = rows[t].status /\ rows'[t].commit = rows[t].commit
                 \/ \A f \in {"metadata", "manifest"} :
                       Has(objects', Excused', t, rows'[t].commit, f),
           SavedOf(b)', PassedOf(b)', DumpedOf(b)'
    PROVE  RecordInv'
<1>1. ASSUME NEW c \in Builders, c # b PROVE SavedOf(c)' /\ PassedOf(c)' /\ DumpedOf(c)'
  <2>1. /\ at'[c] = at[c] /\ job'[c] = job[c] /\ gccjit'[c] = gccjit[c] /\ tree'[c] = tree[c]
        /\ SavedOf(c) /\ PassedOf(c) /\ DumpedOf(c)
        /\ at[c] \notin {"idle", "down"} => job[c].task \in Tasks
    BY <1>1 DEF RecordInv, SourceInv, BuilderInv
  <2>2. \A f : at[c] \notin {"idle", "down"}
               /\ Has(objects, Excused, job[c].task, job[c].label, f)
               => Has(objects', Excused', job[c].task, job[c].label, f)
    BY <2>1 DEF Kept
  <2>3. SavedOf(c)'
    BY <2>1, <2>2 DEF SavedOf
  <2>4. PassedOf(c)'
    BY <2>1, <2>2 DEF PassedOf
  <2>5. DumpedOf(c)'
    BY <2>1 DEF DumpedOf, Tree, Repo
  <2> QED BY <2>3, <2>4, <2>5
<1>2. RecordedHas'
  <2>1. ASSUME NEW t \in Tasks
        PROVE  /\ rows'[t].binaries > 0 => HasAny(objects', Excused', t, "binary")
               /\ \A s \in Stages : rows'[t].ir[s] > 0 => HasAny(objects', Excused', t, s)
               /\ rows'[t].status = "SUCCESS" =>
                     \A f \in {"metadata", "manifest"} :
                        Has(objects', Excused', t, rows'[t].commit, f)
    BY <2>1 DEF RecordInv, RecordedHas, Kept
  <2>2. ASSUME NEW o \in objects', NEW f \in o.lists, NEW t \in o.builds
        PROVE  t \in Tasks /\ Has(objects', Excused', t, o.dir[2], f)
    <3>1. CASE o \in objects
      <4>1. t \in Tasks /\ Has(objects, Excused, t, o.dir[2], f)
        BY <2>2, <3>1 DEF RecordInv, RecordedHas
      <4> QED BY <4>1 DEF Kept
    <3> QED BY <2>2, <3>1
  <2> QED BY <2>1, <2>2 DEF RecordedHas
<1> QED BY <1>1, <1>2 DEF RecordInv

LEMMA RecordOfQuiet ==
    ASSUME RecordInv, SourceInv, NEW b \in Builders, UNCHANGED <<objects, refused, rows>>,
           unswept \subseteq unswept',
           DOMAIN gccjit' = Builders,
           \A c \in Builders : c # b => /\ at'[c] = at[c] /\ job'[c] = job[c]
                                       /\ gccjit'[c] = gccjit[c] /\ tree'[c] = tree[c],
           SavedOf(b)', PassedOf(b)', DumpedOf(b)'
    PROVE  RecordInv'
<1>1. RowShape' /\ Kept
  BY KeptWithObjects, ExcusedGrows DEF RecordInv, RowShape
<1> QED BY <1>1, RecordOfOne

(* Before anything is saved, and after. *)
LEMMA RecordBefore ==
    ASSUME RecordInv, SourceInv, NEW b \in Builders,
           \/ TakeTask(b) \/ ReadPointer(b) \/ RestoreArchive(b) \/ Clone(b) \/ GetProjectCommit(b)
           \/ UploadArchive(b) \/ PutPointer(b) \/ RaiseEarly(b) \/ RaiseLate(b) \/ CleanFolder(b)
           \/ Crash(b) \/ Restart(b)
    PROVE  RecordInv'
<1>1. /\ DOMAIN at = Builders /\ DOMAIN job = Builders /\ DOMAIN job[b] = DOMAIN Idle
      /\ DOMAIN tree = Builders /\ SavedOf(b) /\ DOMAIN gccjit = Builders
  BY DEF SourceInv, BuilderInv, RecordInv
<1>2. /\ UNCHANGED <<objects, refused, rows, gccjit>> /\ unswept \subseteq unswept'
      /\ \A c \in Builders : c # b => /\ at'[c] = at[c] /\ job'[c] = job[c]
                                     /\ tree'[c] = tree[c]
      /\ \/ at'[b] \in {"idle", "clean", "down"}
         \/ /\ at'[b] \in {"pointer", "fetch", "clone", "restored", "cloned", "archive", "point",
                           "report"}
            /\ job'[b].saved = {}
  <2>1. CASE TakeTask(b)
    BY <1>1, <2>1 DEF TakeTask, Goes, Idle
  <2>2. CASE ReadPointer(b) \/ GetProjectCommit(b)
    BY <1>1, <2>2 DEF ReadPointer, GetProjectCommit, Goes, SetJob, Idle, SavedOf, rest
  <2>3. CASE RestoreArchive(b) \/ UploadArchive(b) \/ PutPointer(b)
    <3>1. /\ UNCHANGED <<objects, refused, rows, gccjit, job, unswept>>
          /\ \A c \in Builders : c # b => at'[c] = at[c]
          /\ at[b] \in {"fetch", "archive", "point"}
          /\ at'[b] \in {"clone", "restored", "point", "report"}
      BY <1>1, <2>3 DEF RestoreArchive, UploadArchive, PutPointer, Goes, rest
    <3>2. \A c \in Builders : c # b => tree'[c] = tree[c]
      BY <1>1, <2>3 DEF RestoreArchive, UploadArchive, PutPointer, SetTree
    <3> QED BY <1>1, <3>1, <3>2 DEF SavedOf
  <2>4. CASE Clone(b)
    <3>1. PICK ok \in BOOLEAN, leaves \in BOOLEAN :
             /\ (\E v : SetTree(b, v)) \/ UNCHANGED tree
             /\ Goes(b, IF ok THEN "cloned" ELSE "idle")
             /\ job' = IF ok THEN job ELSE [job EXCEPT ![b] = Idle]
      BY <2>4 DEF Clone
    <3>2. at[b] = "clone" /\ UNCHANGED <<objects, refused, rows, gccjit, unswept>>
      BY <2>4 DEF Clone
    <3> QED BY <1>1, <3>1, <3>2 DEF Goes, SetTree, SavedOf
  <2>5. CASE RaiseEarly(b) \/ RaiseLate(b) \/ CleanFolder(b) \/ Crash(b) \/ Restart(b)
    BY <1>1, <2>5 DEF RaiseEarly, RaiseLate, CleanFolder, Crash, Restart, Goes, rest, SetTree,
       Remains
  <2> QED BY <2>1, <2>2, <2>3, <2>4, <2>5
<1>3. SavedOf(b)' /\ PassedOf(b)' /\ DumpedOf(b)'
  BY <1>2 DEF SavedOf, PassedOf, DumpedOf
<1> QED BY <1>1, <1>2, <1>3, RecordOfQuiet

LEMMA RecordOfBuild ==
    ASSUME RecordInv, SourceInv, NEW b \in Builders, Build(b) PROVE RecordInv'
<1>1. /\ DOMAIN at = Builders /\ DOMAIN job = Builders /\ DOMAIN job[b] = DOMAIN Idle
      /\ DOMAIN tree = Builders /\ SavedOf(b) /\ DOMAIN gccjit = Builders
      /\ at[b] = "build" /\ Repo(b) \in Repos /\ tree[b] \in [Repos -> Trees]
      /\ Repo(b) \notin unswept => Tree(b).products = {}
  BY BuilderAssumption DEF SourceInv, BuilderInv, RecordInv, Build, Repo, Tree, Built
<1>2. /\ at'[b] = "debug" /\ UNCHANGED <<objects, refused, rows, unswept>>
      /\ \A c \in Builders : c # b => at'[c] = at[c]
  BY <1>1 DEF Build, Goes, rest
<1>3. PICK r \in Runs(b) :
         /\ \E v : job' = [job EXCEPT ![b].status = IF r.ok THEN "SUCCESS" ELSE "FAILED",
                                      ![b].binary = v]
         /\ SetTree(b, IF r.leaves THEN [Tree(b) EXCEPT !.products = @ \cup {job[b].task}]
                                   ELSE Tree(b))
  BY DEF Build
<1>4. /\ \A c \in Builders : c # b => job'[c] = job[c]
      /\ job'[b].task = job[b].task /\ job'[b].saved = {}
      /\ job'[b].status = "SUCCESS" => r.ok
  BY <1>1, <1>2, <1>3 DEF Idle, SavedOf
<1>5. r.ok => Runs(b) # NoCommand
  BY DEF NoCommand
<1>6. /\ DOMAIN gccjit' = Builders /\ \A c \in Builders : c # b => gccjit'[c] = gccjit[c]
      /\ Runs(b) # NoCommand /\ Strategy[Serves[b]] # "c"
            /\ DumpsGimple(Stages, Strategy[Serves[b]]) => job[b].task \in gccjit'[b]
  BY <1>1 DEF Build
<1>7. /\ \A c \in Builders : c # b => tree'[c] = tree[c]
      /\ Repo(b) \notin unswept => tree'[b][Repo(b)].products \subseteq {job[b].task}
  <2>1. "products" \in DOMAIN Tree(b)
    BY <1>1, NoTreeIsTree DEF Trees, Tree_, Tree
  <2> QED BY <1>1, <1>3, <2>1 DEF SetTree
<1>8. SavedOf(b)' /\ PassedOf(b)' /\ DumpedOf(b)'
  <2>1. Repo(b)' \notin unswept' => Tree(b)'.products \subseteq {job'[b].task}
    BY <1>2, <1>4, <1>7 DEF Tree, Repo
  <2>2. SavedOf(b)' /\ PassedOf(b)'
    BY <1>2, <1>4 DEF SavedOf, PassedOf
  <2>3. /\ Runs(b) # NoCommand /\ Strategy[Serves[b]] # "c"
              /\ DumpsGimple(Stages, Strategy[Serves[b]]) => job'[b].task \in gccjit'[b]
        /\ job'[b].status = "SUCCESS" => Runs(b) # NoCommand
    BY <1>4, <1>5, <1>6
  <2>4. DumpedOf(b)'
    BY <2>1, <2>3 DEF DumpedOf
  <2> QED BY <2>2, <2>4
<1> QED BY <1>2, <1>4, <1>6, <1>7, <1>8, RecordOfQuiet

LEMMA RecordOfDebug ==
    ASSUME RecordInv, SourceInv, NEW b \in Builders, DebugInfo(b) PROVE RecordInv'
<1>1. /\ DOMAIN at = Builders /\ DOMAIN job = Builders /\ DOMAIN job[b] = DOMAIN Idle
      /\ SavedOf(b) /\ DumpedOf(b) /\ DOMAIN gccjit = Builders
  BY DEF SourceInv, BuilderInv, RecordInv
<1>2. /\ at[b] = "debug" /\ UNCHANGED <<objects, refused, rows, gccjit, tree, unswept>>
      /\ at'[b] = IF job[b].status = "SUCCESS" THEN "metadata" ELSE "finish"
      /\ \A c \in Builders : c # b => at'[c] = at[c]
      /\ \E v : SetJob(b, "dwarf", v)
  BY <1>1 DEF DebugInfo, Goes, rest
<1>3. /\ \A c \in Builders : c # b => job'[c] = job[c]
      /\ job'[b].task = job[b].task /\ job'[b].saved = {} /\ job'[b].status = job[b].status
  BY <1>1, <1>2 DEF SetJob, Idle, SavedOf
<1>4. SavedOf(b)' /\ PassedOf(b)' /\ DumpedOf(b)'
  BY <1>1, <1>2, <1>3 DEF SavedOf, PassedOf, DumpedOf, Tree, Repo
<1> QED BY <1>1, <1>2, <1>3, <1>4, RecordOfQuiet

LEMMA RecordOfReport ==
    ASSUME RecordInv, SourceInv, NEW b \in Builders, ReportProcessing(b) \/ ReportFinished(b)
    PROVE  RecordInv'
<1>1. /\ DOMAIN at = Builders /\ SavedOf(b) /\ PassedOf(b) /\ DOMAIN gccjit = Builders /\ RowShape
      /\ job[b].task \in Tasks
  BY DEF SourceInv, BuilderInv, RecordInv, ReportProcessing, ReportFinished
<1>2. /\ UNCHANGED <<objects, refused, job, gccjit, tree, unswept>>
      /\ \A c \in Builders : c # b => at'[c] = at[c]
      /\ \/ at[b] = "report" /\ at'[b] = "build" /\ HandleBuildStatus(b, "PROCESSING")
         \/ at[b] = "finish" /\ at'[b] = "clean" /\ HandleBuildStatus(b, job[b].status)
  BY <1>1 DEF ReportProcessing, ReportFinished, Goes, rest
<1>3. \E status : /\ rows' = [rows EXCEPT ![job[b].task].status = status,
                                          ![job[b].task].commit = job[b].label]
                  /\ status = "SUCCESS" => at[b] = "finish" /\ job[b].status = "SUCCESS"
  <2>1. CASE at[b] = "report" /\ HandleBuildStatus(b, "PROCESSING")
    <3>1. "PROCESSING" # "SUCCESS"
      OBVIOUS
    <3> QED BY <2>1, <3>1 DEF HandleBuildStatus
  <2>2. CASE at[b] = "finish" /\ HandleBuildStatus(b, job[b].status)
    BY <2>2 DEF HandleBuildStatus
  <2> QED BY <1>2, <2>1, <2>2
<1>4. PICK u \in Tasks : u = job[b].task
  BY <1>1
<1>5. /\ DOMAIN rows' = Tasks
      /\ \A t \in Tasks :
            /\ DOMAIN rows'[t] = DOMAIN rows[t]
            /\ rows'[t].binaries = rows[t].binaries /\ rows'[t].ir = rows[t].ir
            /\ t # u => rows'[t] = rows[t]
      /\ rows'[u].status = "SUCCESS" => at[b] = "finish" /\ job[b].status = "SUCCESS"
      /\ rows'[u].commit = job[b].label
  <2>1. PICK status : /\ Writes(u, status, job[b].label)
                      /\ status = "SUCCESS" => at[b] = "finish" /\ job[b].status = "SUCCESS"
    BY <1>3, <1>4 DEF Writes
  <2> QED BY <1>1, <2>1, StatusWritten
<1>6. RowShape' /\ Kept
  BY <1>1, <1>2, <1>5, KeptWithObjects, ExcusedGrows DEF RowShape
<1>7. rows'[u].status = "SUCCESS" =>
         \A f \in {"metadata", "manifest"} : Has(objects', Excused', u, rows'[u].commit, f)
  BY <1>1, <1>2, <1>4, <1>5, <1>6 DEF PassedOf, Kept
<1>8. SavedOf(b)' /\ PassedOf(b)' /\ DumpedOf(b)'
  BY <1>1, <1>2 DEF SavedOf, PassedOf, DumpedOf
<1> QED BY <1>1, <1>2, <1>5, <1>6, <1>7, <1>8, RecordOfOne

(* One object is put, or refused: the builder's task has it afterwards. *)
LEMMA RefusedIsKept ==
    ASSUME OnePerPair, NEW b \in Builders, NEW u \in Tasks, job[b].task = u,
           NEW l, OptOf[u] = Serves[b], NEW file, Refuse(b, file),
           UNCHANGED unswept
    PROVE  /\ Kept /\ objects' = objects
           /\ Has(objects', Excused', u, l, file) /\ HasAny(objects', Excused', u, file)
<1>1. objects' = objects /\ Excused \subseteq Excused' /\ <<u, file>> \in Excused'
  BY ExcusedGrows DEF Refuse
<1>2. Kept
  BY <1>1, KeptByOwner
<1> QED BY <1>1, <1>2 DEF Has, HasAny

LEMMA PutIsKept ==
    ASSUME OnePerPair, NEW b \in Builders, NEW u \in Tasks, job[b].task = u,
           NEW l, job[b].label = l, OptOf[u] = Serves[b], NEW file, NEW lists,
           Put(b, file, {u}, lists), UNCHANGED refused, UNCHANGED unswept
    PROVE  /\ Kept
           /\ Has(objects', Excused', u, l, file) /\ HasAny(objects', Excused', u, file)
           /\ \A o \in objects' : \/ o \in objects
                                  \/ /\ o.lists = lists /\ o.builds = {u} /\ o.dir[2] = l
<1> DEFINE new == [dir |-> Dir(b), file |-> file, from |-> Contents(Tree(b)),
                   builds |-> {u}, lists |-> lists]
<1>1. objects' = {o \in objects : ~(o.dir = Dir(b) /\ o.file = file)} \cup {new}
  BY DEF Put
<1>2. /\ new.dir = Dir(b) /\ new.file = file /\ new.builds = {u} /\ new.lists = lists
      /\ new.dir[1] = RepoOf[u] /\ new.dir[2] = l /\ new.dir[3] = OptOf[u]
  BY DEF Dir, Repo
<1> HIDE DEF new
<1>3. new \in objects'
  BY <1>1
<1>4. \A o \in objects : o \in objects' \/ (o.dir = Dir(b) /\ o.file = file)
  BY <1>1
<1>5. Kept
  BY <1>2, <1>3, <1>4, KeptByOwner, ExcusedGrows
<1>6. \A o \in objects' : o \in objects \/ o = new
  BY <1>1
<1>7. Has(objects', Excused', u, l, file) /\ HasAny(objects', Excused', u, file)
  BY <1>2, <1>3 DEF Has, HasAny
<1> QED BY <1>2, <1>5, <1>6, <1>7

(* Where a builder is about to save something. *)
LEMMA Saving ==
    ASSUME RecordInv, OwnInv, SourceInv, NEW b \in Builders,
           at[b] \in {"metadata", "binaries", "ir", "manifest"}
    PROVE  /\ DOMAIN at = Builders /\ DOMAIN job = Builders /\ DOMAIN job[b] = DOMAIN Idle
           /\ DOMAIN gccjit = Builders /\ RowShape
           /\ SavedOf(b) /\ PassedOf(b) /\ DumpedOf(b)
           /\ job[b].task \in Tasks /\ OptOf[job[b].task] = Serves[b]
BY DEF SourceInv, BuilderInv, RecordInv, OwnInv, OwnOf

LEMMA RecordOfMetadata ==
    ASSUME OnePerPair, RecordInv, OwnInv, SourceInv, NEW b \in Builders, SaveMetadata(b)
    PROVE  RecordInv'
<1>1. at[b] = "metadata"
  BY DEF SaveMetadata
<1>2. PICK u, l : job[b].task = u /\ job[b].label = l
  OBVIOUS
<1>3. /\ at'[b] = "binaries" /\ UNCHANGED <<rows, gccjit, tree, unswept>>
      /\ \A c \in Builders : c # b => at'[c] = at[c]
      /\ \/ Put(b, "metadata", {u}, {}) /\ UNCHANGED refused
         \/ Refuse(b, "metadata")
      /\ \/ job' = [job EXCEPT ![b].saved = {"metadata"}, ![b].dwarf = 0]
         \/ SetJob(b, "dwarf", 0)
  BY <1>1, <1>2, Saving DEF SaveMetadata, Goes
<1>4. /\ \A c \in Builders : c # b => job'[c] = job[c]
      /\ job'[b].task = u /\ job'[b].label = l
      /\ job'[b].status = job[b].status /\ job'[b].saved \subseteq {"metadata"}
  <2>1. CASE job' = [job EXCEPT ![b].saved = {"metadata"}, ![b].dwarf = 0]
    BY <1>1, <1>2, <2>1, Saving DEF Idle
  <2>2. CASE SetJob(b, "dwarf", 0)
    BY <1>1, <1>2, <2>2, Saving DEF SetJob, Idle, SavedOf
  <2> QED BY <1>3, <2>1, <2>2
<1>5. /\ Kept /\ Has(objects', Excused', u, l, "metadata")
      /\ \A o \in objects' : o \in objects \/ o.lists = {}
  <2>1. u \in Tasks /\ OptOf[u] = Serves[b]
    BY <1>1, <1>2, Saving
  <2>2. unswept' = unswept
    BY <1>3
  <2>3. CASE Put(b, "metadata", {u}, {}) /\ UNCHANGED refused
    <3>1. /\ Kept /\ Has(objects', Excused', u, l, "metadata")
          /\ \A o \in objects' : \/ o \in objects
                                 \/ o.lists = {} /\ o.builds = {u} /\ o.dir[2] = l
      BY <1>2, <2>1, <2>3, <2>2, PutIsKept
    <3> QED BY <3>1
  <2>4. CASE Refuse(b, "metadata")
    BY <1>2, <2>1, <2>4, <2>2, RefusedIsKept
  <2> QED BY <1>3, <2>3, <2>4
<1>6. SavedOf(b)' /\ PassedOf(b)' /\ DumpedOf(b)'
  BY <1>1, <1>2, <1>3, <1>4, <1>5, Saving DEF SavedOf, PassedOf, DumpedOf, Tree, Repo
<1>7. RowShape' /\ DOMAIN gccjit' = Builders
  BY <1>1, <1>3, Saving DEF RowShape
<1> QED BY <1>3, <1>4, <1>5, <1>6, <1>7, RecordOfOne

LEMMA RecordOfBinaries ==
    ASSUME OnePerPair, RecordInv, OwnInv, SourceInv, NEW b \in Builders, SaveBinaries(b)
    PROVE  RecordInv'
<1>1. at[b] = "binaries"
  BY DEF SaveBinaries
<1>2. PICK u, l : job[b].task = u /\ job[b].label = l
  OBVIOUS
<1>3. /\ at'[b] = "ir" /\ UNCHANGED <<gccjit, tree, unswept>>
      /\ \A c \in Builders : c # b => at'[c] = at[c]
  BY <1>1, Saving DEF SaveBinaries, Goes
<1>4. /\ RowShape' /\ DOMAIN gccjit' = Builders /\ DumpedOf(b)'
      /\ \A t \in Tasks : /\ t # u => rows'[t] = rows[t]
                          /\ rows'[t].ir = rows[t].ir /\ rows'[t].status = rows[t].status
                          /\ rows'[t].commit = rows[t].commit
      /\ \A c \in Builders : c # b => job'[c] = job[c]
      /\ job'[b].task = u /\ job'[b].label = l /\ job'[b].status = job[b].status
  <2>1. UNCHANGED rows \/ \E n : HandleBinary(b, n)
    BY DEF SaveBinaries
  <2>2. /\ DOMAIN rows' = Tasks
        /\ \A t \in Tasks : /\ t # u => rows'[t] = rows[t]
                            /\ DOMAIN rows'[t] = DOMAIN rows[t]
                            /\ rows'[t].ir = rows[t].ir /\ rows'[t].status = rows[t].status
                            /\ rows'[t].commit = rows[t].commit
    BY <1>1, <1>2, <2>1, Saving DEF HandleBinary, RowShape
  <2>3. UNCHANGED job \/ \E v : SetJob(b, "saved", v)
    BY DEF SaveBinaries
  <2>4. /\ \A c \in Builders : c # b => job'[c] = job[c]
        /\ job'[b].task = u /\ job'[b].label = l /\ job'[b].status = job[b].status
    BY <1>1, <1>2, <2>3, Saving DEF SetJob, Idle
  <2>5. RowShape'
    BY <1>1, <2>2, Saving DEF RowShape
  <2>6. DumpedOf(b)'
    BY <1>1, <1>2, <1>3, <2>4, Saving DEF DumpedOf, Tree, Repo
  <2> QED BY <1>1, <1>3, <2>2, <2>4, <2>5, <2>6, Saving
<1>5. CASE job[b].binary
  <2>1. /\ \/ Put(b, "binary", {u}, {}) /\ UNCHANGED refused
           \/ Refuse(b, "binary")
        /\ SetJob(b, "saved", job[b].saved \cup {"binary"})
    BY <1>2, <1>5 DEF SaveBinaries
  <2>2. /\ Kept /\ Has(objects', Excused', u, l, "binary")
        /\ HasAny(objects', Excused', u, "binary")
        /\ \A o \in objects' : o \in objects \/ o.lists = {}
    <3>1. u \in Tasks /\ OptOf[u] = Serves[b]
      BY <1>1, <1>2, Saving
    <3>2. unswept' = unswept
      BY <1>3
    <3>3. CASE Put(b, "binary", {u}, {}) /\ UNCHANGED refused
      <4>1. /\ Kept /\ Has(objects', Excused', u, l, "binary")
            /\ HasAny(objects', Excused', u, "binary")
            /\ \A o \in objects' : \/ o \in objects
                                   \/ o.lists = {} /\ o.builds = {u} /\ o.dir[2] = l
        BY <1>2, <3>1, <3>3, <3>2, PutIsKept
      <4> QED BY <4>1
    <3>4. CASE Refuse(b, "binary")
      BY <1>2, <3>1, <3>4, <3>2, RefusedIsKept
    <3> QED BY <1>3, <2>1, <3>3, <3>4
  <2>3. job'[b].saved = job[b].saved \cup {"binary"}
    BY <1>1, <2>1, Saving DEF SetJob, Idle
  <2>4. /\ \A f \in job[b].saved : Has(objects', Excused', u, l, f)
        /\ Has(objects', Excused', u, l, "metadata")
    BY <1>1, <1>2, <2>2, Saving DEF SavedOf, PassedOf, Kept
  <2>5. SavedOf(b)' /\ PassedOf(b)'
    BY <1>1, <1>3, <1>4, <2>2, <2>3, <2>4, Saving DEF SavedOf, PassedOf
  <2>6. \A t \in Tasks : \/ rows'[t].binaries = rows[t].binaries
                         \/ HasAny(objects', Excused', t, "binary")
    BY <1>4, <2>2
  <2> QED BY <1>3, <1>4, <2>2, <2>5, <2>6, RecordOfOne
<1>6. CASE ~job[b].binary
  <2>1. UNCHANGED <<objects, refused, job, rows>>
    BY <1>6 DEF SaveBinaries
  <2>2. SavedOf(b)' /\ PassedOf(b)'
    <3>1. Excused' = Excused
      BY <1>3, <2>1 DEF Excused
    <3> QED BY <1>1, <1>3, <2>1, <3>1, Saving DEF SavedOf, PassedOf
  <2> QED BY <1>3, <1>4, <2>1, <2>2, RecordOfQuiet
<1> QED BY <1>5, <1>6

LEMMA RecordOfManifest ==
    ASSUME OnePerPair, RecordInv, OwnInv, SourceInv, NEW b \in Builders, SaveExportManifest(b)
    PROVE  RecordInv'
<1>1. at[b] = "manifest"
  BY DEF SaveExportManifest
<1>2. PICK u, l, saved : job[b].task = u /\ job[b].label = l /\ job[b].saved = saved
  OBVIOUS
<1>3. /\ at'[b] = "finish" /\ UNCHANGED <<rows, gccjit, tree, job, unswept>>
      /\ \A c \in Builders : c # b => at'[c] = at[c]
      /\ \/ Put(b, "manifest", {u}, saved) /\ UNCHANGED refused
         \/ Refuse(b, "manifest")
  BY <1>1, <1>2, Saving DEF SaveExportManifest, Goes
<1>4. /\ Kept /\ Has(objects', Excused', u, l, "manifest")
      /\ \A o \in objects' : \/ o \in objects
                             \/ o.lists = saved /\ o.builds = {u} /\ o.dir[2] = l
  <2>1. u \in Tasks /\ OptOf[u] = Serves[b]
    BY <1>1, <1>2, Saving
  <2>2. unswept' = unswept
    BY <1>3
  <2>3. CASE Put(b, "manifest", {u}, saved) /\ UNCHANGED refused
    BY <1>2, <2>1, <2>3, <2>2, PutIsKept
  <2>4. CASE Refuse(b, "manifest")
    BY <1>2, <2>1, <2>4, <2>2, RefusedIsKept
  <2> QED BY <1>3, <2>3, <2>4
<1>5. /\ \A f \in saved : Has(objects', Excused', u, l, f)
      /\ Has(objects', Excused', u, l, "metadata")
  BY <1>1, <1>2, <1>4, Saving DEF SavedOf, PassedOf, Kept
<1>6. SavedOf(b)' /\ PassedOf(b)' /\ DumpedOf(b)'
  BY <1>1, <1>2, <1>3, <1>4, <1>5, Saving DEF SavedOf, PassedOf, DumpedOf
<1>7. RowShape' /\ DOMAIN gccjit' = Builders
  BY <1>1, <1>3, Saving DEF RowShape
<1>8. \A o \in objects' : o \in objects \/
         (\A f \in o.lists, t \in o.builds : t \in Tasks /\ Has(objects', Excused', t, o.dir[2], f))
  BY <1>1, <1>2, <1>4, <1>5, Saving
<1> QED BY <1>3, <1>4, <1>6, <1>7, <1>8, RecordOfOne

(* A stage that is packed has a dump of the build that packs it. *)
LEMMA OwnDump ==
    ASSUME RecordInv, SourceInv, NEW b \in Builders, at[b] = "ir", Repo(b) \notin unswept,
           NEW without, NEW d \in Dumps(b, without)
    PROVE  \E e \in Dumps(b, without) : e.stage = d.stage /\ e.task = job[b].task
<1> DEFINE backend == Strategy[Serves[b]]
           target == DumpsOf(RideAlongEmit(Stages, backend), Tree(b).products)
           directory == DumpsOf({"GIMPLE"}, gccjit[b])
           t == job[b].task
<1>1. /\ backend # "c"
      /\ \/ d \in DiscoverRideAlong(target, Stages, Members(b), RepoScope)
         \/ /\ DumpsGimple(Stages, backend)
            /\ d \in DiscoverGimple(directory, Members(b), RepoScope)
         \/ d \in RunUnpretty(Stages, backend, Members(b), t, without)
  BY DEF Dumps
<1>2. CASE d \in DiscoverRideAlong(target, Stages, Members(b), RepoScope)
  <2>1. d \in target
    BY <1>2 DEF DiscoverRideAlong
  <2>2. d.task \in Tree(b).products
    BY <2>1 DEF DumpsOf
  <2>3. d.task = t
    BY <2>2 DEF RecordInv, DumpedOf
  <2> QED BY <2>3
<1>3. CASE /\ DumpsGimple(Stages, backend)
           /\ d \in DiscoverGimple(directory, Members(b), RepoScope)
  <2> DEFINE e == [stage |-> "GIMPLE", crate |-> Crate[RepoOf[t]], task |-> t]
  <2>1. t \in gccjit[b]
    BY <1>1, <1>3 DEF RecordInv, DumpedOf, PassedOf
  <2>2. e \in directory
    BY <2>1 DEF DumpsOf
  <2>3. e \in DiscoverGimple(directory, Members(b), RepoScope)
    BY <2>2 DEF DiscoverGimple, InScope, Members, Repo
  <2>4. e \in Dumps(b, without)
    BY <1>1, <1>3, <2>3 DEF Dumps
  <2>5. d \in directory
    BY <1>3 DEF DiscoverGimple
  <2>6. d.stage = "GIMPLE"
    BY <2>5 DEF DumpsOf
  <2>7. e.stage = "GIMPLE" /\ e.task = t
    OBVIOUS
  <2> HIDE DEF e
  <2> QED BY <2>4, <2>6, <2>7
<1>4. CASE d \in RunUnpretty(Stages, backend, Members(b), t, without)
  <2>1. d.task = t
    BY <1>4 DEF RunUnpretty
  <2> QED BY <2>1
<1> QED BY <1>1, <1>2, <1>3, <1>4

LEMMA StagesOfDumps ==
    ASSUME NEW b \in Builders, NEW without, NEW d \in Dumps(b, without)
    PROVE  d.stage \in Stages
<1> DEFINE backend == Strategy[Serves[b]]
           target == DumpsOf(RideAlongEmit(Stages, backend), Tree(b).products)
           directory == DumpsOf({"GIMPLE"}, gccjit[b])
<1>1. \/ d \in DiscoverRideAlong(target, Stages, Members(b), RepoScope)
      \/ /\ DumpsGimple(Stages, backend)
         /\ d \in DiscoverGimple(directory, Members(b), RepoScope)
      \/ d \in RunUnpretty(Stages, backend, Members(b), job[b].task, without)
  BY DEF Dumps
<1>2. CASE d \in DiscoverRideAlong(target, Stages, Members(b), RepoScope)
  BY <1>2 DEF DiscoverRideAlong
<1>3. CASE /\ DumpsGimple(Stages, backend)
           /\ d \in DiscoverGimple(directory, Members(b), RepoScope)
  <2>1. d \in directory /\ "GIMPLE" \in Stages
    BY <1>3 DEF DiscoverGimple, DumpsGimple
  <2> QED BY <2>1 DEF DumpsOf
<1>4. CASE d \in RunUnpretty(Stages, backend, Members(b), job[b].task, without)
  BY <1>4 DEF RunUnpretty
<1> QED BY <1>1, <1>2, <1>3, <1>4

(* The stages are stored: those put, and those refused. *)
LEMMA StagesAreStored ==
    ASSUME OnePerPair, RecordInv, SourceInv, NEW b \in Builders, at[b] = "ir",
           NEW u \in Tasks, job[b].task = u, NEW l, job[b].label = l, OptOf[u] = Serves[b],
           NEW without, NEW put,
           put \subseteq {d.stage : d \in Dumps(b, without)},
           objects' = {o \in objects : ~(o.dir = Dir(b) /\ o.file \in put)}
                      \cup IrObjects(b, Dumps(b, without), put),
           Excused \subseteq Excused'
    PROVE  /\ Kept
           /\ \A s \in put : Has(objects', Excused', u, l, s) /\ HasAny(objects', Excused', u, s)
           /\ \A o \in objects' : o \in objects \/ o.lists = {}
<1>1. /\ Dir(b)[1] = RepoOf[u] /\ Dir(b)[2] = l /\ Dir(b)[3] = OptOf[u]
  BY DEF Dir, Repo
<1>2. Repo(b) \in unswept \/ \A s \in put : \E n \in objects' : n.dir = Dir(b) /\ n.file = s /\ u \in n.builds
  <2> SUFFICES ASSUME Repo(b) \notin unswept, NEW s \in put
               PROVE  \E n \in objects' : n.dir = Dir(b) /\ n.file = s /\ u \in n.builds
    OBVIOUS
  <2> DEFINE n == [dir |-> Dir(b), file |-> s, from |-> Contents(Tree(b)),
                   builds |-> {d.task : d \in {e \in Dumps(b, without) : e.stage = s}},
                   lists |-> {}]
  <2>1. PICK d \in Dumps(b, without) : d.stage = s
    OBVIOUS
  <2>2. PICK e \in Dumps(b, without) : e.stage = s /\ e.task = u
    BY <2>1, OwnDump
  <2>3. u \in n.builds /\ n.dir = Dir(b) /\ n.file = s
    BY <2>2
  <2>4. n \in IrObjects(b, Dumps(b, without), put)
    BY DEF IrObjects
  <2> HIDE DEF n
  <2>5. n \in objects'
    BY <2>4
  <2> QED BY <2>3, <2>5
<1>3. Repo(b) \in unswept => \A s \in put : <<u, s>> \in Excused'
  <2>1. \A s \in put : s \in Stages
    BY StagesOfDumps
  <2> QED BY <2>1 DEF Excused, Repo
<1>4. Kept
  <2>1. ASSUME NEW o \in objects, o \notin objects'
        PROVE  /\ o.dir = Dir(b)
               /\ \/ <<u, o.file>> \in Excused'
                  \/ \E n \in objects' : /\ n.dir = Dir(b) /\ n.file = o.file
                                         /\ u \in n.builds
    <3>1. o.dir = Dir(b) /\ o.file \in put
      BY <2>1
    <3> QED BY <1>2, <1>3, <3>1
  <2> QED BY <2>1, KeptByOwner
<1>5. \A s \in put : Has(objects', Excused', u, l, s) /\ HasAny(objects', Excused', u, s)
  BY <1>1, <1>2, <1>3 DEF Has, HasAny
<1>6. \A o \in IrObjects(b, Dumps(b, without), put) : o.lists = {}
  BY DEF IrObjects
<1>7. \A o \in objects' : o \in objects \/ o.lists = {}
  BY <1>6
<1> QED BY <1>4, <1>5, <1>7

LEMMA RecordOfPersist ==
    ASSUME OnePerPair, RecordInv, OwnInv, SourceInv, NEW b \in Builders, PersistIr(b)
    PROVE  RecordInv'
<1>1. at[b] = "ir"
  BY DEF PersistIr
<1>2. PICK u, l : job[b].task = u /\ job[b].label = l
  OBVIOUS
<1>3. /\ at'[b] = "manifest" /\ UNCHANGED <<gccjit, tree, unswept>>
      /\ \A c \in Builders : c # b => at'[c] = at[c]
  BY <1>1, Saving DEF PersistIr, Goes
<1>4. u \in Tasks /\ OptOf[u] = Serves[b]
  BY <1>1, <1>2, Saving
(* What is put, what is refused, and what is noted and reported. *)
<1>5. PICK without, put, kept :
         /\ put \subseteq {d.stage : d \in Dumps(b, without)}
         /\ objects' = {o \in objects : ~(o.dir = Dir(b) /\ o.file \in put)}
                       \cup IrObjects(b, Dumps(b, without), put)
         /\ refused \subseteq refused'
         /\ SetJob(b, "saved", job[b].saved \cup kept)
         /\ \A s \in kept : s \in put \/ <<u, s>> \in refused'
         /\ UNCHANGED rows \/ \E n : HandleIr(b, kept, n)
  <2> DEFINE packed(w) == Pack(Dumps(b, w), w)
             PutIn(w, put) == objects' = {o \in objects : ~(o.dir = Dir(b) /\ o.file \in put)}
                                         \cup IrObjects(b, Dumps(b, w), put)
  <2>1. \A w : packed(w) \subseteq {d.stage : d \in Dumps(b, w)}
    BY DEF Pack
  <2>2. PICK w \in SUBSET Stages :
           \/ /\ PutIn(w, packed(w))
              /\ \E n : HandleIr(b, packed(w), n)
              /\ UNCHANGED refused
              /\ SetJob(b, "saved", job[b].saved \cup packed(w))
           \/ \E s \in packed(w) :
                 /\ PutIn(w, packed(w) \ {s})
                 /\ refused' = refused \cup {<<u, s>>}
                 /\ SetJob(b, "saved", job[b].saved \cup packed(w))
                 /\ HandleIr(b, packed(w), 1)
           \/ \E put \in SUBSET packed(w) :
                 /\ PutIn(w, put)
                 /\ SetJob(b, "saved", job[b].saved \cup put)
                 /\ UNCHANGED <<rows, refused>>
    BY <1>2 DEF PersistIr
  <2> HIDE DEF packed
  <2>3. CASE /\ PutIn(w, packed(w))
             /\ \E n : HandleIr(b, packed(w), n)
             /\ UNCHANGED refused
             /\ SetJob(b, "saved", job[b].saved \cup packed(w))
    BY <2>1, <2>3
  <2>4. CASE \E s \in packed(w) :
                 /\ PutIn(w, packed(w) \ {s})
                 /\ refused' = refused \cup {<<u, s>>}
                 /\ SetJob(b, "saved", job[b].saved \cup packed(w))
                 /\ HandleIr(b, packed(w), 1)
    <3>1. PICK s \in packed(w) :
                 /\ PutIn(w, packed(w) \ {s})
                 /\ refused' = refused \cup {<<u, s>>}
                 /\ SetJob(b, "saved", job[b].saved \cup packed(w))
                 /\ HandleIr(b, packed(w), 1)
      BY <2>4
    <3>2. /\ packed(w) \ {s} \subseteq {d.stage : d \in Dumps(b, w)}
          /\ refused \subseteq refused'
          /\ \A x \in packed(w) : x \in packed(w) \ {s} \/ <<u, x>> \in refused'
      BY <2>1, <3>1
    <3> QED BY <3>1, <3>2
  <2>5. CASE \E put \in SUBSET packed(w) :
                 /\ PutIn(w, put)
                 /\ SetJob(b, "saved", job[b].saved \cup put)
                 /\ UNCHANGED <<rows, refused>>
    BY <2>1, <2>5
  <2> QED BY <2>2, <2>3, <2>4, <2>5
<1>6. /\ Kept
      /\ \A s \in put : Has(objects', Excused', u, l, s) /\ HasAny(objects', Excused', u, s)
      /\ \A o \in objects' : o \in objects \/ o.lists = {}
  BY <1>1, <1>2, <1>3, <1>4, <1>5, StagesAreStored, ExcusedGrows
<1>7. \A s \in kept : Has(objects', Excused', u, l, s) /\ HasAny(objects', Excused', u, s)
  BY <1>5, <1>6, ExcusedGrows DEF Has, HasAny
<1>8. /\ \A c \in Builders : c # b => job'[c] = job[c]
      /\ job'[b].task = u /\ job'[b].label = l /\ job'[b].status = job[b].status
      /\ job'[b].saved = job[b].saved \cup kept
  BY <1>1, <1>2, <1>5, Saving DEF SetJob, Idle
<1>9. /\ RowShape'
      /\ \A t \in Tasks : /\ rows'[t].status = rows[t].status /\ rows'[t].commit = rows[t].commit
                          /\ rows'[t].binaries = rows[t].binaries
                          /\ \A s \in Stages : rows'[t].ir[s] = rows[t].ir[s]
                                               \/ HasAny(objects', Excused', t, s)
  <2>1. CASE UNCHANGED rows
    BY <1>1, <2>1, Saving DEF RowShape
  <2>2. CASE \E n : HandleIr(b, kept, n)
    <3>1. rows' = [rows EXCEPT ![u].ir = [s \in Stages |-> IF s \in kept THEN 1 ELSE @[s]]]
      BY <1>2, <2>2 DEF HandleIr
    <3>2. DOMAIN rows' = Tasks /\ \A t \in Tasks : t # u => rows'[t] = rows[t]
      BY <1>1, <3>1, Saving DEF RowShape
    <3>3. /\ DOMAIN rows'[u] = DOMAIN rows[u]
          /\ rows'[u].status = rows[u].status /\ rows'[u].commit = rows[u].commit
          /\ rows'[u].binaries = rows[u].binaries
          /\ rows'[u].ir = [s \in Stages |-> IF s \in kept THEN 1 ELSE rows[u].ir[s]]
      BY <1>1, <1>4, <3>1, Saving DEF RowShape
    <3> QED BY <1>1, <1>7, <3>2, <3>3, Saving DEF RowShape
  <2> QED BY <1>5, <2>1, <2>2
<1>10. /\ \A f \in job[b].saved : Has(objects', Excused', u, l, f)
       /\ Has(objects', Excused', u, l, "metadata")
  BY <1>1, <1>2, <1>4, <1>6, Saving DEF SavedOf, PassedOf, Kept
<1>11. SavedOf(b)' /\ PassedOf(b)' /\ DumpedOf(b)'
  BY <1>1, <1>3, <1>7, <1>8, <1>10, Saving DEF SavedOf, PassedOf, DumpedOf
<1>12. DOMAIN gccjit' = Builders
  BY <1>1, <1>3, Saving
<1> QED BY <1>3, <1>6, <1>8, <1>9, <1>11, <1>12, RecordOfOne

LEMMA RecordStep == OnePerPair /\ RecordInv /\ OwnInv /\ SourceInv /\ [Next]_vars => RecordInv'
<1> SUFFICES ASSUME OnePerPair, RecordInv, OwnInv, SourceInv, [Next]_vars PROVE RecordInv'
  OBVIOUS
<1>1. ASSUME UNCHANGED <<objects, refused, rows, at, job, tree, gccjit, unswept>> PROVE RecordInv'
  <2>1. Excused' = Excused
    BY <1>1 DEF Excused
  <2> QED BY <1>1, <2>1 DEF RecordInv, RowShape, RecordedHas, SavedOf, PassedOf, DumpedOf, Tree, Repo
<1>2. ASSUME NEW r \in Repos, Push(r) PROVE RecordInv'
  BY <1>1, <1>2 DEF Push, rest
<1>3. ASSUME NEW t \in Tasks, Duplicate(t) PROVE RecordInv'
  BY <1>1, <1>3 DEF Duplicate
<1>4. CASE UNCHANGED vars
  BY <1>1, <1>4 DEF vars
<1>5. ASSUME NEW b \in Builders,
             TakeTask(b) \/ Work(b) \/ RaiseEarly(b) \/ RaiseLate(b) \/ Crash(b) \/ Restart(b)
      PROVE  RecordInv'
  BY <1>5, RecordBefore, RecordOfBuild, RecordOfDebug, RecordOfReport, RecordOfMetadata,
     RecordOfBinaries, RecordOfPersist, RecordOfManifest DEF Work
<1> QED BY <1>2, <1>3, <1>4, <1>5 DEF Next

(* Whatever is refused, raised, killed or delivered twice, what rows and   *)
(* manifests name is in the bucket, or was refused by it, as long as the   *)
(* dispatcher has one task for a repository and an option.                 *)
THEOREM RecordedIsStoredHolds == ASSUME OnePerPair PROVE Spec => []RecordedIsStored
<1>1. RecordInv => RecordedIsStored
  BY HasIsStored DEF RecordInv
<1> QED BY <1>1, SourceInit, SourceStep, OwnInit, OwnStep, RecordInit, RecordStep, PTL DEF Spec

-----------------------------------------------------------------------------
(* How many rows a task gets.                                              *)

Unsaved == {"pointer", "fetch", "clone", "restored", "cloned", "archive", "point", "report",
            "build", "debug", "metadata", "binaries"}

(* The builders that may still report a binary of a task. *)
Ahead(t) == {b \in Builders : at[b] \in Unsaved /\ job[b].task = t}

(* The invariant: the rows a task has and those it may still get, from     *)
(* builders and from queues, are one, and one more for each fault.         *)
CountInv ==
    /\ faults \in Nat /\ todo \in [Tasks -> Nat] /\ RowShape
    /\ \A t \in Tasks : /\ rows[t].binaries \in Nat
                        /\ \A s \in Stages : rows[t].ir[s] \in {0, 1}
                        /\ rows[t].binaries + todo[t] + Cardinality(Ahead(t)) <= 1 + faults

LEMMA CountInit == IsFiniteSet(Builders) /\ Init => CountInv
<1> SUFFICES ASSUME IsFiniteSet(Builders), Init PROVE CountInv
  OBVIOUS
<1>1. \A t \in Tasks : Ahead(t) = {}
  BY DEF Init, Ahead, Unsaved
<1>2. \A t \in Tasks : Cardinality(Ahead(t)) = 0
  BY <1>1, FS_EmptySet
<1> QED BY <1>2 DEF Init, CountInv, RowShape

LEMMA AheadIsFinite ==
    ASSUME IsFiniteSet(Builders), NEW t
    PROVE  /\ IsFiniteSet(Ahead(t)) /\ Cardinality(Ahead(t)) \in Nat
           /\ IsFiniteSet(Ahead(t)') /\ Cardinality(Ahead(t)') \in Nat
<1>1. Ahead(t) \subseteq Builders /\ Ahead(t)' \subseteq Builders
  BY DEF Ahead
<1> QED BY <1>1, FS_Subset, FS_CardinalityType

(* No builder gets further behind but by taking a task. *)
LEMMA AheadShrinks ==
    ASSUME IsFiniteSet(Builders), NEW b \in Builders,
           \A c \in Builders : c # b => at'[c] = at[c] /\ job'[c] = job[c],
           at'[b] \notin Unsaved \/ (at[b] \in Unsaved /\ job'[b].task = job[b].task),
           NEW t \in Tasks
    PROVE  Cardinality(Ahead(t)') <= Cardinality(Ahead(t))
<1>1. Ahead(t)' \subseteq Ahead(t)
  BY DEF Ahead
<1> QED BY <1>1, AheadIsFinite, FS_Subset

LEMMA CountOfTake ==
    ASSUME IsFiniteSet(Builders), CountInv, SourceInv, NEW b \in Builders, TakeTask(b)
    PROVE  CountInv'
<1>1. PICK u \in Tasks : /\ todo[u] > 0 /\ todo' = [todo EXCEPT ![u] = @ - 1]
                         /\ job' = [job EXCEPT ![b] = [Idle EXCEPT !.task = u]]
  BY DEF TakeTask
<1>2. /\ at[b] = "idle" /\ at'[b] = "pointer" /\ UNCHANGED <<rows, faults>>
      /\ \A c \in Builders : c # b => at'[c] = at[c] /\ job'[c] = job[c]
      /\ job'[b].task = u
  BY <1>1 DEF TakeTask, Goes, SourceInv, Idle
<1>3. /\ \A t \in Tasks : t # u => Ahead(t)' = Ahead(t)
      /\ Ahead(u)' = Ahead(u) \cup {b} /\ b \notin Ahead(u)
  BY <1>2 DEF Ahead, Unsaved
<1>4. Cardinality(Ahead(u)') = Cardinality(Ahead(u)) + 1
  BY <1>3, AheadIsFinite, FS_AddElement
<1>5. RowShape'
  BY <1>2 DEF CountInv, RowShape
<1>6. /\ todo' \in [Tasks -> Nat] /\ todo'[u] = todo[u] - 1
      /\ \A t \in Tasks : t # u => todo'[t] = todo[t]
  BY <1>1 DEF CountInv
<1>7. ASSUME NEW t \in Tasks
      PROVE  rows'[t].binaries + todo'[t] + Cardinality(Ahead(t)') <= 1 + faults'
  <2>1. Cardinality(Ahead(t)) \in Nat
    BY AheadIsFinite
  <2>2. /\ rows'[t].binaries = rows[t].binaries /\ faults' = faults /\ faults \in Nat
        /\ rows[t].binaries \in Nat /\ todo[t] \in Nat
        /\ rows[t].binaries + todo[t] + Cardinality(Ahead(t)) <= 1 + faults
    BY <1>2 DEF CountInv
  <2>3. CASE t = u
    BY <1>4, <1>6, <2>1, <2>2, <2>3
  <2>4. CASE t # u
    <3>1. todo'[t] = todo[t] /\ Ahead(t)' = Ahead(t)
      BY <1>3, <1>6, <2>4
    <3> QED BY <2>2, <3>1
  <2> QED BY <2>3, <2>4
<1> QED BY <1>2, <1>5, <1>6, <1>7 DEF CountInv

(* A builder that reports no binary leaves the count as it is. *)
LEMMA CountOfOther ==
    ASSUME IsFiniteSet(Builders), CountInv, NEW b \in Builders,
           \A c \in Builders : c # b => at'[c] = at[c] /\ job'[c] = job[c],
           at'[b] \notin Unsaved \/ (at[b] \in Unsaved /\ job'[b].task = job[b].task),
           UNCHANGED todo, faults' \in {faults, faults + 1}, RowShape',
           \A t \in Tasks : /\ rows'[t].binaries = rows[t].binaries
                            /\ \A s \in Stages : rows'[t].ir[s] \in {rows[t].ir[s], 1}
    PROVE  CountInv'
<1>1. \A t \in Tasks : /\ Cardinality(Ahead(t)') <= Cardinality(Ahead(t))
                       /\ Cardinality(Ahead(t)) \in Nat /\ Cardinality(Ahead(t)') \in Nat
  BY AheadShrinks, AheadIsFinite
<1>2. faults \in Nat /\ faults' \in Nat /\ faults <= faults'
  BY DEF CountInv
<1>3. ASSUME NEW t \in Tasks
      PROVE  rows'[t].binaries + todo'[t] + Cardinality(Ahead(t)') <= 1 + faults'
  <2>1. /\ rows'[t].binaries = rows[t].binaries /\ todo'[t] = todo[t]
        /\ rows[t].binaries \in Nat /\ todo[t] \in Nat
        /\ rows[t].binaries + todo[t] + Cardinality(Ahead(t)) <= 1 + faults
    BY DEF CountInv
  <2>2. Cardinality(Ahead(t)') <= Cardinality(Ahead(t)) /\ Cardinality(Ahead(t)) \in Nat
        /\ Cardinality(Ahead(t)') \in Nat
    BY <1>1
  <2> QED BY <1>2, <2>1, <2>2
<1> QED BY <1>2, <1>3 DEF CountInv

LEMMA CountOfBinaries ==
    ASSUME IsFiniteSet(Builders), CountInv, SourceInv, NEW b \in Builders, SaveBinaries(b)
    PROVE  CountInv'
<1>1. /\ at[b] = "binaries" /\ at'[b] = "ir" /\ UNCHANGED todo
      /\ \A c \in Builders : c # b => at'[c] = at[c]
      /\ job[b].task \in Tasks
  BY DEF SaveBinaries, Goes, SourceInv, BuilderInv
<1>2. \A c \in Builders : c # b => job'[c] = job[c]
  BY DEF SaveBinaries, SetJob, SourceInv
<1>3. CASE UNCHANGED <<rows, faults>>
  <2>1. RowShape'
    BY <1>3 DEF CountInv, RowShape
  <2>2. at'[b] \notin Unsaved /\ faults' = faults
    BY <1>1, <1>3 DEF Unsaved
  <2>3. \A t \in Tasks : /\ rows'[t].binaries = rows[t].binaries
                         /\ \A s \in Stages : rows'[t].ir[s] = rows[t].ir[s]
    BY <1>3
  <2> QED BY <1>1, <1>2, <2>1, <2>2, <2>3, CountOfOther
<1>4. CASE \E n \in 1..2 : HandleBinary(b, n) /\ faults' >= faults + n - 1 /\ faults' \in Nat
  <2>1. PICK u \in Tasks : u = job[b].task
    BY <1>1
  <2>2. PICK n \in 1..2 : HandleBinary(b, n) /\ faults' >= faults + n - 1 /\ faults' \in Nat
    BY <1>4
  <2>3. /\ DOMAIN rows' = Tasks /\ \A t \in Tasks : t # u => rows'[t] = rows[t]
        /\ DOMAIN rows'[u] = DOMAIN rows[u] /\ rows'[u].ir = rows[u].ir
        /\ rows'[u].binaries = rows[u].binaries + n
    BY <2>1, <2>2 DEF HandleBinary, CountInv, RowShape
  <2>4. RowShape'
    BY <2>3 DEF CountInv, RowShape
  <2>5. Ahead(u)' = Ahead(u) \ {b} /\ b \in Ahead(u)
    BY <1>1, <1>2, <2>1 DEF Ahead, Unsaved
  <2>6. Cardinality(Ahead(u)') = Cardinality(Ahead(u)) - 1
    BY <2>5, AheadIsFinite, FS_RemoveElement
  <2>7. ASSUME NEW t \in Tasks
        PROVE  rows'[t].binaries + todo'[t] + Cardinality(Ahead(t)') <= 1 + faults'
    <3>1. /\ todo'[t] = todo[t] /\ rows[t].binaries \in Nat /\ todo[t] \in Nat
          /\ rows[t].binaries + todo[t] + Cardinality(Ahead(t)) <= 1 + faults
          /\ faults \in Nat /\ Cardinality(Ahead(t)) \in Nat
      BY <1>1, AheadIsFinite DEF CountInv
    <3>2. CASE t = u
      BY <2>2, <2>3, <2>6, <3>1, <3>2
    <3>3. CASE t # u
      <4>1. Ahead(t)' = Ahead(t)
        BY <1>1, <1>2, <2>1, <3>3 DEF Ahead, Unsaved
      <4> QED BY <2>2, <2>3, <3>1, <3>3, <4>1
    <3> QED BY <3>2, <3>3
  <2>8. \A t \in Tasks : rows'[t].binaries \in Nat /\ \A s \in Stages : rows'[t].ir[s] \in {0, 1}
    BY <2>2, <2>3 DEF CountInv
  <2> QED BY <1>1, <2>2, <2>4, <2>7, <2>8 DEF CountInv
<1>5. UNCHANGED <<rows, faults>>
      \/ \E n \in 1..2 : HandleBinary(b, n) /\ faults' >= faults + n - 1 /\ faults' \in Nat
  <2>1. faults \in Nat
    BY DEF CountInv
  <2> QED BY <2>1 DEF SaveBinaries, Delivered, Refuse, Fault, NoFault
<1> QED BY <1>3, <1>4, <1>5

LEMMA CountOfBuilder ==
    ASSUME IsFiniteSet(Builders), CountInv, SourceInv, NEW b \in Builders,
           Work(b) \/ RaiseEarly(b) \/ RaiseLate(b) \/ Crash(b) \/ Restart(b),
           ~SaveBinaries(b)
    PROVE  CountInv'
<1>1. /\ DOMAIN at = Builders /\ DOMAIN job = Builders /\ DOMAIN job[b] = DOMAIN Idle
      /\ RowShape /\ faults \in Nat
  BY DEF SourceInv, BuilderInv, CountInv
<1>2. faults' \in {faults, faults + 1} /\ UNCHANGED todo
  BY DEF Work, ReadPointer, RestoreArchive, Clone, GetProjectCommit, UploadArchive, PutPointer,
     ReportProcessing, Build, DebugInfo, SaveMetadata, PersistIr, SaveExportManifest,
     ReportFinished, CleanFolder, RaiseEarly, RaiseLate, Crash, Restart, Refuse, Delivered,
     Fault, NoFault, rest
<1>3. UNCHANGED rows \/ (\E status : HandleBuildStatus(b, status))
      \/ (\E stages, n : HandleIr(b, stages, n))
  BY DEF Work, ReadPointer, RestoreArchive, Clone, GetProjectCommit, UploadArchive, PutPointer,
     ReportProcessing, Build, DebugInfo, SaveMetadata, PersistIr, SaveExportManifest,
     ReportFinished, CleanFolder, RaiseEarly, RaiseLate, Crash, Restart
<1>4. /\ RowShape'
      /\ \A t \in Tasks : /\ rows'[t].binaries = rows[t].binaries
                          /\ \A s \in Stages : rows'[t].ir[s] \in {rows[t].ir[s], 1}
  <2>1. CASE UNCHANGED rows
    BY <1>1, <2>1 DEF RowShape
  <2>2. CASE \E status : HandleBuildStatus(b, status)
    <3>1. PICK u, status, label : Writes(u, status, label)
      BY <2>2 DEF HandleBuildStatus, Writes
    <3>2. CASE u \in Tasks
      <4>1. /\ DOMAIN rows' = Tasks
            /\ \A t \in Tasks : /\ DOMAIN rows'[t] = DOMAIN rows[t]
                                /\ rows'[t].binaries = rows[t].binaries
                                /\ rows'[t].ir = rows[t].ir
        BY <1>1, <3>1, <3>2, StatusWritten
      <4> QED BY <1>1, <4>1 DEF RowShape
    <3>3. CASE u \notin Tasks
      <4>1. DOMAIN rows' = Tasks /\ \A t \in Tasks : rows'[t] = rows[t]
        BY <1>1, <3>1, <3>3 DEF RowShape, Writes
      <4> QED BY <1>1, <4>1 DEF RowShape
    <3> QED BY <3>2, <3>3
  <2>3. CASE \E stages, n : HandleIr(b, stages, n)
    BY <1>1, <2>3 DEF RowShape, HandleIr
  <2> QED BY <1>3, <2>1, <2>2, <2>3
<1>5. /\ \A c \in Builders : c # b => at'[c] = at[c]
      /\ at'[b] \notin Unsaved \/ at[b] \in Unsaved
  BY <1>1 DEF Work, ReadPointer, RestoreArchive, Clone, GetProjectCommit, UploadArchive,
     PutPointer, ReportProcessing, Build, DebugInfo, SaveMetadata, PersistIr,
     SaveExportManifest, ReportFinished, CleanFolder, RaiseEarly, RaiseLate, Crash, Restart,
     Goes, Unsaved
<1>6. \A c \in Builders : c # b => job'[c] = job[c]
  BY <1>1 DEF Work, ReadPointer, RestoreArchive, Clone, GetProjectCommit, UploadArchive,
     PutPointer, ReportProcessing, Build, DebugInfo, SaveMetadata, PersistIr,
     SaveExportManifest, ReportFinished, CleanFolder, RaiseEarly, RaiseLate, Crash, Restart,
     SetJob
<1>7. at'[b] \notin Unsaved \/ job'[b].task = job[b].task
  <2>1. CASE \/ Clone(b) \/ RaiseEarly(b) \/ RaiseLate(b) \/ CleanFolder(b) \/ Crash(b)
             \/ Restart(b)
    <3>1. at'[b] \in {"idle", "clean", "down"} \/ UNCHANGED job
      BY <1>1, <2>1 DEF Clone, RaiseEarly, RaiseLate, CleanFolder, Crash, Restart, Goes
    <3> QED BY <3>1 DEF Unsaved
  <2>2. CASE \/ ReadPointer(b) \/ RestoreArchive(b) \/ GetProjectCommit(b) \/ UploadArchive(b)
             \/ PutPointer(b) \/ ReportProcessing(b) \/ DebugInfo(b) \/ PersistIr(b)
             \/ SaveExportManifest(b) \/ ReportFinished(b)
    <3>1. UNCHANGED job \/ \E field \in {"label", "dwarf", "saved"} : \E v : SetJob(b, field, v)
      BY <2>2 DEF ReadPointer, RestoreArchive, GetProjectCommit, UploadArchive, PutPointer,
         ReportProcessing, DebugInfo, PersistIr, SaveExportManifest, ReportFinished
    <3> QED BY <1>1, <3>1 DEF SetJob, Idle
  <2>3. CASE Build(b)
    BY <1>1, <2>3 DEF Build, Idle
  <2>4. CASE SaveMetadata(b)
    BY <1>1, <2>4 DEF SaveMetadata, SetJob, Idle
  <2> QED BY <2>1, <2>2, <2>3, <2>4 DEF Work
<1>8. at'[b] \notin Unsaved \/ (at[b] \in Unsaved /\ job'[b].task = job[b].task)
  BY <1>5, <1>7
<1> QED BY <1>2, <1>4, <1>5, <1>6, <1>8, CountOfOther

LEMMA CountStep ==
    IsFiniteSet(Builders) /\ CountInv /\ SourceInv /\ [Next]_vars => CountInv'
<1> SUFFICES ASSUME IsFiniteSet(Builders), CountInv, SourceInv, [Next]_vars PROVE CountInv'
  OBVIOUS
<1>1. ASSUME UNCHANGED <<at, job, rows, faults, todo>> PROVE CountInv'
  BY <1>1 DEF CountInv, RowShape, Ahead
<1>2. ASSUME NEW r \in Repos, Push(r) PROVE CountInv'
  BY <1>1, <1>2 DEF Push, rest
<1>3. ASSUME NEW u \in Tasks, Duplicate(u) PROVE CountInv'
  <2>1. /\ UNCHANGED <<at, job, rows>> /\ faults' = faults + 1
        /\ todo[u] = 1 /\ todo' = [todo EXCEPT ![u] = 2]
    BY <1>3 DEF Duplicate, Fault
  <2>2. \A t \in Tasks : Ahead(t)' = Ahead(t) /\ Cardinality(Ahead(t)) \in Nat
    BY <2>1, AheadIsFinite DEF Ahead
  <2>3. todo' \in [Tasks -> Nat] /\ \A t \in Tasks : todo'[t] <= todo[t] + 1
    BY <2>1 DEF CountInv
  <2>4. ASSUME NEW t \in Tasks
        PROVE  rows'[t].binaries + todo'[t] + Cardinality(Ahead(t)') <= 1 + faults'
    <3>1. /\ rows[t].binaries \in Nat /\ todo[t] \in Nat /\ todo'[t] \in Nat /\ faults \in Nat
          /\ rows[t].binaries + todo[t] + Cardinality(Ahead(t)) <= 1 + faults
          /\ todo'[t] <= todo[t] + 1
      BY <2>3 DEF CountInv
    <3> QED BY <2>1, <2>2, <3>1
  <2>5. RowShape' /\ faults' \in Nat
    BY <2>1 DEF CountInv, RowShape
  <2> QED BY <2>1, <2>3, <2>4, <2>5 DEF CountInv
<1>4. CASE UNCHANGED vars
  BY <1>1, <1>4 DEF vars
<1>5. ASSUME NEW b \in Builders,
             TakeTask(b) \/ Work(b) \/ RaiseEarly(b) \/ RaiseLate(b) \/ Crash(b) \/ Restart(b)
      PROVE  CountInv'
  BY <1>5, CountOfTake, CountOfBinaries, CountOfBuilder
<1> QED BY <1>2, <1>3, <1>4, <1>5 DEF Next

(* A task gets one row for a stage however often its report is delivered,  *)
(* and as many for its binary as there were faults, and one.               *)
THEOREM RowsDespiteRedeliveryHolds ==
    ASSUME IsFiniteSet(Builders) PROVE Spec => []RowsDespiteRedelivery
<1>1. ASSUME CountInv PROVE RowsDespiteRedelivery
  <2>1. \A t \in Tasks : Cardinality(Ahead(t)) \in Nat
    BY AheadIsFinite
  <2> QED BY <1>1, <2>1 DEF CountInv, RowsDespiteRedelivery
<1> QED BY <1>1, SourceInit, SourceStep, CountInit, CountStep, PTL DEF Spec

-----------------------------------------------------------------------------
(* The types.                                                              *)

ObjectType == [dir : Repos \X Labels \X Opts, file : Files, from : SUBSET Commits,
               builds : SUBSET Tasks, lists : SUBSET Files]

(* The invariant: with TypeOK, that a builder saves from a tree that is    *)
(* there, under a label, and what it saved are files.                      *)
NotesOf(b) ==
    /\ at[b] = "idle" => job[b] = Idle
    /\ at[b] \in Labelled => Tree(b).commit \in Commits /\ job[b].label \in Labels
    /\ at[b] \notin {"idle", "down"} => job[b].saved \subseteq Files

TypeInv ==
    /\ head \in [Repos -> Commits]
    /\ todo \in [Tasks -> 0..2]
    /\ at \in [Builders -> Places]
    /\ tree \in [Builders -> [Repos -> Trees]]
    /\ gccjit \in [Builders -> SUBSET Tasks]
    /\ faults \in 0..MaxFaults
    /\ refused \subseteq Tasks \X Files
    /\ orphaned \subseteq Repos /\ unswept \subseteq orphaned
    /\ objects \subseteq ObjectType
    /\ \A b \in Builders : NotesOf(b)

LEMMA HeadsAreCommits == \A r \in Repos : 1..MaxHead[r] \subseteq Commits
BY DEF Commits

LEMMA TypeInit == Init => TypeInv
<1> SUFFICES ASSUME Init PROVE TypeInv
  OBVIOUS
<1>1. head \in [Repos -> Commits]
  <2>1. \A r \in Repos : 1 \in 1..MaxHead[r]
    BY BuilderAssumption
  <2> QED BY <2>1, HeadsAreCommits DEF Init
<1>2. faults \in 0..MaxFaults /\ todo \in [Tasks -> 0..2]
  BY BuilderAssumption DEF Init
<1>3. tree \in [Builders -> [Repos -> Trees]]
  BY NoTreeIsTree DEF Init
<1>4. /\ at \in [Builders -> Places] /\ gccjit \in [Builders -> SUBSET Tasks]
      /\ refused \subseteq Tasks \X Files /\ orphaned \subseteq Repos /\ unswept \subseteq orphaned
      /\ objects \subseteq ObjectType
  BY DEF Init, Places
<1>5. ASSUME NEW b \in Builders PROVE NotesOf(b)
  BY <1>5 DEF Init, NotesOf, Labelled
<1> QED BY <1>1, <1>2, <1>3, <1>4, <1>5 DEF TypeInv

LEMMA TypeIsOK ==
    ASSUME TypeInv, SourceInv PROVE TypeOK
<1>1. archives \in [Repos -> [Labels -> Tree_]] /\ tree \in [Builders -> [Repos -> Tree_]]
      /\ pointer \in [Repos -> Labels \cup {None}]
  <2>1. Trees \subseteq Tree_
    BY DEF Trees
  <2> QED BY <2>1 DEF SourceInv, SharedInv, TypeInv
<1>2. ASSUME NEW b \in Builders, NEW r \in Repos, tree[b][r].commit = None
      PROVE  tree[b][r].extra = {} /\ tree[b][r].products = {}
  <2>1. tree[b][r] \in Trees
    BY DEF TypeInv
  <2>2. tree[b][r] = NoTree
    BY <1>2, <2>1, CommitsAreNumbers DEF Trees
  <2> QED BY <2>2 DEF NoTree
<1>3. \A b \in Builders : /\ at[b] = "idle" => job[b] = Idle
                          /\ at[b] \notin {"idle", "down"} => job[b].task \in Tasks
  BY DEF TypeInv, NotesOf, SourceInv, BuilderInv
<1> QED BY <1>1, <1>2, <1>3 DEF TypeOK, TypeInv, ObjectType

(* What is put or refused. *)
LEMMA PutHasType ==
    ASSUME TypeInv, SourceInv, NEW b \in Builders,
           at[b] \in {"metadata", "binaries", "ir", "manifest"}
    PROVE  /\ Dir(b) \in Repos \X Labels \X Opts /\ Contents(Tree(b)) \subseteq Commits
           /\ job[b].task \in Tasks /\ job[b].saved \subseteq Files
<1>1. /\ job[b].task \in Tasks /\ job[b].saved \subseteq Files /\ job[b].label \in Labels
      /\ Tree(b).commit \in Commits
  BY DEF TypeInv, NotesOf, SourceInv, BuilderInv, Labelled
<1>2. Repo(b) \in Repos /\ Serves[b] \in Opts
  BY <1>1, BuilderAssumption DEF Repo
<1>3. Tree(b).extra \subseteq Commits
  BY <1>2 DEF TypeInv, Trees, Tree_, Tree
<1> QED BY <1>1, <1>2, <1>3 DEF Dir, Contents

LEMMA TypeOfObjects ==
    ASSUME TypeInv, SourceInv, NEW b \in Builders,
           \/ SaveMetadata(b) \/ SaveBinaries(b) \/ PersistIr(b) \/ SaveExportManifest(b)
    PROVE  /\ objects' \subseteq ObjectType /\ refused' \subseteq Tasks \X Files
           /\ job'[b].saved \subseteq Files
<1>1. /\ at[b] \in {"metadata", "binaries", "ir", "manifest"}
      /\ DOMAIN job = Builders /\ DOMAIN job[b] = DOMAIN Idle
      /\ objects \subseteq ObjectType /\ refused \subseteq Tasks \X Files
  BY DEF SaveMetadata, SaveBinaries, PersistIr, SaveExportManifest, SourceInv, BuilderInv, TypeInv
<1>2. /\ Dir(b) \in Repos \X Labels \X Opts /\ Contents(Tree(b)) \subseteq Commits
      /\ job[b].task \in Tasks /\ job[b].saved \subseteq Files
  BY <1>1, PutHasType
<1>3. \A file \in Files, lists \in SUBSET Files :
         Put(b, file, {job[b].task}, lists) => objects' \subseteq ObjectType
  BY <1>1, <1>2 DEF Put, ObjectType
<1>4. \A file \in Files : Refuse(b, file) => /\ objects' \subseteq ObjectType
                                              /\ refused' \subseteq Tasks \X Files
  BY <1>1, <1>2 DEF Refuse
<1>5. {"metadata", "binary", "manifest"} \subseteq Files /\ Stages \subseteq Files
  BY DEF Files
<1>6. CASE SaveMetadata(b)
  <2>1. objects' \subseteq ObjectType /\ refused' \subseteq Tasks \X Files
    <3>1. CASE Put(b, "metadata", {job[b].task}, {}) /\ UNCHANGED refused
      <4>1. {} \in SUBSET Files /\ "metadata" \in Files
        BY <1>5
      <4> QED BY <1>1, <1>3, <3>1, <4>1
    <3>2. CASE Refuse(b, "metadata")
      BY <1>4, <1>5, <3>2
    <3> QED BY <1>6, <3>1, <3>2 DEF SaveMetadata
  <2>2. job'[b].saved \subseteq Files
    BY <1>1, <1>2, <1>5, <1>6 DEF SaveMetadata, SetJob, Idle
  <2> QED BY <2>1, <2>2
<1>7. CASE SaveBinaries(b)
  <2>1. objects' \subseteq ObjectType /\ refused' \subseteq Tasks \X Files
    <3>1. CASE Put(b, "binary", {job[b].task}, {}) /\ UNCHANGED refused
      <4>1. {} \in SUBSET Files /\ "binary" \in Files
        BY <1>5
      <4> QED BY <1>1, <1>3, <3>1, <4>1
    <3>2. CASE Refuse(b, "binary")
      BY <1>4, <1>5, <3>2
    <3>3. CASE UNCHANGED <<objects, refused>>
      BY <1>1, <3>3
    <3> QED BY <1>7, <3>1, <3>2, <3>3 DEF SaveBinaries
  <2>2. job'[b].saved \subseteq Files
    BY <1>1, <1>2, <1>5, <1>7 DEF SaveBinaries, SetJob, Idle
  <2> QED BY <2>1, <2>2
<1>8. CASE SaveExportManifest(b)
  <2>1. objects' \subseteq ObjectType /\ refused' \subseteq Tasks \X Files
    BY <1>1, <1>2, <1>3, <1>4, <1>5, <1>8 DEF SaveExportManifest
  <2>2. job'[b].saved \subseteq Files
    BY <1>2, <1>8 DEF SaveExportManifest
  <2> QED BY <2>1, <2>2
<1>9. CASE PersistIr(b)
  <2>1. PICK without, put, kept :
           /\ put \subseteq {d.stage : d \in Dumps(b, without)}
           /\ kept \subseteq {d.stage : d \in Dumps(b, without)}
           /\ objects' = {o \in objects : ~(o.dir = Dir(b) /\ o.file \in put)}
                         \cup IrObjects(b, Dumps(b, without), put)
           /\ SetJob(b, "saved", job[b].saved \cup kept)
           /\ \/ UNCHANGED refused
              \/ \E s \in kept : refused' = refused \cup {<<job[b].task, s>>}
    <3> DEFINE packed(w) == Pack(Dumps(b, w), w)
               PutIn(w, put) == objects' = {o \in objects : ~(o.dir = Dir(b) /\ o.file \in put)}
                                           \cup IrObjects(b, Dumps(b, w), put)
    <3>1. \A w : packed(w) \subseteq {d.stage : d \in Dumps(b, w)}
      BY DEF Pack
    <3>2. PICK w \in SUBSET Stages :
             \/ /\ PutIn(w, packed(w)) /\ UNCHANGED refused
                /\ SetJob(b, "saved", job[b].saved \cup packed(w))
             \/ \E s \in packed(w) :
                   /\ PutIn(w, packed(w) \ {s})
                   /\ refused' = refused \cup {<<job[b].task, s>>}
                   /\ SetJob(b, "saved", job[b].saved \cup packed(w))
             \/ \E put \in SUBSET packed(w) :
                   /\ PutIn(w, put) /\ UNCHANGED refused
                   /\ SetJob(b, "saved", job[b].saved \cup put)
      BY <1>9 DEF PersistIr
    <3> HIDE DEF packed
    <3>3. CASE /\ PutIn(w, packed(w)) /\ UNCHANGED refused
               /\ SetJob(b, "saved", job[b].saved \cup packed(w))
      BY <3>1, <3>3
    <3>4. CASE \E s \in packed(w) :
                   /\ PutIn(w, packed(w) \ {s})
                   /\ refused' = refused \cup {<<job[b].task, s>>}
                   /\ SetJob(b, "saved", job[b].saved \cup packed(w))
      <4>1. PICK s \in packed(w) :
                   /\ PutIn(w, packed(w) \ {s})
                   /\ refused' = refused \cup {<<job[b].task, s>>}
                   /\ SetJob(b, "saved", job[b].saved \cup packed(w))
        BY <3>4
      <4>2. PICK put : put = packed(w) \ {s}
        OBVIOUS
      <4>3. put \subseteq {d.stage : d \in Dumps(b, w)} /\ put \subseteq packed(w)
        BY <3>1, <4>2
      <4>4. PutIn(w, put)
        BY <4>1, <4>2
      <4> HIDE DEF PutIn
      <4> QED BY <3>1, <4>1, <4>3, <4>4 DEF PutIn
    <3>5. CASE \E put \in SUBSET packed(w) :
                   /\ PutIn(w, put) /\ UNCHANGED refused
                   /\ SetJob(b, "saved", job[b].saved \cup put)
      BY <3>1, <3>5
    <3> QED BY <3>2, <3>3, <3>4, <3>5
  <2>2. ASSUME NEW d \in Dumps(b, without) PROVE d.stage \in Stages /\ d.task \in Tasks
    <3> DEFINE backend == Strategy[Serves[b]]
               target == DumpsOf(RideAlongEmit(Stages, backend), Tree(b).products)
               directory == DumpsOf({"GIMPLE"}, gccjit[b])
    <3>1. Tree(b).products \subseteq Tasks /\ gccjit[b] \subseteq Tasks
      BY <1>2, BuilderAssumption DEF TypeInv, Trees, Tree_, Tree, Repo
    <3>2. \/ d \in DiscoverRideAlong(target, Stages, Members(b), RepoScope)
          \/ /\ DumpsGimple(Stages, backend)
             /\ d \in DiscoverGimple(directory, Members(b), RepoScope)
          \/ d \in RunUnpretty(Stages, backend, Members(b), job[b].task, without)
      BY <2>2 DEF Dumps
    <3>3. CASE d \in DiscoverRideAlong(target, Stages, Members(b), RepoScope)
      <4>1. d \in target /\ d.stage \in Stages
        BY <3>3 DEF DiscoverRideAlong
      <4> QED BY <3>1, <4>1 DEF DumpsOf
    <3>4. CASE /\ DumpsGimple(Stages, backend)
               /\ d \in DiscoverGimple(directory, Members(b), RepoScope)
      <4>1. d \in directory /\ "GIMPLE" \in Stages
        BY <3>4 DEF DiscoverGimple, DumpsGimple
      <4> QED BY <3>1, <4>1 DEF DumpsOf
    <3>5. CASE d \in RunUnpretty(Stages, backend, Members(b), job[b].task, without)
      BY <1>2, <3>5 DEF RunUnpretty
    <3> QED BY <3>2, <3>3, <3>4, <3>5
  <2>3. put \subseteq Stages /\ kept \subseteq Stages
    BY <2>1, <2>2
  <2>4. IrObjects(b, Dumps(b, without), put) \subseteq ObjectType
    BY <1>2, <1>5, <2>2, <2>3 DEF IrObjects, ObjectType
  <2>5. objects' \subseteq ObjectType
    BY <1>1, <2>1, <2>4
  <2>6. refused' \subseteq Tasks \X Files
    BY <1>1, <1>2, <1>5, <2>1, <2>3
  <2>7. job'[b].saved \subseteq Files
    BY <1>1, <1>2, <1>5, <2>1, <2>3 DEF SetJob, Idle
  <2> QED BY <2>5, <2>6, <2>7
<1> QED BY <1>6, <1>7, <1>8, <1>9

(* A step of one builder. *)
LEMMA TypeOfOne ==
    ASSUME TypeInv, SourceInv, SourceInv', NEW b \in Builders, NEW a \in Places, Goes(b, a),
           UNCHANGED tree \/ (\E tr : SetTree(b, tr))
               \/ \E t : tree' = [tree EXCEPT ![b] = t],
           \A c \in Builders : c # b => job'[c] = job[c],
           UNCHANGED head, faults' \in {faults, faults + 1}, faults' <= MaxFaults,
           todo' \in [Tasks -> 0..2], gccjit' \in [Builders -> SUBSET Tasks],
           refused' \subseteq Tasks \X Files, orphaned' \subseteq Repos,
           unswept' \subseteq orphaned',
           objects' \subseteq ObjectType, NotesOf(b)'
    PROVE  TypeInv'
<1>1. at' \in [Builders -> Places]
  BY DEF TypeInv, Goes
<1>2. tree' \in [Builders -> [Repos -> Trees]]
  <2>1. \A c \in Builders : tree'[c] \in [Repos -> Trees]
    BY DEF SourceInv, BuilderInv
  <2>2. tree' = [c \in Builders |-> tree'[c]]
    BY DEF SetTree, TypeInv
  <2> QED BY <2>1, <2>2
<1>3. faults' \in 0..MaxFaults /\ head' \in [Repos -> Commits]
  BY BuilderAssumption DEF TypeInv
<1>4. ASSUME NEW c \in Builders, c # b PROVE NotesOf(c)'
  <2>1. at'[c] = at[c] /\ job'[c] = job[c] /\ NotesOf(c)
    BY <1>4 DEF Goes, TypeInv
  <2>2. tree'[c] = tree[c]
    BY <1>4 DEF SetTree, TypeInv
  <2> QED BY <2>1, <2>2 DEF NotesOf, Tree, Repo
<1> QED BY <1>1, <1>2, <1>3, <1>4 DEF TypeInv

(* Where it goes, and what it knows there. *)
LEMMA NotesOfStep ==
    ASSUME TypeInv, SourceInv, SourceInv', NEW b \in Builders,
           TakeTask(b) \/ Work(b) \/ RaiseEarly(b) \/ RaiseLate(b) \/ Crash(b) \/ Restart(b)
    PROVE  /\ \E a \in Places : Goes(b, a)
           /\ \A c \in Builders : c # b => job'[c] = job[c]
           /\ NotesOf(b)'
<1>1. /\ DOMAIN at = Builders /\ DOMAIN job = Builders /\ DOMAIN job[b] = DOMAIN Idle
      /\ NotesOf(b) /\ BuilderInv(b)
      /\ at'[b] \in Sourced => Tree(b)'.commit \in Commits
  BY DEF SourceInv, BuilderInv, TypeInv
<1>2. ASSUME at'[b] \in {"idle", "down"}, at'[b] = "idle" => job'[b] = Idle PROVE NotesOf(b)'
  BY <1>2 DEF NotesOf, Labelled
<1>3. ASSUME at'[b] \notin {"idle", "down"}, job'[b].saved \subseteq Files,
             at'[b] \in Labelled => Tree(b)'.commit \in Commits /\ job'[b].label \in Labels
      PROVE  NotesOf(b)'
  BY <1>3 DEF NotesOf
<1>4. CASE TakeTask(b)
  <2>1. Goes(b, "pointer") /\ \E t : job' = [job EXCEPT ![b] = [Idle EXCEPT !.task = t]]
    BY <1>4 DEF TakeTask
  <2>2. at'[b] = "pointer" /\ job'[b].saved = {}
    BY <1>1, <2>1 DEF Goes, Idle
  <2> QED BY <1>1, <1>3, <2>1, <2>2 DEF Places, Labelled
<1>5. CASE RaiseEarly(b) \/ CleanFolder(b) \/ Restart(b)
  <2>1. Goes(b, "idle") /\ job' = [job EXCEPT ![b] = Idle]
    BY <1>5 DEF RaiseEarly, CleanFolder, Restart
  <2> QED BY <1>1, <1>2, <2>1 DEF Goes, Places
<1>6. CASE Crash(b)
  <2>1. Goes(b, "down") /\ UNCHANGED job
    BY <1>6 DEF Crash
  <2> QED BY <1>1, <1>2, <2>1 DEF Goes, Places
<1>7. CASE Clone(b)
  <2>1. PICK ok \in BOOLEAN : /\ Goes(b, IF ok THEN "cloned" ELSE "idle")
                              /\ job' = IF ok THEN job ELSE [job EXCEPT ![b] = Idle]
    BY <1>7 DEF Clone
  <2>2. at[b] = "clone"
    BY <1>7 DEF Clone
  <2>3. CASE ok
    <3>1. at'[b] = "cloned" /\ UNCHANGED job /\ Goes(b, "cloned")
      BY <1>1, <2>1, <2>3 DEF Goes
    <3>2. job'[b].saved \subseteq Files
      BY <1>1, <2>2, <3>1 DEF NotesOf
    <3> QED BY <1>3, <3>1, <3>2 DEF Places, Labelled
  <2>4. CASE ~ok
    <3>1. at'[b] = "idle" /\ job'[b] = Idle /\ Goes(b, "idle")
          /\ job' = [job EXCEPT ![b] = Idle]
      BY <1>1, <2>1, <2>4 DEF Goes
    <3> QED BY <1>1, <1>2, <3>1 DEF Places
  <2> QED BY <2>3, <2>4
<1>8. CASE ReadPointer(b) \/ RestoreArchive(b) \/ GetProjectCommit(b)
  <2>1. /\ UNCHANGED job \/ (\E v : SetJob(b, "label", v))
        /\ at[b] \notin {"idle", "down"}
        /\ \E a \in {"fetch", "clone", "restored", "report", "archive"} : Goes(b, a)
    BY <1>8 DEF ReadPointer, RestoreArchive, GetProjectCommit
  <2>2. /\ \A c \in Builders : c # b => job'[c] = job[c]
        /\ job'[b].saved = job[b].saved /\ job'[b].task = job[b].task
    BY <1>1, <2>1 DEF SetJob, Idle
  <2>3. at'[b] \in {"fetch", "clone", "restored", "report", "archive"}
    BY <1>1, <2>1 DEF Goes
  <2>4. at'[b] \in Labelled => Tree(b)'.commit \in Commits
    BY <1>1, <2>3 DEF Sourced, Labelled
  <2>5. at'[b] \in Labelled => job'[b].label \in Labels
    <3>1. CASE GetProjectCommit(b)
      <4>1. Tree(b).commit \in Commits
        BY <1>1, <3>1 DEF GetProjectCommit, BuilderInv, Sourced
      <4> QED BY <1>1, <3>1, <4>1 DEF GetProjectCommit, SetJob, Labels, Idle
    <3>2. CASE ReadPointer(b) \/ RestoreArchive(b)
      <4>1. at'[b] \in {"fetch", "clone", "restored"}
        BY <1>1, <3>2 DEF ReadPointer, RestoreArchive, Goes
      <4> QED BY <4>1 DEF Labelled
    <3> QED BY <1>8, <3>1, <3>2
  <2>6. job'[b].saved \subseteq Files
    BY <1>1, <2>1, <2>2 DEF NotesOf
  <2>7. \E a \in Places : Goes(b, a)
    BY <2>1 DEF Places
  <2> QED BY <1>3, <2>2, <2>3, <2>4, <2>5, <2>6, <2>7
<1>9. CASE \/ UploadArchive(b) \/ PutPointer(b) \/ ReportProcessing(b) \/ DebugInfo(b)
           \/ SaveMetadata(b) \/ SaveBinaries(b) \/ PersistIr(b) \/ SaveExportManifest(b)
           \/ RaiseLate(b) \/ ReportFinished(b) \/ Build(b)
  <2>1. /\ \E a \in (Labelled \cup {"clean"}) : Goes(b, a)
        /\ at[b] \in Labelled
    BY <1>9 DEF UploadArchive, PutPointer, ReportProcessing, DebugInfo, SaveMetadata,
       SaveBinaries, PersistIr, SaveExportManifest, RaiseLate, ReportFinished, Build, Labelled
  <2>2. /\ \A c \in Builders : c # b => job'[c] = job[c]
        /\ job'[b].task = job[b].task /\ job'[b].label = job[b].label
        /\ job'[b].saved \subseteq Files
    <3>1. at[b] \notin {"idle", "down"} /\ job[b].saved \subseteq Files
      BY <1>1, <2>1 DEF NotesOf, Labelled
    <3>2. CASE \/ UploadArchive(b) \/ PutPointer(b) \/ ReportProcessing(b)
               \/ SaveExportManifest(b) \/ RaiseLate(b) \/ ReportFinished(b)
      BY <3>1, <3>2 DEF UploadArchive, PutPointer, ReportProcessing, SaveExportManifest,
         RaiseLate, ReportFinished
    <3>3. CASE Build(b)
      <4>1. PICK v, w : job' = [job EXCEPT ![b].status = v, ![b].binary = w]
        BY <3>3 DEF Build
      <4> QED BY <1>1, <3>1, <4>1 DEF Idle
    <3>4. CASE DebugInfo(b)
      <4>1. PICK v : SetJob(b, "dwarf", v)
        BY <3>4 DEF DebugInfo
      <4> QED BY <1>1, <3>1, <4>1 DEF SetJob, Idle
    <3>5. CASE SaveMetadata(b)
      BY <1>1, <3>1, <3>5, TypeOfObjects DEF SaveMetadata, SetJob, Idle
    <3>6. CASE SaveBinaries(b) \/ PersistIr(b)
      <4>1. UNCHANGED job \/ \E v : SetJob(b, "saved", v)
        BY <3>6 DEF SaveBinaries, PersistIr
      <4> QED BY <1>1, <3>6, <4>1, TypeOfObjects DEF SetJob, Idle
    <3> QED BY <1>9, <3>2, <3>3, <3>4, <3>5, <3>6
  <2>3. job'[b].label \in Labels /\ at'[b] \in Labelled \cup {"clean"}
    BY <1>1, <2>1, <2>2 DEF NotesOf, Goes
  <2>4. Tree(b)'.commit \in Commits
    <3>1. Tree(b).commit \in Commits
      BY <1>1, <2>1 DEF NotesOf
    <3>2. CASE UNCHANGED tree
      BY <2>2, <3>1, <3>2 DEF Tree, Repo
    <3>3. CASE Build(b)
      <4>1. Repo(b) \in Repos /\ Repo(b)' = Repo(b)
        BY <1>1, <2>1, <2>2, BuilderAssumption DEF BuilderInv, Repo, Labelled
      <4>2. PICK tr : tr.commit = Tree(b).commit /\ SetTree(b, tr)
        <5>1. DOMAIN Tree(b) = {"commit", "extra", "products"}
          BY <4>1 DEF TypeInv, Trees, Tree_, Tree
        <5>2. PICK r \in Runs(b) :
                 SetTree(b, IF r.leaves THEN [Tree(b) EXCEPT !.products = @ \cup {job[b].task}]
                                        ELSE Tree(b))
          BY <3>3 DEF Build
        <5>3. \A v : [Tree(b) EXCEPT !.products = v].commit = Tree(b).commit
          BY <5>1
        <5> QED BY <5>2, <5>3
      <4> QED BY <3>1, <4>1, <4>2 DEF SetTree, Tree, TypeInv
    <3> QED BY <1>9, <3>2, <3>3 DEF UploadArchive, PutPointer, ReportProcessing, DebugInfo,
           SaveMetadata, SaveBinaries, PersistIr, SaveExportManifest, RaiseLate, ReportFinished
  <2>5. at'[b] \notin {"idle", "down"} /\ \E a \in Places : Goes(b, a)
    BY <2>1, <2>3 DEF Labelled, Places
  <2> QED BY <1>3, <2>2, <2>3, <2>4, <2>5
<1> QED BY <1>4, <1>5, <1>6, <1>7, <1>8, <1>9 DEF Work

LEMMA TypeOfBuilder ==
    ASSUME TypeInv, SourceInv, SourceInv', NEW b \in Builders,
           TakeTask(b) \/ Work(b) \/ RaiseEarly(b) \/ RaiseLate(b) \/ Crash(b) \/ Restart(b)
    PROVE  TypeInv'
<1>1. at[b] \notin {"idle", "down"} => job[b].task \in Tasks /\ Repo(b) \in Repos
  BY BuilderAssumption DEF SourceInv, BuilderInv, Repo
<1>2. UNCHANGED tree \/ (\E tr : SetTree(b, tr))
      \/ \E t : tree' = [tree EXCEPT ![b] = t]
  BY DEF TakeTask, Work, ReadPointer, RestoreArchive, Clone, GetProjectCommit, UploadArchive,
     PutPointer, ReportProcessing, Build, DebugInfo, SaveMetadata, SaveBinaries, PersistIr,
     SaveExportManifest, ReportFinished, CleanFolder, RaiseEarly, RaiseLate, Crash, Restart
<1>3. UNCHANGED head
  BY DEF TakeTask, Work, ReadPointer, RestoreArchive, Clone, GetProjectCommit, UploadArchive,
     PutPointer, ReportProcessing, Build, DebugInfo, SaveMetadata, SaveBinaries, PersistIr,
     SaveExportManifest, ReportFinished, CleanFolder, RaiseEarly, RaiseLate, Crash, Restart,
     shared
<1>4. /\ faults' \in {faults, faults + 1} /\ faults' <= MaxFaults
  <2>1. UNCHANGED faults \/ Fault
    BY DEF TakeTask, Work, ReadPointer, RestoreArchive, Clone, GetProjectCommit, UploadArchive,
       PutPointer, ReportProcessing, Build, DebugInfo, SaveMetadata, SaveBinaries, PersistIr,
       SaveExportManifest, ReportFinished, CleanFolder, RaiseEarly, RaiseLate, Crash, Restart,
       Refuse, Delivered, NoFault
  <2> QED BY <2>1, BuilderAssumption DEF TypeInv, Fault
<1>5. todo' \in [Tasks -> 0..2]
  <2>1. CASE TakeTask(b)
    BY <2>1 DEF TakeTask, TypeInv
  <2>2. CASE ~TakeTask(b)
    BY <2>2 DEF Work, ReadPointer, RestoreArchive, Clone, GetProjectCommit, UploadArchive,
       PutPointer, ReportProcessing, Build, DebugInfo, SaveMetadata, SaveBinaries, PersistIr,
       SaveExportManifest, ReportFinished, CleanFolder, RaiseEarly, RaiseLate, Crash, Restart,
       rest, TypeInv
  <2> QED BY <2>1, <2>2
<1>6. gccjit' \in [Builders -> SUBSET Tasks]
  <2>1. CASE Build(b)
    <3>1. job[b].task \in Tasks
      BY <1>1, <2>1 DEF Build
    <3>2. gccjit' = gccjit \/ gccjit' = [gccjit EXCEPT ![b] = @ \cup {job[b].task}]
      BY <2>1 DEF Build
    <3> QED BY <3>1, <3>2 DEF TypeInv
  <2>2. CASE ~Build(b)
    BY <2>2 DEF TakeTask, Work, ReadPointer, RestoreArchive, Clone, GetProjectCommit,
       UploadArchive, PutPointer, ReportProcessing, DebugInfo, SaveMetadata, SaveBinaries,
       PersistIr, SaveExportManifest, ReportFinished, CleanFolder, RaiseEarly, RaiseLate, Crash,
       Restart, TypeInv
  <2> QED BY <2>1, <2>2
<1>7. orphaned' \subseteq Repos /\ unswept' \subseteq orphaned'
  <2>1. \/ UNCHANGED <<orphaned, unswept>>
        \/ /\ at[b] \notin {"idle", "down"} /\ UNCHANGED unswept
           /\ \E x \in SUBSET {Repo(b)} : orphaned' = orphaned \cup x
        \/ at[b] \notin {"idle", "down"} /\ Remains({Repo(b)})
        \/ \E left \in SUBSET Repos : Remains(left)
    BY DEF TakeTask, Work, ReadPointer, RestoreArchive, Clone, GetProjectCommit, UploadArchive,
       PutPointer, ReportProcessing, Build, DebugInfo, SaveMetadata, SaveBinaries, PersistIr,
       SaveExportManifest, ReportFinished, CleanFolder, RaiseEarly, RaiseLate, Crash, Restart,
       rest
  <2> QED BY <1>1, <2>1 DEF TypeInv, Remains
<1>8. objects' \subseteq ObjectType /\ refused' \subseteq Tasks \X Files
  <2>1. CASE SaveMetadata(b) \/ SaveBinaries(b) \/ PersistIr(b) \/ SaveExportManifest(b)
    BY <2>1, TypeOfObjects
  <2>2. CASE ~(SaveMetadata(b) \/ SaveBinaries(b) \/ PersistIr(b) \/ SaveExportManifest(b))
    <3>1. UNCHANGED <<objects, refused>>
      BY <2>2 DEF TakeTask, Work, ReadPointer, RestoreArchive, Clone, GetProjectCommit,
         UploadArchive, PutPointer, ReportProcessing, Build, DebugInfo, ReportFinished,
         CleanFolder, RaiseEarly, RaiseLate, Crash, Restart, rest
    <3> QED BY <3>1 DEF TypeInv
  <2> QED BY <2>1, <2>2
<1>9. PICK a \in Places : Goes(b, a)
  BY NotesOfStep
<1>10. (\A c \in Builders : c # b => job'[c] = job[c]) /\ NotesOf(b)'
  BY NotesOfStep
<1> QED BY <1>2, <1>3, <1>4, <1>5, <1>6, <1>7, <1>8, <1>9, <1>10, TypeOfOne

LEMMA TypeStep == TypeInv /\ SourceInv /\ SourceInv' /\ [Next]_vars => TypeInv'
<1> SUFFICES ASSUME TypeInv, SourceInv, SourceInv', [Next]_vars PROVE TypeInv'
  OBVIOUS
<1>1. ASSUME NEW r \in Repos, Push(r) PROVE TypeInv'
  <2>1. /\ head' = [head EXCEPT ![r] = @ + 1] /\ head'[r] \in 1..MaxHead[r]
        /\ UNCHANGED <<at, job, tree, gccjit, faults, objects, todo, refused, orphaned, unswept>>
    BY <1>1 DEF Push, rest, SourceInv, SharedInv
  <2>2. head' \in [Repos -> Commits]
    BY <2>1, HeadsAreCommits DEF TypeInv
  <2> QED BY <2>1, <2>2 DEF TypeInv, NotesOf, Tree, Repo
<1>2. ASSUME NEW t \in Tasks, Duplicate(t) PROVE TypeInv'
  <2>1. /\ todo' = [todo EXCEPT ![t] = 2] /\ Fault
        /\ UNCHANGED <<head, at, job, tree, gccjit, objects, refused, orphaned, unswept>>
    BY <1>2 DEF Duplicate, shared
  <2>2. faults' \in 0..MaxFaults /\ todo' \in [Tasks -> 0..2]
    BY <2>1, BuilderAssumption DEF TypeInv, Fault
  <2> QED BY <2>1, <2>2 DEF TypeInv, NotesOf, Tree, Repo
<1>3. CASE UNCHANGED vars
  BY <1>3 DEF vars, TypeInv, NotesOf, Tree, Repo
<1>4. ASSUME NEW b \in Builders,
             TakeTask(b) \/ Work(b) \/ RaiseEarly(b) \/ RaiseLate(b) \/ Crash(b) \/ Restart(b)
      PROVE  TypeInv'
  BY <1>4, TypeOfBuilder
<1> QED BY <1>1, <1>2, <1>3, <1>4 DEF Next

(* Every variable keeps its type, for any builders, tasks, repositories,   *)
(* pushes and faults.                                                      *)
THEOREM TypeCorrect == Spec => []TypeOK
<1>1. TypeInv /\ SourceInv => TypeOK
  BY TypeIsOK
<1> QED BY <1>1, SourceInit, SourceStep, TypeInit, TypeStep, PTL DEF Spec
-----------------------------------------------------------------------------
(* The time spent on debug information.                                    *)

LEMMA LeastNat ==
    ASSUME NEW T \in SUBSET Nat, NEW e \in T
    PROVE  \E n \in T : \A m \in T : n <= m
<1> DEFINE Less == OpToRel(<, Nat)
<1>1. IsWellFoundedOn(Less, Nat)
    BY NatLessThanWellFounded
<1>2. \A x, y \in Nat : <<x, y>> \in Less <=> x < y
    BY DEF OpToRel
<1> HIDE DEF Less
<1>3. PICK n \in T : \A m \in T : ~(<<m, n>> \in Less)
    BY <1>1, WFMin
<1>4. ASSUME NEW m \in T PROVE n <= m
    <2>1. m \in Nat /\ n \in Nat
        OBVIOUS
    <2>2. ~(<<m, n>> \in Less)
        BY <1>3
    <2>3. ~(m < n)
        BY <2>1, <2>2, <1>2, Zenon
    <2> QED
        BY <2>1, <2>3
<1> QED
    BY <1>4


(* What a binary may need, and what a phase may take with it all.          *)
Need == [child : Nat, after : Nat]
Limit == 2 * PhaseTimeout + Overrun

LEMMA LimitType == Overrun \in Nat /\ Limit \in Nat /\ 2 * PhaseTimeout \in Nat
BY DwarfAssumption DEF Limit, Overrun, Most

(* The wait for a binary, and what follows it.                             *)
LEMMA IsolatedFits ==
    ASSUME NEW need \in Need, NEW timeout \in Nat
    PROVE  /\ ExtractIsolated(need, timeout) \in Nat
           /\ ExtractIsolated(need, timeout) <= 2 * timeout + Overrun
<1>1. need.child \in Nat /\ need.after \in Nat
  BY DEF Need
<1>2. ReapTimeout \in Nat /\ RustfiltTimeout \in Nat
  BY DwarfAssumption
<1>3. ASSUME NEW t \in {ReapTimeout, RustfiltTimeout}
      PROVE  Least(need.after, 2 * t) \in Nat /\ Least(need.after, 2 * t) <= Overrun
  BY <1>1, <1>2, <1>3 DEF Least, Overrun, Most
<1>4. Overrun \in Nat
  BY LimitType
<1>5. CASE need.child > 2 * timeout
  <2>1. ExtractIsolated(need, timeout) = 2 * timeout + Least(need.after, 2 * ReapTimeout)
    BY <1>5 DEF ExtractIsolated
  <2> QED BY <1>3, <1>4, <2>1
<1>6. CASE ~(need.child > 2 * timeout)
  <2>1. ExtractIsolated(need, timeout) = need.child + Least(need.after, 2 * RustfiltTimeout)
    BY <1>6 DEF ExtractIsolated
  <2> QED BY <1>1, <1>3, <1>4, <1>6, <2>1
<1> QED BY <1>5, <1>6

(* A binary that is not skipped ends within the phase but for what follows *)
(* its extraction; one that is skipped costs nothing.                      *)
LEMMA ExtractFits ==
    ASSUME NEW spent \in 0..Limit, NEW need \in Need
    PROVE  Extract(spent, need) \in 0..Limit
<1> DEFINE rem == Remaining(spent)
           time == ChildTimeout(spent)
<1>0. Overrun \in Nat /\ Limit \in Nat /\ Limit = 2 * PhaseTimeout + Overrun
  BY LimitType DEF Limit
<1>1. /\ PhaseTimeout \in Nat /\ DwarfTimeout \in Nat
      /\ rem \in Int /\ 2 * rem <= 2 * PhaseTimeout - spent
  BY <1>0, DwarfAssumption DEF Remaining
<1>2. CASE rem <= 0
  BY <1>2 DEF Extract
<1>3. CASE rem > 0
  <2>1. time \in Nat /\ time <= rem
    BY <1>1, <1>3 DEF ChildTimeout, Most, Least
  <2> HIDE DEF rem, time
  <2>2. /\ ExtractIsolated(need, time) \in Nat
        /\ ExtractIsolated(need, time) <= 2 * time + Overrun
    BY <2>1, IsolatedFits
  <2>3. Extract(spent, need) = spent + ExtractIsolated(need, time)
    BY <1>1, <1>3 DEF Extract, rem, time
  <2>4. spent \in Nat
    BY <1>0
  <2> QED BY <1>0, <1>1, <2>1, <2>2, <2>3, <2>4
<1> QED BY <1>1, <1>2, <1>3

(* The recursion over the binaries is defined up to any of them: were it   *)
(* not, there would be a first one at which it is not.                     *)
AfterUpTo(k, needs, f) ==
    f = [n \in 0..k |-> IF n = 0 THEN 0 ELSE Extract(f[n - 1], needs[n])]

LEMMA AfterExists == ASSUME NEW k \in Nat, NEW needs PROVE \E f : AfterUpTo(k, needs, f)
<1> DEFINE Undefined == {n \in Nat : \A f : ~AfterUpTo(n, needs, f)}
<1>1. SUFFICES ASSUME k \in Undefined PROVE FALSE
  OBVIOUS
<1>2. PICK n \in Undefined : \A m \in Undefined : n <= m
  <2>1. Undefined \in SUBSET Nat
    OBVIOUS
  <2> HIDE DEF Undefined
  <2> QED BY <1>1, <2>1, LeastNat
<1>3. n \in Nat /\ \A f : ~AfterUpTo(n, needs, f)
  OBVIOUS
<1>4. CASE n = 0
  <2>1. AfterUpTo(0, needs, [i \in 0..0 |-> 0])
    BY DEF AfterUpTo
  <2> QED BY <1>3, <1>4, <2>1
<1>5. CASE n > 0
  <2>1. n - 1 \in Nat /\ ~(n <= n - 1)
    BY <1>3, <1>5
  <2>2. n - 1 \notin Undefined
    BY <1>2, <2>1
  <2>3. PICK f : AfterUpTo(n - 1, needs, f)
    BY <2>1, <2>2
  <2> DEFINE g == [i \in 0..n |-> IF i = n THEN Extract(f[n - 1], needs[n]) ELSE f[i]]
  <2>4. \A i \in 0..n : g[i] = IF i = 0 THEN 0 ELSE Extract(g[i - 1], needs[i])
    <3> SUFFICES ASSUME NEW i \in 0..n
                 PROVE  g[i] = IF i = 0 THEN 0 ELSE Extract(g[i - 1], needs[i])
      OBVIOUS
    <3>1. CASE i = n
      <4>1. i # 0 /\ i - 1 \in 0..n /\ i - 1 # n /\ g[i - 1] = f[n - 1]
        BY <1>3, <1>5, <3>1
      <4> QED BY <3>1, <4>1
    <3>2. CASE i # n
      <4>1. i \in 0..(n - 1) /\ g[i] = f[i]
        BY <1>3, <3>2
      <4>2. i # 0 => i - 1 \in 0..n /\ i - 1 # n /\ g[i - 1] = f[i - 1]
        BY <1>3, <4>1
      <4> QED BY <2>3, <4>1, <4>2 DEF AfterUpTo
    <3> QED BY <3>1, <3>2
  <2>5. g = [i \in 0..n |-> g[i]]
    OBVIOUS
  <2> HIDE DEF g
  <2>6. AfterUpTo(n, needs, g)
    BY <2>4, <2>5 DEF AfterUpTo
  <2> QED BY <1>3, <2>6
<1> QED BY <1>3, <1>4, <1>5

(* Nor do all binaries together take more.                                 *)
LEMMA SpentFits ==
    ASSUME NEW needs \in Seq(Need) PROVE Spent(needs) \in 0..Limit
<1> DEFINE L == Len(needs)
           After == CHOOSE f : AfterUpTo(L, needs, f)
           Over == {n \in Nat : n <= L /\ After[n] \notin 0..Limit}
<1>1. L \in Nat
  OBVIOUS
<1>2. AfterUpTo(L, needs, After)
  BY <1>1, AfterExists
<1>3. Spent(needs) = After[L]
  BY DEF Spent, AfterUpTo
<1> HIDE DEF After
<1>4. SUFFICES ASSUME NEW e \in Over PROVE FALSE
  BY <1>1, <1>3
<1>5. PICK n \in Over : \A m \in Over : n <= m
  <2>1. Over \in SUBSET Nat
    OBVIOUS
  <2> HIDE DEF Over
  <2> QED BY <1>4, <2>1, LeastNat
<1>6. n \in Nat /\ n <= L /\ After[n] \notin 0..Limit
  BY <1>5
<1>7. After[n] = IF n = 0 THEN 0 ELSE Extract(After[n - 1], needs[n])
  <2>1. n \in 0..L
    BY <1>1, <1>6
  <2> HIDE DEF L, Over
  <2> QED BY <1>2, <2>1, Zenon DEF AfterUpTo
<1>8. n # 0
  BY <1>6, <1>7, LimitType
<1>9. n - 1 \in Nat /\ n - 1 <= L /\ ~(n <= n - 1)
  BY <1>1, <1>6, <1>8
<1>10. After[n - 1] \in 0..Limit
  BY <1>5, <1>9
<1>11. needs[n] \in Need
  BY <1>1, <1>6, <1>8
<1> QED BY <1>6, <1>7, <1>8, <1>10, <1>11, ExtractFits

LEMMA DurationsFit == \A needs \in Durations \cup {<<>>} : Spent(needs) \in 0..Limit
<1>1. ASSUME NEW needs \in Durations PROVE needs \in Seq(Need)
  <2>1. PICK m \in 0..Binaries : needs \in [1..m -> Needs]
    BY DEF Durations, SeqOf
  <2>2. m \in Nat
    BY DwarfAssumption
  <2>3. Needs \subseteq Need
    BY DwarfAssumption DEF Need
  <2>4. needs \in [1..m -> Need]
    BY <2>1, <2>3
  <2> QED BY <2>2, <2>4, SeqDef
<1>2. <<>> \in Seq(Need)
  OBVIOUS
<1> QED BY <1>1, <1>2, SpentFits

Budget == \A b \in Builders : job[b].dwarf \in 0..Limit

LEMMA BudgetOfBuilder ==
    ASSUME Budget, TypeInv, SourceInv, SourceInv', NEW b \in Builders,
           TakeTask(b) \/ Work(b) \/ RaiseEarly(b) \/ RaiseLate(b) \/ Crash(b) \/ Restart(b)
    PROVE  Budget'
<1>1. /\ DOMAIN job = Builders /\ DOMAIN job[b] = DOMAIN Idle
      /\ \A c \in Builders : c # b => job'[c] = job[c]
  BY NotesOfStep DEF SourceInv, BuilderInv
<1>2. 0 \in 0..Limit
  BY LimitType
<1>3. SUFFICES job'[b].dwarf \in 0..Limit
  BY <1>1 DEF Budget
<1>4. job[b].dwarf \in 0..Limit
  BY DEF Budget
<1>5. ASSUME job' = [job EXCEPT ![b] = Idle] \/ \E t : job' = [job EXCEPT ![b] = [Idle EXCEPT !.task = t]]
      PROVE  job'[b].dwarf = 0
  BY <1>1, <1>5 DEF Idle
<1>6. ASSUME \/ UNCHANGED job
             \/ \E v : SetJob(b, "label", v) \/ SetJob(b, "saved", v)
             \/ \E v, u : job' = [job EXCEPT ![b].status = v, ![b].binary = u]
      PROVE  job'[b].dwarf = job[b].dwarf
  <2>1. CASE \E v, u : job' = [job EXCEPT ![b].status = v, ![b].binary = u]
    BY <1>1, <2>1 DEF Idle
  <2>2. CASE \E v : SetJob(b, "label", v) \/ SetJob(b, "saved", v)
    BY <1>1, <2>2 DEF SetJob, Idle
  <2> QED BY <1>6, <2>1, <2>2
<1>7. CASE DebugInfo(b)
  <2>1. PICK needs \in Durations \cup {<<>>} : SetJob(b, "dwarf", Spent(needs))
    BY <1>7 DEF DebugInfo
  <2>2. Spent(needs) \in 0..Limit
    BY DurationsFit
  <2>3. job'[b].dwarf = Spent(needs)
    BY <1>1, <2>1 DEF SetJob, Idle
  <2> QED BY <2>2, <2>3
<1>8. CASE SaveMetadata(b)
  <2>1. \/ \E v : job' = [job EXCEPT ![b].saved = v, ![b].dwarf = 0]
        \/ SetJob(b, "dwarf", 0)
    BY <1>8 DEF SaveMetadata
  <2>2. CASE \E v : job' = [job EXCEPT ![b].saved = v, ![b].dwarf = 0]
    BY <1>1, <1>2, <2>2 DEF Idle
  <2>3. CASE SetJob(b, "dwarf", 0)
    BY <1>1, <1>2, <2>3 DEF SetJob, Idle
  <2> QED BY <2>1, <2>2, <2>3
<1>9. CASE TakeTask(b) \/ RaiseEarly(b) \/ CleanFolder(b) \/ Restart(b)
  BY <1>2, <1>5, <1>9 DEF TakeTask, RaiseEarly, CleanFolder, Restart
<1>10. CASE Clone(b)
  <2>1. UNCHANGED job \/ job' = [job EXCEPT ![b] = Idle]
    BY <1>10 DEF Clone
  <2>2. CASE UNCHANGED job
    BY <1>4, <2>2
  <2>3. CASE job' = [job EXCEPT ![b] = Idle]
    BY <1>2, <1>5, <2>3
  <2> QED BY <2>1, <2>2, <2>3
<1>11. CASE \/ ReadPointer(b) \/ RestoreArchive(b) \/ GetProjectCommit(b) \/ UploadArchive(b)
            \/ PutPointer(b) \/ ReportProcessing(b) \/ Build(b) \/ SaveBinaries(b)
            \/ PersistIr(b) \/ SaveExportManifest(b) \/ ReportFinished(b) \/ RaiseLate(b)
            \/ Crash(b)
  <2>1. \/ UNCHANGED job
        \/ \E v : SetJob(b, "label", v) \/ SetJob(b, "saved", v)
        \/ \E v, u : job' = [job EXCEPT ![b].status = v, ![b].binary = u]
    BY <1>11 DEF ReadPointer, RestoreArchive, GetProjectCommit, UploadArchive, PutPointer,
       ReportProcessing, Build, SaveBinaries, PersistIr, SaveExportManifest, ReportFinished,
       RaiseLate, Crash
  <2> QED BY <1>4, <1>6, <2>1
<1> QED BY <1>7, <1>8, <1>9, <1>10, <1>11 DEF Work

LEMMA BudgetStep ==
    Budget /\ TypeInv /\ SourceInv /\ SourceInv' /\ [Next]_vars => Budget'
<1> SUFFICES ASSUME Budget, TypeInv, SourceInv, SourceInv', [Next]_vars PROVE Budget'
  OBVIOUS
<1>1. ASSUME UNCHANGED job PROVE Budget'
  BY <1>1 DEF Budget
<1>2. ASSUME NEW r \in Repos, Push(r) PROVE UNCHANGED job
  BY <1>2 DEF Push
<1>3. ASSUME NEW t \in Tasks, Duplicate(t) PROVE UNCHANGED job
  BY <1>3 DEF Duplicate
<1>4. CASE UNCHANGED vars
  BY <1>1, <1>4 DEF vars
<1> QED BY <1>1, <1>2, <1>3, <1>4, BudgetOfBuilder DEF Next

(* The debug information of a build never holds its builder longer than    *)
(* the phase's budget and what follows the extraction of one binary, for   *)
(* any number of binaries, any durations, and any timeouts of one binary,  *)
(* of rustfilt and of the wait for a killed child, also when one of them is*)
(* longer than the phase.                                                  *)
THEOREM DwarfWithinBudgetHolds == Spec => []DwarfWithinBudget
<1>1. Init => Budget
  BY LimitType DEF Init, Idle, Budget
<1>2. Budget => DwarfWithinBudget
  BY LimitType DEF Budget, DwarfWithinBudget, Limit
<1> QED BY <1>1, <1>2, SourceInit, SourceStep, TypeInit, TypeStep, BudgetStep, PTL DEF Spec

-----------------------------------------------------------------------------
(* How many members of a set of numbers a number has at or before it.      *)
Rank(S, p) == Cardinality({q \in S : q <= p})

LEMMA RankInRange ==
    ASSUME NEW S \in SUBSET Nat, IsFiniteSet(S), NEW p \in S
    PROVE  Cardinality(S) \in Nat /\ Rank(S, p) \in 1..Cardinality(S)
<1> DEFINE below == {q \in S : q <= p}
<1>1. below \in SUBSET S /\ p \in below
  OBVIOUS
<1> HIDE DEF below
<1>2. IsFiniteSet(below) /\ Cardinality(below) <= Cardinality(S)
  BY <1>1, FS_Subset
<1>3. Cardinality(below) \in Nat /\ Cardinality(S) \in Nat
  BY <1>2, FS_CardinalityType
<1>4. Cardinality(below) # 0
  BY <1>1, <1>2, FS_EmptySet
<1>5. Rank(S, p) = Cardinality(below)
  BY DEF Rank, below
<1> QED BY <1>2, <1>3, <1>4, <1>5

LEMMA RankGrows ==
    ASSUME NEW S \in SUBSET Nat, IsFiniteSet(S), NEW p \in S, NEW r \in S, p < r
    PROVE  Rank(S, p) < Rank(S, r)
<1> DEFINE below == {q \in S : q <= p}
           more == {q \in S : q <= r}
<1>1. below \in SUBSET S /\ more \in SUBSET S
  OBVIOUS
<1>2. below \cup {r} \in SUBSET more /\ r \notin below
  <2>1. p \in Nat /\ r \in Nat /\ ~(r <= p) /\ r <= r
    OBVIOUS
  <2>2. \A q \in S : q <= p => q <= r
    OBVIOUS
  <2> QED BY <2>1, <2>2
<1>3. Rank(S, p) = Cardinality(below) /\ Rank(S, r) = Cardinality(more)
  BY DEF Rank
<1> HIDE DEF below, more
<1>4. IsFiniteSet(below) /\ IsFiniteSet(more)
  BY <1>1, FS_Subset
<1>5. Cardinality(below \cup {r}) = Cardinality(below) + 1
  BY <1>2, <1>4, FS_AddElement
<1>6. Cardinality(below \cup {r}) <= Cardinality(more)
  BY <1>2, <1>4, FS_Subset
<1>7. Cardinality(below) \in Nat /\ Cardinality(more) \in Nat
  BY <1>4, FS_CardinalityType
<1> QED BY <1>3, <1>5, <1>6, <1>7

(* Every number up to the size of the set is the rank of a member, and of  *)
(* one only: InOrder lists each place once.                                *)
LEMMA NthHasRank ==
    ASSUME NEW S \in SUBSET Nat, IsFiniteSet(S), NEW n \in 1..Cardinality(S)
    PROVE  Nth(S, n) \in S /\ Rank(S, Nth(S, n)) = n
<1> DEFINE N == Cardinality(S)
           rank == [p \in S |-> Rank(S, p)]
<1>1. N \in Nat
  BY FS_CardinalityType
<1>2. rank \in [S -> 1..N]
  BY RankInRange
<1>3. ASSUME NEW p \in S, NEW r \in S, rank[p] = rank[r] PROVE p = r
  <2>1. p \in Nat /\ r \in Nat
    OBVIOUS
  <2>2. Rank(S, p) = Rank(S, r) /\ Rank(S, p) \in Nat
    BY <1>3, RankInRange
  <2>3. ~(p < r) /\ ~(r < p)
    BY <2>2, RankGrows
  <2> QED BY <2>1, <2>3
<1>4. IsFiniteSet(1..N) /\ Cardinality(1..N) = N
  BY <1>1, FS_Interval
<1>5. rank \in Injection(S, 1..N)
  BY <1>2, <1>3 DEF Injection, IsInjective
<1>6. rank \in Surjection(S, 1..N)
  <2> HIDE DEF rank
  <2> QED BY <1>4, <1>5, FS_Injection
<1>7. PICK p \in S : Rank(S, p) = n
  BY <1>6 DEF Surjection
<1> QED BY <1>7 DEF Nth, Rank

LEMMA NthOfRank ==
    ASSUME NEW S \in SUBSET Nat, IsFiniteSet(S), NEW p \in S
    PROVE  Rank(S, p) \in 1..Cardinality(S) /\ Nth(S, Rank(S, p)) = p
<1> DEFINE n == Rank(S, p)
           r == Nth(S, n)
<1>1. n \in 1..Cardinality(S) /\ Cardinality(S) \in Nat
  BY RankInRange
<1> HIDE DEF n
<1>2. r \in S /\ Rank(S, r) = n
  BY <1>1, NthHasRank
<1> HIDE DEF r
<1>3. ~(p < r) /\ ~(r < p)
  BY <1>1, <1>2, RankGrows DEF n
<1>4. p = r
  BY <1>2, <1>3
<1> QED BY <1>1, <1>4 DEF r, n

LEMMA InOrderLists ==
    ASSUME NEW S \in SUBSET Nat, IsFiniteSet(S), NEW f
    PROVE  /\ Cardinality(S) \in Nat
           /\ DOMAIN InOrder(f, S) = 1..Cardinality(S)
           /\ \A n \in 1..Cardinality(S) : Nth(S, n) \in S /\ InOrder(f, S)[n] = f[Nth(S, n)]
BY FS_CardinalityType, NthHasRank DEF InOrder

LEMMA PlacesFinite ==
    ASSUME NEW s, IsSequence(s), NEW S \in SUBSET DOMAIN s
    PROVE  IsFiniteSet(S) /\ S \in SUBSET Nat
<1>1. Len(s) \in Nat /\ DOMAIN s = 1..Len(s)
  BY DEF IsSequence
<1>2. IsFiniteSet(1..Len(s))
  BY <1>1, FS_Interval
<1> QED BY <1>1, <1>2, FS_Subset

-----------------------------------------------------------------------------
(* Every unit is in one shard, and there it is the same as in any other    *)
(* sharding: what the shards are merged from does not depend on how many   *)
(* they are.                                                               *)
LEMMA ShardOfUnit ==
    ASSUME NEW k \in Nat \ {0}, NEW shards \in Nat \ {0}
    PROVE  \E i \in 1..shards : (k - 1) % shards = i - 1
<1>1. k - 1 \in Nat /\ (k - 1) % shards \in 0..(shards - 1)
  OBVIOUS
<1> DEFINE rest_ == (k - 1) % shards
<1>2. rest_ \in 0..(shards - 1)
  BY <1>1
<1> HIDE DEF rest_
<1>3. rest_ + 1 \in 1..shards /\ rest_ = (rest_ + 1) - 1
  BY <1>2
<1> QED BY <1>3 DEF rest_

Shards(bin, jobs) == [i \in 1..jobs |-> ExtractShard(bin, i - 1, jobs)]

LEMMA ShardsHoldUnits ==
    ASSUME NEW bin, IsSequence(bin.cus), NEW jobs \in Nat \ {0}
    PROVE  LET parts == Shards(bin, jobs) IN
           /\ UNION {DOMAIN parts[i] : i \in DOMAIN parts} = DOMAIN bin.cus
           /\ \A i \in DOMAIN parts : \A k \in DOMAIN parts[i] :
                  parts[i][k] = CuFunctions(bin, bin.cus[k])
<1> DEFINE parts == Shards(bin, jobs)
           At(i) == {k \in DOMAIN bin.cus : (k - 1) % jobs = i - 1}
<1>1. DOMAIN parts = 1..jobs
  BY DEF Shards
<1>2. ASSUME NEW i \in 1..jobs
      PROVE  /\ DOMAIN parts[i] = At(i)
             /\ \A k \in At(i) : parts[i][k] = CuFunctions(bin, bin.cus[k])
  BY DEF Shards, ExtractShard
<1>3. ASSUME NEW k \in DOMAIN bin.cus PROVE \E i \in 1..jobs : k \in At(i)
  <2>1. k \in Nat \ {0}
    BY DEF IsSequence
  <2> QED BY <2>1, ShardOfUnit
<1> HIDE DEF parts
<1> QED BY <1>1, <1>2, <1>3 DEF parts

LEMMA MergedShards ==
    ASSUME NEW bin, IsSequence(bin.cus), NEW jobs \in Nat \ {0}
    PROVE  MergeShards(Shards(bin, jobs))
             = BuildItem(FlattenSeq(InOrder([k \in DOMAIN bin.cus |-> CuFunctions(bin, bin.cus[k])],
                                            DOMAIN bin.cus)))
<1> DEFINE parts == Shards(bin, jobs)
           units == UNION {DOMAIN parts[i] : i \in DOMAIN parts}
           byCu == [k \in units |-> parts[CHOOSE i \in DOMAIN parts : k \in DOMAIN parts[i]][k]]
           all == [k \in DOMAIN bin.cus |-> CuFunctions(bin, bin.cus[k])]
<1>1. units = DOMAIN bin.cus
  BY ShardsHoldUnits
<1>2. ASSUME NEW k \in units PROVE byCu[k] = all[k]
  <2> DEFINE i == CHOOSE i \in DOMAIN parts : k \in DOMAIN parts[i]
  <2>1. i \in DOMAIN parts /\ k \in DOMAIN parts[i]
    OBVIOUS
  <2>2. byCu[k] = parts[i][k]
    OBVIOUS
  <2>3. all[k] = CuFunctions(bin, bin.cus[k])
    BY <1>1
  <2> HIDE DEF i, byCu, all
  <2> QED BY <2>1, <2>2, <2>3, ShardsHoldUnits
<1>3. byCu = all
  BY <1>1, <1>2
<1>4. MergeShards(parts) = BuildItem(FlattenSeq(InOrder(byCu, units)))
  BY DEF MergeShards
<1> HIDE DEF parts, units, byCu, all
<1>5. MergeShards(parts) = BuildItem(FlattenSeq(InOrder(all, DOMAIN bin.cus)))
  BY <1>1, <1>3, <1>4
<1> QED BY <1>5 DEF parts, all

LEMMA OneShard ==
    ASSUME NEW bin PROVE <<ExtractShard(bin, 0, 1)>> = Shards(bin, 1)
<1>1. \A i \in 1..1 : i = 1 /\ i - 1 = 0
  OBVIOUS
<1>2. Shards(bin, 1) = [i \in 1..1 |-> ExtractShard(bin, 0, 1)]
  BY <1>1 DEF Shards
<1> DEFINE shard == ExtractShard(bin, 0, 1)
<1> HIDE DEF shard
<1>3. [i \in 1..1 |-> shard] = <<shard>>
  OBVIOUS
<1> QED BY <1>2, <1>3 DEF shard

(* Splitting a binary changes nothing. *)
LEMMA ShardingIsSound ==
    ASSUME NEW bin, IsSequence(bin.cus), NEW jobs \in Nat \ {0}, NEW poolFails \in BOOLEAN
    PROVE  ExtractDwarfInfo(bin, jobs, poolFails) = ExtractDwarfInfo(bin, 1, FALSE)
<1>1. MergeShards(<<ExtractShard(bin, 0, 1)>>) = MergeShards(Shards(bin, jobs))
  <2> DEFINE whole == BuildItem(FlattenSeq(InOrder(
                          [k \in DOMAIN bin.cus |-> CuFunctions(bin, bin.cus[k])], DOMAIN bin.cus)))
  <2>1. 1 \in Nat \ {0}
    OBVIOUS
  <2>2. MergeShards(Shards(bin, 1)) = whole
    BY <2>1, MergedShards, Zenon
  <2>3. MergeShards(Shards(bin, jobs)) = whole
    BY MergedShards, Zenon
  <2> HIDE DEF whole
  <2> QED BY <2>2, <2>3, OneShard, Zenon
<1>2. ExtractParallel(bin, jobs) = MergeShards(Shards(bin, jobs))
  BY DEF ExtractParallel, Shards
<1>3. ~(1 > 1)
  OBVIOUS
<1> QED BY <1>1, <1>2, <1>3 DEF ExtractDwarfInfo

(* A table of DWARF 5, whose directory 0 is the unit's own, reads as that  *)
(* of DWARF 4 with the same files.                                         *)
LEMMA TablesAgree ==
    ASSUME NEW files, NEW dirs, NEW compDir, IsSequence(files), IsSequence(dirs),
           NEW n \in DOMAIN files
    PROVE  FileTable(4, files, dirs, compDir)[n]
             = FileTable(5, files, <<compDir>> \o dirs, compDir)[n - 1]
<1> DEFINE five == <<compDir>> \o dirs
           f == files[n]
           DirIn4 == IF f.dir \in 1..(1 + Len(dirs) - 1) THEN dirs[f.dir - 1 + 1] ELSE compDir
           DirIn5 == IF f.dir \in 0..(0 + Len(five) - 1) THEN five[f.dir - 0 + 1] ELSE compDir
<1>1. Len(files) \in Nat /\ n \in 1..Len(files) /\ Len(dirs) \in Nat
  BY DEF IsSequence
<1>2. Len(five) = Len(dirs) + 1 /\ five[1] = compDir /\ \A d \in 1..Len(dirs) : five[d + 1] = dirs[d]
  <2> DEFINE V == ToSet(dirs) \cup {compDir}
  <2>1. dirs \in Seq(V) /\ <<compDir>> \in Seq(V) /\ Len(<<compDir>>) = 1 /\ <<compDir>>[1] = compDir
    BY DEF IsSequence
  <2> HIDE DEF V
  <2> QED BY <1>1, <2>1
<1> HIDE DEF five
<1>3. DirIn4 = DirIn5
  <2>1. CASE f.dir \in 1..Len(dirs)
    <3>1. DirIn4 = dirs[f.dir]
      BY <1>1, <2>1
    <3>2. DirIn5 = five[f.dir + 1]
      BY <1>1, <1>2, <2>1
    <3> QED BY <1>2, <2>1, <3>1, <3>2
  <2>2. CASE f.dir \notin 1..Len(dirs)
    <3>1. DirIn4 = compDir
      BY <1>1, <2>2
    <3>2. DirIn5 = compDir
      <4>1. CASE f.dir = 0
        BY <1>1, <1>2, <4>1
      <4>2. CASE f.dir # 0
        BY <1>1, <1>2, <2>2, <4>2
      <4> QED BY <4>1, <4>2
    <3> QED BY <3>1, <3>2
  <2> QED BY <2>1, <2>2
<1>4. FileTable(4, files, dirs, compDir)[n] = IF f.absolute THEN <<f.name>> ELSE <<DirIn4, f.name>>
  <2>1. n \in 1..(1 + Len(files) - 1) /\ n - 1 + 1 = n /\ ~(4 >= 5)
    BY <1>1
  <2> QED BY <2>1 DEF FileTable
<1>5. ASSUME NEW m, m = n - 1
      PROVE  FileTable(5, files, five, compDir)[m] = IF f.absolute THEN <<f.name>> ELSE <<DirIn5, f.name>>
  <2> DEFINE g == files[m - 0 + 1]
             DirOf == IF g.dir \in 0..(0 + Len(five) - 1) THEN five[g.dir - 0 + 1] ELSE compDir
  <2>1. m \in 0..(0 + Len(files) - 1) /\ m - 0 + 1 = n /\ 5 >= 5
    BY <1>1, <1>5
  <2>2. g = f
    BY <2>1
  <2>3. FileTable(5, files, five, compDir)[m] = IF g.absolute THEN <<g.name>> ELSE <<DirOf, g.name>>
    BY <2>1 DEF FileTable
  <2> HIDE DEF g
  <2> QED BY <2>2, <2>3
<1> HIDE DEF DirIn4, DirIn5, f
<1>6. FileTable(5, files, five, compDir)[n - 1] = IF f.absolute THEN <<f.name>> ELSE <<DirIn5, f.name>>
  BY <1>5
<1>7. FileTable(4, files, dirs, compDir)[n] = FileTable(5, files, five, compDir)[n - 1]
  BY <1>3, <1>4, <1>6
<1> QED BY <1>7 DEF five

-----------------------------------------------------------------------------
(* What the functions of a unit are: as many as were collected, with       *)
(* ranges of whole numbers.                                                *)
Spans == Int \X Int

LEMMA InOrderIsSequence ==
    ASSUME NEW V, NEW s, IsSequence(s), NEW S \in SUBSET DOMAIN s, \A p \in S : s[p] \in V
    PROVE  InOrder(s, S) \in Seq(V)
<1>1. IsFiniteSet(S) /\ S \in SUBSET Nat
  BY PlacesFinite
<1> DEFINE N == Cardinality(S)  o == InOrder(s, S)
<1>2. N \in Nat /\ \A n \in 1..N : Nth(S, n) \in S
  BY <1>1, InOrderLists
<1>3. o = [n \in 1..N |-> s[Nth(S, n)]]
  BY DEF InOrder
<1> HIDE DEF N, o
<1>4. o \in [1..N -> V]
  BY <1>2, <1>3
<1>5. o \in Seq(V)
  BY <1>2, <1>4
<1> QED BY <1>5 DEF o

LEMMA SequenceOf ==
    ASSUME NEW V, NEW s \in Seq(V) PROVE IsSequence(s)
<1>1. Len(s) \in Nat /\ s \in [1..Len(s) -> V]
  OBVIOUS
<1>2. \A i \in 1..Len(s) : s[i] \in ToSet(s)
  BY <1>1 DEF ToSet
<1>3. s \in [1..Len(s) -> ToSet(s)]
  BY <1>1, <1>2
<1> QED BY <1>1, <1>3 DEF IsSequence

LEMMA GreatestIn ==
    ASSUME NEW i \in Nat, NEW S \in SUBSET (1..i), S # {}
    PROVE  \E j \in S : \A k \in S : k <= j
<1> DEFINE T == {i - j : j \in S}
<1>1. T \in SUBSET Nat
  OBVIOUS
<1>2. PICK e : e \in T
  OBVIOUS
<1> HIDE DEF T
<1>3. PICK n \in T : \A m \in T : n <= m
  BY <1>1, <1>2, LeastNat
<1>4. PICK j \in S : n = i - j
  BY DEF T
<1>5. ASSUME NEW k \in S PROVE k <= j
  <2>1. i - k \in T
    BY DEF T
  <2>2. i - j <= i - k
    BY <1>3, <1>4, <2>1
  <2> QED BY <2>2
<1> QED BY <1>5

LEMMA BaseAddressIsNat == ASSUME NEW bin, bin.loads \subseteq Nat PROVE BaseAddress(bin) \in Nat
<1>1. CASE bin.loads = {}
  BY <1>1 DEF BaseAddress
<1>2. CASE bin.loads # {}
  <2>1. PICK e : e \in bin.loads
    BY <1>2
  <2>2. \E a \in bin.loads : \A x \in bin.loads : a <= x
    BY <2>1, LeastNat
  <2>3. BaseAddress(bin) \in bin.loads
    BY <1>2, <2>2 DEF BaseAddress
  <2> QED BY <2>3
<1> QED BY <1>1, <1>2

(* A die as ProgramsAssumption has it.                                     *)
GoodDie(die) ==
    /\ {die.low, die.high} \subseteq Nat
    /\ IsSequence(die.list)
    /\ \A e \in ToSet(die.list) : {e.begin, e.end} \subseteq Nat

LEMMA ResolvedRanges ==
    ASSUME NEW cu, cu.low \in Nat, NEW die, GoodDie(die)
    PROVE  ResolveAddressRanges(cu, die) \in Seq(Spans)
<1> DEFINE list == die.list
           IsBase(i) == list[i].kind = "base"
           Ended(i) == \E j \in 1..i : ~IsBase(j) /\ list[j].begin = 0 /\ list[j].end = 0
           Bases(i) == {j \in 1..i : IsBase(j)}
           Base(i) == IF Bases(i) = {} THEN cu.low
                      ELSE list[CHOOSE j \in Bases(i) : \A k \in Bases(i) : k <= j].begin
           Shift(i) == IF list[i].kind = "absolute" THEN 0 ELSE Base(i)
           Range_(i) == IF IsBase(i) \/ Ended(i) THEN <<0, 0>>
                        ELSE <<list[i].begin + Shift(i), list[i].end + Shift(i)>>
           all == IF list = NoList THEN <<<<die.low, die.high>>>>
                  ELSE [i \in DOMAIN list |-> Range_(i)]
           forward == {i \in DOMAIN all : all[i][1] < all[i][2]}
<1>1. ResolveAddressRanges(cu, die) = InOrder(all, forward)
  BY DEF ResolveAddressRanges
<1>2. Len(list) \in Nat /\ DOMAIN list = 1..Len(list)
  BY DEF GoodDie, IsSequence
<1>3. \A i \in 1..Len(list) : list[i].begin \in Nat /\ list[i].end \in Nat
  BY <1>2 DEF GoodDie, ToSet
<1>4. ASSUME NEW i \in 1..Len(list) PROVE Base(i) \in Nat
  <2>1. CASE Bases(i) = {}
    BY <2>1
  <2>2. CASE Bases(i) # {}
    <3> DEFINE B == Bases(i)
               last == CHOOSE j \in B : \A k \in B : k <= j
    <3>1. i \in Nat /\ B \in SUBSET (1..i) /\ B # {}
      BY <1>2, <2>2
    <3>2. Base(i) = list[last].begin
      BY <2>2
    <3> HIDE DEF B
    <3>3. last \in B
      BY <3>1, GreatestIn
    <3> HIDE DEF last
    <3>4. last \in 1..Len(list)
      BY <1>2, <3>1, <3>3
    <3> QED BY <1>3, <3>2, <3>4
  <2> QED BY <2>1, <2>2
<1> HIDE DEF Base
<1>5. ASSUME NEW i \in 1..Len(list) PROVE Range_(i) \in Spans
  <2>1. Shift(i) \in Nat
    BY <1>4
  <2> HIDE DEF Shift, IsBase, Ended
  <2>2. list[i].begin + Shift(i) \in Int /\ list[i].end + Shift(i) \in Int
    BY <1>3, <2>1
  <2>3. <<list[i].begin + Shift(i), list[i].end + Shift(i)>> \in Spans
    BY <2>2, Zenon DEF Spans
  <2>4. <<0, 0>> \in Spans
    BY DEF Spans
  <2> QED BY <2>3, <2>4
<1> HIDE DEF Range_, list
<1>6. all \in Seq(Spans)
  <2>1. <<die.low, die.high>> \in Spans
    BY DEF GoodDie, Spans
  <2>2. [i \in 1..Len(list) |-> Range_(i)] \in Seq(Spans)
    BY <1>2, <1>5
  <2> QED BY <1>2, <2>1, <2>2
<1> HIDE DEF all
<1>7. IsSequence(all) /\ \A i \in DOMAIN all : all[i] \in Spans
  BY <1>6, SequenceOf
<1>8. InOrder(all, forward) \in Seq(Spans)
  BY <1>7, InOrderIsSequence
<1> QED BY <1>1, <1>8

LEMMA RangesOfFunction ==
    ASSUME NEW bin, bin.loads \subseteq Nat, NEW cu, cu.low \in Nat, NEW die, GoodDie(die)
    PROVE  FunctionRanges(bin, cu, die) \in Seq(Spans)
<1> DEFINE exec == ExecutableRanges(bin)
           base == BaseAddress(bin)
           Kept_(r) == /\ exec = {} \/ \E s \in exec : r[1] < s[2] /\ r[2] > s[1]
                       /\ r[1] >= base
           all == ResolveAddressRanges(cu, die)
           moved == [i \in DOMAIN all |-> <<all[i][1] - base, all[i][2] - base>>]
           kept_ == {i \in DOMAIN all : Kept_(all[i])}
<1>1. FunctionRanges(bin, cu, die) = InOrder(moved, kept_)
  BY DEF FunctionRanges
<1>2. base \in Nat /\ all \in Seq(Spans)
  BY BaseAddressIsNat, ResolvedRanges
<1> HIDE DEF base, all, Kept_
<1>3. ASSUME NEW i \in DOMAIN all PROVE <<all[i][1] - base, all[i][2] - base>> \in Spans
  <2>1. all[i] \in Spans
    BY <1>2
  <2>2. all[i][1] \in Int /\ all[i][2] \in Int
    BY <2>1 DEF Spans
  <2>3. all[i][1] - base \in Int /\ all[i][2] - base \in Int
    BY <1>2, <2>2
  <2> QED BY <2>3, Zenon DEF Spans
<1>4. moved \in Seq(Spans) /\ DOMAIN moved = DOMAIN all
  BY <1>2, <1>3
<1> HIDE DEF moved
<1>5. IsSequence(moved) /\ kept_ \in SUBSET DOMAIN moved /\ \A i \in kept_ : moved[i] \in Spans
  BY <1>4, SequenceOf
<1> QED BY <1>1, <1>5, InOrderIsSequence

GoodUnit(cu) ==
    /\ cu.low \in Nat
    /\ IsSequence(cu.entries) /\ IsSequence(cu.dies)
    /\ \A die \in ToSet(cu.dies) : GoodDie(die)

GoodFunctions(functions) ==
    /\ IsSequence(functions)
    /\ \A i \in DOMAIN functions : functions[i].ranges \in Seq(Spans)

LEMMA CollectedFunctions ==
    ASSUME NEW bin, bin.loads \subseteq Nat, NEW cu, GoodUnit(cu)
    PROVE  GoodFunctions(CollectFunctions(bin, cu))
<1> DEFINE dies == cu.dies
           all == [i \in DOMAIN dies |-> [name |-> ResolveDieName(dies, i),
                                          ranges |-> FunctionRanges(bin, cu, dies[i])]]
           named == {i \in DOMAIN all : all[i].name # NoName /\ all[i].ranges # <<>>}
<1>1. CollectFunctions(bin, cu) = InOrder(all, named)
  BY DEF CollectFunctions
<1>2. Len(dies) \in Nat /\ DOMAIN dies = 1..Len(dies) /\ DOMAIN all = 1..Len(dies)
  BY DEF GoodUnit, IsSequence
<1>3. ASSUME NEW i \in DOMAIN dies PROVE all[i].ranges \in Seq(Spans)
  <2>1. GoodDie(dies[i]) /\ cu.low \in Nat
    BY DEF GoodUnit, ToSet
  <2>2. FunctionRanges(bin, cu, dies[i]) \in Seq(Spans)
    BY <2>1, RangesOfFunction
  <2> QED BY <2>2
<1>4. all \in [1..Len(dies) -> ToSet(all)]
  BY <1>2 DEF ToSet
<1> HIDE DEF all, dies
<1>5. all \in Seq(ToSet(all))
  BY <1>2, <1>4
<1>6. IsSequence(all) /\ \A i \in named : all[i] \in ToSet(all)
  BY <1>5 DEF IsSequence, ToSet
<1>7. IsFiniteSet(named) /\ named \in SUBSET Nat
  BY <1>6, PlacesFinite
<1>8. InOrder(all, named) \in Seq(ToSet(all))
  BY <1>6, InOrderIsSequence
<1>9. ASSUME NEW n \in DOMAIN InOrder(all, named)
      PROVE  InOrder(all, named)[n].ranges \in Seq(Spans)
  <2>1. Nth(named, n) \in named /\ InOrder(all, named)[n] = all[Nth(named, n)]
    BY <1>7, InOrderLists
  <2>2. Nth(named, n) \in DOMAIN dies
    BY <1>2, <2>1
  <2> QED BY <1>3, <2>1, <2>2
<1> QED BY <1>1, <1>8, <1>9, SequenceOf DEF GoodFunctions

(* The lines do not disturb that. *)
LEMMA FunctionsOfUnit ==
    ASSUME NEW bin, bin.loads \subseteq Nat, NEW cu, GoodUnit(cu)
    PROVE  LET functions == CollectFunctions(bin, cu)
               listed == CuFunctions(bin, cu)
           IN  /\ GoodFunctions(functions) /\ GoodFunctions(listed)
               /\ DOMAIN listed = DOMAIN functions
               /\ \A i \in DOMAIN functions : listed[i].ranges = functions[i].ranges
<1> DEFINE functions == CollectFunctions(bin, cu)
           listed == CuFunctions(bin, cu)
<1>1. GoodFunctions(functions)
  BY CollectedFunctions
<1>2. /\ DOMAIN listed = DOMAIN functions
      /\ \A i \in DOMAIN functions : listed[i].ranges = functions[i].ranges
      /\ listed = [i \in DOMAIN functions |-> listed[i]]
  BY DEF CuFunctions, AssignLineEntries
<1> HIDE DEF functions, listed
<1>3. Len(functions) \in Nat /\ DOMAIN functions = 1..Len(functions)
  BY <1>1 DEF GoodFunctions, IsSequence
<1>4. listed \in [1..Len(functions) -> ToSet(listed)]
  BY <1>2, <1>3 DEF ToSet
<1>5. IsSequence(listed)
  BY <1>3, <1>4 DEF IsSequence
<1>6. GoodFunctions(listed)
  BY <1>1, <1>2, <1>5 DEF GoodFunctions
<1> QED BY <1>1, <1>2, <1>6 DEF functions, listed

-----------------------------------------------------------------------------
(* Intervals are finitely many, and of those around an address one comes   *)
(* last: a line that some interval holds goes to exactly one function.     *)
Triples == Int \X Int \X Int

LEMMA FiniteImage ==
    ASSUME NEW S, IsFiniteSet(S), NEW f PROVE IsFiniteSet({f[x] : x \in S})
<1> DEFINE T == {f[x] : x \in S}
           g == [x \in S |-> f[x]]
<1>1. g \in Surjection(S, T)
  BY DEF Surjection
<1> HIDE DEF T, g
<1>2. IsFiniteSet(T)
  BY <1>1, FS_Surjection
<1> QED BY <1>2 DEF T

LEMMA IntervalsFinite ==
    ASSUME NEW functions, GoodFunctions(functions)
    PROVE  IsFiniteSet(Intervals(functions)) /\ Intervals(functions) \in SUBSET Triples
<1> DEFINE Of(i) == {<<r[1], r[2], i>> : r \in ToSet(functions[i].ranges)}
           D == DOMAIN functions
           all == {Of(i) : i \in D}
<1>1. IsFiniteSet(D) /\ D \in SUBSET Nat
  BY PlacesFinite DEF GoodFunctions
<1>2. ASSUME NEW i \in D PROVE IsFiniteSet(Of(i)) /\ Of(i) \in SUBSET Triples
  <2> DEFINE s == functions[i].ranges
  <2>1. s \in Seq(Spans) /\ i \in Int
    BY <1>1 DEF GoodFunctions
  <2>2. Of(i) = {<<s[n][1], s[n][2], i>> : n \in DOMAIN s}
    BY DEF ToSet
  <2> HIDE DEF s, Of
  <2>3. IsSequence(s)
    BY <2>1, SequenceOf
  <2>4. IsFiniteSet(DOMAIN s)
    BY <2>3, PlacesFinite
  <2>5. \A n \in DOMAIN s : s[n][1] \in Int /\ s[n][2] \in Int
    BY <2>1 DEF Spans
  <2>6. IsFiniteSet({<<s[n][1], s[n][2], i>> : n \in DOMAIN s})
    <3> DEFINE f == [n \in DOMAIN s |-> <<s[n][1], s[n][2], i>>]
    <3>1. {<<s[n][1], s[n][2], i>> : n \in DOMAIN s} = {f[n] : n \in DOMAIN s}
      OBVIOUS
    <3> HIDE DEF f
    <3> QED BY <2>4, <3>1, FiniteImage
  <2> QED BY <2>1, <2>2, <2>5, <2>6 DEF Triples
<1>3. IsFiniteSet(all)
  <2> DEFINE f == [i \in D |-> Of(i)]
  <2>1. all = {f[i] : i \in D}
    OBVIOUS
  <2> HIDE DEF f, all
  <2> QED BY <1>1, <2>1, FiniteImage
<1>4. IsFiniteSet(UNION all)
  BY <1>2, <1>3, FS_UNION
<1>5. Intervals(functions) = UNION all
  BY DEF Intervals
<1> QED BY <1>2, <1>4, <1>5

LEMMA SortedIsTotal ==
    /\ \A v, w \in Triples : Sorted(v, w) \/ Sorted(w, v)
    /\ \A u, v, w \in Triples : Sorted(u, v) /\ Sorted(v, w) => Sorted(u, w)
    /\ \A v, w \in Triples : Sorted(v, w) /\ Sorted(w, v) => v = w
<1>1. \A v \in Triples : v[1] \in Int /\ v[2] \in Int /\ v[3] \in Int /\ v = <<v[1], v[2], v[3]>>
  BY DEF Triples
<1>2. \A v, w \in Triples : Sorted(v, w) \/ Sorted(w, v)
  BY <1>1 DEF Sorted
<1>3. \A u, v, w \in Triples : Sorted(u, v) /\ Sorted(v, w) => Sorted(u, w)
  BY <1>1 DEF Sorted
<1>4. ASSUME NEW v \in Triples, NEW w \in Triples, Sorted(v, w), Sorted(w, v) PROVE v = w
  <2>1. v[1] = w[1] /\ v[2] = w[2] /\ v[3] = w[3]
    BY <1>1, <1>4 DEF Sorted
  <2> QED BY <1>1, <2>1
<1> QED BY <1>2, <1>3, <1>4

HasLast(T) == \E v \in T : \A w \in T : Sorted(w, v)

LEMMA LastExists ==
    ASSUME NEW S \in SUBSET Triples, IsFiniteSet(S), S # {} PROVE HasLast(S)
<1> DEFINE Without == {T \in SUBSET S : T # {} /\ ~HasLast(T)}
           Sizes == {Cardinality(T) : T \in Without}
<1>1. SUFFICES ASSUME S \in Without PROVE FALSE
  OBVIOUS
<1>2. Sizes \in SUBSET Nat /\ Cardinality(S) \in Sizes
  <2>1. ASSUME NEW T \in Without PROVE Cardinality(T) \in Nat
    BY FS_Subset, FS_CardinalityType
  <2> HIDE DEF Without
  <2> QED BY <1>1, <2>1
<1>3. PICK n \in Sizes : \A m \in Sizes : n <= m
  <2> HIDE DEF Sizes
  <2> QED BY <1>2, LeastNat
<1>4. PICK T \in Without : n = Cardinality(T)
  OBVIOUS
<1>5. PICK t : t \in T
  BY <1>4
<1> DEFINE U == T \ {t}
<1>6. IsFiniteSet(T) /\ T \in SUBSET Triples /\ t \in Triples
  BY <1>4, <1>5, FS_Subset
<1>7. IsFiniteSet(U) /\ Cardinality(U) = n - 1 /\ n \in Nat
  BY <1>4, <1>5, <1>6, FS_RemoveElement, FS_CardinalityType
<1>8. U \notin Without
  <2>1. ASSUME U \in Without PROVE FALSE
    <3>1. Cardinality(U) \in Sizes
      BY <2>1
    <3> HIDE DEF Sizes, U
    <3>2. n <= n - 1
      BY <1>3, <1>7, <3>1
    <3> QED BY <1>7, <3>2
  <2> QED BY <2>1
<1>9. U = {} \/ HasLast(U)
  BY <1>4, <1>8
<1>10. HasLast(T)
  <2>1. CASE U = {}
    <3>1. \A w \in T : w = t
      BY <2>1
    <3>2. Sorted(t, t)
      BY <1>6, SortedIsTotal
    <3> QED BY <1>5, <3>1, <3>2 DEF HasLast
  <2>2. CASE HasLast(U)
    <3>1. PICK v \in U : \A w \in U : Sorted(w, v)
      BY <2>2 DEF HasLast
    <3>2. v \in T /\ v \in Triples /\ \A w \in T : w = t \/ w \in U
      BY <1>6, <3>1
    <3>3. CASE Sorted(t, v)
      BY <3>1, <3>2, <3>3 DEF HasLast
    <3>4. CASE Sorted(v, t)
      <4>1. ASSUME NEW w \in T PROVE Sorted(w, t)
        <5>1. w \in Triples /\ (w = t \/ Sorted(w, v))
          BY <1>6, <3>1, <3>2
        <5> QED BY <1>6, <3>2, <3>4, <5>1, SortedIsTotal
      <4> QED BY <1>5, <4>1 DEF HasLast
    <3> QED BY <1>6, <3>2, <3>3, <3>4, SortedIsTotal
  <2> QED BY <1>9, <2>1, <2>2
<1> QED BY <1>4, <1>10

LEMMA OneHolder ==
    ASSUME NEW functions, GoodFunctions(functions), NEW rva
    PROVE  /\ (\E v \in Intervals(functions) : Holds(v, rva)) <=> Holder(functions, rva) # {}
           /\ \A i, j \in Holder(functions, rva) : i = j
           /\ \A i \in Holder(functions, rva) :
                 \E v \in Intervals(functions) :
                    /\ v[3] = i /\ Holds(v, rva)
                    /\ \A w \in Intervals(functions) : Holds(w, rva) => Sorted(w, v)
<1> DEFINE those == {v \in Intervals(functions) : Holds(v, rva)}
           last == {v \in those : \A w \in those : Sorted(w, v)}
<1>1. Holder(functions, rva) = {v[3] : v \in last}
  BY DEF Holder
<1>2. those \in SUBSET Triples /\ IsFiniteSet(those)
  BY IntervalsFinite, FS_Subset
<1>3. \A v, w \in last : v = w
  BY <1>2, SortedIsTotal
<1>4. those # {} => last # {}
  <2> HIDE DEF those
  <2> QED BY <1>2, LastExists DEF HasLast
<1>5. (\E v \in Intervals(functions) : Holds(v, rva)) <=> those # {}
  OBVIOUS
<1>6. ASSUME NEW i \in Holder(functions, rva)
      PROVE  \E v \in Intervals(functions) :
                /\ v[3] = i /\ Holds(v, rva)
                /\ \A w \in Intervals(functions) : Holds(w, rva) => Sorted(w, v)
  <2>1. PICK v \in last : i = v[3]
    BY <1>1
  <2> QED BY <2>1
<1>7. \A i, j \in Holder(functions, rva) : i = j
  <2> HIDE DEF last
  <2> QED BY <1>1, <1>3
<1>8. those # {} <=> Holder(functions, rva) # {}
  <2>1. last \in SUBSET those
    OBVIOUS
  <2> HIDE DEF last, those
  <2> QED BY <1>1, <1>4, <2>1
<1> QED BY <1>5, <1>6, <1>7, <1>8

-----------------------------------------------------------------------------
(* The entries of a unit are a sequence, whatever their addresses.         *)
LEMMA RawIsSequence ==
    ASSUME NEW bin, NEW cu, GoodUnit(cu) PROVE IsSequence(RawEntries(bin, cu))
<1> DEFINE used == {i \in DOMAIN cu.entries : cu.entries[i].line # 0}
           raw == RawEntries(bin, cu)
           N == Cardinality(used)
<1>1. N \in Nat
  <2>1. used \in SUBSET DOMAIN cu.entries
    OBVIOUS
  <2> HIDE DEF used
  <2> QED BY <2>1, PlacesFinite, FS_CardinalityType DEF GoodUnit
<1>2. DOMAIN raw = 1..N /\ raw = [n \in 1..N |-> raw[n]]
  BY DEF RawEntries
<1> HIDE DEF raw, N
<1>3. raw \in [1..N -> ToSet(raw)]
  BY <1>2 DEF ToSet
<1>4. raw \in Seq(ToSet(raw))
  BY <1>1, <1>3
<1> QED BY <1>4 DEF IsSequence, raw

(* The places of the lines of a function.                                  *)
PlacesOf(bin, cu, i) ==
    {n \in DOMAIN RawEntries(bin, cu) :
        i \in Holder(CollectFunctions(bin, cu), RawEntries(bin, cu)[n].rva)}

LEMMA LinesOfFunction ==
    ASSUME NEW bin, bin.loads \subseteq Nat, NEW cu, GoodUnit(cu),
           NEW i \in DOMAIN CollectFunctions(bin, cu)
    PROVE  LET lines == CuFunctions(bin, cu)[i].lines
               places == PlacesOf(bin, cu, i)
           IN  /\ IsFiniteSet(places) /\ places \in SUBSET Nat
               /\ Cardinality(places) \in Nat /\ DOMAIN lines = 1..Cardinality(places)
               /\ \A k \in DOMAIN lines : /\ Nth(places, k) \in places
                                         /\ lines[k] = RawEntries(bin, cu)[Nth(places, k)]
<1> DEFINE raw == RawEntries(bin, cu)
           places == PlacesOf(bin, cu, i)
           lines == CuFunctions(bin, cu)[i].lines
<1>1. lines = InOrder(raw, places)
  BY DEF CuFunctions, AssignLineEntries, PlacesOf
<1>2. places \in SUBSET DOMAIN raw
  BY DEF PlacesOf
<1> HIDE DEF raw, places, lines
<1>3. IsSequence(raw)
  BY RawIsSequence DEF raw
<1>4. IsFiniteSet(places) /\ places \in SUBSET Nat
  BY <1>2, <1>3, PlacesFinite
<1>5. /\ Cardinality(places) \in Nat /\ DOMAIN lines = 1..Cardinality(places)
      /\ \A k \in DOMAIN lines : Nth(places, k) \in places /\ lines[k] = raw[Nth(places, k)]
  BY <1>1, <1>4, InOrderLists
<1> QED BY <1>4, <1>5 DEF raw, places, lines

LEMMA SameIntervals ==
    ASSUME NEW bin, bin.loads \subseteq Nat, NEW cu, GoodUnit(cu)
    PROVE  Intervals(CuFunctions(bin, cu)) = Intervals(CollectFunctions(bin, cu))
<1> DEFINE functions == CollectFunctions(bin, cu)
           listed == CuFunctions(bin, cu)
<1>1. DOMAIN listed = DOMAIN functions /\ \A i \in DOMAIN functions : listed[i].ranges = functions[i].ranges
  BY FunctionsOfUnit
<1> HIDE DEF functions, listed
<1>2. Intervals(listed) = Intervals(functions)
  BY <1>1 DEF Intervals
<1> QED BY <1>2 DEF functions, listed

(* A line and its place in its function are as good as its place among the *)
(* entries that some interval holds.                                       *)
LEMMA EachLineOnce ==
    ASSUME NEW bin, bin.loads \subseteq Nat, NEW cu, GoodUnit(cu)
    PROVE  LET functions == CuFunctions(bin, cu)
               raw == RawEntries(bin, cu)
               covered == {n \in DOMAIN raw : \E v \in Intervals(functions) : Holds(v, raw[n].rva)}
               listed == UNION {{i} \X DOMAIN functions[i].lines : i \in DOMAIN functions}
           IN  Cardinality(listed) = Cardinality(covered)
<1> DEFINE functions == CuFunctions(bin, cu)
           collected == CollectFunctions(bin, cu)
           raw == RawEntries(bin, cu)
           covered == {n \in DOMAIN raw : \E v \in Intervals(functions) : Holds(v, raw[n].rva)}
           listed == UNION {{i} \X DOMAIN functions[i].lines : i \in DOMAIN functions}
           H(n) == Holder(collected, raw[n].rva)
           P(i) == PlacesOf(bin, cu, i)
           D == DOMAIN collected
           Of(n) == CHOOSE i \in D : i \in H(n)
           pair == [n \in covered |-> <<Of(n), Rank(P(Of(n)), n)>>]
<1>1. GoodFunctions(collected) /\ DOMAIN functions = D /\ Intervals(functions) = Intervals(collected)
  BY FunctionsOfUnit, SameIntervals
<1>2. ASSUME NEW n PROVE /\ H(n) \in SUBSET D
                         /\ \A i, j \in H(n) : i = j
                         /\ (\E v \in Intervals(collected) : Holds(v, raw[n].rva)) <=> H(n) # {}
  <2>1. H(n) \in SUBSET D
    BY DEF Holder, Intervals
  <2> HIDE DEF collected, raw
  <2> QED BY <1>1, <2>1, OneHolder
<1>3. ASSUME NEW i \in D
      PROVE  /\ P(i) = {n \in DOMAIN raw : i \in H(n)}
             /\ IsFiniteSet(P(i)) /\ P(i) \in SUBSET Nat
             /\ DOMAIN functions[i].lines = 1..Cardinality(P(i))
  <2>1. P(i) = {n \in DOMAIN raw : i \in H(n)}
    BY DEF PlacesOf
  <2>2. i \in DOMAIN CollectFunctions(bin, cu)
    OBVIOUS
  <2>3. /\ IsFiniteSet(PlacesOf(bin, cu, i)) /\ PlacesOf(bin, cu, i) \in SUBSET Nat
        /\ DOMAIN CuFunctions(bin, cu)[i].lines = 1..Cardinality(PlacesOf(bin, cu, i))
    BY <2>2, LinesOfFunction
  <2> QED BY <2>1, <2>3
<1>4. IsFiniteSet(covered)
  BY RawIsSequence, PlacesFinite
<1> HIDE DEF functions, collected, raw, P, H, D
<1>5. covered = {n \in DOMAIN raw : H(n) # {}}
  BY <1>1, <1>2
<1>6. ASSUME NEW n \in DOMAIN raw, NEW i \in D, i \in H(n) PROVE n \in covered /\ Of(n) = i
  BY <1>2, <1>5, <1>6
<1>7. ASSUME NEW n \in covered
      PROVE  Of(n) \in D /\ n \in P(Of(n)) /\ Rank(P(Of(n)), n) \in DOMAIN functions[Of(n)].lines
  <2>1. n \in DOMAIN raw /\ \E i \in D : i \in H(n)
    BY <1>2, <1>5
  <2>2. Of(n) \in D /\ Of(n) \in H(n)
    BY <2>1
  <2> HIDE DEF Of
  <2>3. n \in P(Of(n))
    BY <1>3, <2>1, <2>2
  <2> QED BY <1>3, <2>2, <2>3, NthOfRank
<1>8. \A i, k : <<i, k>> \in listed <=> i \in D /\ k \in DOMAIN functions[i].lines
  BY <1>1
<1> HIDE DEF covered, Of
<1>9. pair \in [covered -> listed]
  <2> HIDE DEF listed
  <2> QED BY <1>7, <1>8
<1>10. ASSUME NEW n \in covered, NEW m \in covered, pair[n] = pair[m] PROVE n = m
  <2>1. Of(n) = Of(m) /\ Rank(P(Of(n)), n) = Rank(P(Of(n)), m)
    BY <1>10
  <2>2. Of(n) \in D /\ n \in P(Of(n)) /\ m \in P(Of(n))
    BY <1>7, <2>1
  <2> DEFINE S == P(Of(n))
  <2>3. IsFiniteSet(S) /\ S \in SUBSET Nat /\ n \in S /\ m \in S /\ Rank(S, n) = Rank(S, m)
    BY <1>3, <2>1, <2>2
  <2> HIDE DEF S
  <2> QED BY <2>3, NthOfRank
<1>11. ASSUME NEW x \in listed PROVE \E n \in covered : pair[n] = x
  <2>0. PICK i \in D : \E k \in DOMAIN functions[i].lines : x = <<i, k>>
    BY <1>1
  <2>1. PICK k \in DOMAIN functions[i].lines : x = <<i, k>>
    BY <2>0
  <2> DEFINE n == Nth(P(i), k)
  <2>2. k \in 1..Cardinality(P(i)) /\ IsFiniteSet(P(i)) /\ P(i) \in SUBSET Nat
    BY <1>3
  <2>3. n \in P(i) /\ Rank(P(i), n) = k
    BY <2>2, NthHasRank
  <2> HIDE DEF n
  <2>4. n \in DOMAIN raw /\ i \in H(n)
    BY <1>3, <2>3
  <2>5. n \in covered /\ Of(n) = i
    BY <1>6, <2>4
  <2> QED BY <2>1, <2>3, <2>5
<1>12. pair \in Bijection(covered, listed)
  <2> HIDE DEF pair, listed
  <2> QED BY <1>9, <1>10, <1>11 DEF Bijection, Injection, Surjection, IsInjective
<1> HIDE DEF pair, listed
<1>13. ExistsBijection(covered, listed)
  BY <1>12 DEF ExistsBijection
<1>14. Cardinality(listed) = Cardinality(covered)
  BY <1>4, <1>13, FS_Bijection
<1> QED BY <1>14 DEF functions, raw, covered, listed

LEMMA LinesAssigned ==
    ASSUME NEW bin, bin.loads \subseteq Nat, NEW cu, GoodUnit(cu)
    PROVE  LinesAreAssigned(bin, cu)
<1> DEFINE functions == CuFunctions(bin, cu)
           collected == CollectFunctions(bin, cu)
           raw == RawEntries(bin, cu)
<1>1. /\ GoodFunctions(collected) /\ DOMAIN functions = DOMAIN collected
      /\ Intervals(functions) = Intervals(collected)
      /\ \A i \in DOMAIN collected : functions[i].ranges = collected[i].ranges
  BY FunctionsOfUnit, SameIntervals
<1>2. ASSUME NEW i \in DOMAIN collected, NEW k \in DOMAIN functions[i].lines
      PROVE  i \in Holder(collected, functions[i].lines[k].rva)
  <2> DEFINE places == PlacesOf(bin, cu, i)
             n == Nth(places, k)
  <2>1. i \in DOMAIN CollectFunctions(bin, cu) /\ k \in DOMAIN CuFunctions(bin, cu)[i].lines
    OBVIOUS
  <2>2. n \in places /\ CuFunctions(bin, cu)[i].lines[k] = RawEntries(bin, cu)[n]
    BY <2>1, LinesOfFunction
  <2> HIDE DEF n
  <2>3. i \in Holder(CollectFunctions(bin, cu), RawEntries(bin, cu)[n].rva)
    BY <2>2 DEF PlacesOf
  <2> QED BY <2>2, <2>3
<1>3. ASSUME NEW f \in ToSet(functions), NEW l \in ToSet(f.lines)
      PROVE  \E r \in ToSet(f.ranges) :
                /\ Holds(r, l.rva)
                /\ \A v \in Intervals(functions) :
                      Holds(v, l.rva) => ~(v[1] > r[1] /\ v[2] <= r[2])
  <2> HIDE DEF functions, collected
  <2>1. PICK i \in DOMAIN collected : f = functions[i]
    BY <1>1 DEF ToSet
  <2>2. PICK k \in DOMAIN f.lines : l = f.lines[k]
    BY DEF ToSet
  <2>3. i \in Holder(collected, l.rva)
    BY <1>2, <2>1, <2>2
  <2>4. PICK v \in Intervals(collected) :
           /\ v[3] = i /\ Holds(v, l.rva)
           /\ \A w \in Intervals(collected) : Holds(w, l.rva) => Sorted(w, v)
    BY <1>1, <2>3, OneHolder
  <2>5. PICK r \in ToSet(f.ranges) : v = <<r[1], r[2], i>>
    <3>1. \E j \in DOMAIN collected : \E r \in ToSet(collected[j].ranges) : v = <<r[1], r[2], j>>
      BY DEF Intervals
    <3> QED BY <1>1, <2>1, <2>4, <3>1
  <2>6. Holds(r, l.rva) /\ v[1] = r[1] /\ v[2] = r[2]
    BY <2>4, <2>5 DEF Holds
  <2>7. ASSUME NEW w \in Intervals(functions), Holds(w, l.rva) PROVE ~(w[1] > r[1])
    <3>1. Sorted(w, v) /\ w \in Triples /\ v \in Triples
      BY <1>1, <2>4, <2>7, IntervalsFinite
    <3>2. w[1] \in Int /\ v[1] \in Int /\ w[1] <= v[1]
      BY <3>1 DEF Sorted, Triples
    <3> QED BY <2>6, <3>2
  <2> QED BY <2>6, <2>7
<1> QED BY <1>3, EachLineOnce DEF LinesAreAssigned

(* The constants are as assumed. *)
LEMMA ExtractionSound == ExtractionIsSound
<1>1. ASSUME NEW bin \in Programs, NEW jobs \in Jobs, NEW poolFails \in BOOLEAN
      PROVE  ExtractDwarfInfo(bin, jobs, poolFails) = ExtractDwarfInfo(bin, 1, FALSE)
  <2>1. IsSequence(bin.cus) /\ jobs \in Nat \ {0}
    BY ProgramsAssumption
  <2> QED BY <2>1, ShardingIsSound
<1>2. ASSUME NEW bin \in Programs, NEW cu \in ToSet(bin.cus) PROVE LinesAreAssigned(bin, cu)
  <2>1. bin.loads \subseteq Nat /\ GoodUnit(cu)
    BY ProgramsAssumption DEF GoodUnit, GoodDie
  <2> QED BY <2>1, LinesAssigned
<1>3. ASSUME NEW h \in Headers, NEW n \in DOMAIN h.files
      PROVE  FileTable(4, h.files, h.dirs, h.compDir)[n]
               = FileTable(5, h.files, <<h.compDir>> \o h.dirs, h.compDir)[n - 1]
  <2>1. IsSequence(h.files) /\ IsSequence(h.dirs)
    BY ProgramsAssumption
  <2> QED BY <2>1, TablesAgree
<1> QED BY <1>1, <1>2, <1>3 DEF ExtractionIsSound

(* Whatever the binaries, however many processes share one and whichever   *)
(* table a linker wrote, the debug information a builder saves is sound.   *)
THEOREM DebugInfoIsSoundHolds == Spec => []DebugInfoIsSound
<1>1. DebugInfoIsSound
  BY ExtractionSound DEF DebugInfoIsSound
<1> QED BY <1>1, PTL
=============================================================================
