----------------------------- MODULE BuilderTask -----------------------------
(***************************************************************************)
(* One task inside a builder, from the message to the clean-up, and what   *)
(* it leaves behind: the source archive and its pointer, which builders of *)
(* one repository share, the objects of the build, and the rows the        *)
(* coordinator writes about them.                                          *)
(*                                                                         *)
(* The repository itself moves on meanwhile.  A working tree is the commit *)
(* git checked out, the commits whose files linger beside it, and the      *)
(* tasks whose build products lie in it.  Object storage is configured     *)
(* (s3_enabled), so builders work below a temporary directory.             *)
(*                                                                         *)
(* A report reaches the coordinator in the step that publishes it, or is   *)
(* delivered twice when its consumer's connection dies between commit and  *)
(* acknowledgement; how late reports may be is TaskDispatch's subject.     *)
(*                                                                         *)
(* An S3 call works, is refused (a ClientError, which S3Bucket turns into  *)
(* False), or raises anything else, an unreachable endpoint say.           *)
(*                                                                         *)
(* Bounds: MaxHead[r] commits of a repository, MaxFaults faults (refused or    *)
(* raising calls, a failing rev-parse, crashes, duplicated tasks,          *)
(* redelivered reports).                                                   *)
(***************************************************************************)
EXTENDS Integers, Sequences, FiniteSets, IrStages, BuildTools, DwarfBudget, DwarfExtract

CONSTANTS
    Tasks, Repos, Opts, Builders,
    RepoOf, OptOf,  \* the repository and the build option of a task
    Serves,         \* the option a builder registered for
    Strategy,       \* Strategy[o]: "c", or the codegen backend of a Rust tier
    Requested,      \* IR_STAGES
    RepoScope,      \* whether IR_SCOPE is repo, not all
    Crate,          \* Crate[r]: the name of the repository's crate
    FilesOf,        \* FilesOf[r]: the names of its files that matter
    MaxHead, MaxFaults, None

ASSUME BuilderAssumption ==
    /\ RepoOf \in [Tasks -> Repos]
    /\ OptOf \in [Tasks -> Opts]
    /\ Serves \in [Builders -> Opts]
    /\ Strategy \in [Opts -> {"c"} \cup CodegenBackends]
    /\ RepoScope \in BOOLEAN
    /\ DOMAIN Crate = Repos
    /\ DOMAIN FilesOf = Repos
    /\ MaxHead \in [Repos -> Nat \ {0}] /\ MaxFaults \in Nat
    /\ None \notin Tasks /\ None \notin Nat

VARIABLES
    head,           \* the repositories on GitHub
    archives,       \* bucket project-archive: the trees, per repository and sha
    pointer,        \* its latest.txt objects
    objects,        \* bucket artifacts
    todo,           \* build_opt queues: how often a task is on them
    at,             \* where each builder stands in run_task
    job,            \* what it knows about the task it works on
    tree,           \* its clone directories
    gccjit,         \* its /tmp/gccjit_dumps: the tasks whose dumps are there
    rows,           \* b_status, binaries and ir_artifacts, per task
    faults,
    refused,        \* history: <<task, file>> whose upload was refused
    orphaned,       \* history: the repositories of which a tree was left behind,
    unswept         \* and those of which rmtree failed to remove it

vars == <<head, archives, pointer, objects, todo, at, job, tree, gccjit,
          rows, faults, refused, orphaned, unswept>>
shared == <<head, archives, pointer>>
rest == <<todo, refused, orphaned, unswept>>

Unknown == 0        \* the label get_project_commit falls back to
Commits == UNION {1..MaxHead[r] : r \in Repos}
Labels == {Unknown} \cup Commits
Stages == IrStage \cap Requested
Files == {"metadata", "binary", "manifest"} \cup Stages

NoTree == [commit |-> None, extra |-> {}, products |-> {}]
Idle == [task |-> None, label |-> None, binary |-> FALSE, dwarf |-> 0,
         status |-> "INIT", saved |-> {}]

Repo(b) == RepoOf[job[b].task]
Tree(b) == tree[b][Repo(b)]
Contents(tr) == {tr.commit} \cup tr.extra

-----------------------------------------------------------------------------
Fault == faults < MaxFaults /\ faults' = faults + 1
NoFault == UNCHANGED faults

Goes(b, p) == at' = [at EXCEPT ![b] = p]
SetJob(b, field, v) == job' = [job EXCEPT ![b][field] = v]
SetTree(b, tr) == tree' = [tree EXCEPT ![b][Repo(b)] = tr]

(* layout.build_dir and its file names: one directory per repository,      *)
(* commit and build option.                                                *)
Dir(b) == <<Repo(b), job[b].label, Serves[b]>>

(* Putting an object replaces what the key held. *)
Put(b, file, builds, lists) ==
    objects' = {o \in objects : ~(o.dir = Dir(b) /\ o.file = file)} \cup
               {[dir |-> Dir(b), file |-> file, from |-> Contents(Tree(b)),
                 builds |-> builds, lists |-> lists]}

Refuse(b, file) ==
    /\ Fault
    /\ refused' = refused \cup {<<job[b].task, file>>}
    /\ UNCHANGED objects

(* The coordinator's handlers.  n is how often the message is delivered:   *)
(* once, or twice at the price of a fault.                                 *)
Delivered(n) == \/ n = 1 /\ NoFault
                \/ n = 2 /\ Fault

HandleBuildStatus(b, status) ==
    rows' = [rows EXCEPT ![job[b].task].status = status, ![job[b].task].commit = job[b].label]

HandleBinary(b, n) == rows' = [rows EXCEPT ![job[b].task].binaries = @ + n]

(* Mutant: the stages are inserted. *)
InsertIr(b, stages, n) ==
    rows' = [rows EXCEPT ![job[b].task].ir =
                [s \in Stages |-> IF s \in stages THEN @[s] + n ELSE @[s]]]

HandleIr(b, stages, n) ==
    rows' = [rows EXCEPT ![job[b].task].ir =
                [s \in Stages |-> IF s \in stages THEN 1 ELSE @[s]]]

-----------------------------------------------------------------------------
Init ==
    /\ head = [r \in Repos |-> 1]
    /\ archives = [r \in Repos |-> [c \in Labels |-> NoTree]]
    /\ pointer = [r \in Repos |-> None]
    /\ objects = {}
    /\ todo = [t \in Tasks |-> 1]
    /\ at = [b \in Builders |-> "idle"]
    /\ job = [b \in Builders |-> Idle]
    /\ tree = [b \in Builders |-> [r \in Repos |-> NoTree]]
    /\ gccjit = [b \in Builders |-> {}]
    /\ rows = [t \in Tasks |-> [status |-> "INIT", commit |-> None, binaries |-> 0,
                                ir |-> [s \in Stages |-> 0]]]
    /\ faults = 0
    /\ refused = {}
    /\ orphaned = {}
    /\ unswept = {}

-----------------------------------------------------------------------------
(* The world around: somebody pushes, and the dispatcher's publish is      *)
(* confirmed too late and done twice.                                      *)
Push(r) ==
    /\ head[r] < MaxHead[r]
    /\ head' = [head EXCEPT ![r] = @ + 1]
    /\ UNCHANGED <<archives, pointer, objects, at, job, tree, gccjit, rows,
                   faults, rest>>

Duplicate(t) ==
    /\ todo[t] = 1
    /\ Fault
    /\ todo' = [todo EXCEPT ![t] = 2]
    /\ UNCHANGED <<shared, objects, at, job, tree, gccjit, rows, refused, orphaned, unswept>>

-----------------------------------------------------------------------------
(* acquire_source: restore what the pointer names, or clone and archive.   *)

(* The message is acknowledged before run_task begins. *)
TakeTask(b) ==
    /\ at[b] = "idle"
    /\ \E t \in Tasks :
          /\ OptOf[t] = Serves[b] /\ todo[t] > 0
          /\ todo' = [todo EXCEPT ![t] = @ - 1]
          /\ job' = [job EXCEPT ![b] = [Idle EXCEPT !.task = t]]
    /\ Goes(b, "pointer")
    /\ UNCHANGED <<shared, objects, tree, gccjit, rows, faults, refused, orphaned, unswept>>

(* An exception out of acquire_source reaches the consumer, which only     *)
(* logs it: the task is gone, and the tree is not cleaned.                 *)
RaiseEarly(b) ==
    /\ at[b] \in {"pointer", "fetch", "point"}
    /\ Fault
    /\ orphaned' = orphaned \cup (IF Tree(b) = NoTree THEN {} ELSE {Repo(b)})
    /\ Goes(b, "idle")
    /\ job' = [job EXCEPT ![b] = Idle]
    /\ UNCHANGED <<shared, objects, tree, gccjit, rows, todo, refused, unswept>>

ReadPointer(b) ==
    /\ at[b] = "pointer"
    /\ \/ /\ pointer[Repo(b)] # None
          /\ SetJob(b, "label", pointer[Repo(b)])
          /\ Goes(b, "fetch")
          /\ NoFault
       \/ /\ (pointer[Repo(b)] = None /\ NoFault) \/ (pointer[Repo(b)] # None /\ Fault)
          /\ Goes(b, "clone")
          /\ UNCHANGED job
    /\ UNCHANGED <<shared, objects, tree, gccjit, rows, rest>>

(* _download_archive and _restore_archive: unpacks over whatever the       *)
(* directory holds; an archive that does not unpack takes it away.         *)
RestoreArchive(b) ==
    LET archive == archives[Repo(b)][job[b].label]
        lingers == IF Tree(b) = NoTree THEN {} ELSE Contents(Tree(b))
    IN /\ at[b] = "fetch"
       /\ \/ /\ archive # NoTree
             /\ SetTree(b, [archive EXCEPT !.extra = (@ \cup lingers) \ {archive.commit},
                                           !.products = @ \cup Tree(b).products])
             /\ Goes(b, "restored")
             /\ NoFault
          \/ /\ (IF archive = NoTree THEN NoFault ELSE Fault)
             /\ Goes(b, "clone")
             /\ UNCHANGED tree
          \/ /\ archive # NoTree /\ Fault
             /\ SetTree(b, NoTree)
             /\ Goes(b, "clone")
    /\ UNCHANGED <<shared, objects, job, gccjit, rows, rest>>

(* _clone: pulls in a directory that exists.  A failure is reported and    *)
(* may leave a tree (os.removedirs removes only what is empty).            *)
Clone(b) ==
    /\ at[b] = "clone"
    /\ \E ok \in BOOLEAN, leaves \in BOOLEAN :
          LET new == [commit |-> head[Repo(b)],
                      extra |-> Tree(b).extra \ {head[Repo(b)]},
                      products |-> Tree(b).products]
          IN /\ IF ok \/ leaves THEN SetTree(b, new) ELSE UNCHANGED tree
             /\ ok => ~leaves
             /\ Goes(b, IF ok THEN "cloned" ELSE "idle")
             /\ job' = IF ok THEN job ELSE [job EXCEPT ![b] = Idle]
             /\ orphaned' = orphaned \cup (IF ~ok /\ (leaves \/ Tree(b) # NoTree)
                                          THEN {Repo(b)} ELSE {})
    /\ UNCHANGED <<shared, objects, gccjit, rows, faults, todo, refused, unswept>>

(* Mutant: the build carries the name the pointer gave. *)
PointerCommit(b) ==
    /\ at[b] \in {"restored", "cloned"}
    /\ job' = [job EXCEPT ![b].label = IF @ = None THEN Tree(b).commit ELSE @]
    /\ Goes(b, IF at[b] = "restored" THEN "report" ELSE "archive")
    /\ NoFault
    /\ UNCHANGED <<shared, objects, tree, gccjit, rows, rest>>

(* The name of the source is what git says of the tree, "Unknown" when git *)
(* fails.  (A task carries no sha of its own: the dispatcher sends none.)  *)
GetProjectCommit(b) ==
    /\ at[b] \in {"restored", "cloned"}
    /\ \/ SetJob(b, "label", Tree(b).commit) /\ NoFault
       \/ SetJob(b, "label", Unknown) /\ Fault
    /\ Goes(b, IF at[b] = "restored" THEN "report" ELSE "archive")
    /\ UNCHANGED <<shared, objects, tree, gccjit, rows, rest>>

(* Mutant: the pointer is written first. *)
UploadPointerFirst(b) ==
    /\ at[b] = "archive"
    /\ pointer' = [pointer EXCEPT ![Repo(b)] = job[b].label]
    /\ Goes(b, "point")
    /\ NoFault
    /\ UNCHANGED <<head, archives, objects, job, tree, gccjit, rows, rest>>

UploadArchive(b) ==
    /\ at[b] = "archive"
    /\ \/ /\ archives' = [archives EXCEPT ![Repo(b)][job[b].label] = Tree(b)]
          /\ Goes(b, "point")
          /\ NoFault
       \/ /\ Fault
          /\ Goes(b, "report")
          /\ UNCHANGED archives
    /\ UNCHANGED <<head, pointer, objects, job, tree, gccjit, rows, rest>>

PutPointer(b) ==
    /\ at[b] = "point"
    /\ \/ /\ pointer' = [pointer EXCEPT ![Repo(b)] = job[b].label]
          /\ NoFault
       \/ Fault /\ UNCHANGED pointer
    /\ Goes(b, "report")
    /\ UNCHANGED <<head, archives, objects, job, tree, gccjit, rows, rest>>

-----------------------------------------------------------------------------
(* run_task after the source is there. *)

ReportProcessing(b) ==
    /\ at[b] = "report"
    /\ HandleBuildStatus(b, "PROCESSING")
    /\ Goes(b, "build")
    /\ UNCHANGED <<shared, objects, job, tree, gccjit, faults, rest>>

(* What lay in the tree before the build (original_files) is not taken for *)
(* a product, so a build over old products finds none.                     *)
NewBinaries(b, found) == found /\ Tree(b).products = {}

Runs(b) ==
    IF Strategy[Serves[b]] = "c" THEN LinuxBuild(FilesOf[Repo(b)]) ELSE RustBuild(FilesOf[Repo(b)])

(* strategy.prepare and build: the products and, for cg_gcc, its dumps     *)
(* appear whatever the exit code.                                          *)
Build(b) ==
    LET backend == Strategy[Serves[b]] IN
    /\ at[b] = "build"
    /\ \E r \in Runs(b) :
          /\ job' = [job EXCEPT
                ![b].status = IF r.ok THEN "SUCCESS" ELSE "FAILED",
                ![b].binary = NewBinaries(b, IF backend = "c" THEN FindBinaries(r)
                                                              ELSE CargoBinaries(r))]
          /\ SetTree(b, IF r.leaves THEN [Tree(b) EXCEPT !.products = @ \cup {job[b].task}]
                                    ELSE Tree(b))
    /\ gccjit' = IF Runs(b) # NoCommand /\ backend # "c" /\ DumpsGimple(Stages, backend)
                 THEN [gccjit EXCEPT ![b] = @ \cup {job[b].task}] ELSE gccjit
    /\ Goes(b, "debug")
    /\ UNCHANGED <<shared, objects, rows, faults, rest>>

(* strategy.debug_info, whatever the status. *)
DebugInfo(b) ==
    /\ at[b] = "debug"
    /\ \E needs \in IF job[b].binary THEN Durations ELSE {<<>>} :
          SetJob(b, "dwarf", Spent(needs))
    /\ Goes(b, IF job[b].status = "SUCCESS" THEN "metadata" ELSE "finish")
    /\ UNCHANGED <<shared, objects, tree, gccjit, rows, faults, rest>>

(* save_metadata_to_s3: on a refusal the manifest will have no metadata.   *)
SaveMetadata(b) ==
    /\ at[b] = "metadata"
    /\ \/ /\ Put(b, "metadata", {job[b].task}, {})
          /\ job' = [job EXCEPT ![b].saved = {"metadata"}, ![b].dwarf = 0]
          /\ NoFault /\ UNCHANGED refused
       \/ Refuse(b, "metadata") /\ SetJob(b, "dwarf", 0)
    /\ Goes(b, "binaries")
    /\ UNCHANGED <<shared, tree, gccjit, rows, todo, orphaned, unswept>>

(* Mutant: the file names are reported before the uploads. *)
ReportThenSave(b) ==
    /\ at[b] = "binaries"
    /\ job[b].binary
    /\ HandleBinary(b, 1)
    /\ Goes(b, "ir")
    /\ \/ Put(b, "binary", {job[b].task}, {}) /\ UNCHANGED faults
       \/ Fault /\ UNCHANGED objects
    /\ SetJob(b, "saved", job[b].saved \cup {"binary"})
    /\ UNCHANGED <<shared, tree, gccjit, rest>>

(* save_binaries: a file whose upload is refused is still reported and     *)
(* still listed in the manifest.                                           *)
SaveBinaries(b) ==
    /\ at[b] = "binaries"
    /\ IF job[b].binary
       THEN /\ \/ /\ Put(b, "binary", {job[b].task}, {})
                  /\ \E n \in 1..2 : Delivered(n) /\ HandleBinary(b, n)
                  /\ UNCHANGED refused
               \/ Refuse(b, "binary") /\ HandleBinary(b, 1)
            /\ SetJob(b, "saved", job[b].saved \cup {"binary"})
       ELSE UNCHANGED <<objects, faults, refused, job, rows>>
    /\ Goes(b, "ir")
    /\ UNCHANGED <<shared, tree, gccjit, todo, orphaned, unswept>>

(* collect_ir: what the build emitted into its target directory, what lies *)
(* in the dump directory of libgccjit, and what the extra passes print.    *)
Members(b) == {Crate[Repo(b)]}

DumpsOf(stages, tasks) ==
    {[stage |-> s, crate |-> Crate[RepoOf[t]], task |-> t] : s \in stages, t \in tasks}

Dumps(b, failing) ==
    LET backend == Strategy[Serves[b]]
        target == DumpsOf(RideAlongEmit(Stages, backend), Tree(b).products)
    IN IF backend = "c" THEN {}
       ELSE DiscoverRideAlong(target, Stages, Members(b), RepoScope)
            \cup (IF DumpsGimple(Stages, backend)
                  THEN DiscoverGimple(DumpsOf({"GIMPLE"}, gccjit[b]), Members(b), RepoScope)
                  ELSE {})
            \cup RunUnpretty(Stages, backend, Members(b), job[b].task, failing)

IrObjects(b, dumps, put) ==
    {[dir |-> Dir(b), file |-> s, from |-> Contents(Tree(b)),
      builds |-> {d.task : d \in {e \in dumps : e.stage = s}}, lists |-> {}] : s \in put}

(* _persist_ir: a stage may fail or be over IR_MAX_BYTES; a tarball whose  *)
(* upload is refused is listed and reported all the same; an exception     *)
(* ends the uploads, and nothing is reported.                              *)
PersistIr(b) ==
    /\ at[b] = "ir"
    /\ \E without \in SUBSET Stages :
          LET dumps == Dumps(b, without)
              packed == Pack(dumps, without)
              Stored(put) == objects' = {o \in objects : ~(o.dir = Dir(b) /\ o.file \in put)}
                                        \cup IrObjects(b, dumps, put)
          IN \/ /\ Stored(packed)
                /\ \E n \in 1..2 : Delivered(n) /\ HandleIr(b, packed, n)
                /\ UNCHANGED refused
                /\ SetJob(b, "saved", job[b].saved \cup packed)
             \/ \E s \in packed :
                   /\ Stored(packed \ {s})
                   /\ Fault
                   /\ refused' = refused \cup {<<job[b].task, s>>}
                   /\ SetJob(b, "saved", job[b].saved \cup packed)
                   /\ HandleIr(b, packed, 1)
             \/ \E put \in SUBSET packed :
                   /\ packed # {}
                   /\ Stored(put)
                   /\ Fault
                   /\ SetJob(b, "saved", job[b].saved \cup put)
                   /\ UNCHANGED <<rows, refused>>
    /\ Goes(b, "manifest")
    /\ UNCHANGED <<shared, tree, gccjit, todo, orphaned, unswept>>

SaveExportManifest(b) ==
    /\ at[b] = "manifest"
    /\ \/ Put(b, "manifest", {job[b].task}, job[b].saved) /\ NoFault /\ UNCHANGED refused
       \/ Refuse(b, "manifest")
    /\ Goes(b, "finish")
    /\ UNCHANGED <<shared, job, tree, gccjit, rows, todo, orphaned, unswept>>

(* Mutant: the exception is swallowed and the result reported. *)
SwallowLate(b) ==
    /\ at[b] \in {"report", "build", "metadata", "binaries", "manifest", "finish"}
    /\ Fault
    /\ Goes(b, "finish")
    /\ UNCHANGED <<shared, objects, job, tree, gccjit, rows, rest>>

(* An exception inside the try (a publish that gives up, a strategy that   *)
(* raises, an unreachable endpoint): the rest is lost, the tree cleaned.   *)
RaiseLate(b) ==
    /\ at[b] \in {"report", "build", "metadata", "binaries", "manifest", "finish"}
    /\ Fault
    /\ Goes(b, "clean")
    /\ UNCHANGED <<shared, objects, job, tree, gccjit, rows, rest>>

ReportFinished(b) ==
    /\ at[b] = "finish"
    /\ HandleBuildStatus(b, job[b].status)
    /\ Goes(b, "clean")
    /\ UNCHANGED <<shared, objects, job, tree, gccjit, faults, rest>>

(* Mutant: the tree is kept for the next task. *)
KeepFolder(b) ==
    /\ at[b] = "clean"
    /\ Goes(b, "idle")
    /\ job' = [job EXCEPT ![b] = Idle]
    /\ UNCHANGED <<shared, objects, tree, gccjit, rows, faults, rest>>

(* _clean_folder and _sweep_stale_scratch: rmtree ignores its errors, so   *)
(* what it cannot remove stays, and nobody is told. (What is left of a     *)
(* tree that is removed in part is not told apart from the whole.)         *)
Remains(left) == orphaned' = orphaned \cup left /\ unswept' = unswept \cup left

CleanFolder(b) ==
    /\ at[b] = "clean"
    /\ \/ SetTree(b, NoTree) /\ NoFault /\ UNCHANGED <<orphaned, unswept>>
       \/ UNCHANGED tree /\ Fault /\ Remains({Repo(b)})
    /\ Goes(b, "idle")
    /\ job' = [job EXCEPT ![b] = Idle]
    /\ UNCHANGED <<shared, objects, gccjit, rows, todo, refused>>

(* A SIGKILL takes the task; docker restarts the container with its files. *)
Crash(b) ==
    /\ at[b] \notin {"idle", "down"}
    /\ Fault
    /\ Goes(b, "down")
    /\ UNCHANGED <<shared, objects, job, tree, gccjit, rows, rest>>

(* Mutant: a new process takes the directories as they are. *)
StartDirty(b) ==
    /\ at[b] = "down"
    /\ Goes(b, "idle")
    /\ job' = [job EXCEPT ![b] = Idle]
    /\ UNCHANGED <<shared, objects, tree, gccjit, rows, faults, rest>>

(* The sweep comes before the first task. *)
Restart(b) ==
    /\ at[b] = "down"
    /\ \E left \in SUBSET {r \in Repos : tree[b][r] # NoTree} :
          /\ IF left = {} THEN NoFault ELSE Fault
          /\ tree' = [tree EXCEPT ![b] = [r \in Repos |-> IF r \in left THEN @[r] ELSE NoTree]]
          /\ Remains(left)
    /\ Goes(b, "idle")
    /\ job' = [job EXCEPT ![b] = Idle]
    /\ UNCHANGED <<shared, objects, gccjit, rows, todo, refused>>

Work(b) ==
    \/ ReadPointer(b) \/ RestoreArchive(b) \/ Clone(b) \/ GetProjectCommit(b)
    \/ UploadArchive(b) \/ PutPointer(b) \/ ReportProcessing(b) \/ Build(b) \/ DebugInfo(b)
    \/ SaveMetadata(b) \/ SaveBinaries(b) \/ PersistIr(b) \/ SaveExportManifest(b)
    \/ ReportFinished(b) \/ CleanFolder(b)

Next ==
    \/ \E r \in Repos : Push(r)
    \/ \E t \in Tasks : Duplicate(t)
    \/ \E b \in Builders :
          TakeTask(b) \/ Work(b) \/ RaiseEarly(b) \/ RaiseLate(b) \/ Crash(b) \/ Restart(b)

Spec == Init /\ [][Next]_vars

-----------------------------------------------------------------------------
Tree_ == [commit : Commits \cup {None}, extra : SUBSET Commits,
          products : SUBSET Tasks]
Places == {"idle", "pointer", "fetch", "clone", "restored", "cloned", "archive", "point",
           "report", "build", "debug", "metadata", "binaries", "ir", "manifest", "finish",
           "clean", "down"}

(* Every variable keeps its type: in particular a builder between two      *)
(* tasks knows of none, and a tree that is there is the tree of a commit.  *)
TypeOK ==
    /\ head \in [Repos -> Commits]
    /\ archives \in [Repos -> [Labels -> Tree_]]
    /\ pointer \in [Repos -> Labels \cup {None}]
    /\ objects \subseteq [dir : Repos \X Labels \X Opts, file : Files,
                          from : SUBSET Commits, builds : SUBSET Tasks,
                          lists : SUBSET Files]
    /\ todo \in [Tasks -> 0..2]
    /\ at \in [Builders -> Places]
    /\ \A b \in Builders : at[b] = "idle" => job[b] = Idle
    /\ \A b \in Builders : at[b] \notin {"idle", "down"} => job[b].task \in Tasks
    /\ tree \in [Builders -> [Repos -> Tree_]]
    /\ \A b \in Builders, r \in Repos :
          tree[b][r].commit = None => tree[b][r].extra = {} /\ tree[b][r].products = {}
    /\ gccjit \in [Builders -> SUBSET Tasks]
    /\ faults \in 0..MaxFaults
    /\ refused \subseteq Tasks \X Files
    /\ orphaned \subseteq Repos /\ unswept \subseteq orphaned

(* Builders of one repository agree on its source through the pointer:     *)
(* whatever fails or is killed between the two uploads, the pointer names  *)
(* an archive that is there.                                               *)
PointerHasArchive ==
    \A r \in Repos : pointer[r] # None => archives[r][pointer[r]] # NoTree

(* No build starts from the products of another, in its own tree or        *)
(* through the archive: whatever a task raises and wherever its process    *)
(* was killed, no builder acquires a source, and none archives it, over    *)
(* products of an earlier task, unless a tree of the repository could not  *)
(* be removed.                                                             *)
SourcesArePristine ==
    \A r \in Repos \ unswept :
        /\ \A c \in Labels : archives[r][c].products = {}
        /\ \A b \in Builders : tree[b][r].products # {} =>
              /\ at[b] \in {"debug", "metadata", "binaries", "ir", "manifest", "finish", "clean",
                           "down"}
              /\ r = Repo(b)

(* What is stored under a commit's name was built from that commit, though *)
(* pointer, archive and repository move on separately, and, unless a       *)
(* failed acquire_source or rmtree left a tree behind, from nothing else.  *)
(* (Under "Unknown" anything may lie.)                                     *)
ContentIsLabelled ==
    \A o \in objects :
        LET r == o.dir[1]
            c == o.dir[2]
        IN c # Unknown => c \in o.from /\ (o.from # {c} => r \in orphaned)

Uploaded(t, file) ==
    {o \in objects : /\ o.file = file /\ t \in o.builds
                     /\ o.dir[1] = RepoOf[t] /\ o.dir[3] = OptOf[t]}

(* What the store refused, and the stages where a tree that could not be   *)
(* removed may have been dumped in place of the build.                     *)
Excused ==
    refused \cup {ts \in Tasks \X Stages : RepoOf[ts[1]] \in unswept}

Stored(t, c, file) ==
    <<t, file>> \in Excused \/ \E o \in Uploaded(t, file) : o.dir[2] = c

StoredSomewhere(t, file) == <<t, file>> \in Excused \/ Uploaded(t, file) # {}

(* What is on record is in the bucket, unless the store refused it: the    *)
(* rows the coordinator wrote, the objects a manifest lists, and for a     *)
(* SUCCESS the metadata and the manifest below the very commit the row     *)
(* names.  (Of a repository whose tree could not be removed, an IR tarball *)
(* may be of that tree's builds.)                                          *)
RecordedIsStored ==
    /\ \A t \in Tasks :
          /\ rows[t].binaries > 0 => StoredSomewhere(t, "binary")
          /\ \A s \in Stages : rows[t].ir[s] > 0 => StoredSomewhere(t, s)
          /\ rows[t].status = "SUCCESS" =>
                \A file \in {"metadata", "manifest"} : Stored(t, rows[t].commit, file)
    /\ \A o \in objects : \A file \in o.lists : \A t \in o.builds :
          Stored(t, o.dir[2], file)

(* The dumps in a stage's tarball come from builds of this repository with *)
(* this option, although the builder goes through many repositories and    *)
(* libgccjit keeps one directory for all of them, which nobody clears.     *)
(* For that stage the filter by crate name is all there is: it needs       *)
(* IR_SCOPE=repo and lets through the dumps of a crate of the same name.   *)
(* (A repository whose tree could not be removed is out of the promise.)   *)
IrIsOwn ==
    \A o \in objects : o.file \in Stages /\ o.dir[1] \notin unswept => \A t \in o.builds :
        \/ RepoOf[t] = o.dir[1] /\ OptOf[t] = o.dir[3]
        \/ o.file = "GIMPLE" /\ (RepoScope => Crate[RepoOf[t]] = Crate[o.dir[1]])

(* A report that is delivered again adds no second row for a stage; for    *)
(* a binary it does, and only a fault can (a task runs once, a report is   *)
(* consumed once).                                                         *)
RowsDespiteRedelivery ==
    \A t \in Tasks : /\ \A s \in Stages : rows[t].ir[s] <= 1
                     /\ rows[t].binaries <= 1 + faults

(* However many binaries a build leaves and however long each takes, their *)
(* debug information holds the builder no longer than the phase's budget   *)
(* and what follows the extraction of one binary: the waits for rustfilt   *)
(* and for killed children, which the budget does not know, do not add up  *)
(* once it is spent.                                                       *)
DwarfWithinBudget ==
    \A b \in Builders : job[b].dwarf <= 2 * PhaseTimeout + Overrun

(* The debug information a builder saves is what is in the binaries,       *)
(* whether one process extracts it or several, in the order of one walk,   *)
(* every source line with the innermost function around it.                *)
DebugInfoIsSound ==
    \A b \in Builders : at[b] = "metadata" /\ job[b].binary => ExtractionIsSound
=============================================================================
