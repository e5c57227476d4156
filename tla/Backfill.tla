------------------------------ MODULE Backfill ------------------------------
(***************************************************************************)
(* backfill_compress.py: a script that moves the builds of the artifacts   *)
(* bucket, in place, from raw objects to compressed ones under another     *)
(* prefix, while builders write new builds there and readers try the new   *)
(* prefix, then the old one.  It lists the bucket once; its threads then   *)
(* copy the objects of a prefix one by one, compare each copy, write       *)
(* export.json, and delete what they copied.                               *)
(*                                                                         *)
(* A prefix is a build and a generation: 1 as old builders wrote it, 2 as  *)
(* it is now, 3 what the script makes of a prefix of generation 2 that it  *)
(* takes for one of generation 1.  The content of an object is "good" if   *)
(* it unpacks, once per generation after the first, to what was built, and *)
(* "bad" if it unpacks to something else: a frame has no checksum.  The    *)
(* listing is one step; the prefixes of a build are taken in the order of  *)
(* their names, builds and objects in any; a download gives the bytes that *)
(* are stored; a dry run, which only lists, is left out.                   *)
(*                                                                         *)
(* Bounds: MaxRuns runs of the script, MaxFaults faults (a call of S3 that *)
(* fails after its retries, a copy that does not have the bytes of what    *)
(* was copied, a script that is killed).                                   *)
(***************************************************************************)
EXTENDS Integers, FiniteSets

CONSTANTS
    Builds,
    Old,            \* those whose raw objects are in the bucket
    Objects,        \* the binaries, the metadata and the IR of a build
    Threads,        \* --threads
    Limits,         \* --limit: 0 is none
    MaxRuns, MaxFaults,
    None

Dirs == Builds \X (1..3)
Keys == Builds \X (1..3) \X Objects

ASSUME BackfillAssumption ==
    /\ Old \subseteq Builds /\ Limits \subseteq Nat
    /\ MaxRuns \in Nat /\ MaxFaults \in Nat
    /\ {None, "export.json"} \cap Objects = {} /\ None \notin Dirs

VARIABLES
    store,          \* the objects of the bucket
    manifests,      \* the prefixes that have an export.json
    building,       \* what a builder has still to upload
    run,            \* is the script running, and how did it end?
    keepRaw,        \* --keep-raw rather than --apply
    todo, objects,  \* the prefixes it has to migrate, and what was listed under each
    work,           \* what a thread does: to which prefix, with which objects left, which one
                    \* it copies, and the content that this one had
    failed,         \* _stats: did a build fail, or its verification?
    runs, faults,
    corrupted,      \* history: did a copy have other bytes?
    owed,           \* history: the objects that a builder stored,
    unverified,     \* those whose last copy was not found equal, or not yet,
    moved           \* and those that the script removed from where readers look first

bucket == <<store, manifests>>
builder == <<building, owed>>
script == <<run, keepRaw, todo, objects, runs>>
history == <<corrupted, unverified, moved>>
vars == <<bucket, builder, script, work, failed, faults, history>>

Fault == faults < MaxFaults /\ faults' = faults + 1

Key(d, o) == <<d[1], d[2], o>>
Target(d) == <<d[1], d[2] + 1>>
At(d) == {o \in Objects : store[Key(d, o)] # "none"}

(* parse_v1_prefix: the name of a prefix of generation 2 has the two       *)
(* underscores of a raw one; that of generation 3 has none, for owners and *)
(* projects without.                                                       *)
Parses(d) == d[2] \in {1, 2}

(* The names of one build in their order: '-', which takes the place of an *)
(* underscore from one generation to the next, comes before it.            *)
Before(d, e) == d[1] = e[1] /\ d[2] > e[2]

Idle == [at |-> "idle", dir |-> None, rest |-> {}, obj |-> None, src |-> "none"]

-----------------------------------------------------------------------------
Init ==
    /\ store = [k \in Keys |-> IF k[1] \in Old /\ k[2] = 1 THEN "good" ELSE "none"]
    /\ manifests = {}
    /\ building = [b \in Builds |-> IF b \in Old THEN {} ELSE Objects \cup {"export.json"}]
    /\ owed = Old \X Objects
    /\ run = "off" /\ keepRaw = FALSE /\ todo = {} /\ objects = [d \in Dirs |-> {}]
    /\ work = [t \in Threads |-> Idle]
    /\ failed = FALSE /\ runs = 0 /\ faults = 0
    /\ corrupted = FALSE /\ unverified = {} /\ moved = {}

-----------------------------------------------------------------------------
(* A builder: its objects, then the manifest, without which the build is   *)
(* no worse for it.                                                        *)
Upload(b) ==
    /\ \E o \in building[b] \cap Objects :
          /\ \/ /\ store' = [store EXCEPT ![<<b, 2, o>>] = "good"]
                /\ owed' = owed \cup {<<b, o>>}
                /\ UNCHANGED faults
             \/ Fault /\ UNCHANGED <<store, owed>>
          /\ building' = [building EXCEPT ![b] = @ \ {o}]
    /\ UNCHANGED <<manifests, script, work, failed, history>>

SaveManifest(b) ==
    /\ building[b] = {"export.json"}
    /\ \/ manifests' = manifests \cup {<<b, 2>>} /\ UNCHANGED faults
       \/ Fault /\ UNCHANGED manifests
    /\ building' = [building EXCEPT ![b] = {}]
    /\ UNCHANGED <<store, owed, script, work, failed, history>>

-----------------------------------------------------------------------------
(* The script.                                                             *)

(* main: the prefixes without a manifest, or the first of them by name.    *)
Start(keep, limit) ==
    /\ run # "on" /\ runs < MaxRuns
    /\ LET all == {d \in Dirs : At(d) # {} /\ d \notin manifests}
       IN \E some \in SUBSET all :
             /\ IF limit = 0 \/ Cardinality(all) <= limit THEN some = all
                ELSE Cardinality(some) = limit /\ \A d \in all, e \in some : Before(d, e) => d \in some
             /\ todo' = some
    /\ objects' = [d \in Dirs |-> At(d)]
    /\ run' = "on" /\ keepRaw' = keep /\ failed' = FALSE /\ runs' = runs + 1
    /\ UNCHANGED <<bucket, builder, work, faults, history>>

Goto(t, p) == work' = [work EXCEPT ![t].at = p]

Leave(t) == work' = [work EXCEPT ![t] = Idle]

Take(t) ==
    /\ run = "on" /\ work[t] = Idle
    /\ \E d \in todo :
          /\ \A e \in todo : ~Before(e, d)
          /\ todo' = todo \ {d}
          /\ IF Parses(d) THEN work' = [work EXCEPT ![t].at = "head", ![t].dir = d]
             ELSE UNCHANGED work
    /\ UNCHANGED <<bucket, builder, run, keepRaw, objects, runs, failed, faults, history>>

(* Any error of head_object is taken for "there is no manifest". *)
HeadObject(t) ==
    /\ work[t].at = "head"
    /\ \/ Target(work[t].dir) \in manifests /\ Leave(t) /\ UNCHANGED faults
       \/ /\ (Target(work[t].dir) \notin manifests /\ UNCHANGED faults) \/ Fault
          /\ work' = [work EXCEPT ![t].at = "object", ![t].rest = objects[work[t].dir]]
    /\ UNCHANGED <<bucket, builder, script, failed, history>>

Source(t, o) == store[Key(work[t].dir, o)]
Copy(t) == Key(Target(work[t].dir), work[t].obj)

(* What readers look at first: does the thread write under it?             *)
Raw(t) == work[t].dir[2] = 1
Named(t) == <<work[t].dir[1], work[t].obj>>

Download(t) ==
    /\ work[t].at = "object"
    /\ \E o \in work[t].rest :
          /\ Source(t, o) # "none"
          /\ work' = [work EXCEPT ![t].at = "put", ![t].obj = o, ![t].src = Source(t, o)]
    /\ UNCHANGED <<bucket, builder, script, failed, faults, history>>

Put(t) ==
    /\ work[t].at = "put"
    /\ \/ store' = [store EXCEPT ![Copy(t)] = work[t].src] /\ UNCHANGED <<faults, corrupted>>
       \/ /\ work[t].src = "good" /\ Fault /\ corrupted' = TRUE
          /\ store' = [store EXCEPT ![Copy(t)] = "bad"]
    /\ Goto(t, "verify")
    /\ IF Raw(t) THEN unverified' = unverified \cup {Named(t)} /\ moved' = moved \ {Named(t)}
       ELSE UNCHANGED <<unverified, moved>>
    /\ UNCHANGED <<manifests, builder, script, failed>>

Differs(t) == work[t].at = "verify" /\ store[Copy(t)] # work[t].src
Copied(t) ==
    work' = [work EXCEPT ![t].at = "object", ![t].rest = @ \ {work[t].obj}, ![t].obj = None,
                         ![t].src = "none"]
Verified(t) ==
    /\ Copied(t)
    /\ unverified' = IF Raw(t) THEN unverified \ {Named(t)} ELSE unverified

(* Mutant: any object under the new key will do. *)
VerifyExists(t) ==
    /\ work[t].at = "verify" /\ store[Copy(t)] # "none"
    /\ Verified(t)
    /\ UNCHANGED <<bucket, builder, script, failed, faults, corrupted, moved>>

Verify(t) ==
    /\ work[t].at = "verify" /\ store[Copy(t)] = work[t].src
    /\ Verified(t)
    /\ UNCHANGED <<bucket, builder, script, failed, faults, corrupted, moved>>

(* Mutant: an object that could not be copied is left out, like one that   *)
(* was.                                                                    *)
SkipObject(t) ==
    /\ \/ Differs(t) /\ UNCHANGED faults
       \/ work[t].at \in {"put", "verify"} /\ Fault
    /\ Copied(t)
    /\ UNCHANGED <<bucket, builder, script, failed, history>>

(* A copy that differs, an object that is gone, a call that fails: the     *)
(* build is left as it is.                                                 *)
Fail(t) ==
    /\ \/ Differs(t) /\ UNCHANGED faults
       \/ /\ work[t].at = "object" /\ \E o \in work[t].rest : Source(t, o) = "none"
          /\ UNCHANGED faults
       \/ work[t].at \in {"object", "put", "verify", "delete"} /\ Fault
    /\ Leave(t) /\ failed' = TRUE
    /\ UNCHANGED <<bucket, builder, script, history>>

(* Mutant: the migration goes on without a manifest that could not be      *)
(* written.                                                                *)
PutManifestOrNot(t) ==
    /\ work[t].at = "object" /\ work[t].rest = {}
    /\ \/ manifests' = manifests \cup {Target(work[t].dir)} /\ UNCHANGED faults
       \/ Fault /\ UNCHANGED manifests
    /\ IF keepRaw THEN Leave(t) ELSE Goto(t, "delete")
    /\ UNCHANGED <<store, builder, script, failed, history>>

PutManifest(t) ==
    /\ work[t].at = "object" /\ work[t].rest = {}
    /\ manifests' = manifests \cup {Target(work[t].dir)}
    /\ IF keepRaw THEN Leave(t) ELSE Goto(t, "delete")
    /\ UNCHANGED <<store, builder, script, failed, faults, history>>

(* delete_objects: its answer says what it could not delete, and nobody    *)
(* reads it.                                                               *)
Delete(t) ==
    /\ work[t].at = "delete"
    /\ \E gone \in SUBSET objects[work[t].dir] :
          /\ (gone = objects[work[t].dir] /\ UNCHANGED faults) \/ Fault
          /\ store' = [k \in Keys |-> IF \E o \in gone : k = Key(work[t].dir, o)
                                      THEN "none" ELSE store[k]]
          /\ moved' = IF Raw(t) THEN moved ELSE moved \cup {<<work[t].dir[1], o>> : o \in gone}
    /\ Leave(t)
    /\ UNCHANGED <<manifests, builder, script, failed, corrupted, unverified>>

Finish ==
    /\ run = "on" /\ todo = {} /\ \A t \in Threads : work[t] = Idle
    /\ run' = IF failed THEN "failed" ELSE "done"
    /\ UNCHANGED <<bucket, builder, keepRaw, todo, objects, runs, work, failed, faults,
                   history>>

Kill ==
    /\ run = "on" /\ Fault
    /\ run' = "killed" /\ todo' = {} /\ work' = [t \in Threads |-> Idle]
    /\ UNCHANGED <<bucket, builder, keepRaw, objects, runs, failed, history>>

-----------------------------------------------------------------------------
Migrate(t) ==
    \/ Take(t) \/ HeadObject(t) \/ Download(t) \/ Put(t) \/ Verify(t) \/ Fail(t) \/ PutManifest(t)
    \/ Delete(t)

Next ==
    \/ \E b \in Builds : Upload(b) \/ SaveManifest(b)
    \/ \E keep \in BOOLEAN, limit \in Limits : Start(keep, limit)
    \/ \E t \in Threads : Migrate(t)
    \/ Finish \/ Kill

Spec == Init /\ [][Next]_vars

-----------------------------------------------------------------------------
(* Every variable keeps its type; a thread works on a prefix of the list   *)
(* that no other thread has, while the script runs.                        *)
TypeOK ==
    /\ store \in [Keys -> {"none", "good", "bad"}] /\ manifests \subseteq Dirs
    /\ \A b \in Builds : building[b] \subseteq Objects \cup {"export.json"}
    /\ run \in {"off", "on", "done", "failed", "killed"} /\ todo \subseteq Dirs
    /\ \A t \in Threads : work[t] # Idle =>
          /\ run = "on" /\ work[t].dir \in Dirs \ todo /\ Parses(work[t].dir)
          /\ work[t].rest \subseteq objects[work[t].dir]
          /\ work[t].at \in {"head", "object", "put", "verify", "delete"}
          /\ work[t].at \in {"put", "verify"} => work[t].obj \in work[t].rest /\ work[t].src # "none"
    /\ \A t, u \in Threads : t # u /\ work[t] # Idle /\ work[u] # Idle => work[t].dir # work[u].dir
    /\ runs \in 0..MaxRuns /\ faults \in 0..MaxFaults /\ corrupted \in BOOLEAN
    /\ owed \cup unverified \cup moved \subseteq Builds \X Objects

(* What a reader of the dataset pipeline gets: download_binary takes what  *)
(* is under the new key if there is anything that unpacks, and only else   *)
(* looks for the raw object.                                               *)
Reads(b, o) == IF store[<<b, 2, o>>] # "none" THEN store[<<b, 2, o>>] ELSE store[<<b, 1, o>>]

(* Whatever fails or is killed, and however often the script is run, a     *)
(* reader gets the bytes of every object that was stored. Two exceptions:  *)
(* while the last copy of an object was not found equal to it, as after a  *)
(* failed verification, the reader may get the copy, but then the raw      *)
(* object is still there; and an object of a prefix that the script took   *)
(* for a raw one and emptied may be nowhere that readers look, until it is *)
(* copied there again.                                                     *)
ReadableOrKept ==
    \A x \in owed \ moved :
        IF x \in unverified THEN store[<<x[1], 1, x[2]>>] = "good" ELSE Reads(x[1], x[2]) = "good"

(* In these cases too its bytes are somewhere in the bucket, packed once   *)
(* or twice, as long as no copy was ever corrupted.                        *)
BytesSurvive ==
    ~corrupted => \A x \in owed : \E g \in 1..3 : store[<<x[1], g, x[2]>>] = "good"

(* When the script writes the export.json of a raw prefix, all that was    *)
(* listed under that prefix has a copy under the new one that was compared *)
(* and has its bytes, but for what was moved on from there meanwhile.      *)
ManifestVouches ==
    [][\A b \in Builds :
          /\ <<b, 2>> \in manifests' \ manifests
          /\ \E t \in Threads : work[t].at = "object" /\ work[t].dir = <<b, 1>>
          => \A o \in objects[<<b, 1>>] :
                \/ store[<<b, 2, o>>] = "good" /\ <<b, o>> \notin unverified
                \/ <<b, o>> \in moved]_vars

(* An object is only ever removed from a prefix when the export.json of    *)
(* the prefix it was copied to is written: a run cut short while it        *)
(* deletes leaves a build that the next run takes for migrated.            *)
ManifestFirst ==
    [][\A k \in Keys : store[k] # "none" /\ store'[k] = "none"
                        => <<k[1], k[2] + 1>> \in manifests]_vars
=============================================================================
