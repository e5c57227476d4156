---------------------------- MODULE DailyDataset ----------------------------
(***************************************************************************)
(* The daily export: the binaries built since yesterday are downloaded,    *)
(* staged in directories by build identifier, given ids and appended to a  *)
(* cumulative SQLite file, and their files are published below the day.    *)
(* assemblage_loop.sh runs it once a day and again after a failure; the    *)
(* working directories raw and staging belong to the day and survive a run *)
(* that dies.                                                              *)
(*                                                                         *)
(* The date is read by the loop, again to compute yesterday and once more  *)
(* to name the day's directories, and midnight may fall between any two of *)
(* these.  The dates are local; yesterday's is then compared, as 0:00 UTC, *)
(* with the UTC times of the builds.  Only dates matter, so the clock is   *)
(* the pair of the local date and that of UTC, which move on one by one.   *)
(*                                                                         *)
(* An rva row stands for the line rows too, which go the same way in a     *)
(* transaction of their own.  The source archives and the assembly         *)
(* harvest, which fails softly after the run's work is done, leave nothing *)
(* the dataset refers to.                                                  *)
(*                                                                         *)
(* Bounds: MaxDay days, MaxDeaths runs that die or raise, MaxFaults faults *)
(* (failed or truncated downloads, staging errors, extractions without a   *)
(* result, rows the database refuses, removals that take too long).        *)
(***************************************************************************)
EXTENDS Integers, FiniteSets, FiniteSetsExt, Sequences

CONSTANTS
    Bins,           \* rows of the table binaries
    Ident,          \* Ident[x]: url, arch, compiler and flag; no commit, no backend
    Name,           \* Name[x]: the base name of its file, a number that stands for it:
                    \* those below Ten^2 are the names that are two digits
    RawName,        \* RawName[x]: <binary_id>_<name>, its file in raw
    Strip,          \* Strip[n]: the name n without a leading number and underscore
    Rust,           \* the binaries of Rust builds
    Made,           \* Made[x]: the build it belongs to
    UtcAhead,       \* how many days UTC's date may be ahead: {0, 1} west of UTC, {-1, 0} east
    FirstId,        \* 1000
    Ten,            \* the base of the digits assign_path takes two by two
    FlushOver,      \* 25
    Tries,          \* 10000: how many ids are tried for a file
    MaxDay, MaxDeaths, MaxFaults, None

ASSUME DatasetAssumption ==
    /\ IsFiniteSet(Bins) /\ Rust \subseteq Bins
    /\ DOMAIN Ident = Bins /\ DOMAIN Made = Bins
    /\ Name \in [Bins -> Nat] /\ RawName \in [Bins -> Nat]
    /\ \A x \in Bins : Strip[RawName[x]] = Name[x]
    /\ \A x, y \in Rust : Made[x] = Made[y] => Ident[x] = Ident[y]
    /\ UtcAhead \subseteq {-1, 0, 1} /\ 0 \in UtcAhead
    /\ Ten \in Nat \ {0, 1} /\ FirstId \in Nat /\ FirstId + 1 >= Ten
    /\ FlushOver \in Nat /\ Tries \in Nat \ {0}
    /\ MaxDay \in Nat \ {0} /\ MaxDeaths \in Nat /\ MaxFaults \in Nat
    /\ None \notin Bins \cup Range(Ident)

VARIABLES
    day, utc,   \* the local date and that of UTC
    built,      \* build_date, as the two dates at that time
    dayFile,    \* last_pipeline_day
    okDays,     \* history: the days recorded by a run that returned
    wanted,     \* the day the loop found not done and starts a run for, 0 if none
    at,         \* where the run stands
    asked,      \* its argument: the day the loop will record
    since,      \* the day whose yesterday it asks for
    today,      \* the day of its directories
    db,         \* linux_licensed.sqlite: there or not, and its tables
    files,      \* <day>/binaries
    raw,        \* today's raw directory
    todo, got,  \* rows of the query: to download; downloaded, to be staged
    staged,     \* today's staging directory: the files below identifiers,
    meta,       \* their metadata files,
    tree, dirs, \* and the files and directories db_construct makes
    cur, tried, \* the identifier db_construct is in, and its files that were not moved
    nextId, nextFun, pending,   \* binary_id, function_id; binary_ds and function_ds
    deaths, faults,
    refused,    \* history: the rows the database refused, by table and id
    missed,     \* history: what a fault or a clash of paths kept out of a day's last run that saw it
    removed,    \* history: the files removed because a directory had to be made in their place
    mishaps     \* history: what went wrong on which day

clock == <<day, utc>>
dates == <<asked, since, today>>
work == <<todo, got, cur, tried, nextId, nextFun, pending>>
staging == <<staged, meta, tree, dirs>>
history == <<refused, missed, removed, mishaps>>
vars == <<clock, built, dayFile, okDays, wanted, at, dates, db, files, raw, work, staging,
          deaths, faults, history>>

Idents == Range(Ident)
Key(x) == <<Ident[x], Name[x]>>
NotBuilt == [day |-> 0, utc |-> 0]
NoMeta == [i \in Idents |-> [first |-> None, infos |-> {}]]
Nothing == [rows |-> {}, funs |-> {}]
Had(what, d) == <<what, d>> \in mishaps

Fault == faults < MaxFaults /\ faults' = faults + 1
NoFault == UNCHANGED faults

Init ==
    /\ day = 1 /\ utc = 1
    /\ built = [x \in Bins |-> NotBuilt]
    /\ dayFile = 0 /\ okDays = {} /\ wanted = 0
    /\ at = "off" /\ asked = 0 /\ since = 0 /\ today = 0
    /\ db = [exists |-> FALSE, rows |-> {}, funs |-> {}, rvas |-> {}]
    /\ files = {}
    /\ raw = [x \in Bins |-> "no"]
    /\ todo = {} /\ got = {}
    /\ staged = {} /\ meta = NoMeta /\ tree = {} /\ dirs = {}
    /\ cur = None /\ tried = {} /\ nextId = 0 /\ nextFun = 0 /\ pending = Nothing
    /\ deaths = 0 /\ faults = 0
    /\ refused = {} /\ missed = {} /\ removed = {} /\ mishaps = {}

(* Midnight, here or in Greenwich. *)
Midnight ==
    /\ day' \in {day, day + 1} /\ utc' \in {utc, utc + 1}
    /\ <<day', utc'>> # <<day, utc>>
    /\ day' <= MaxDay /\ utc' - day' \in UtcAhead
    /\ UNCHANGED <<built, dayFile, okDays, wanted, at, dates, db, files, raw, work, staging,
                   deaths, faults, history>>

Build(x) ==
    /\ built[x] = NotBuilt
    /\ built' = [built EXCEPT ![x] = [day |-> day, utc |-> utc]]
    /\ UNCHANGED <<clock, dayFile, okDays, wanted, at, dates, db, files, raw, work, staging,
                   deaths, faults, history>>

-----------------------------------------------------------------------------
(* The loop reads the date and the day last done, and starts a run in the  *)
(* background, which ends at once while another holds the lock.            *)
LoopLooks ==
    /\ wanted = 0 /\ dayFile # day
    /\ wanted' = day
    /\ UNCHANGED <<clock, built, dayFile, okDays, at, dates, db, files, raw, work, staging,
                   deaths, faults, history>>

Locked ==
    /\ wanted # 0 /\ at # "off"
    /\ wanted' = 0
    /\ UNCHANGED <<clock, built, dayFile, okDays, at, dates, db, files, raw, work, staging,
                   deaths, faults, history>>

RunDaily ==
    /\ wanted # 0 /\ at = "off"
    /\ asked' = wanted /\ wanted' = 0
    /\ at' = "asked"
    /\ UNCHANGED <<clock, built, dayFile, okDays, since, today, db, files, raw, work, staging,
                   deaths, faults, history>>

Yesterday ==
    /\ at = "asked"
    /\ since' = day
    /\ at' = "start"
    /\ UNCHANGED <<clock, built, dayFile, okDays, wanted, asked, today, db, files, raw, work,
                   staging, deaths, faults, history>>

(* Mutant: only what was built today is asked for. *)
BuiltToday(d) == {x \in Bins : built[x].day > 0 /\ built[x].utc >= d}

(* Mutant: a day more than yesterday. *)
TwoDays(d) == {x \in Bins : built[x].day > 0 /\ built[x].utc >= d - 2}

(* NEW_BINARIES_QUERY since the day before d, 0:00 UTC. *)
QueryNewBinaries(d) == {x \in Bins : built[x].day > 0 /\ built[x].utc >= d - 1}

(* run_pipeline finds the directories of an earlier attempt of the day.  A *)
(* run goes astray that was asked for on an earlier day, or for a day that *)
(* was recorded meanwhile.                                                 *)
Start ==
    /\ at = "start"
    /\ today' = day
    /\ todo' = QueryNewBinaries(since)
    /\ missed' = missed \ (todo' \X {day})
    /\ IF day = today THEN UNCHANGED <<raw, staging>>
       ELSE /\ raw' = [x \in Bins |-> "no"]
            /\ staged' = {} /\ meta' = NoMeta /\ tree' = {} /\ dirs' = {}
    /\ mishaps' = mishaps \cup
          IF asked = day /\ dayFile < asked THEN {} ELSE {<<"astray", d>> : d \in asked..day}
    /\ at' = "download"
    /\ UNCHANGED <<clock, built, dayFile, okDays, wanted, asked, since, db, files, got, cur, tried,
                   nextId, nextFun, pending, deaths, faults, refused, removed>>

(* The loop records the day it asked for. *)
Recorded == dayFile' = asked

NothingToDo ==
    /\ at = "download" /\ todo = {} /\ got = {}
    /\ at' = "off"
    /\ Recorded /\ okDays' = okDays \cup {asked}
    /\ UNCHANGED <<clock, built, wanted, dates, db, files, raw, work, staging, deaths, faults,
                   history>>

(* _download_one: a file that is there already counts as downloaded.  One  *)
(* that does not decompress fails, and what was written of it stays.       *)
Download(x) ==
    /\ at = "download" /\ x \in todo
    /\ todo' = todo \ {x}
    /\ \/ /\ raw[x] # "no" /\ NoFault
          /\ got' = got \cup {x}
          /\ UNCHANGED <<raw, missed>>
       \/ /\ raw[x] = "no" /\ NoFault
          /\ raw' = [raw EXCEPT ![x] = "whole"]
          /\ got' = got \cup {x}
          /\ UNCHANGED missed
       \/ /\ raw[x] = "no" /\ Fault
          /\ \E left \in {"no", "cut"} : raw' = [raw EXCEPT ![x] = left]
          /\ missed' = missed \cup {<<x, today>>}
          /\ UNCHANGED got
    /\ at' = IF todo' # {} THEN "download" ELSE IF got' = {} THEN "giveUp" ELSE "stage"
    /\ UNCHANGED <<clock, built, dayFile, okDays, wanted, dates, db, files, cur, tried, nextId,
                   nextFun, pending, staging, deaths, refused, removed, mishaps>>

-----------------------------------------------------------------------------
(* An entry of Binary_info_list names a file: the one of raw if it was     *)
(* extracted here; a Rust builder lists the binaries of its build by their *)
(* own names.                                                              *)
Extracted(x) == {[from |-> x, file |-> RawName[x]]}
Listed(x) == {[from |-> y, file |-> Name[y]] : y \in {z \in Rust : Made[z] = Made[x]}}

Found(x) ==
    IF x \in Rust THEN Listed(x) ELSE IF raw[x] = "cut" THEN {} ELSE Extracted(x)

(* A file that has an entry already gets no other. *)
Joined(infos, entries) ==
    infos \cup {e \in entries : \A i \in infos : i.file # e.file}

(* build_staging_entry: the metadata of an identifier is that of the first *)
(* binary staged under it, a file that of the last one of its name.  When  *)
(* the builder's list cannot be had, the entry is extracted.               *)
Stage(x) ==
    LET i == Ident[x]
        file == [ident |-> i, name |-> Name[x], bin |-> x, cut |-> raw[x] = "cut"]
        Then(p, last) == at' = IF got' # {} THEN p ELSE last
    IN /\ at \in {"stage", "staging"} /\ x \in got
       /\ got' = got \ {x}
       /\ \/ /\ staged' = {f \in staged : <<f.ident, f.name>> # Key(x)} \cup {file}
             /\ \E entries \in {Found(x), Extracted(x), {}} :
                   /\ IF entries = Found(x) THEN NoFault
                      ELSE Fault /\ (entries # {} => raw[x] = "whole")
                   /\ meta' = [meta EXCEPT ![i] =
                         [first |-> IF @.first = None THEN x ELSE @.first,
                          infos |-> Joined(@.infos, entries)]]
             /\ Then("staging", "connect")
             /\ UNCHANGED missed
          \/ /\ Fault
             /\ missed' = missed \cup {<<x, today>>}
             /\ Then(at, IF at = "stage" THEN "giveUp" ELSE "connect")
             /\ UNCHANGED <<staged, meta>>
       /\ UNCHANGED <<clock, built, dayFile, okDays, wanted, dates, db, files, raw, todo, cur,
                      tried, nextId, nextFun, pending, tree, dirs, deaths, refused, removed, mishaps>>

RemoveStaging == staged' = {} /\ meta' = NoMeta /\ tree' = {} /\ dirs' = {}

(* A run that could stage nothing removes the staging directory and        *)
(* counts as the day's success, although the directory may hold what an    *)
(* attempt that died had appended and not yet published.                   *)
GiveUp ==
    /\ at = "giveUp"
    /\ RemoveStaging
    /\ at' = "off"
    /\ Recorded /\ okDays' = okDays \cup {asked}
    /\ mishaps' = mishaps \cup {<<"wiped", today>>}
    /\ UNCHANGED <<clock, built, wanted, dates, db, files, raw, work, deaths, faults,
                   refused, missed, removed>>

-----------------------------------------------------------------------------
(* db_construct: the ids of a file that exists go on after its largest. A  *)
(* file without binaries or without functions has none, and the run fails. *)

(* Mutant: every run counts from the start. *)
FromTheStart ==
    /\ at = "connect"
    /\ db' = [db EXCEPT !.exists = TRUE]
    /\ nextId' = FirstId /\ nextFun' = 1
    /\ at' = "construct"
    /\ UNCHANGED <<clock, built, dayFile, okDays, wanted, dates, files, raw, todo, got, cur, tried,
                   pending, staging, deaths, faults, history>>

Connect ==
    /\ at = "connect"
    /\ IF ~db.exists
       THEN /\ db' = [db EXCEPT !.exists = TRUE]
            /\ nextId' = FirstId /\ nextFun' = 1
            /\ at' = "construct"
       ELSE IF db.rows = {} \/ db.funs = {}
       THEN at' = "off" /\ UNCHANGED <<db, nextId, nextFun>>
       ELSE /\ nextId' = Max({r.id : r \in db.rows}) + 1
            /\ nextFun' = Max({f.id : f \in db.funs}) + 1
            /\ at' = "construct"
            /\ UNCHANGED db
    /\ UNCHANGED <<clock, built, dayFile, okDays, wanted, dates, files, raw, todo, got, cur, tried,
                   pending, staging, deaths, faults, history>>

(* assign_path: the digits from the last, two by two; an odd first digit   *)
(* is dropped.                                                             *)
Digits(id) == CHOOSE k \in 1..(id + 1) : Ten^(k - 1) <= id /\ id < Ten^k
AssignPath(id) ==
    [i \in 1..(Digits(id) \div 2) |-> (id \div Ten^(2 * (i - 1))) % (Ten * Ten)]

(* Where a file is, and the directories that lead to a path. *)
Place(f) == Append(f.path, f.name)
Along(path) == {SubSeq(path, 1, j) : j \in 1..Len(path)}

(* The directory of the next id is made, and a file that lies in its place *)
(* is removed, whosever it is; a file further up makes the run fail.       *)
NextPath == AssignPath(nextId + 1)
InTheWay == {f \in tree : Place(f) = NextPath}
Barred == NextPath \notin dirs /\ \E f \in tree : Place(f) \in Along(NextPath) \ {NextPath}
MadeDirs == dirs \cup Along(NextPath)
MakeDirectory ==
    /\ ~Barred
    /\ dirs' = MadeDirs
    /\ removed' = removed \cup {<<today, f.path, f.name>> : f \in InTheWay}

(* The first id whose path holds no file of the name, or the last tried. *)
Taken(id, name) == \E f \in tree \ InTheWay : f.path = AssignPath(id) /\ f.name = name
TriedIds == (nextId + 1)..(nextId + Tries)
FreeIds(name) == {n \in TriedIds : ~Taken(n, name)}
IdFor(name) == IF FreeIds(name) = {} THEN nextId + Tries ELSE Min(FreeIds(name))

(* staged_name_matches: also without a leading number, which an entry that *)
(* was extracted here has, and any other file may have.                    *)
StagedNameMatches(entry, name) == name \in {entry, Strip[entry]}

EntriesOf(file) ==
    IF file.cut THEN {}
    ELSE {e \in meta[file.ident].infos : StagedNameMatches(e.file, file.name)}

Row(file, id) ==
    [id |-> id, bin |-> file.bin, cut |-> file.cut, first |-> meta[file.ident].first,
     name |-> file.name, path |-> AssignPath(id), day |-> today]

(* The numbers from n on, one for each. *)
Numberings(entries, n) ==
    {g \in [entries -> n..(n + Cardinality(entries) - 1)] :
        \A d, e \in entries : g[d] = g[e] => d = e}

(* The next file of an identifier: those it has, and what comes of it. *)
Takes(file) ==
    /\ at = "construct"
    /\ file \in staged \ tried
    /\ cur \in {None, file.ident}

Turn(file) ==
    /\ cur' = file.ident
    /\ at' = IF \E f \in staged' \ tried' : f.ident = file.ident THEN "construct" ELSE "clear"
    /\ UNCHANGED <<clock, built, dayFile, okDays, wanted, dates, db, files, raw, todo, got, meta,
                   deaths, faults, refused>>

(* The file is moved into the directory of an id and gets a row; when no   *)
(* id of those tried is free, it replaces the one of its name at the last. *)
Add(file) ==
    LET id == IdFor(file.name)
        path == AssignPath(id)
        entries == EntriesOf(file)
    IN /\ Takes(file)
       /\ MakeDirectory
       /\ path \in MadeDirs /\ Append(path, file.name) \notin MadeDirs
       /\ staged' = staged \ {file} /\ tried' = tried
       /\ tree' = {f \in tree \ InTheWay : f.path # path \/ f.name # file.name}
                     \cup {[path |-> path, name |-> file.name, bin |-> file.bin]}
       /\ nextId' = id
       /\ nextFun' = nextFun + Cardinality(entries)
       /\ \E number \in Numberings(entries, nextFun) :
             pending' = [rows |-> pending.rows \cup {Row(file, id)},
                         funs |-> pending.funs \cup {[id |-> number[e], row |-> id, from |-> e.from] :
                                                     e \in entries}]
       /\ mishaps' = mishaps \cup IF FreeIds(file.name) = {} THEN {<<"crowded", today>>} ELSE {}
       /\ UNCHANGED missed
       /\ Turn(file)

(* Only the directory of the next id is made: when another id has to be    *)
(* taken, the move may fail.  It also fails when a directory has the       *)
(* file's name and an earlier attempt has left the file in there.          *)
Leave(file) ==
    LET path == AssignPath(IdFor(file.name))
    IN /\ Takes(file)
       /\ MakeDirectory
       /\ path \in MadeDirs => Append(path, file.name) \in MadeDirs
       /\ tree' = tree \ InTheWay
       /\ nextId' = IdFor(file.name)
       /\ tried' = tried \cup {file}
       /\ missed' = missed \cup {<<file.bin, today>>}
       /\ UNCHANGED <<staged, nextFun, pending, mishaps>>
       /\ Turn(file)

(* A truncated file may no longer pass for a binary. *)
PassOver(file) ==
    /\ Takes(file) /\ file.cut
    /\ tried' = tried \cup {file}
    /\ missed' = missed \cup {<<file.bin, today>>}
    /\ UNCHANGED <<staged, tree, dirs, nextId, nextFun, pending, removed, mishaps>>
    /\ Turn(file)

(* rm -rf of the identifier's directory, with what was not moved. *)
Clear ==
    /\ at = "clear"
    /\ staged' = staged \ tried
    /\ meta' = [meta EXCEPT ![cur] = NoMeta[cur]]
    /\ cur' = None /\ tried' = {}
    /\ at' = IF staged' = {} \/ Cardinality(pending.rows) > FlushOver THEN "flush" ELSE "construct"
    /\ UNCHANGED <<clock, built, dayFile, okDays, wanted, dates, db, files, raw, todo, got, nextId,
                   nextFun, pending, tree, dirs, deaths, faults, history>>

Forget ==
    /\ todo' = {} /\ got' = {} /\ cur' = None /\ tried' = {}
    /\ nextId' = 0 /\ nextFun' = 0 /\ pending' = Nothing

(* What a removal that is cut short leaves of the identifier's directory;  *)
(* without its metadata the rest is removed unread by the next attempt.    *)
HalfCleared ==
    \/ /\ \E gone \in SUBSET tried : staged' = staged \ gone
       /\ UNCHANGED meta
    \/ /\ staged' = staged \ tried
       /\ meta' = [meta EXCEPT ![cur] = NoMeta[cur]]

(* runcmd calls exit() when the removal takes more than 15 seconds; that   *)
(* is an exit code of 0, so the loop records the day, with what was not    *)
(* flushed lost and no file published.                                     *)
TimeOut ==
    /\ at = "clear" /\ Fault
    /\ HalfCleared
    /\ Forget
    /\ at' = "off"
    /\ Recorded /\ mishaps' = mishaps \cup {<<"timed out", today>>}
    /\ UNCHANGED <<clock, built, okDays, wanted, dates, db, files, raw, tree, dirs, deaths, refused,
                   missed, removed>>

(* bulk_flush: a transaction per table.  A row the database refuses is     *)
(* logged and left out, what refers to it is not.                          *)
FlushBinaries ==
    /\ at = "flush"
    /\ \/ /\ db' = [db EXCEPT !.rows = @ \cup pending.rows]
          /\ NoFault /\ UNCHANGED <<refused, missed>>
       \/ \E r \in pending.rows :
             /\ db' = [db EXCEPT !.rows = @ \cup (pending.rows \ {r})]
             /\ missed' = missed \cup {<<r.bin, today>>}
             /\ refused' = refused \cup {<<"binaries", r.id>>}
             /\ Fault
    /\ at' = "flushFunctions"
    /\ UNCHANGED <<clock, built, dayFile, okDays, wanted, dates, files, raw, work, staging, deaths,
                   removed, mishaps>>

FlushFunctions ==
    /\ at = "flushFunctions"
    /\ \/ /\ db' = [db EXCEPT !.funs = @ \cup pending.funs]
          /\ NoFault /\ UNCHANGED refused
       \/ \E f \in pending.funs :
             /\ db' = [db EXCEPT !.funs = @ \cup (pending.funs \ {f})]
             /\ refused' = refused \cup {<<"functions", f.id>>}
             /\ Fault
    /\ at' = "flushRvas"
    /\ UNCHANGED <<clock, built, dayFile, okDays, wanted, dates, files, raw, work, staging, deaths,
                   missed, removed, mishaps>>

FlushRvas ==
    LET rvas == {[fun |-> f.id, from |-> f.from] : f \in pending.funs}
    IN /\ at = "flushRvas"
       /\ \/ db' = [db EXCEPT !.rvas = @ \cup rvas] /\ NoFault
          \/ \E v \in rvas : db' = [db EXCEPT !.rvas = @ \cup (rvas \ {v})] /\ Fault
       /\ pending' = Nothing
       /\ at' = IF staged = {} THEN "copy" ELSE "construct"
       /\ UNCHANGED <<clock, built, dayFile, okDays, wanted, dates, files, raw, todo, got, cur,
                      tried, nextId, nextFun, staging, deaths, history>>

(* A copy goes into the directory of the day that has its name, if one has. *)
Published(placed) ==
    LET taken == UNION {Along(f.path) : f \in {g \in files : g.day = today}}
        copies == {[day |-> today, path |-> IF Place(f) \in taken THEN Place(f) ELSE f.path,
                    name |-> f.name, bin |-> f.bin] : f \in placed}
        Same(f, g) == f.day = g.day /\ f.path = g.path /\ f.name = g.name
    IN {f \in files : ~ \E g \in copies : Same(f, g)} \cup copies

(* Mutant: the staging directory is taken away first. *)
RemoveThenCopy ==
    /\ at = "copy"
    /\ tree' = {} /\ dirs' = {}
    /\ at' = "remove"
    /\ UNCHANGED <<clock, built, dayFile, okDays, wanted, dates, db, files, raw, work, staged, meta,
                   deaths, faults, history>>

(* A file that an attempt of the day has published where a directory must  *)
(* be made makes the run fail (Die).                                       *)
Copy ==
    /\ at = "copy"
    /\ \A f \in files, g \in tree : f.day = today => Place(f) \notin Along(g.path)
    /\ files' = Published(tree)
    /\ at' = "remove"
    /\ UNCHANGED <<clock, built, dayFile, okDays, wanted, dates, db, raw, work, staging, deaths,
                   faults, history>>

Finish ==
    /\ at = "remove"
    /\ RemoveStaging
    /\ at' = "off"
    /\ Recorded /\ okDays' = okDays \cup {asked}
    /\ UNCHANGED <<clock, built, wanted, dates, db, files, raw, work, deaths, faults, history>>

(* The run is killed or raises, and the day is not recorded: what it wrote *)
(* stays, and a download, a copy or a removal that was under way is half   *)
(* done.  It raises, too, where a directory cannot be made (Barred) or a   *)
(* directory has the name of a file.  Before Start it has done nothing.    *)
Die ==
    /\ at \notin {"off", "asked", "start"}
    /\ deaths < MaxDeaths /\ deaths' = deaths + 1
    /\ at' = "off"
    /\ Forget
    /\ \E half \in SUBSET tree, cut \in SUBSET {x \in todo : raw[x] = "no"} :
          /\ at \notin {"copy", "giveUp", "remove"} => half = tree
          /\ at # "download" => cut = {}
          /\ files' = IF at = "copy" THEN Published(half) ELSE files
          /\ tree' = IF at \in {"giveUp", "remove"} THEN half ELSE tree
          /\ dirs' \in IF at \in {"giveUp", "remove"}
                       THEN {dirs, UNION {Along(f.path) : f \in half}} ELSE {dirs}
          /\ raw' = [x \in Bins |-> IF x \in cut THEN "cut" ELSE raw[x]]
    /\ IF at = "clear" THEN HalfCleared ELSE UNCHANGED <<staged, meta>>
    /\ mishaps' = mishaps \cup {<<"died", today>>}
                     \cup IF at = "giveUp" THEN {<<"wiped", today>>} ELSE {}
    /\ UNCHANGED <<clock, built, dayFile, okDays, wanted, dates, db, faults, refused, missed,
                   removed>>

Next ==
    \/ Midnight
    \/ \E x \in Bins : Build(x) \/ Download(x) \/ Stage(x)
    \/ LoopLooks \/ Locked \/ RunDaily \/ Yesterday \/ Start \/ NothingToDo \/ GiveUp \/ Connect
    \/ \E file \in staged : Add(file) \/ Leave(file) \/ PassOver(file)
    \/ Clear \/ TimeOut \/ FlushBinaries \/ FlushFunctions \/ FlushRvas \/ Copy \/ Finish \/ Die

Spec == Init /\ [][Next]_vars

-----------------------------------------------------------------------------
(* Every variable keeps its type; a run has rows in memory only between    *)
(* reading the ids and flushing, an identifier has metadata as long as it  *)
(* has a staged file, and UTC's date is as far ahead as the zone allows.   *)
TypeOK ==
    /\ day \in 1..MaxDay /\ utc - day \in UtcAhead
    /\ built \in [Bins -> [day : 0..day, utc : 0..utc]]
    /\ dayFile \in 0..day /\ okDays \subseteq 1..day
    /\ wanted \in 0..day /\ asked \in 0..day /\ since \in 0..day /\ today \in 0..day
    /\ at \in {"off", "asked", "start", "download", "stage", "staging", "giveUp", "connect",
              "construct", "clear", "flush", "flushFunctions", "flushRvas", "copy", "remove"}
    /\ db.exists \in BOOLEAN /\ (db.rows # {} \/ db.funs # {} => db.exists)
    /\ raw \in [Bins -> {"no", "whole", "cut"}]
    /\ todo \subseteq Bins /\ got \subseteq {x \in Bins : raw[x] # "no"}
    /\ \A f \in staged : meta[f.ident].first # None
    /\ tried \subseteq staged /\ (tried # {} => cur # None) /\ (at = "clear" => cur # None)
    /\ pending # Nothing => at \in {"construct", "clear", "flush", "flushFunctions", "flushRvas"}
    /\ missed \subseteq Bins \X (1..day)

(* Once a day's run has returned, in however many attempts, every row that *)
(* any of them appended has its file below that day: rows are written long *)
(* before the files are copied, and an attempt may die in between.         *)
(* Exceptions are the days a run went astray on, those on which an attempt *)
(* could stage nothing and took the staging directory away, and a file     *)
(* that was removed to make a directory in its place (its name is two      *)
(* digits, and the ids gained two since).  It is the row's own file, but   *)
(* for an attempt that died while it removed the staging directory (ids    *)
(* that differ in the dropped digit share a path, and the next attempt no  *)
(* longer sees the file there) and for a name so common that the search    *)
(* for an id gave up. A day whose removal took too long is recorded too,   *)
(* but no run of it has returned.                                          *)
RowsHaveFiles ==
    \A r \in db.rows : r.day \in okDays =>
        \/ \E f \in files : /\ f.day = r.day /\ f.name = r.name
                           /\ f.path \in {r.path, Append(r.path, r.name)}
                           /\ (f.bin = r.bin \/ Had("died", r.day) \/ Had("crowded", r.day))
        \/ Had("astray", r.day) \/ Had("wiped", r.day)
        \/ <<r.day, r.path, r.name>> \in removed

(* Ids are never used twice, across runs and deaths; the functions listed  *)
(* for a row are those of a binary staged under the same identifier by the *)
(* same name, and an rva is of the function it was extracted for.  (That   *)
(* need not be the binary in the file: two codegen backends or two commits *)
(* share an identifier; and a number before the name is overlooked, so     *)
(* hello has the functions of 7_hello as well.)  What refers to a row that *)
(* the database refused stays behind, and when its id was the largest the  *)
(* next run gives it to something else.                                    *)
Belongs(f, r) ==
    /\ r.id = f.row
    /\ Ident[f.from] = Ident[r.bin]
    /\ r.name \in {Name[f.from], Strip[Name[f.from]], RawName[f.from]}

FunctionsBelong ==
    /\ \A r, s \in db.rows : r.id = s.id => r = s
    /\ \A f, g \in db.funs : f.id = g.id => f = g
    /\ \A f \in db.funs : (\E r \in db.rows : Belongs(f, r)) \/ <<"binaries", f.row>> \in refused
    /\ \A v \in db.rvas :
          \/ \E f \in db.funs : f.id = v.fun /\ f.from = v.from
          \/ <<"functions", v.fun>> \in refused

(* A binary built on a day is in the dataset once a run of the day after   *)
(* has returned, unless a fault or a clash of paths kept it out of the     *)
(* last run that saw it, or another binary of its name and identifier lies *)
(* over it.  The windows of the runs leave a gap only when a run goes      *)
(* astray over midnight, and east of UTC, where the day begins while UTC   *)
(* has the date before: what is built in those hours, after the run of the *)
(* day, is too early for the run of the next.                              *)
NothingMissed ==
    \A x \in Bins :
       built[x].day > 0 /\ built[x].utc >= built[x].day /\ built[x].day + 1 \in okDays =>
        \/ \E r \in db.rows : r.bin = x
        \/ <<x, built[x].day + 1>> \in missed \/ Had("astray", built[x].day + 1)
        \/ \E y \in Bins \ {x} : Key(y) = Key(x) /\ built[y].day > 0

(* The windows overlap: a binary is appended from the day it was built to  *)
(* the day after its date in UTC (two days, three for the evenings west of *)
(* UTC, one for the mornings east of it), on each of them once, but for    *)
(* runs that died after they had written it or went astray.                *)
AppendedOnceADay ==
    \A r \in db.rows :
        /\ r.day \in built[r.bin].day..(built[r.bin].utc + 1) \/ Had("astray", r.day)
        /\ \A s \in db.rows :
              s.bin = r.bin /\ s.day = r.day =>
                  s = r \/ Had("died", r.day) \/ Had("astray", r.day)
=============================================================================
