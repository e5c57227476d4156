------------------------------ MODULE Blocklist ------------------------------
(***************************************************************************)
(* The blocklist of the coordinator: a text file, edited by hand while the *)
(* coordinator runs, that dispatchers consult before each task.  The first *)
(* thread that asks after the interval has passed compares the file's time *)
(* and size with those of the list it loaded and, if they differ, reads it *)
(* again; the others wait on the lock.  A thread uses the list it was      *)
(* given in its next query, whatever is loaded meanwhile.                  *)
(*                                                                         *)
(* A line is an entry, without its comment; the text of an entry or a url  *)
(* is the sequence of its parts between slashes.  Publishing and marking a *)
(* task is one step here, queues are sets, and a builder only takes tasks: *)
(* TaskDispatch has the rest.                                              *)
(*                                                                         *)
(* Bounds: MaxEdits edits, MaxFaults faults (a file that is gone or may    *)
(* not be read, a publish that fails, a coordinator that dies), MaxTicks   *)
(* ticks of the clock that dates files.                                    *)
(***************************************************************************)
EXTENDS Integers, Sequences, FiniteSets

CONSTANTS
    Entries,        \* what lines of the file may hold
    Urls,           \* projects.url
    Lower, Bare,    \* of a part: in lower case; without its suffix ".git"
    Dispatchers, Main,
    Threshold,      \* COORDINATOR_REPO_REQUEST_THRESHOLD
    MaxEdits, MaxFaults, MaxTicks,
    None

Threads == Dispatchers \cup {Main}

(* slash: does it contain one?  scheme: does it have one?  parts: what is  *)
(* not empty between the slashes, after the scheme.                        *)
IsText(x) ==
    /\ x.slash \in BOOLEAN /\ x.scheme \in BOOLEAN
    /\ x.parts \in Seq(DOMAIN Lower) /\ Len(x.parts) > 0

ASSUME BlocklistAssumption ==
    /\ \A x \in Entries \cup Urls : IsText(x)
    /\ DOMAIN Bare = DOMAIN Lower /\ \A p \in DOMAIN Bare : Bare[p] \in DOMAIN Lower \cup {""}
    /\ "" \notin DOMAIN Lower /\ IsFiniteSet(Entries)
    /\ Main \notin Dispatchers /\ None \notin Threads /\ None \notin Nat \X Nat
    /\ \A p, q \in DOMAIN Lower : None # <<Lower[p], Lower[q]>>
    /\ Threshold \in Nat /\ MaxEdits \in Nat /\ MaxFaults \in Nat /\ MaxTicks \in Nat

VARIABLES
    file,       \* on disk: its kind, lines and stamp, the latter its mtime and size
    edit,       \* what an editor that truncated the file is about to write
    now,        \* the clock that dates files
    list,       \* _current and _stamp
    due,        \* has the interval passed since _checked_at?
    reader,     \* the thread inside _reload_locked
    seen,       \* the stamp it found
    at, hand,   \* where a thread stands, and the list it was given
    pick,       \* the task a dispatcher is about to publish
    pending,    \* the tasks of a dispatcher's option that are not started
    queue, taken,       \* those in its queue, and those at a builder
    edits, faults,
    stamps,     \* history: the stamps the file has had,
    reused,     \* history: and whether one was given to it twice
    kept,       \* history: the entries of every version that somebody wrote
    late        \* history: the tasks a dispatcher published against the list since it was loaded

disk == <<file, edit, now, edits, stamps, reused, kept>>
loaded == <<list, due, reader, seen>>
tasks == <<pending, queue, taken>>
vars == <<disk, loaded, at, hand, pick, tasks, faults, late>>

Fault == faults < MaxFaults /\ faults' = faults + 1

-----------------------------------------------------------------------------
(* What the list names, and what the query excludes.                       *)

(* split_repo_url: the last two parts. *)
SplitRepoUrl(x) ==
    LET n == Len(x.parts)
    IN IF n < 2 \/ Bare[x.parts[n]] = "" THEN None
       ELSE <<Lower[x.parts[n - 1]], Lower[Bare[x.parts[n]]]>>

(* Blocklist.parse: an entry without a slash is an owner. *)
Owners(lines) == {Lower[e.parts[1]] : e \in {e \in lines : ~e.slash}}
Repos(lines) == {SplitRepoUrl(e) : e \in {e \in lines : e.slash}} \ {None}

Matches(lines, url) ==
    LET split == SplitRepoUrl(url)
    IN split # None /\ (split[1] \in Owners(lines) \/ split \in Repos(lines))

(* The parts between the slashes of a url, as LIKE sees them. *)
Segments(url) == IF url.scheme THEN <<"https:", "">> \o url.parts ELSE url.parts
Folded(part) == IF part \in DOMAIN Lower THEN Lower[part] ELSE part

(* Mutant: the patterns do not match another case (LIKE for ILIKE). *)
OwnerVerbatim(owner, segs) == \E i \in 2..(Len(segs) - 1) : segs[i] = owner

(* The patterns %/owner/%, and %/owner/name and %/owner/name/%. *)
OwnerPattern(owner, segs) == \E i \in 2..(Len(segs) - 1) : Folded(segs[i]) = owner
RepoPattern(repo, segs) ==
    \E i \in 2..(Len(segs) - 1) : Folded(segs[i]) = repo[1] /\ Folded(segs[i + 1]) = repo[2]

(* _not_blocked: what the query leaves out. *)
Excluded(lines, url) ==
    \/ \E owner \in Owners(lines) : OwnerPattern(owner, Segments(url))
    \/ \E repo \in Repos(lines) : RepoPattern(repo, Segments(url))

-----------------------------------------------------------------------------
Unloaded == [lines |-> {}, stamp |-> None]

Init ==
    /\ \E lines \in SUBSET Entries :
          /\ file \in {[kind |-> "text", lines |-> lines, stamp |-> <<0, Cardinality(lines)>>],
                       [kind |-> "absent", lines |-> {}, stamp |-> <<0, 0>>]}
          /\ kept = file.lines
    /\ edit = None /\ now = 0 /\ edits = 0
    /\ stamps = {file.stamp} /\ reused = FALSE
    /\ list = Unloaded /\ due = TRUE /\ reader = None /\ seen = None
    /\ at = [t \in Threads |-> IF t = Main THEN "ask" ELSE "down"]
    /\ hand = [t \in Threads |-> {}]
    /\ pick = [d \in Dispatchers |-> None]
    /\ pending = [d \in Dispatchers |-> Urls]
    /\ queue = [d \in Dispatchers |-> {}] /\ taken = [d \in Dispatchers |-> {}]
    /\ faults = 0
    /\ late = [d \in Dispatchers |-> 0]

-----------------------------------------------------------------------------
(* The file.                                                               *)

Write(kind, lines, mtime) ==
    LET stamp == <<mtime, Cardinality(lines)>>
    IN /\ file' = [kind |-> kind, lines |-> lines, stamp |-> stamp]
       /\ stamps' = stamps \cup {stamp}
       /\ reused' = (reused \/ stamp \in stamps)

(* An editor that truncates the file and writes it line by line, *)
Truncate(lines) ==
    /\ edit = None /\ edits < MaxEdits /\ file.kind \in {"text", "undecodable"}
    /\ Write("text", {}, now)
    /\ edit' = IF lines = {} THEN None ELSE lines
    /\ edits' = edits + 1 /\ kept' = kept \cap lines
    /\ UNCHANGED <<now, loaded, at, hand, pick, tasks, faults, late>>

WriteLine(entry) ==
    /\ edit # None /\ file.kind = "text"
    /\ entry \in edit \ file.lines
    /\ Write("text", file.lines \cup {entry}, now)
    /\ edit' = IF file'.lines = edit THEN None ELSE edit
    /\ UNCHANGED <<now, edits, kept, loaded, at, hand, pick, tasks, faults, late>>

(* or one that writes another file and renames it, which may have any      *)
(* date, and a byte in it that is not UTF-8.                               *)
Replace(kind, lines, mtime) ==
    /\ edit = None /\ edits < MaxEdits
    /\ Write(kind, lines, mtime)
    /\ edits' = edits + 1 /\ kept' = kept \cap lines
    /\ UNCHANGED <<edit, now, loaded, at, hand, pick, tasks, faults, late>>

(* It is gone or may not be read for a while. *)
Vanish(kind) ==
    /\ edit = None /\ file.kind = "text" /\ Fault
    /\ file' = [file EXCEPT !.kind = kind]
    /\ UNCHANGED <<edit, now, edits, stamps, reused, kept, loaded, at, hand, pick, tasks, late>>

Return ==
    /\ edit = None /\ file.kind \in {"absent", "unreadable"}
    /\ file' = [file EXCEPT !.kind = "text"]
    /\ UNCHANGED <<edit, now, edits, stamps, reused, kept, loaded, at, hand, pick, tasks, faults,
                   late>>

Tick ==
    /\ now < MaxTicks
    /\ now' = now + 1
    /\ UNCHANGED <<file, edit, edits, stamps, reused, kept, loaded, at, hand, pick, tasks, faults,
                   late>>

-----------------------------------------------------------------------------
(* FileBlocklist.current.                                                  *)

Elapse ==
    /\ ~due
    /\ due' = TRUE
    /\ UNCHANGED <<disk, list, reader, seen, at, hand, pick, tasks, faults, late>>

(* The thread has its list; when the main thread has it, the dispatchers   *)
(* are started (Registration has how).                                     *)
Answer(t, lines) ==
    /\ hand' = [hand EXCEPT ![t] = lines]
    /\ at' = IF t = Main THEN [x \in Threads |-> IF x = Main THEN "up" ELSE "idle"]
             ELSE [at EXCEPT ![t] = "query"]

(* Mutant: a dispatcher that has a list consults it no more. *)
AskOnce(t) ==
    /\ at[t] = "ask" /\ reader = None
    /\ due' = (due /\ hand[t] # {})
    /\ IF ~due \/ hand[t] # {} \/ file.kind = "absent"
       THEN Answer(t, IF hand[t] # {} THEN hand[t] ELSE list.lines) /\ UNCHANGED <<reader, seen>>
       ELSE reader' = t /\ seen' = file.stamp /\ at' = [at EXCEPT ![t] = "read"] /\ UNCHANGED hand
    /\ UNCHANGED <<disk, list, pick, tasks, faults, late>>

(* The interval, then stat: a file that is gone or has the stamp of the    *)
(* list is not read.                                                       *)
Ask(t) ==
    /\ at[t] = "ask" /\ reader = None
    /\ due' = FALSE
    /\ \/ /\ ~due \/ file.kind = "absent" \/ file.stamp = list.stamp
          /\ Answer(t, list.lines)
          /\ UNCHANGED <<reader, seen>>
       \/ /\ due /\ file.kind # "absent" /\ file.stamp # list.stamp
          /\ reader' = t /\ seen' = file.stamp
          /\ at' = [at EXCEPT ![t] = "read"]
          /\ UNCHANGED hand
    /\ UNCHANGED <<disk, list, pick, tasks, faults, late>>

Released == reader' = None /\ seen' = None

Load(t) ==
    /\ at[t] = "read" /\ file.kind = "text"
    /\ list' = [lines |-> file.lines, stamp |-> seen]
    /\ late' = IF file.lines = list.lines THEN late ELSE [d \in Dispatchers |-> 0]
    /\ Released
    /\ Answer(t, file.lines)
    /\ UNCHANGED <<disk, due, pick, tasks, faults>>

(* Mutant: the stamp is noted before the file is read. *)
StampFirst(t) ==
    /\ at[t] = "read" /\ file.kind \in {"absent", "unreadable"}
    /\ list' = [list EXCEPT !.stamp = seen]
    /\ Released
    /\ Answer(t, list.lines)
    /\ UNCHANGED <<disk, due, pick, tasks, faults, late>>

(* An OSError keeps the list. *)
KeepList(t) ==
    /\ at[t] = "read" /\ file.kind \in {"absent", "unreadable"}
    /\ Released
    /\ Answer(t, list.lines)
    /\ UNCHANGED <<disk, list, due, pick, tasks, faults, late>>

(* A UnicodeDecodeError is none: it ends the dispatcher, which the         *)
(* supervisor restarts, or, at the start, the process.                     *)
Raise(t) ==
    /\ at[t] = "read" /\ file.kind = "undecodable"
    /\ Released
    /\ due' = (t = Main)
    /\ at' = [at EXCEPT ![t] = IF t = Main THEN "ask" ELSE "idle"]
    /\ UNCHANGED <<disk, list, hand, pick, tasks, faults, late>>

-----------------------------------------------------------------------------
(* dispatch_step.                                                          *)

CheckDepth(d) ==
    /\ at[d] = "idle" /\ Cardinality(queue[d]) <= Threshold
    /\ at' = [at EXCEPT ![d] = "ask"]
    /\ UNCHANGED <<disk, loaded, hand, pick, tasks, faults, late>>

(* next_dispatchable: any of the rows that are not excluded.               *)
NextDispatchable(d) ==
    /\ at[d] = "query"
    /\ LET rows == {u \in pending[d] : ~Excluded(hand[d], u)}
       IN \/ \E u \in rows : pick' = [pick EXCEPT ![d] = u] /\ at' = [at EXCEPT ![d] = "publish"]
          \/ rows = {} /\ at' = [at EXCEPT ![d] = "idle"] /\ UNCHANGED pick
    /\ UNCHANGED <<disk, loaded, hand, tasks, faults, late>>

(* Mutant: a dispatcher fills its queue with the list it was given. *)
PublishAll(d) ==
    /\ at[d] = "publish"
    /\ queue' = [queue EXCEPT ![d] = @ \cup {pick[d]}]
    /\ pending' = [pending EXCEPT ![d] = @ \ {pick[d]}]
    /\ late' = IF Excluded(list.lines, pick[d]) THEN [late EXCEPT ![d] = @ + 1] ELSE late
    /\ pick' = [pick EXCEPT ![d] = None]
    /\ at' = [at EXCEPT ![d] = "query"]
    /\ UNCHANGED <<disk, loaded, hand, taken, faults>>

Publish(d) ==
    /\ at[d] = "publish"
    /\ \/ /\ queue' = [queue EXCEPT ![d] = @ \cup {pick[d]}]
          /\ pending' = [pending EXCEPT ![d] = @ \ {pick[d]}]
          /\ late' = IF Excluded(list.lines, pick[d]) THEN [late EXCEPT ![d] = @ + 1] ELSE late
          /\ UNCHANGED faults
       \/ Fault /\ UNCHANGED <<queue, pending, late>>
    /\ pick' = [pick EXCEPT ![d] = None]
    /\ at' = [at EXCEPT ![d] = "idle"]
    /\ UNCHANGED <<disk, loaded, hand, taken>>

(* A builder takes a task: it knows of no list. *)
Take(d) ==
    /\ \E u \in queue[d] :
          /\ queue' = [queue EXCEPT ![d] = @ \ {u}]
          /\ taken' = [taken EXCEPT ![d] = @ \cup {u}]
    /\ UNCHANGED <<disk, loaded, at, hand, pick, pending, faults, late>>

(* A coordinator that starts again has no list at first. *)
Restart ==
    /\ at[Main] = "up" /\ Fault
    /\ list' = Unloaded /\ due' = TRUE /\ reader' = None /\ seen' = None
    /\ at' = [t \in Threads |-> IF t = Main THEN "ask" ELSE "down"]
    /\ hand' = [t \in Threads |-> {}]
    /\ pick' = [d \in Dispatchers |-> None]
    /\ late' = [d \in Dispatchers |-> 0]
    /\ UNCHANGED <<disk, tasks>>

-----------------------------------------------------------------------------
Current(t) == Ask(t) \/ Load(t) \/ KeepList(t) \/ Raise(t)
DispatchStep(d) == CheckDepth(d) \/ NextDispatchable(d) \/ Publish(d)

Next ==
    \/ \E lines \in SUBSET Entries :
          \/ Truncate(lines)
          \/ \E kind \in {"text", "undecodable"}, mtime \in 0..now : Replace(kind, lines, mtime)
    \/ \E entry \in Entries : WriteLine(entry)
    \/ \E kind \in {"absent", "unreadable"} : Vanish(kind)
    \/ Return \/ Tick \/ Elapse
    \/ \E t \in Threads : Current(t)
    \/ \E d \in Dispatchers : DispatchStep(d) \/ Take(d)
    \/ Restart

(* Threads are scheduled, time passes, editors finish what they began, and *)
(* builders take tasks; a file that is gone need not come back.            *)
Fairness ==
    /\ WF_vars(Elapse)
    /\ WF_vars(\E entry \in Entries : WriteLine(entry))
    /\ \A t \in Threads : WF_vars(Current(t))
    /\ \A d \in Dispatchers : WF_vars(DispatchStep(d)) /\ WF_vars(Take(d))

Spec == Init /\ [][Next]_vars /\ Fairness

-----------------------------------------------------------------------------
(* Every variable keeps its type; one thread at a time reloads, with a     *)
(* stamp the file had; a dispatcher publishes a task the list it was given *)
(* lets through; and a task is in one place.                               *)
TypeOK ==
    /\ file.kind \in {"text", "absent", "unreadable", "undecodable"} /\ file.lines \subseteq Entries
    /\ edit \in (SUBSET Entries) \cup {None} /\ now \in 0..MaxTicks
    /\ list.lines \subseteq Entries /\ list.stamp \in stamps \cup {None}
    /\ due \in BOOLEAN /\ reader \in Threads \cup {None} /\ seen \in stamps \cup {None}
    /\ \A t \in Threads : at[t] = "read" <=> reader = t
    /\ at[Main] \in {"ask", "read", "up"}
    /\ \A d \in Dispatchers :
          /\ at[d] \in {"down", "idle", "ask", "read", "query", "publish"}
          /\ at[d] = "down" <=> at[Main] # "up"
          /\ hand[d] \subseteq Entries
          /\ at[d] = "publish" => pick[d] \in pending[d] /\ ~Excluded(hand[d], pick[d])
          /\ pending[d] \cup queue[d] \cup taken[d] = Urls
          /\ pending[d] \cap queue[d] = {} /\ (pending[d] \cup queue[d]) \cap taken[d] = {}
    /\ edits \in 0..MaxEdits /\ faults \in 0..MaxFaults

(* The patterns of the query name what the list names: a url is excluded   *)
(* exactly if its last two parts are of a blocked owner or repository, for *)
(* urls whose name has no suffix ".git" and lists that name no owner after *)
(* a part before those two (an account "repos" would block every API url). *)
ExclusionIsExact ==
    \A u \in Urls :
        LET segs == Segments(u)
            before == {Folded(segs[i]) : i \in 1..(Len(segs) - 2)}
            owners == Owners(list.lines) \cup {r[1] : r \in Repos(list.lines)}
        IN Len(segs) > 2 /\ Len(u.parts) > 1 /\ Bare[u.parts[Len(u.parts)]] = u.parts[Len(u.parts)]
              /\ before \cap owners = {}
           => (Excluded(list.lines, u) <=> Matches(list.lines, u))

(* No edit is taken for loaded: while the file has the stamp of the list,  *)
(* the list is its text, whoever wrote the file between stat and read or   *)
(* kept it from being read; unless the file got a stamp that it had        *)
(* before, by a write of the same length in one tick or with an old date.  *)
StampTellsTheText ==
    ~reused /\ list.stamp = file.stamp => list.lines = file.lines

(* A dispatcher publishes at most one task against a list that has been    *)
(* loaded, the one it had selected or was about to select.                 *)
AtMostOneLate == \A d \in Dispatchers : late[d] <= 1

(* An edit takes effect on a coordinator that runs: the list is in the end *)
(* the file's text, unless the file stays unreadable or got a stamp twice. *)
EditTakesEffect ==
    []<>(file.kind = "text" /\ ~reused => list.lines = file.lines)

(* As blocklist.py says: "a truncated or briefly-unreadable file cannot    *)
(* quietly re-admit a repository": one that every version of the file      *)
(* names is not selected.                                                  *)
NeverReadmitted ==
    \A d \in Dispatchers : at[d] = "publish" => ~Excluded(kept, pick[d])
=============================================================================
