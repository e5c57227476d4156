------------------------------- MODULE Scraper -------------------------------
(***************************************************************************)
(* Scrapers and the coordinator's side of them.                            *)
(*                                                                         *)
(* A scraper walks GitHub's search results window by window, backwards in  *)
(* time, caches the repositories it sees and sends them in bundles: as     *)
(* soon as a bundle is full, or when the coordinator asks.  Its crawl      *)
(* thread shares `control` with the consumer thread of its private queue.  *)
(* The coordinator keeps one row per crawl, which says from where the next *)
(* owner of the row goes on, and asks registered scrapers for repositories *)
(* when a dispatcher starves, one request at a time.                       *)
(*                                                                         *)
(* Time runs backwards in the code; here windows are numbered from 1 in    *)
(* the order of the walk and a crawl time is the number of windows behind  *)
(* it: a crawl that starts at w goes on with window w + 1.                 *)
(*                                                                         *)
(* Bounds: MaxFaults for everything that fails, MaxAlive scrapers at a     *)
(* time, MaxQueued messages on a queue.                                    *)
(***************************************************************************)
EXTENDS Integers, Sequences, FiniteSets

CONSTANTS
    Scrapers,       \* uuids; a scraper that is started again has a new one
    Repos,
    Last,           \* the number of windows down to default_end_time
    Results,        \* Results[w]: what the search finds in window w
    Eligible,       \* repositories with a license and files
    Malformed,      \* results whose conversion raises (a null language)
    PageSize,       \* SCRAPER_PAGE_SIZE
    Cap,            \* the assumed number of results before the first page
    BundleSize,     \* SCRAPER_REPO_BUNDLESIZE
    Continuous,     \* scrapers with policy CONTINUOUS, the others ON_REQUEST
    Waiting,        \* scrapers with wait_for_config
    None,
    MaxFaults, MaxAlive, MaxQueued

ASSUME ScraperAssumption ==
    /\ Last \in Nat
    /\ Results \in [1..Last -> Seq(Repos)]
    /\ Eligible \subseteq Repos
    /\ Malformed \subseteq Repos
    /\ PageSize \in Nat \ {0} /\ Cap \in Nat \ {0} /\ BundleSize \in Nat \ {0}
    /\ None \notin Scrapers /\ None \notin 0..Last
    /\ MaxFaults \in Nat /\ MaxAlive \in Nat /\ MaxQueued \in Nat

VARIABLES
    crawl,          \* each crawl thread: where it stands, window, page, results
    control,        \* CrawlControl, and crawl_time_start of the search
    cache,          \* the repositories RepoBundler holds
    listening,      \* scrapers whose private queue exists
    ctrl,           \* scraper_ctrl_{uuid}
    regs,           \* queue scraper_reg
    rows,           \* table scrapers
    registry,       \* ScraperRegistry
    starving,       \* some flag of StarvationSignals is set
    pending,        \* PendingRepoRequest: a request is outstanding
    bundles,        \* how many bundles are on queue scrape
    faults,
    seen, published, lost, missed,      \* history: what became of a repository
    walked, cut                         \* history: what became of a window

scraperVars == <<crawl, control, cache>>
queueVars == <<listening, ctrl, regs>>
coordVars == <<rows, registry, starving, pending, bundles>>
repoHistory == <<seen, published, lost, missed>>
windowHistory == <<walked, cut>>
vars == <<scraperVars, queueVars, coordVars, faults, repoHistory, windowHistory>>

NoFault == UNCHANGED faults
Fault == faults < MaxFaults /\ faults' = faults + 1

Elements(q) == {q[i] : i \in DOMAIN q}
Idle == [at |-> "unborn", window |-> 0, page |-> -1, total |-> Cap, items |-> <<>>]
Fresh(s) == [ready |-> s \notin Waiting, requested |-> FALSE, start |-> 0, lastSent |-> None]

Init ==
    /\ crawl = [s \in Scrapers |-> Idle]
    /\ control = [s \in Scrapers |-> Fresh(s)]
    /\ cache = [s \in Scrapers |-> <<>>]
    /\ listening = {}
    /\ ctrl = [s \in Scrapers |-> <<>>]
    /\ regs = <<>>
    /\ rows = <<>>
    /\ registry = {}
    /\ starving = FALSE
    /\ pending = FALSE
    /\ bundles = 0
    /\ faults = 0
    /\ seen = {} /\ published = {} /\ lost = {} /\ missed = {}
    /\ walked = {} /\ cut = {}

Alive(s) == crawl[s].at \notin {"unborn", "dead"}
InWindow(s) == crawl[s].at \in {"page", "repo", "sync", "bundle", "full", "clear"}

-----------------------------------------------------------------------------
(* The crawl thread of scraper s.                                          *)

Goto(s, at) == crawl' = [crawl EXCEPT ![s].at = at]

(* ScraperApp.run: a new uuid, its private queue, then the two services.   *)
Boot(s) ==
    /\ crawl[s].at = "unborn"
    /\ Cardinality({x \in Scrapers : Alive(x)}) < MaxAlive
    /\ Goto(s, "setup")
    /\ listening' = listening \union {s}
    /\ UNCHANGED <<control, cache, ctrl, regs, coordVars, faults, repoHistory, windowHistory>>

(* Publishing on scraper_reg.  A failure is logged and the thread goes on; *)
(* a publish whose confirm is lost is repeated.                            *)
Sent(s, type, start) ==
    LET m == [from |-> s, type |-> type, start |-> start] IN
    \/ NoFault /\ regs' = Append(regs, m)
    \/ Fault /\ regs' = regs \o <<m, m>>
NotSent == Fault /\ UNCHANGED regs

Announce(s) ==
    /\ crawl[s].at = "setup"
    /\ Len(regs) < MaxQueued
    /\ Sent(s, "SETUP", control[s].start) \/ NotSent
    /\ Goto(s, "await")
    /\ UNCHANGED <<control, cache, listening, ctrl, coordVars, repoHistory, windowHistory>>

(* _await_config gives up waiting every _SETUP_RETRY_S and asks again.     *)
Reannounce(s) ==
    /\ crawl[s].at = "await"
    /\ ~control[s].ready
    /\ Len(regs) < MaxQueued
    /\ Sent(s, "SETUP", control[s].start)
    /\ UNCHANGED <<scraperVars, listening, ctrl, coordVars, repoHistory, windowHistory>>

(* fetch_data starts at crawl_time_start as it is now.                     *)
StartCrawl(s) ==
    /\ crawl[s].at = "await"
    /\ control[s].ready
    /\ crawl' = [crawl EXCEPT ![s].at = "turn", ![s].window = control[s].start]
    /\ UNCHANGED <<control, cache, queueVars, coordVars, faults, repoHistory, windowHistory>>

(* Mutant: the step to the next window is taken before and after its pages.*)
NextWindowTwice(s) ==
    /\ crawl[s].at = "turn"
    /\ crawl[s].window < Last
    /\ crawl' = [crawl EXCEPT ![s].at = "page", ![s].window = @ + 2,
                              ![s].page = -1, ![s].total = Cap]
    /\ crawl'[s].window <= Last
    /\ UNCHANGED <<control, cache, queueVars, coordVars, faults, repoHistory, windowHistory>>

NextWindow(s) ==
    /\ crawl[s].at = "turn"
    /\ crawl[s].window < Last
    /\ crawl' = [crawl EXCEPT ![s].at = "page", ![s].window = @ + 1,
                              ![s].page = -1, ![s].total = Cap]
    /\ UNCHANGED <<control, cache, queueVars, coordVars, faults, repoHistory, windowHistory>>

(* The walk is through: run returns and the supervisor restarts it.        *)
FinishCrawl(s) ==
    /\ crawl[s].at = "turn"
    /\ crawl[s].window >= Last
    /\ crawl' = [crawl EXCEPT ![s] = [Idle EXCEPT !.at = "setup"]]
    /\ UNCHANGED <<control, cache, queueVars, coordVars, faults, repoHistory, windowHistory>>

(* Mutant: pages counted from one, with one request too few. *)
FewerPages(s) == (crawl[s].page + 1) * PageSize < crawl[s].total

MorePages(s) == crawl[s].page * PageSize < crawl[s].total

(* GitHub answers page 0 as it answers page 1.                             *)
PageOf(w, p) ==
    LET first == (IF p = 0 THEN 0 ELSE p - 1) * PageSize
        last == first + PageSize
    IN  SubSeq(Results[w], first + 1, IF last < Len(Results[w]) THEN last ELSE Len(Results[w]))

(* One search request.  get_request retries rate limits itself; when it    *)
(* gives up it returns None, and the walk goes on with the next page.      *)
RequestPage(s) ==
    LET p == crawl[s].page + 1
        found == PageOf(crawl[s].window, p)
    IN  /\ crawl[s].at = "page"
        /\ MorePages(s)
        /\ \/ /\ NoFault
              /\ crawl' = [crawl EXCEPT
                    ![s].at = "repo", ![s].page = p, ![s].items = found,
                    ![s].total = IF Len(Results[crawl[s].window]) < @
                                 THEN Len(Results[crawl[s].window]) ELSE @]
              /\ UNCHANGED missed
           \/ /\ Fault
              /\ crawl' = [crawl EXCEPT ![s].page = p]
              /\ missed' = missed \union Elements(found)
        /\ UNCHANGED <<control, cache, queueVars, coordVars, seen, published, lost, windowHistory>>

LeaveWindow(s) ==
    /\ crawl[s].at = "page"
    /\ ~MorePages(s)
    /\ Goto(s, "turn")
    /\ walked' = walked \union {crawl[s].window}
    /\ UNCHANGED <<control, cache, queueVars, coordVars, faults, repoHistory, cut>>

(* The next result of the page: yielded and cached unconditionally, or     *)
(* filtered out, or its tree cannot be had.                                *)
TakeRepo(s) ==
    LET r == Head(crawl[s].items) IN
    /\ crawl[s].at = "repo"
    /\ crawl[s].items # <<>>
    /\ r \notin Malformed
    /\ \/ /\ NoFault
          /\ r \in Eligible
          /\ crawl' = [crawl EXCEPT ![s].at = "sync", ![s].items = Tail(@)]
          /\ cache' = [cache EXCEPT ![s] = Append(@, r)]
          /\ seen' = seen \union {r}
          /\ UNCHANGED missed
       \/ /\ NoFault
          /\ r \notin Eligible
          /\ crawl' = [crawl EXCEPT ![s].items = Tail(@)]
          /\ UNCHANGED <<cache, seen, missed>>
       \/ /\ Fault
          /\ crawl' = [crawl EXCEPT ![s].items = Tail(@)]
          /\ missed' = missed \union {r}
          /\ UNCHANGED <<cache, seen>>
    /\ UNCHANGED <<control, queueVars, coordVars, published, lost, windowHistory>>

(* The page is used up, or a malformed result raises: fetch_data catches   *)
(* that outside the loop over the page, so the rest of the page is gone.   *)
LeavePage(s) ==
    LET rest == crawl[s].items IN
    /\ crawl[s].at = "repo"
    /\ rest # <<>> => Head(rest) \in Malformed
    /\ crawl' = [crawl EXCEPT ![s].at = "page", ![s].items = <<>>]
    /\ missed' = missed \union Elements(rest)
    /\ UNCHANGED <<control, cache, queueVars, coordVars, faults, seen, published, lost,
                   windowHistory>>

(* _check_for_update: the stored crawl time follows the window as soon as  *)
(* its first repository is cached.                                         *)
CheckForUpdate(s) ==
    LET w == crawl[s].window IN
    /\ crawl[s].at = "sync"
    /\ Goto(s, "bundle")
    /\ \/ /\ control[s].lastSent = w
          /\ NoFault
          /\ UNCHANGED <<regs, control>>
       \/ /\ control[s].lastSent # w
          /\ Len(regs) < MaxQueued
          /\ Sent(s, "UPDATE", w)
          /\ control' = [control EXCEPT ![s].lastSent = w]
       \/ /\ control[s].lastSent # w
          /\ NotSent
          /\ UNCHANGED control
    /\ UNCHANGED <<cache, listening, ctrl, coordVars, repoHistory, windowHistory>>

Full(s) == Len(cache[s]) >= BundleSize

(* Mutant: the cache is cleared whatever the publish does. *)
FlushBlindly(s) ==
    /\ bundles < MaxQueued
    /\ \/ NoFault /\ bundles' = bundles + 1 /\ published' = published \union Elements(cache[s])
       \/ Fault /\ UNCHANGED <<bundles, published>>
    /\ cache' = [cache EXCEPT ![s] = <<>>]

(* RepoBundler.flush: the cache is cleared once the bundle is confirmed.   *)
Flush(s) ==
    /\ bundles < MaxQueued
    /\ NoFault
    /\ bundles' = bundles + 1
    /\ published' = published \union Elements(cache[s])
    /\ cache' = [cache EXCEPT ![s] = <<>>]

(* A full cache is sent at once under CONTINUOUS.                          *)
Bundle(s) ==
    /\ crawl[s].at = "bundle"
    /\ \/ /\ s \in Continuous /\ Full(s)
          /\ Flush(s)
          /\ Goto(s, "repo")
       \/ /\ ~(s \in Continuous /\ Full(s))
          /\ Goto(s, IF Full(s) THEN "full" ELSE "repo")
          /\ NoFault
          /\ UNCHANGED <<bundles, published, cache>>
    /\ UNCHANGED <<control, queueVars, rows, registry, starving, pending, seen, lost, missed,
                   windowHistory>>

(* Under ON_REQUEST it waits for a request, and the flag is cleared after  *)
(* the bundle is out.                                                      *)
FlushOnRequest(s) ==
    /\ crawl[s].at = "full"
    /\ control[s].requested
    /\ Flush(s)
    /\ Goto(s, "clear")
    /\ UNCHANGED <<control, queueVars, rows, registry, starving, pending, seen, lost, missed,
                   windowHistory>>

ClearRequest(s) ==
    /\ crawl[s].at = "clear"
    /\ control' = [control EXCEPT ![s].requested = FALSE]
    /\ Goto(s, "repo")
    /\ UNCHANGED <<cache, queueVars, coordVars, faults, repoHistory, windowHistory>>

(* The publish of a bundle fails: the service raises and is restarted; the *)
(* cache survives, the window under way does not.                          *)
FlushFails(s) ==
    /\ \/ crawl[s].at = "bundle" /\ s \in Continuous /\ Full(s)
       \/ crawl[s].at = "full" /\ control[s].requested
    /\ Fault
    /\ cut' = cut \union {crawl[s].window}
    /\ crawl' = [crawl EXCEPT ![s] = [Idle EXCEPT !.at = "setup"]]
    /\ UNCHANGED <<control, cache, queueVars, coordVars, repoHistory, walked>>

(* The process ends, with its cache and its auto-deleted queue.            *)
Dies(s) ==
    /\ Alive(s)
    /\ Fault
    /\ lost' = lost \union Elements(cache[s])
    /\ cut' = IF InWindow(s) THEN cut \union {crawl[s].window} ELSE cut
    /\ crawl' = [crawl EXCEPT ![s] = [Idle EXCEPT !.at = "dead"]]
    /\ control' = [control EXCEPT ![s] = Fresh(s)]
    /\ cache' = [cache EXCEPT ![s] = <<>>]
    /\ ctrl' = [ctrl EXCEPT ![s] = <<>>]
    /\ listening' = listening \ {s}
    /\ UNCHANGED <<regs, coordVars, seen, published, missed, walked>>

-----------------------------------------------------------------------------
(* The control consumer of scraper s: _on_control.                         *)

OnControl(s) ==
    /\ ctrl[s] # <<>>
    /\ ctrl' = [ctrl EXCEPT ![s] = Tail(@)]
    /\ LET m == Head(ctrl[s]) IN
       control' = [control EXCEPT ![s] =
           CASE m.type = "SETUP"  -> [@ EXCEPT !.start = m.start, !.lastSent = m.start,
                                               !.ready = TRUE]
             [] m.type = "UPDATE" -> [@ EXCEPT !.ready = TRUE]
             [] OTHER             -> [@ EXCEPT !.requested = TRUE]]
    /\ UNCHANGED <<crawl, cache, listening, regs, coordVars, faults, repoHistory, windowHistory>>

(* Its connection is lost: the queue is deleted with what it holds, and    *)
(* declared again.                                                         *)
ControlReconnects(s) ==
    /\ ctrl[s] # <<>>
    /\ Fault
    /\ ctrl' = [ctrl EXCEPT ![s] = <<>>]
    /\ UNCHANGED <<scraperVars, listening, regs, coordVars, repoHistory, windowHistory>>

-----------------------------------------------------------------------------
(* The coordinator.                                                        *)

OwnedBy(o) == {i \in DOMAIN rows : rows[i].owner = o}

(* Mutant: ownership is not looked up first. *)
ClaimAnyRow(s, start) ==
    \/ /\ OwnedBy(None) # {}
       /\ \E i \in OwnedBy(None) : rows' = [rows EXCEPT ![i].owner = s]
    \/ /\ OwnedBy(None) = {}
       /\ rows' = Append(rows, [start |-> start, owner |-> s])

(* register_scraper: the rows afterwards, and the row of s among them.     *)
ClaimRow(s, start) ==
    \/ OwnedBy(s) # {} /\ UNCHANGED rows
    \/ /\ OwnedBy(s) = {}
       /\ \E i \in OwnedBy(None) : rows' = [rows EXCEPT ![i].owner = s]
    \/ /\ OwnedBy(s) = {} /\ OwnedBy(None) = {}
       /\ rows' = Append(rows, [start |-> start, owner |-> s])

(* update_scraper: moves the row, or makes one if a restart took it.       *)
MoveRow(s, start) ==
    \/ \E i \in OwnedBy(s) : rows' = [rows EXCEPT ![i].start = start]
    \/ /\ OwnedBy(s) = {}
       /\ rows' = Append(rows, [start |-> start, owner |-> s])

RowStart(s) == LET i == CHOOSE i \in DOMAIN rows' : rows'[i].owner = s IN rows'[i].start

(* handle_scraper_registration and the ack.  The reply to a queue that is  *)
(* gone is unroutable: the handler raises after its transaction, and the   *)
(* message is requeued at the head.                                        *)
OnScraperReg ==
    /\ regs # <<>>
    /\ LET m == Head(regs) IN
       /\ IF m.type = "SETUP" THEN ClaimRow(m.from, m.start) ELSE MoveRow(m.from, m.start)
       /\ IF m.from \in listening
          THEN /\ Len(ctrl[m.from]) < MaxQueued
               /\ ctrl' = [ctrl EXCEPT ![m.from] = Append(@,
                      [type |-> m.type,
                       start |-> IF m.type = "SETUP" THEN RowStart(m.from) ELSE None])]
               /\ registry' = IF m.type = "SETUP" THEN registry \union {m.from} ELSE registry
               /\ \/ NoFault /\ regs' = Tail(regs)
                  \/ Fault /\ UNCHANGED regs
          ELSE NoFault /\ UNCHANGED <<ctrl, registry, regs>>
    /\ UNCHANGED <<scraperVars, listening, starving, pending, bundles, repoHistory, windowHistory>>

(* A dispatcher finds no row for its option.                               *)
Starve ==
    /\ ~starving
    /\ starving' = TRUE
    /\ UNCHANGED <<scraperVars, queueVars, rows, registry, pending, bundles, faults, repoHistory,
                   windowHistory>>

(* Mutant: an outstanding request never times out. *)
RequestOnce ==
    /\ ~pending
    /\ starving
    /\ \A s \in registry : Len(ctrl[s]) < MaxQueued
    /\ starving' = FALSE
    /\ pending' = TRUE
    /\ \/ /\ NoFault
          /\ ctrl' = [s \in Scrapers |->
                 IF s \in registry \intersect listening
                 THEN Append(ctrl[s], [type |-> "REQUEST_REPOS", start |-> None])
                 ELSE ctrl[s]]
       \/ Fault /\ UNCHANGED ctrl
    /\ UNCHANGED <<scraperVars, listening, regs, rows, registry, bundles, repoHistory,
                   windowHistory>>

(* One round of ScraperRequestService.run: the flags are taken, and the    *)
(* gate lets a request through unless one is outstanding and not older     *)
(* than COORDINATOR_REPO_REQUEST_TIMEOUT.  The broadcast reaches the       *)
(* registered scrapers whose queue still exists.                           *)
RequestRepos ==
    /\ starving
    /\ \A s \in registry : Len(ctrl[s]) < MaxQueued
    /\ starving' = FALSE
    /\ pending' = TRUE
    /\ \/ /\ NoFault
          /\ ctrl' = [s \in Scrapers |->
                 IF s \in registry \intersect listening
                 THEN Append(ctrl[s], [type |-> "REQUEST_REPOS", start |-> None])
                 ELSE ctrl[s]]
       \/ Fault /\ UNCHANGED ctrl
    /\ UNCHANGED <<scraperVars, listening, regs, rows, registry, bundles, repoHistory,
                   windowHistory>>

(* The flags are taken although the gate is shut.                          *)
RequestRefused ==
    /\ starving
    /\ pending
    /\ starving' = FALSE
    /\ UNCHANGED <<scraperVars, queueVars, rows, registry, pending, bundles, faults,
                   repoHistory, windowHistory>>

(* handle_scrape inserts the repositories and opens the gate.              *)
OnScrape ==
    /\ bundles > 0
    /\ pending' = FALSE
    /\ \/ NoFault /\ bundles' = bundles - 1
       \/ Fault /\ UNCHANGED bundles
    /\ UNCHANGED <<scraperVars, queueVars, rows, registry, starving, repoHistory, windowHistory>>

(* ready_scraper_table frees every row; what was in memory is gone.        *)
CoordinatorRestarts ==
    /\ Fault
    /\ rows' = [i \in DOMAIN rows |-> [rows[i] EXCEPT !.owner = None]]
    /\ registry' = {}
    /\ starving' = FALSE
    /\ pending' = FALSE
    /\ UNCHANGED <<scraperVars, queueVars, bundles, repoHistory, windowHistory>>

-----------------------------------------------------------------------------

Walk(s) ==
    \/ StartCrawl(s) \/ NextWindow(s) \/ FinishCrawl(s) \/ RequestPage(s) \/ LeaveWindow(s)
    \/ TakeRepo(s) \/ LeavePage(s) \/ CheckForUpdate(s) \/ Bundle(s)
    \/ FlushOnRequest(s) \/ ClearRequest(s)

Next ==
    \/ \E s \in Scrapers :
          \/ Boot(s) \/ Announce(s) \/ Reannounce(s) \/ Walk(s)
          \/ FlushFails(s) \/ Dies(s) \/ OnControl(s) \/ ControlReconnects(s)
    \/ OnScraperReg \/ Starve \/ RequestRepos \/ RequestRefused \/ OnScrape
    \/ CoordinatorRestarts

Fairness ==
    /\ \A s \in Scrapers :
          /\ WF_vars(Announce(s)) /\ WF_vars(Reannounce(s)) /\ WF_vars(Walk(s))
          /\ WF_vars(OnControl(s))
    /\ WF_vars(OnScraperReg) /\ WF_vars(Starve) /\ SF_vars(RequestRepos)
    /\ WF_vars(OnScrape)

Spec == Init /\ [][Next]_vars /\ Fairness

-----------------------------------------------------------------------------

RegMsgs == [from : Scrapers, type : {"SETUP", "UPDATE"}, start : 0..Last]
CtrlMsgs == [type : {"SETUP", "UPDATE", "REQUEST_REPOS"}, start : 0..Last \union {None}]

(* Every variable has its type. *)
TypeOK ==
    /\ crawl \in [Scrapers ->
          [at : {"unborn", "setup", "await", "turn", "page", "repo", "sync", "bundle", "full",
                 "clear", "dead"},
           window : 0..Last, page : Int, total : Nat, items : Seq(Repos)]]
    /\ control \in [Scrapers -> [ready : BOOLEAN, requested : BOOLEAN, start : 0..Last,
                                 lastSent : 0..Last \union {None}]]
    /\ cache \in [Scrapers -> Seq(Repos)]
    /\ listening \in SUBSET Scrapers
    /\ ctrl \in [Scrapers -> Seq(CtrlMsgs)]
    /\ regs \in Seq(RegMsgs)
    /\ rows \in Seq([start : 0..Last, owner : Scrapers \union {None}])
    /\ registry \in SUBSET Scrapers
    /\ starving \in BOOLEAN
    /\ pending \in BOOLEAN
    /\ bundles \in Nat
    /\ faults \in 0..MaxFaults
    /\ {seen, published, lost, missed} \subseteq SUBSET Repos
    /\ {walked, cut} \subseteq SUBSET (1..Last)

(* "Cache first, unconditionally, so no repo is ever lost" (_crawl): a     *)
(* repository the walk yielded is in a bundle that was sent, or in a       *)
(* cache, or went with a scraper that died.                                *)
SeenIsKept ==
    seen \subseteq published \union lost \union UNION {Elements(cache[s]) : s \in Scrapers}

(* The stored crawl time never jumps over a window: the windows behind it  *)
(* were walked to the end, or a crawl was interrupted in them (a failed    *)
(* bundle, a dead scraper), or are being walked (_check_for_update).       *)
StoredIsWalked ==
    \A i \in DOMAIN rows : \A w \in 1..rows[i].start :
        w \in walked \union cut \union {crawl[s].window : s \in {x \in Scrapers : InWindow(x)}}

(* A window walked to the end had all its results requested: a repository  *)
(* that is not cached was filtered out or is known to be missed.  Counting *)
(* the pages from -1 neither skips the last one nor stops early.           *)
WalkedIsSeen ==
    \A w \in walked : \A i \in DOMAIN Results[w] :
        Results[w][i] \in Eligible => Results[w][i] \in seen \union missed

(* A scraper owns at most one row, whatever setups are repeated and rows   *)
(* are freed under it (register_scraper and update_scraper).               *)
OneRowEach ==
    \A i, j \in DOMAIN rows : rows[i].owner = rows[j].owner => i = j \/ rows[i].owner = None

(* A registered ON_REQUEST scraper with a full cache is asked for it in    *)
(* the end: neither a request that was lost, nor a flag taken while the    *)
(* gate was shut, nor a bundle on its way leaves it waiting for ever.      *)
FullIsAsked ==
    \A s \in Scrapers :
        crawl[s].at = "full" /\ s \in registry ~> crawl[s].at # "full" \/ s \notin registry
=============================================================================
