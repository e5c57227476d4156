--------------------------- MODULE Scraper_proofs ---------------------------
(* Proofs about Scraper, for any scrapers, results, page and bundle sizes  *)
(* and any number of faults.                                               *)
EXTENDS Scraper, SequenceTheorems, TLAPS

-----------------------------------------------------------------------------
(* Types, the threads' part and the coordinator's part.                    *)

Ats == {"unborn", "setup", "await", "turn", "page", "repo", "sync", "bundle", "full", "clear",
        "dead"}
CrawlType == [at : Ats, window : 0..Last, page : Nat \union {-1}, total : Nat, items : Seq(Repos)]
ControlType == [ready : BOOLEAN, requested : BOOLEAN, start : 0..Last,
                lastSent : 0..Last \union {None}]
RowType == [start : 0..Last, owner : Scrapers \union {None}]

(* The answer to a setup carries a crawl time. *)
Replies == {m \in CtrlMsgs : m.type = "SETUP" => m.start \in 0..Last}

CrawlTypes ==
    /\ crawl \in [Scrapers -> CrawlType]
    /\ control \in [Scrapers -> ControlType]
    /\ cache \in [Scrapers -> Seq(Repos)]
    /\ listening \in SUBSET Scrapers
    /\ ctrl \in [Scrapers -> Seq(Replies)]
    /\ regs \in Seq(RegMsgs)

StoreTypes ==
    /\ rows \in Seq(RowType)
    /\ registry \in SUBSET Scrapers
    /\ starving \in BOOLEAN
    /\ pending \in BOOLEAN
    /\ bundles \in Nat
    /\ faults \in 0..MaxFaults

HistoryTypes ==
    /\ seen \subseteq Repos /\ published \subseteq Repos
    /\ lost \subseteq Repos /\ missed \subseteq Repos
    /\ walked \subseteq 1..Last /\ cut \subseteq 1..Last

(* A crawl that is in a window is in one that exists. *)
WindowExists == \A s \in Scrapers : InWindow(s) => crawl[s].window >= 1

TypeInv == CrawlTypes /\ StoreTypes /\ HistoryTypes /\ WindowExists

LEMMA TypeParts == TypeInv => TypeOK
<1> SUFFICES ASSUME TypeInv PROVE TypeOK
  OBVIOUS
<1>1. CrawlType \subseteq [at : Ats, window : 0..Last, page : Int, total : Nat,
                           items : Seq(Repos)]
  BY DEF CrawlType
<1>2. crawl \in [Scrapers -> [at : Ats, window : 0..Last, page : Int, total : Nat,
                              items : Seq(Repos)]]
  BY <1>1 DEF TypeInv, CrawlTypes
<1>3. ctrl \in [Scrapers -> Seq(CtrlMsgs)]
  <2>1. \A s \in Scrapers : ctrl[s] \in Seq(CtrlMsgs)
    <3>1. Replies \subseteq CtrlMsgs
      BY DEF Replies
    <3> QED BY <3>1, SeqMonotonic DEF TypeInv, CrawlTypes
  <2> QED BY <2>1 DEF TypeInv, CrawlTypes
<1> QED BY <1>2, <1>3 DEF TypeInv, CrawlTypes, StoreTypes, HistoryTypes, TypeOK, ControlType, RowType, Ats

LEMMA TypeInit == Init => TypeInv
<1> SUFFICES ASSUME Init PROVE TypeInv
  OBVIOUS
<1>1. Idle \in CrawlType
  BY ScraperAssumption, EmptySeq DEF Idle, CrawlType, Ats
<1>2. \A s \in Scrapers : Fresh(s) \in ControlType
  BY ScraperAssumption DEF Fresh, ControlType
<1>3. CrawlTypes
  BY <1>1, <1>2, EmptySeq DEF Init, CrawlTypes
<1>4. StoreTypes
  <2>1. rows \in Seq(RowType)
    BY EmptySeq DEF Init
  <2>2. faults \in 0..MaxFaults
    BY ScraperAssumption DEF Init
  <2> QED BY <2>1, <2>2 DEF Init, StoreTypes
<1>5. HistoryTypes
  BY DEF Init, HistoryTypes
<1>6. WindowExists
  BY DEF Init, WindowExists, InWindow, Idle
<1> QED BY <1>3, <1>4, <1>5, <1>6 DEF TypeInv

(* The elements of a sequence of repositories are repositories.            *)
LEMMA ElementsType ==
    ASSUME NEW S, NEW q \in Seq(S)
    PROVE  Elements(q) \subseteq S
BY DEF Elements

(* A page is a piece of the results of a window.                           *)
LEMMA PageType ==
    ASSUME NEW w \in 1..Last, NEW p \in Int, p >= 0
    PROVE  PageOf(w, p) \in Seq(Repos)
<1>1. Results[w] \in Seq(Repos) /\ PageSize \in Nat
  BY ScraperAssumption
<1> DEFINE first == (IF p = 0 THEN 0 ELSE p - 1) * PageSize
           end == IF first + PageSize < Len(Results[w]) THEN first + PageSize
                  ELSE Len(Results[w])
<1>2. first \in Nat
  BY <1>1
<1>3. \A i \in (first + 1)..end : i \in 1..Len(Results[w])
  BY <1>1, <1>2
<1>4. SubSeq(Results[w], first + 1, end) \in Seq(Repos)
  BY <1>1, <1>2, <1>3, SubSeqProperties
<1> QED BY <1>4 DEF PageOf

LEMMA FaultType == faults \in 0..MaxFaults /\ (NoFault \/ Fault) => faults' \in 0..MaxFaults
BY ScraperAssumption DEF NoFault, Fault

LEMMA SentType ==
    ASSUME TypeInv, NEW s \in Scrapers, NEW type \in {"SETUP", "UPDATE"}, NEW start \in 0..Last,
           Sent(s, type, start) \/ NotSent
    PROVE  regs' \in Seq(RegMsgs) /\ faults' \in 0..MaxFaults
<1> DEFINE msg == [from |-> s, type |-> type, start |-> start]
<1>1. msg \in RegMsgs
  BY DEF RegMsgs
<1>2. regs \in Seq(RegMsgs) /\ faults \in 0..MaxFaults
  BY DEF TypeInv, CrawlTypes, StoreTypes
<1>3. <<msg, msg>> \in Seq(RegMsgs)
  BY <1>1
<1>4. Append(regs, msg) \in Seq(RegMsgs) /\ regs \o <<msg, msg>> \in Seq(RegMsgs)
  BY <1>1, <1>2, <1>3, AppendProperties, ConcatProperties
<1> QED BY <1>2, <1>4, FaultType DEF Sent, NotSent

-----------------------------------------------------------------------------
(* The steps of the crawl thread.                                          *)

(* A step of one crawl thread has to be looked at in that thread only.     *)
LEMMA CrawlMoves ==
    ASSUME TypeInv, NEW s \in Scrapers, NEW c \in CrawlType,
           crawl' = [crawl EXCEPT ![s] = c],
           c.at \in {"page", "repo", "sync", "bundle", "full", "clear"} => c.window >= 1
    PROVE  crawl' \in [Scrapers -> CrawlType] /\ WindowExists'
BY DEF TypeInv, CrawlTypes, WindowExists, InWindow

(* Where it stands, while its window stays. *)
LEMMA CrawlGoes ==
    ASSUME TypeInv, NEW s \in Scrapers, NEW at \in Ats, Goto(s, at),
           InWindow(s) \/ at \in {"setup", "await", "turn"}
    PROVE  crawl' \in [Scrapers -> CrawlType] /\ WindowExists'
<1>1. crawl \in [Scrapers -> CrawlType] /\ crawl[s] \in CrawlType
  BY DEF TypeInv, CrawlTypes
<1>2. PICK c \in CrawlType : c = crawl[s]
  BY <1>1
<1>3. [c EXCEPT !.at = at] \in CrawlType
  BY <1>2 DEF CrawlType
<1>4. PICK d \in CrawlType : d = [c EXCEPT !.at = at] /\ d.at = at /\ d.window = c.window
  BY <1>2, <1>3 DEF CrawlType
<1>5. crawl' = [crawl EXCEPT ![s] = d]
  BY <1>1, <1>2, <1>4 DEF Goto
<1>6. d.at \in {"page", "repo", "sync", "bundle", "full", "clear"} => d.window >= 1
  BY <1>2, <1>4 DEF TypeInv, CrawlTypes, WindowExists, InWindow
<1> QED BY <1>5, <1>6, CrawlMoves

LEMMA IdleType ==
    ASSUME NEW at \in Ats
    PROVE  [Idle EXCEPT !.at = at] \in CrawlType
<1>1. [Idle EXCEPT !.at = at] = [at |-> at, window |-> 0, page |-> -1, total |-> Cap, items |-> <<>>]
  BY DEF Idle
<1>2. 0 \in 0..Last /\ -1 \in Nat \union {-1} /\ Cap \in Nat /\ <<>> \in Seq(Repos)
  BY ScraperAssumption, EmptySeq
<1> QED BY <1>1, <1>2 DEF CrawlType

LEMMA EnterType ==
    ASSUME NEW e \in CrawlType, NEW w, w \in 1..Last
    PROVE  /\ [e EXCEPT !.at = "page", !.window = w, !.page = -1, !.total = Cap] \in CrawlType
           /\ [e EXCEPT !.at = "page", !.window = w, !.page = -1, !.total = Cap].window >= 1
<1> DEFINE e1 == [e EXCEPT !.at = "page"]
           e2 == [e1 EXCEPT !.window = w]
           e3 == [e2 EXCEPT !.page = -1]
           e4 == [e3 EXCEPT !.total = Cap]
<1>1. e1 \in CrawlType
  BY DEF CrawlType, Ats
<1> HIDE DEF e1
<1>2. e2 \in CrawlType /\ e2.window >= 1
  <2>1. w \in 0..Last /\ w >= 1
    BY ScraperAssumption
  <2> QED BY <1>1, <2>1 DEF CrawlType
<1> HIDE DEF e2
<1>3. e3 \in CrawlType /\ e3.window >= 1
  BY <1>2 DEF CrawlType
<1> HIDE DEF e3
<1>4. e4 \in CrawlType /\ e4.window >= 1
  <2>1. Cap \in Nat
    BY ScraperAssumption
  <2> QED BY <1>3, <2>1 DEF CrawlType
<1> QED BY <1>4 DEF e1, e2, e3

LEMMA TypeOfWalk ==
    ASSUME TypeInv, NEW s \in Scrapers, Walk(s)
    PROVE  TypeInv'
<1> USE DEF TypeInv, CrawlTypes, StoreTypes, HistoryTypes, vars, scraperVars,
            queueVars, coordVars, repoHistory, windowHistory
<1> DEFINE c == crawl'[s]
<1>0. crawl[s] \in CrawlType /\ control[s] \in ControlType /\ crawl[s].window \in 0..Last
  BY DEF CrawlType
<1>1. CASE StartCrawl(s)
  <2>1. /\ crawl' = [crawl EXCEPT ![s] = c]
        /\ c = [crawl[s] EXCEPT !.at = "turn", !.window = control[s].start]
    BY <1>1 DEF StartCrawl
  <2>2. c \in CrawlType /\ c.at = "turn"
    BY <1>0, <2>1 DEF CrawlType, ControlType, Ats
  <2>3. crawl' \in [Scrapers -> CrawlType] /\ WindowExists'
    BY <2>1, <2>2, CrawlMoves
  <2> QED BY <1>1, <2>3 DEF StartCrawl
<1>2. CASE NextWindow(s)
  <2>1. /\ crawl' = [crawl EXCEPT ![s] = c]
        /\ c = [crawl[s] EXCEPT !.at = "page", !.window = crawl[s].window + 1,
                                !.page = -1, !.total = Cap]
    BY <1>2 DEF NextWindow
  <2>2. crawl[s].window + 1 \in 1..Last
    <3>1. PICK w \in 0..Last : w = crawl[s].window
      BY <1>0
    <3>2. w < Last /\ Last \in Nat
      BY <1>2, <3>1, ScraperAssumption DEF NextWindow
    <3>3. w + 1 \in 1..Last
      BY <3>2
    <3> QED BY <3>1, <3>3
  <2>3. c \in CrawlType /\ c.window >= 1
    <3>1. PICK w : w = crawl[s].window + 1
      OBVIOUS
    <3>2. w \in 1..Last
      BY <2>2, <3>1
    <3>3. PICK e : e = crawl[s]
      OBVIOUS
    <3>4. /\ [e EXCEPT !.at = "page", !.window = w, !.page = -1, !.total = Cap] \in CrawlType
          /\ [e EXCEPT !.at = "page", !.window = w, !.page = -1, !.total = Cap].window >= 1
      BY <1>0, <3>2, <3>3, EnterType
    <3>5. c = [e EXCEPT !.at = "page", !.window = w, !.page = -1, !.total = Cap]
      BY <2>1, <3>1, <3>3
    <3> HIDE DEF c
    <3> QED BY <3>4, <3>5
  <2>4. crawl' \in [Scrapers -> CrawlType] /\ WindowExists'
    BY <2>1, <2>3, CrawlMoves
  <2> QED BY <1>2, <2>4 DEF NextWindow
<1>3. CASE FinishCrawl(s)
  <2>1. [Idle EXCEPT !.at = "setup"] \in CrawlType
    BY IdleType DEF Ats
  <2>2. PICK d \in CrawlType : d = [Idle EXCEPT !.at = "setup"]
    BY <2>1
  <2>3. crawl' = [crawl EXCEPT ![s] = d]
    BY <1>3, <2>2 DEF FinishCrawl
  <2>4. d.at = "setup"
    BY <2>2 DEF Idle
  <2>5. crawl' \in [Scrapers -> CrawlType] /\ WindowExists'
    BY <2>3, <2>4, CrawlMoves
  <2> QED BY <1>3, <2>5 DEF FinishCrawl
<1>4. CASE RequestPage(s)
  <2> DEFINE w == crawl[s].window
             p == crawl[s].page + 1
  <2>1. w \in 1..Last /\ p \in Nat
    <3>1. InWindow(s)
      BY <1>4 DEF RequestPage, InWindow
    <3>2. w >= 1
      BY <3>1 DEF WindowExists
    <3>3. crawl[s].page \in Nat \union {-1}
      BY <1>0 DEF CrawlType
    <3> QED BY <1>0, <3>2, <3>3
  <2>2. PageOf(w, p) \in Seq(Repos) /\ Elements(PageOf(w, p)) \subseteq Repos
    <3> HIDE DEF w, p
    <3>1. PageOf(w, p) \in Seq(Repos)
      BY <2>1, PageType
    <3> QED BY <3>1, ElementsType
  <2>3. Len(Results[w]) \in Nat
    BY <2>1, ScraperAssumption
  <2> HIDE DEF w, p
  <2>4. missed' \subseteq Repos
    BY <1>4, <2>2 DEF RequestPage, w, p
  <2>5. faults' \in 0..MaxFaults
    BY <1>4, FaultType DEF RequestPage
  <2>6. \E d \in CrawlType : crawl' = [crawl EXCEPT ![s] = d] /\ d.window = w
    <3>1. \/ crawl' = [crawl EXCEPT ![s] = [crawl[s] EXCEPT !.at = "repo", !.page = p,
                  !.items = PageOf(w, p),
                  !.total = IF Len(Results[w]) < crawl[s].total THEN Len(Results[w])
                            ELSE crawl[s].total]]
          \/ crawl' = [crawl EXCEPT ![s] = [crawl[s] EXCEPT !.page = p]]
      BY <1>4 DEF RequestPage, w, p
    <3>2. [crawl[s] EXCEPT !.at = "repo", !.page = p, !.items = PageOf(w, p),
                !.total = IF Len(Results[w]) < crawl[s].total THEN Len(Results[w])
                          ELSE crawl[s].total] \in CrawlType
      BY <1>0, <2>1, <2>2, <2>3 DEF CrawlType, Ats
    <3>3. [crawl[s] EXCEPT !.page = p] \in CrawlType
      BY <1>0, <2>1 DEF CrawlType
    <3> QED BY <1>0, <3>1, <3>2, <3>3 DEF CrawlType, w
  <2>7. crawl' \in [Scrapers -> CrawlType] /\ WindowExists'
    <3>1. PICK d \in CrawlType : crawl' = [crawl EXCEPT ![s] = d] /\ d.window = w
      BY <2>6
    <3>2. d.window >= 1
      BY <2>1, <3>1
    <3> QED BY <3>1, <3>2, CrawlMoves
  <2> QED BY <1>4, <2>4, <2>5, <2>7 DEF RequestPage
<1>5. CASE LeaveWindow(s)
  <2>1. crawl[s].window \in 1..Last
    BY <1>5 DEF LeaveWindow, InWindow, CrawlType, WindowExists
  <2>2. crawl' \in [Scrapers -> CrawlType] /\ WindowExists'
    BY <1>5, CrawlGoes DEF LeaveWindow, Ats
  <2> QED BY <1>5, <2>1, <2>2 DEF LeaveWindow
<1>6. CASE TakeRepo(s)
  <2> DEFINE items == crawl[s].items
  <2>1. items \in Seq(Repos) /\ items # <<>>
    BY <1>6 DEF TakeRepo, CrawlType
  <2>2. Head(items) \in Repos /\ Tail(items) \in Seq(Repos)
    BY <2>1
  <2>3. Append(cache[s], Head(items)) \in Seq(Repos)
    BY <2>2, AppendProperties
  <2> HIDE DEF items
  <2>4. seen' \subseteq Repos /\ missed' \subseteq Repos
    BY <1>6, <2>2 DEF TakeRepo, items
  <2>5. faults' \in 0..MaxFaults
    BY <1>6, FaultType DEF TakeRepo
  <2>6. cache' \in [Scrapers -> Seq(Repos)]
    BY <1>6, <2>3 DEF TakeRepo, items
  <2>7. crawl' \in [Scrapers -> CrawlType] /\ WindowExists'
    <3>1. \/ crawl' = [crawl EXCEPT ![s] = [crawl[s] EXCEPT !.at = "sync", !.items = Tail(items)]]
          \/ crawl' = [crawl EXCEPT ![s] = [crawl[s] EXCEPT !.items = Tail(items)]]
      BY <1>6 DEF TakeRepo, items
    <3>2. /\ [crawl[s] EXCEPT !.at = "sync", !.items = Tail(items)] \in CrawlType
          /\ [crawl[s] EXCEPT !.items = Tail(items)] \in CrawlType
      BY <1>0, <2>2 DEF CrawlType, Ats
    <3>3. crawl[s].window >= 1
      BY <1>6 DEF TakeRepo, InWindow, WindowExists
    <3>4. \E d \in CrawlType : crawl' = [crawl EXCEPT ![s] = d] /\ d.window = crawl[s].window
      BY <1>0, <3>1, <3>2 DEF CrawlType
    <3>5. PICK d \in CrawlType : crawl' = [crawl EXCEPT ![s] = d] /\ d.window = crawl[s].window
      BY <3>4
    <3> QED BY <3>3, <3>5, CrawlMoves
  <2> QED BY <1>6, <2>4, <2>5, <2>6, <2>7 DEF TakeRepo
<1>7. CASE LeavePage(s)
  <2>1. Elements(crawl[s].items) \subseteq Repos
    BY ElementsType DEF CrawlType
  <2>2. crawl' \in [Scrapers -> CrawlType]
    <3>1. PICK e \in CrawlType : e = crawl[s]
      BY <1>0
    <3>2. [e EXCEPT !.at = "page", !.items = <<>>] \in CrawlType
      BY <3>1, EmptySeq DEF CrawlType, Ats
    <3>3. crawl' = [crawl EXCEPT ![s] = [e EXCEPT !.at = "page", !.items = <<>>]]
      BY <1>7, <3>1 DEF LeavePage
    <3> QED BY <3>2, <3>3
  <2>3. WindowExists'
    BY <1>7 DEF LeavePage, InWindow, CrawlType, WindowExists
  <2> QED BY <1>7, <2>1, <2>2, <2>3 DEF LeavePage
<1>8. CASE CheckForUpdate(s)
  <2>1. crawl[s].window \in 0..Last
    BY DEF CrawlType
  <2>2. regs' \in Seq(RegMsgs) /\ faults' \in 0..MaxFaults
    BY <1>8, <2>1, SentType DEF CheckForUpdate, NoFault
  <2>3. control' \in [Scrapers -> ControlType]
    <3>1. PICK e \in ControlType : e = control[s]
      BY <1>0
    <3>2. PICK w \in 0..Last : w = crawl[s].window
      BY <2>1
    <3>3. [e EXCEPT !.lastSent = w] \in ControlType
      BY <3>1, <3>2 DEF ControlType
    <3>4. control' = control \/ control' = [control EXCEPT ![s] = [e EXCEPT !.lastSent = w]]
      BY <1>8, <3>1, <3>2 DEF CheckForUpdate
    <3> QED BY <3>3, <3>4
  <2>4. crawl' \in [Scrapers -> CrawlType] /\ WindowExists'
    BY <1>8, CrawlGoes DEF CheckForUpdate, InWindow, Ats
  <2> QED BY <1>8, <2>2, <2>3, <2>4 DEF CheckForUpdate
<1>9. CASE Bundle(s)
  <2>1. Elements(cache[s]) \subseteq Repos
    BY ElementsType
  <2>2. cache' \in [Scrapers -> Seq(Repos)]
    BY <1>9, EmptySeq DEF Bundle, Flush
  <2>3. crawl' \in [Scrapers -> CrawlType] /\ WindowExists'
    BY <1>9, CrawlGoes DEF Bundle, InWindow, Ats
  <2>4. faults' = faults /\ published' \subseteq Repos /\ bundles' \in Nat
    BY <1>9, <2>1 DEF Bundle, Flush, NoFault
  <2> QED BY <1>9, <2>2, <2>3, <2>4 DEF Bundle
<1>10. CASE FlushOnRequest(s)
  <2>1. Elements(cache[s]) \subseteq Repos
    BY ElementsType
  <2>2. cache' \in [Scrapers -> Seq(Repos)]
    BY <1>10, EmptySeq DEF FlushOnRequest, Flush
  <2>3. crawl' \in [Scrapers -> CrawlType] /\ WindowExists'
    BY <1>10, CrawlGoes DEF FlushOnRequest, InWindow, Ats
  <2> QED BY <1>10, <2>1, <2>2, <2>3 DEF FlushOnRequest, Flush, NoFault
<1>11. CASE ClearRequest(s)
  <2>1. crawl' \in [Scrapers -> CrawlType] /\ WindowExists'
    BY <1>11, CrawlGoes DEF ClearRequest, InWindow, Ats
  <2>2. control' \in [Scrapers -> ControlType]
    BY <1>11 DEF ClearRequest, ControlType
  <2> QED BY <1>11, <2>1, <2>2 DEF ClearRequest
<1> QED BY <1>1, <1>2, <1>3, <1>4, <1>5, <1>6, <1>7, <1>8, <1>9, <1>10, <1>11 DEF Walk

LEMMA TypeOfThreads ==
    ASSUME TypeInv, NEW s \in Scrapers,
           \/ Boot(s) \/ Announce(s) \/ Reannounce(s) \/ FlushFails(s) \/ Dies(s)
           \/ OnControl(s) \/ ControlReconnects(s)
    PROVE  TypeInv'
<1> USE DEF TypeInv, CrawlTypes, StoreTypes, HistoryTypes, vars, scraperVars,
            queueVars, coordVars, repoHistory, windowHistory
<1>0. crawl[s] \in CrawlType /\ control[s] \in ControlType /\ crawl[s].window \in 0..Last
      /\ control[s].start \in 0..Last
  BY DEF CrawlType, ControlType
<1>1. CASE Boot(s)
  <2>1. crawl' \in [Scrapers -> CrawlType] /\ WindowExists'
    BY <1>1, CrawlGoes DEF Boot, Ats
  <2> QED BY <1>1, <2>1 DEF Boot
<1>2. CASE Announce(s)
  <2>1. crawl' \in [Scrapers -> CrawlType] /\ WindowExists'
    BY <1>2, CrawlGoes DEF Announce, Ats
  <2>2. regs' \in Seq(RegMsgs) /\ faults' \in 0..MaxFaults
    BY <1>0, <1>2, SentType DEF Announce
  <2> QED BY <1>2, <2>1, <2>2 DEF Announce
<1>3. CASE Reannounce(s)
  <2>1. regs' \in Seq(RegMsgs) /\ faults' \in 0..MaxFaults
    BY <1>0, <1>3, SentType DEF Reannounce
  <2> QED BY <1>3, <2>1 DEF Reannounce, WindowExists, InWindow
<1>4. CASE FlushFails(s)
  <2>1. [Idle EXCEPT !.at = "setup"] \in CrawlType
    BY IdleType DEF Ats
  <2>2. crawl' \in [Scrapers -> CrawlType] /\ WindowExists'
    BY <1>4, <2>1, CrawlMoves DEF FlushFails, Idle
  <2>3. crawl[s].window >= 1
    BY <1>4 DEF FlushFails, WindowExists, InWindow
  <2>4. cut' \subseteq 1..Last
    BY <1>0, <1>4, <2>3 DEF FlushFails
  <2>5. faults' \in 0..MaxFaults
    BY <1>4, FaultType DEF FlushFails
  <2> QED BY <1>4, <2>2, <2>4, <2>5 DEF FlushFails
<1>5. CASE Dies(s)
  <2>1. [Idle EXCEPT !.at = "dead"] \in CrawlType
    BY IdleType DEF Ats
  <2>2. crawl' \in [Scrapers -> CrawlType] /\ WindowExists'
    BY <1>5, <2>1, CrawlMoves DEF Dies, Idle
  <2>3. InWindow(s) => crawl[s].window >= 1
    BY DEF WindowExists
  <2>4. cut' \subseteq 1..Last
    BY <1>0, <1>5, <2>3 DEF Dies
  <2>5. faults' \in 0..MaxFaults
    BY <1>5, FaultType DEF Dies
  <2>6. lost' \subseteq Repos
    BY <1>5, ElementsType DEF Dies
  <2>7. control' \in [Scrapers -> ControlType]
    <3>1. Fresh(s) \in ControlType
      BY ScraperAssumption DEF Fresh, ControlType
    <3> QED BY <1>5, <3>1 DEF Dies
  <2>8. cache' \in [Scrapers -> Seq(Repos)] /\ ctrl' \in [Scrapers -> Seq(Replies)]
    BY <1>5, EmptySeq DEF Dies
  <2> QED BY <1>5, <2>2, <2>4, <2>5, <2>6, <2>7, <2>8 DEF Dies
<1>6. CASE OnControl(s)
  <2> DEFINE msg == Head(ctrl[s])
  <2>1. ctrl[s] \in Seq(Replies) /\ ctrl[s] # <<>>
    BY <1>6 DEF OnControl
  <2>2. msg \in Replies /\ Tail(ctrl[s]) \in Seq(Replies)
    BY <2>1
  <2>3. ctrl' \in [Scrapers -> Seq(Replies)]
    BY <1>6, <2>2 DEF OnControl
  <2>4. control' \in [Scrapers -> ControlType]
    <3> DEFINE c == control[s]
    <3>1. \/ /\ msg.type = "SETUP"
             /\ control' = [control EXCEPT ![s] =
                    [c EXCEPT !.start = msg.start, !.lastSent = msg.start, !.ready = TRUE]]
          \/ control' = [control EXCEPT ![s] = [c EXCEPT !.ready = TRUE]]
          \/ control' = [control EXCEPT ![s] = [c EXCEPT !.requested = TRUE]]
      BY <1>6 DEF OnControl
    <3>2. /\ [c EXCEPT !.ready = TRUE] \in ControlType
          /\ [c EXCEPT !.requested = TRUE] \in ControlType
      BY <1>0 DEF ControlType
    <3>3. msg.type = "SETUP" => msg.start \in 0..Last
      BY <2>2 DEF Replies
    <3>4. msg.type = "SETUP" =>
            [c EXCEPT !.start = msg.start, !.lastSent = msg.start, !.ready = TRUE] \in ControlType
      BY <1>0, <3>3 DEF ControlType
    <3> HIDE DEF c, msg
    <3> QED BY <3>1, <3>2, <3>4
  <2> QED BY <1>6, <2>3, <2>4 DEF OnControl, WindowExists, InWindow
<1>7. CASE ControlReconnects(s)
  <2>1. faults' \in 0..MaxFaults
    BY <1>7, FaultType DEF ControlReconnects
  <2>2. ctrl' \in [Scrapers -> Seq(Replies)]
    BY <1>7, EmptySeq DEF ControlReconnects
  <2> QED BY <1>7, <2>1, <2>2 DEF ControlReconnects, WindowExists, InWindow
<1> QED BY <1>1, <1>2, <1>3, <1>4, <1>5, <1>6, <1>7

-----------------------------------------------------------------------------
(* The steps of the coordinator.                                           *)

(* Whatever row a registration touches, the scraper owns one afterwards.   *)
LEMMA RowsOfReg ==
    ASSUME TypeInv, NEW s \in Scrapers, NEW start \in 0..Last,
           ClaimRow(s, start) \/ MoveRow(s, start)
    PROVE  /\ rows' \in Seq(RowType)
           /\ \E i \in DOMAIN rows' : rows'[i].owner = s
<1> DEFINE row == [start |-> start, owner |-> s]
<1>0. rows \in Seq(RowType) /\ DOMAIN rows = 1..Len(rows) /\ Len(rows) \in Nat
  BY DEF TypeInv, StoreTypes
<1>1. row \in RowType
  BY DEF RowType
<1>2. CASE \E i \in OwnedBy(None) : rows' = [rows EXCEPT ![i].owner = s]
  <2>1. PICK i \in DOMAIN rows : rows' = [rows EXCEPT ![i].owner = s]
    BY <1>2 DEF OwnedBy
  <2>2. [rows[i] EXCEPT !.owner = s] \in RowType
    <3>1. rows[i] \in RowType
      BY <1>0, <2>1, ElementOfSeq
    <3> QED BY <3>1 DEF RowType
  <2>3. rows' = [rows EXCEPT ![i] = [rows[i] EXCEPT !.owner = s]]
    BY <2>1
  <2>4. rows' \in Seq(RowType)
    BY <1>0, <2>2, <2>3, ExceptSeq
  <2>5. rows'[i].owner = s /\ i \in DOMAIN rows'
    BY <1>0, <2>1 DEF RowType
  <2> QED BY <2>4, <2>5
<1>3. CASE \E i \in OwnedBy(s) : rows' = [rows EXCEPT ![i].start = start]
  <2>1. PICK i \in DOMAIN rows : rows[i].owner = s /\ rows' = [rows EXCEPT ![i].start = start]
    BY <1>3 DEF OwnedBy
  <2>2. [rows[i] EXCEPT !.start = start] \in RowType
    <3>1. rows[i] \in RowType
      BY <1>0, <2>1, ElementOfSeq
    <3> QED BY <3>1 DEF RowType
  <2>3. rows' = [rows EXCEPT ![i] = [rows[i] EXCEPT !.start = start]]
    BY <2>1
  <2>4. rows' \in Seq(RowType)
    BY <1>0, <2>2, <2>3, ExceptSeq
  <2>5. rows'[i].owner = s /\ i \in DOMAIN rows'
    BY <1>0, <2>1 DEF RowType
  <2> QED BY <2>4, <2>5
<1>4. CASE rows' = Append(rows, row)
  <2>1. rows' \in Seq(RowType) /\ Len(rows') = Len(rows) + 1 /\ rows'[Len(rows) + 1] = row
    BY <1>0, <1>1, <1>4, AppendProperties
  <2>2. Len(rows) + 1 \in DOMAIN rows'
    BY <1>0, <2>1
  <2> QED BY <2>1, <2>2
<1>5. CASE OwnedBy(s) # {} /\ rows' = rows
  BY <1>0, <1>5 DEF OwnedBy
<1> QED BY <1>2, <1>3, <1>4, <1>5 DEF ClaimRow, MoveRow

LEMMA TypeOfCoordinator ==
    ASSUME TypeInv,
           \/ OnScraperReg \/ Starve \/ RequestRepos \/ RequestRefused \/ OnScrape
           \/ CoordinatorRestarts
    PROVE  TypeInv'
<1> USE DEF TypeInv, CrawlTypes, StoreTypes, HistoryTypes, vars, scraperVars,
            queueVars, coordVars, repoHistory, windowHistory
<1>1. CASE OnScraperReg
  <2> DEFINE m == Head(regs)
  <2>1. m \in RegMsgs /\ Tail(regs) \in Seq(RegMsgs)
    <3>1. regs \in Seq(RegMsgs) /\ regs # <<>>
      BY <1>1 DEF OnScraperReg
    <3> QED BY <3>1, HeadTailProperties
  <2>2. m.from \in Scrapers /\ m.start \in 0..Last
    BY <2>1 DEF RegMsgs
  <2>3. /\ ClaimRow(m.from, m.start) \/ MoveRow(m.from, m.start)
        /\ faults' \in 0..MaxFaults
        /\ registry' \subseteq Scrapers
        /\ regs' \in Seq(RegMsgs)
        /\ UNCHANGED <<scraperVars, listening, starving, pending, bundles, repoHistory,
                       windowHistory>>
    BY <1>1, <2>1, <2>2, FaultType DEF OnScraperReg
  <2>4. rows' \in Seq(RowType) /\ \E i \in DOMAIN rows' : rows'[i].owner = m.from
    BY <2>2, <2>3, RowsOfReg
  <2>5. RowStart(m.from) \in 0..Last
    <3> DEFINE i == CHOOSE i \in DOMAIN rows' : rows'[i].owner = m.from
    <3>1. i \in DOMAIN rows'
      BY <2>4
    <3>2. rows'[i] \in RowType
      BY <2>4, <3>1
    <3> QED BY <3>2 DEF RowStart, RowType
  <2> DEFINE reply == [type |-> m.type,
                       start |-> IF m.type = "SETUP" THEN RowStart(m.from) ELSE None]
  <2>6. reply \in Replies
    BY <2>1, <2>5 DEF Replies, CtrlMsgs, RegMsgs
  <2>7. ctrl' \in [Scrapers -> Seq(Replies)]
    <3>1. ctrl' = ctrl \/ ctrl' = [ctrl EXCEPT ![m.from] = Append(@, reply)]
      BY <1>1 DEF OnScraperReg
    <3>2. Append(ctrl[m.from], reply) \in Seq(Replies)
      BY <2>2, <2>6, AppendProperties
    <3> HIDE DEF reply
    <3> QED BY <3>1, <3>2
  <2> QED BY <2>3, <2>4, <2>7 DEF WindowExists, InWindow
<1>2. CASE Starve
  BY <1>2 DEF Starve, WindowExists, InWindow
<1>3. CASE RequestRepos
  <2>1. faults' \in 0..MaxFaults
    BY <1>3, FaultType DEF RequestRepos
  <2> DEFINE request == [type |-> "REQUEST_REPOS", start |-> None]
  <2>2. request \in Replies
    BY DEF Replies, CtrlMsgs
  <2>3. \A x \in Scrapers : Append(ctrl[x], request) \in Seq(Replies)
    BY <2>2, AppendProperties
  <2> HIDE DEF request
  <2>4. ctrl' \in [Scrapers -> Seq(Replies)]
    BY <1>3, <2>3 DEF RequestRepos, request
  <2> QED BY <1>3, <2>1, <2>4 DEF RequestRepos, WindowExists, InWindow
<1>4. CASE RequestRefused
  BY <1>4 DEF RequestRefused, WindowExists, InWindow
<1>5. CASE OnScrape
  <2>1. faults' \in 0..MaxFaults
    BY <1>5, FaultType DEF OnScrape
  <2>2. bundles' \in Nat
    BY <1>5 DEF OnScrape, NoFault, Fault
  <2> QED BY <1>5, <2>1, <2>2 DEF OnScrape, WindowExists, InWindow
<1>6. CASE CoordinatorRestarts
  <2>1. faults' \in 0..MaxFaults
    BY <1>6, FaultType DEF CoordinatorRestarts
  <2>2. rows' \in Seq(RowType)
    <3>1. \A i \in 1..Len(rows) : [rows[i] EXCEPT !.owner = None] \in RowType
      <4>1. \A i \in 1..Len(rows) : rows[i] \in RowType
        BY ElementOfSeq
      <4> QED BY <4>1 DEF RowType
    <3>2. rows' = [i \in 1..Len(rows) |-> [rows[i] EXCEPT !.owner = None]]
      BY <1>6 DEF CoordinatorRestarts
    <3>3. Len(rows) \in Nat
      OBVIOUS
    <3> QED BY <3>1, <3>2, <3>3, IsASeq
  <2> QED BY <1>6, <2>1, <2>2 DEF CoordinatorRestarts, WindowExists, InWindow
<1> QED BY <1>1, <1>2, <1>3, <1>4, <1>5, <1>6

LEMMA TypeStep == TypeInv /\ [Next]_vars => TypeInv'
<1> SUFFICES ASSUME TypeInv, [Next]_vars PROVE TypeInv'
  OBVIOUS
<1>1. CASE UNCHANGED vars
  BY <1>1 DEF TypeInv, CrawlTypes, StoreTypes, HistoryTypes, WindowExists, InWindow, vars,
              scraperVars, queueVars, coordVars, repoHistory, windowHistory
<1> QED BY <1>1, TypeOfWalk, TypeOfThreads, TypeOfCoordinator DEF Next

(* Every variable has its type in every behaviour, faults included.        *)
THEOREM TypeCorrect == Spec => []TypeOK
<1>1. Init => TypeInv
  BY TypeInit
<1>2. TypeInv /\ [Next]_vars => TypeInv'
  BY TypeStep
<1>3. TypeInv => TypeOK
  BY TypeParts
<1> QED BY <1>1, <1>2, <1>3, PTL DEF Spec

-----------------------------------------------------------------------------
(* No repository is lost.                                                  *)

LEMMA ElementsOfAppend ==
    ASSUME NEW S, NEW q \in Seq(S), NEW r \in S
    PROVE  Elements(Append(q, r)) = Elements(q) \union {r}
<1>1. /\ Append(q, r) \in Seq(S) /\ Len(Append(q, r)) = Len(q) + 1
      /\ \A i \in 1..Len(q) : Append(q, r)[i] = q[i]
      /\ Append(q, r)[Len(q) + 1] = r
  BY AppendProperties
<1>2. DOMAIN Append(q, r) = 1..(Len(q) + 1) /\ DOMAIN q = 1..Len(q) /\ Len(q) \in Nat
  BY <1>1
<1>3. 1..(Len(q) + 1) = 1..Len(q) \union {Len(q) + 1}
  BY <1>2
<1> QED BY <1>1, <1>2, <1>3 DEF Elements

LEMMA ElementsOfTail ==
    ASSUME NEW S, NEW q \in Seq(S), q # <<>>
    PROVE  Elements(q) = {Head(q)} \union Elements(Tail(q))
<1>1. /\ Len(q) \in Nat \ {0} /\ DOMAIN q = 1..Len(q)
      /\ Head(q) = q[1]
      /\ Tail(q) \in Seq(S) /\ Len(Tail(q)) = Len(q) - 1
      /\ \A i \in 1..(Len(q) - 1) : Tail(q)[i] = q[i + 1]
  OBVIOUS
<1>2. DOMAIN Tail(q) = 1..(Len(q) - 1)
  BY <1>1
<1>3. \A i \in 1..Len(q) : i = 1 \/ i - 1 \in 1..(Len(q) - 1)
  BY <1>1
<1>4. \A i \in 2..Len(q) : q[i] = Tail(q)[i - 1]
  BY <1>1
<1>5. ASSUME NEW x \in Elements(q) PROVE x \in {Head(q)} \union Elements(Tail(q))
  <2>1. PICK i \in 1..Len(q) : x = q[i]
    BY <1>1 DEF Elements
  <2>2. CASE i = 1
    BY <1>1, <2>1, <2>2
  <2>3. CASE i # 1
    <3>1. i \in 2..Len(q) /\ i - 1 \in 1..(Len(q) - 1)
      BY <1>1, <2>1, <2>3
    <3>2. x = Tail(q)[i - 1]
      BY <1>4, <2>1, <3>1
    <3> QED BY <1>2, <3>1, <3>2 DEF Elements
  <2> QED BY <2>2, <2>3
<1>6. ASSUME NEW x \in {Head(q)} \union Elements(Tail(q)) PROVE x \in Elements(q)
  BY <1>1, <1>2 DEF Elements
<1> QED BY <1>5, <1>6

(* What one scraper's step does to its cache decides.                      *)
LEMMA SeenOfScraper ==
    ASSUME TypeInv, SeenIsKept, NEW s \in Scrapers,
           cache' = [cache EXCEPT ![s] = cache'[s]],
           published \subseteq published', lost \subseteq lost',
           seen' \subseteq seen \union Elements(cache'[s]),
           Elements(cache[s]) \subseteq published' \union lost' \union Elements(cache'[s])
    PROVE  SeenIsKept'
<1>1. \A x \in Scrapers : x # s => cache'[x] = cache[x]
  BY DEF TypeInv, CrawlTypes
<1>2. \A x \in Scrapers : Elements(cache[x]) \subseteq
          published' \union lost' \union UNION {Elements(cache'[y]) : y \in Scrapers}
  BY <1>1
<1> QED BY <1>2 DEF SeenIsKept

LEMMA SeenStep == TypeInv /\ SeenIsKept /\ [Next]_vars => SeenIsKept'
<1> SUFFICES ASSUME TypeInv, SeenIsKept, [Next]_vars PROVE SeenIsKept'
  OBVIOUS
<1> USE DEF vars, scraperVars, queueVars, coordVars, repoHistory, windowHistory
<1>0. ASSUME UNCHANGED <<cache, seen, published, lost>> PROVE SeenIsKept'
  BY <1>0 DEF SeenIsKept
<1>00. cache \in [Scrapers -> Seq(Repos)]
  BY DEF TypeInv, CrawlTypes
<1>1. CASE UNCHANGED vars
  BY <1>0, <1>1
<1>2. ASSUME NEW s \in Scrapers, Walk(s) PROVE SeenIsKept'
  <2>1. CASE TakeRepo(s)
    <3> DEFINE r == Head(crawl[s].items)
    <3>1. CASE cache' = [cache EXCEPT ![s] = Append(cache[s], r)] /\ seen' = seen \union {r}
      <4>1. r \in Repos
        BY <2>1 DEF TakeRepo, TypeInv, CrawlTypes, CrawlType
      <4>2. Elements(cache'[s]) = Elements(cache[s]) \union {r}
        BY <1>00, <3>1, <4>1, ElementsOfAppend
      <4>3. cache' = [cache EXCEPT ![s] = cache'[s]]
        BY <1>00, <3>1
      <4>4. published' = published /\ lost' = lost
        BY <2>1 DEF TakeRepo
      <4> HIDE DEF r
      <4> QED BY <3>1, <4>2, <4>3, <4>4, SeenOfScraper
    <3>2. CASE UNCHANGED <<cache, seen>>
      BY <1>0, <2>1, <3>2 DEF TakeRepo
    <3> QED BY <2>1, <3>1, <3>2 DEF TakeRepo
  <2>2. CASE Bundle(s) \/ FlushOnRequest(s)
    <3>1. CASE Flush(s)
      <4>1. cache' = [cache EXCEPT ![s] = cache'[s]]
        BY <1>00, <3>1 DEF Flush
      <4>2. published' = published \union Elements(cache[s])
        BY <3>1 DEF Flush
      <4>3. seen' = seen /\ lost' = lost
        BY <2>2 DEF Bundle, FlushOnRequest
      <4> QED BY <4>1, <4>2, <4>3, SeenOfScraper
    <3>2. CASE UNCHANGED <<published, cache>>
      BY <1>0, <2>2, <3>2 DEF Bundle, FlushOnRequest
    <3> QED BY <2>2, <3>1, <3>2 DEF Bundle, FlushOnRequest
  <2>3. CASE \/ StartCrawl(s) \/ NextWindow(s) \/ FinishCrawl(s) \/ RequestPage(s)
             \/ LeaveWindow(s) \/ LeavePage(s) \/ CheckForUpdate(s) \/ ClearRequest(s)
    BY <1>0, <2>3 DEF StartCrawl, NextWindow, FinishCrawl, RequestPage, LeaveWindow, LeavePage,
                      CheckForUpdate, ClearRequest
  <2> QED BY <1>2, <2>1, <2>2, <2>3 DEF Walk
<1>3. ASSUME NEW s \in Scrapers, Dies(s) PROVE SeenIsKept'
  <2>1. cache' = [cache EXCEPT ![s] = cache'[s]]
    BY <1>00, <1>3 DEF Dies
  <2>2. lost' = lost \union Elements(cache[s]) /\ seen' = seen /\ published' = published
    BY <1>3 DEF Dies
  <2> QED BY <2>1, <2>2, SeenOfScraper
<1>4. ASSUME NEW s \in Scrapers,
             \/ Boot(s) \/ Announce(s) \/ Reannounce(s) \/ FlushFails(s)
             \/ OnControl(s) \/ ControlReconnects(s)
      PROVE  SeenIsKept'
  BY <1>0, <1>4 DEF Boot, Announce, Reannounce, FlushFails, OnControl, ControlReconnects
<1>5. ASSUME \/ OnScraperReg \/ Starve \/ RequestRepos \/ RequestRefused \/ OnScrape
             \/ CoordinatorRestarts
      PROVE  SeenIsKept'
  BY <1>0, <1>5 DEF OnScraperReg, Starve, RequestRepos, RequestRefused, OnScrape,
                    CoordinatorRestarts
<1> QED BY <1>1, <1>2, <1>3, <1>4, <1>5 DEF Next

(* A repository that the walk yielded is in a bundle that was sent, in a   *)
(* cache, or went with a scraper that died.                                *)
THEOREM SeenIsKeptHolds == Spec => []SeenIsKept
<1>1. Init => SeenIsKept
  BY DEF Init, SeenIsKept
<1>2. Init => TypeInv
  BY TypeInit
<1>3. TypeInv /\ SeenIsKept /\ [Next]_vars => TypeInv' /\ SeenIsKept'
  BY TypeStep, SeenStep
<1> QED BY <1>1, <1>2, <1>3, PTL DEF Spec

-----------------------------------------------------------------------------
(* One row for each scraper.                                               *)

LEMMA OneRowStep == TypeInv /\ OneRowEach /\ [Next]_vars => OneRowEach'
<1> SUFFICES ASSUME TypeInv, OneRowEach, [Next]_vars PROVE OneRowEach'
  OBVIOUS
<1>0. rows \in Seq(RowType) /\ DOMAIN rows = 1..Len(rows) /\ Len(rows) \in Nat
  BY DEF TypeInv, StoreTypes
<1>1. ASSUME UNCHANGED rows PROVE OneRowEach'
  BY <1>1 DEF OneRowEach
<1>2. CASE OnScraperReg
  <2> DEFINE m == Head(regs)
             s == m.from
             row == [start |-> m.start, owner |-> s]
  <2>1. s \in Scrapers /\ m.start \in 0..Last
    <3>1. regs \in Seq(RegMsgs) /\ regs # <<>>
      BY <1>2 DEF OnScraperReg, TypeInv, CrawlTypes
    <3>2. m \in RegMsgs
      BY <3>1
    <3> QED BY <3>2 DEF RegMsgs
  <2>2. \/ OwnedBy(s) = {} /\ \E i \in OwnedBy(None) : rows' = [rows EXCEPT ![i].owner = s]
        \/ \E i \in OwnedBy(s) : rows' = [rows EXCEPT ![i].start = m.start]
        \/ OwnedBy(s) = {} /\ rows' = Append(rows, row)
        \/ UNCHANGED rows
    BY <1>2 DEF OnScraperReg, ClaimRow, MoveRow
  <2> HIDE DEF m, s
  <2>3. CASE OwnedBy(s) = {} /\ \E i \in OwnedBy(None) : rows' = [rows EXCEPT ![i].owner = s]
    <3>1. PICK i \in DOMAIN rows : rows' = [rows EXCEPT ![i].owner = s]
      BY <2>3 DEF OwnedBy
    <3>2. \A j \in DOMAIN rows : rows[j].owner # s
      BY <2>3 DEF OwnedBy
    <3>3. rows[i] \in RowType
      BY <1>0, <3>1, ElementOfSeq
    <3>4. /\ DOMAIN rows' = DOMAIN rows
          /\ \A j \in DOMAIN rows : rows'[j].owner = IF j = i THEN s ELSE rows[j].owner
      BY <1>0, <3>1, <3>3 DEF RowType
    <3> QED BY <3>2, <3>4 DEF OneRowEach
  <2>4. CASE \E i \in OwnedBy(s) : rows' = [rows EXCEPT ![i].start = m.start]
    <3>1. PICK i \in DOMAIN rows : rows' = [rows EXCEPT ![i].start = m.start]
      BY <2>4 DEF OwnedBy
    <3>2. rows[i] \in RowType
      BY <1>0, <3>1, ElementOfSeq
    <3>3. /\ DOMAIN rows' = DOMAIN rows
          /\ \A j \in DOMAIN rows : rows'[j].owner = rows[j].owner
      BY <1>0, <3>1, <3>2 DEF RowType
    <3> QED BY <3>3 DEF OneRowEach
  <2>5. CASE OwnedBy(s) = {} /\ rows' = Append(rows, row)
    <3>1. row \in RowType
      BY <2>1 DEF RowType
    <3>2. /\ rows' \in Seq(RowType) /\ Len(rows') = Len(rows) + 1
          /\ \A j \in 1..Len(rows) : rows'[j] = rows[j]
          /\ rows'[Len(rows) + 1].owner = s
      BY <1>0, <2>5, <3>1, AppendProperties
    <3>3. DOMAIN rows' = DOMAIN rows \union {Len(rows) + 1}
      BY <1>0, <3>2
    <3>4. \A j \in DOMAIN rows : rows[j].owner # s /\ rows'[j].owner = rows[j].owner
      BY <1>0, <2>5, <3>2 DEF OwnedBy
    <3> QED BY <3>2, <3>3, <3>4 DEF OneRowEach
  <2> QED BY <1>1, <2>2, <2>3, <2>4, <2>5
<1>3. CASE CoordinatorRestarts
  <2>1. \A i \in DOMAIN rows' : rows'[i].owner = None
    <3>1. rows' = [i \in DOMAIN rows |-> [rows[i] EXCEPT !.owner = None]]
      BY <1>3 DEF CoordinatorRestarts
    <3>2. \A i \in DOMAIN rows : rows[i] \in RowType
      BY <1>0, ElementOfSeq
    <3> QED BY <3>1, <3>2 DEF RowType
  <2> QED BY <2>1 DEF OneRowEach
<1>4. ASSUME NEW s \in Scrapers, Walk(s) PROVE UNCHANGED rows
  BY <1>4 DEF Walk, StartCrawl, NextWindow, FinishCrawl, RequestPage, LeaveWindow, TakeRepo,
              LeavePage, CheckForUpdate, Bundle, FlushOnRequest, ClearRequest, coordVars
<1>5. ASSUME NEW s \in Scrapers,
             \/ Boot(s) \/ Announce(s) \/ Reannounce(s) \/ FlushFails(s) \/ Dies(s)
             \/ OnControl(s) \/ ControlReconnects(s)
      PROVE  UNCHANGED rows
  BY <1>5 DEF Boot, Announce, Reannounce, FlushFails, Dies, OnControl, ControlReconnects,
              coordVars
<1>6. ASSUME Starve \/ RequestRepos \/ RequestRefused \/ OnScrape
      PROVE  UNCHANGED rows
  BY <1>6 DEF Starve, RequestRepos, RequestRefused, OnScrape
<1>7. CASE UNCHANGED vars
  BY <1>1, <1>7 DEF vars, coordVars
<1> QED BY <1>1, <1>2, <1>3, <1>4, <1>5, <1>6, <1>7 DEF Next

(* A scraper owns at most one row, whatever setups are repeated and        *)
(* whenever the rows are freed.                                            *)
THEOREM OneRowEachHolds == Spec => []OneRowEach
<1>1. Init => OneRowEach
  BY DEF Init, OneRowEach
<1>2. Init => TypeInv
  BY TypeInit
<1>3. TypeInv /\ OneRowEach /\ [Next]_vars => TypeInv' /\ OneRowEach'
  BY TypeStep, OneRowStep
<1> QED BY <1>1, <1>2, <1>3, PTL DEF Spec

-----------------------------------------------------------------------------
(* No window is jumped over.                                               *)

Backed(w) ==
    w \in walked \union cut \union {crawl[s].window : s \in {x \in Scrapers : InWindow(x)}}

Behind(n) == \A w \in 1..n : Backed(w)

(* The invariant: whatever crawl time the system holds anywhere, in a row, *)
(* in a message, in a scraper's control or as the place of a walk, the     *)
(* windows behind it are accounted for.                                    *)
RowsBacked == \A i \in DOMAIN rows : Behind(rows[i].start)
RegsBacked == \A m \in Elements(regs) : Behind(m.start)
ControlBacked == \A s \in Scrapers : Behind(control[s].start)
RepliesBacked ==
    \A s \in Scrapers : \A m \in Elements(ctrl[s]) : m.type = "SETUP" => Behind(m.start)
CrawlBacked ==
    \A s \in Scrapers : InWindow(s) \/ crawl[s].at = "turn" => Behind(crawl[s].window)

StoredInv == RowsBacked /\ RegsBacked /\ ControlBacked /\ RepliesBacked /\ CrawlBacked

(* A scraper leaves the window it is in by walking it to the end, or the   *)
(* window counts as cut from then on.                                      *)
Leaves(s) ==
    InWindow(s) => \/ InWindow(s)' /\ crawl'[s].window = crawl[s].window
                   \/ crawl[s].window \in walked' \union cut'

LEMMA ThreadLeaves ==
    ASSUME TypeInv, NEW s \in Scrapers,
           \/ Walk(s) \/ Boot(s) \/ Announce(s) \/ Reannounce(s) \/ FlushFails(s) \/ Dies(s)
           \/ OnControl(s) \/ ControlReconnects(s)
    PROVE  /\ walked \subseteq walked' /\ cut \subseteq cut'
           /\ \A x \in Scrapers : x # s => crawl'[x] = crawl[x]
           /\ Leaves(s)
<1> USE DEF vars, scraperVars, queueVars, coordVars, repoHistory, windowHistory
<1>0. crawl \in [Scrapers -> CrawlType] /\ crawl[s] \in CrawlType
  BY DEF TypeInv, CrawlTypes
<1>1. ASSUME UNCHANGED <<walked, cut>>, NEW e, crawl' = [crawl EXCEPT ![s] = e],
             InWindow(s) => /\ e.at \in {"page", "repo", "sync", "bundle", "full", "clear"}
                            /\ e.window = crawl[s].window
      PROVE  /\ walked \subseteq walked' /\ cut \subseteq cut'
             /\ \A x \in Scrapers : x # s => crawl'[x] = crawl[x]
             /\ Leaves(s)
  BY <1>0, <1>1 DEF Leaves, InWindow
<1>2. ASSUME UNCHANGED <<walked, cut>>, NEW at, Goto(s, at),
             InWindow(s) => at \in {"page", "repo", "sync", "bundle", "full", "clear"}
      PROVE  /\ walked \subseteq walked' /\ cut \subseteq cut'
             /\ \A x \in Scrapers : x # s => crawl'[x] = crawl[x]
             /\ Leaves(s)
  BY <1>0, <1>2 DEF Leaves, InWindow, Goto, CrawlType
<1>3. CASE StartCrawl(s) \/ NextWindow(s) \/ FinishCrawl(s)
  <2>1. UNCHANGED <<walked, cut>> /\ ~InWindow(s)
    BY <1>3 DEF StartCrawl, NextWindow, FinishCrawl, InWindow
  <2>2. \A x \in Scrapers : x # s => crawl'[x] = crawl[x]
    BY <1>0, <1>3 DEF StartCrawl, NextWindow, FinishCrawl
  <2> QED BY <2>1, <2>2 DEF Leaves
<1>4. CASE RequestPage(s)
  <2>1. /\ \A x \in Scrapers : x # s => crawl'[x] = crawl[x]
        /\ crawl'[s].at \in {"page", "repo"} /\ crawl'[s].window = crawl[s].window
    BY <1>0, <1>4 DEF RequestPage, CrawlType
  <2> QED BY <1>4, <2>1 DEF RequestPage, Leaves, InWindow
<1>5. CASE LeaveWindow(s)
  BY <1>0, <1>5 DEF LeaveWindow, Goto, Leaves
<1>6. CASE TakeRepo(s) \/ LeavePage(s)
  <2>1. /\ \A x \in Scrapers : x # s => crawl'[x] = crawl[x]
        /\ crawl'[s].at \in {"sync", "repo", "page"} /\ crawl'[s].window = crawl[s].window
    BY <1>0, <1>6 DEF TakeRepo, LeavePage, CrawlType
  <2> QED BY <1>6, <2>1 DEF TakeRepo, LeavePage, Leaves, InWindow
<1>7. CASE CheckForUpdate(s)
  BY <1>2, <1>7 DEF CheckForUpdate
<1>8. CASE Bundle(s)
  BY <1>2, <1>8 DEF Bundle
<1>9. CASE FlushOnRequest(s) \/ ClearRequest(s)
  BY <1>2, <1>9 DEF FlushOnRequest, ClearRequest
<1>10. CASE Boot(s) \/ Announce(s)
  BY <1>2, <1>10 DEF Boot, Announce, InWindow
<1>11. CASE Reannounce(s) \/ OnControl(s) \/ ControlReconnects(s)
  BY <1>11 DEF Reannounce, OnControl, ControlReconnects, Leaves, InWindow
<1>12. CASE FlushFails(s) \/ Dies(s)
  BY <1>0, <1>12 DEF FlushFails, Dies, Leaves, InWindow
<1> QED BY <1>3, <1>4, <1>5, <1>6, <1>7, <1>8, <1>9, <1>10, <1>11, <1>12 DEF Walk

LEMMA BackedStays ==
    ASSUME TypeInv, [Next]_vars, NEW w, Backed(w)
    PROVE  Backed(w)'
<1>1. ASSUME UNCHANGED <<crawl, walked, cut>> PROVE Backed(w)'
  BY <1>1 DEF Backed, InWindow
<1>2. ASSUME NEW s \in Scrapers, walked \subseteq walked', cut \subseteq cut',
             \A x \in Scrapers : x # s => crawl'[x] = crawl[x], Leaves(s)
      PROVE  Backed(w)'
  <2>1. CASE w \in walked \union cut
    BY <1>2, <2>1 DEF Backed
  <2>2. CASE \E x \in Scrapers : InWindow(x) /\ w = crawl[x].window
    <3>1. PICK x \in Scrapers : InWindow(x) /\ w = crawl[x].window
      BY <2>2
    <3>2. \/ InWindow(x)' /\ crawl'[x].window = w
          \/ w \in walked' \union cut'
      BY <1>2, <3>1 DEF Leaves, InWindow
    <3> QED BY <3>2 DEF Backed
  <2> QED BY <2>1, <2>2 DEF Backed
<1>3. CASE \E s \in Scrapers :
             \/ Walk(s) \/ Boot(s) \/ Announce(s) \/ Reannounce(s) \/ FlushFails(s) \/ Dies(s)
             \/ OnControl(s) \/ ControlReconnects(s)
  BY <1>2, <1>3, ThreadLeaves
<1>4. CASE OnScraperReg \/ Starve \/ RequestRepos \/ RequestRefused \/ OnScrape
           \/ CoordinatorRestarts
  BY <1>1, <1>4 DEF OnScraperReg, Starve, RequestRepos, RequestRefused, OnScrape,
                    CoordinatorRestarts, scraperVars, windowHistory
<1>5. CASE UNCHANGED vars
  BY <1>1, <1>5 DEF vars, scraperVars, windowHistory
<1> QED BY <1>3, <1>4, <1>5 DEF Next

LEMMA BehindStays ==
    ASSUME TypeInv, [Next]_vars
    PROVE  \A n : Behind(n) => Behind(n)'
<1> SUFFICES ASSUME NEW n, Behind(n) PROVE Behind(n)'
  OBVIOUS
<1>1. \A w \in 1..n : Backed(w)'
  BY BackedStays DEF Behind
<1> QED BY <1>1 DEF Behind

(* Messages on scraper_reg carry a control's start or the window of a walk. *)
LEMMA SentElements ==
    ASSUME TypeInv, NEW s \in Scrapers, NEW type \in {"SETUP", "UPDATE"}, NEW start \in 0..Last,
           Sent(s, type, start) \/ NotSent
    PROVE  \A m \in Elements(regs') : m \in Elements(regs) \/ m.start = start
<1> DEFINE msg == [from |-> s, type |-> type, start |-> start]
<1>1. msg \in RegMsgs /\ msg.start = start
  BY DEF RegMsgs
<1>2. regs \in Seq(RegMsgs)
  BY DEF TypeInv, CrawlTypes
<1>3. Elements(Append(regs, msg)) = Elements(regs) \union {msg}
  BY <1>1, <1>2, ElementsOfAppend
<1>4. Elements(Append(Append(regs, msg), msg)) = Elements(regs) \union {msg}
  <2> HIDE DEF msg
  <2>1. Append(regs, msg) \in Seq(RegMsgs)
    BY <1>1, <1>2, AppendProperties
  <2>2. PICK q \in Seq(RegMsgs) : q = Append(regs, msg)
    BY <2>1
  <2>3. PICK r \in RegMsgs : r = msg
    BY <1>1
  <2>4. Elements(Append(q, r)) = Elements(q) \union {r}
    BY ElementsOfAppend
  <2> QED BY <1>3, <2>2, <2>3, <2>4
<1> HIDE DEF msg
<1>5. regs \o <<msg, msg>> = Append(Append(regs, msg), msg)
  BY <1>1, <1>2
<1>6. regs' = regs \/ regs' = Append(regs, msg) \/ regs' = Append(Append(regs, msg), msg)
  BY <1>5 DEF Sent, NotSent, msg
<1> QED BY <1>1, <1>3, <1>4, <1>6

LEMMA RegsBackedStep == TypeInv /\ StoredInv /\ [Next]_vars => RegsBacked'
<1> SUFFICES ASSUME TypeInv, StoredInv, [Next]_vars PROVE RegsBacked'
  OBVIOUS
<1> USE DEF vars, scraperVars, queueVars, coordVars
<1>1. ASSUME \A m \in Elements(regs') : m \in Elements(regs) \/ Behind(m.start)
      PROVE  RegsBacked'
  BY <1>1, BehindStays DEF StoredInv, RegsBacked
<1>2. ASSUME UNCHANGED regs PROVE RegsBacked'
  BY <1>1, <1>2
<1>3. ASSUME NEW s \in Scrapers, Announce(s) \/ Reannounce(s) PROVE RegsBacked'
  <2>1. control[s].start \in 0..Last /\ Behind(control[s].start)
    BY DEF TypeInv, CrawlTypes, ControlType, StoredInv, ControlBacked
  <2>2. Sent(s, "SETUP", control[s].start) \/ NotSent
    BY <1>3 DEF Announce, Reannounce
  <2> QED BY <1>1, <2>1, <2>2, SentElements
<1>4. ASSUME NEW s \in Scrapers, CheckForUpdate(s) PROVE RegsBacked'
  <2>1. crawl[s].window \in 0..Last /\ Behind(crawl[s].window)
    BY <1>4 DEF CheckForUpdate, InWindow, TypeInv, CrawlTypes, CrawlType, StoredInv, CrawlBacked
  <2>2. UNCHANGED regs \/ Sent(s, "UPDATE", crawl[s].window) \/ NotSent
    BY <1>4 DEF CheckForUpdate
  <2> QED BY <1>1, <1>2, <2>1, <2>2, SentElements
<1>5. CASE OnScraperReg
  <2>1. regs \in Seq(RegMsgs) /\ regs # <<>>
    BY <1>5 DEF OnScraperReg, TypeInv, CrawlTypes
  <2>2. regs' = regs \/ regs' = Tail(regs)
    BY <1>5 DEF OnScraperReg
  <2> QED BY <1>1, <2>1, <2>2, ElementsOfTail
<1>6. ASSUME NEW s \in Scrapers,
             \/ StartCrawl(s) \/ NextWindow(s) \/ FinishCrawl(s) \/ RequestPage(s)
             \/ LeaveWindow(s) \/ TakeRepo(s) \/ LeavePage(s) \/ Bundle(s)
             \/ FlushOnRequest(s) \/ ClearRequest(s) \/ Boot(s) \/ FlushFails(s) \/ Dies(s)
             \/ OnControl(s) \/ ControlReconnects(s)
      PROVE  UNCHANGED regs
  BY <1>6 DEF StartCrawl, NextWindow, FinishCrawl, RequestPage, LeaveWindow, TakeRepo, LeavePage,
              Bundle, FlushOnRequest, ClearRequest, Boot, FlushFails, Dies, OnControl,
              ControlReconnects
<1>7. ASSUME Starve \/ RequestRepos \/ RequestRefused \/ OnScrape \/ CoordinatorRestarts
      PROVE  UNCHANGED regs
  BY <1>7 DEF Starve, RequestRepos, RequestRefused, OnScrape, CoordinatorRestarts
<1>8. CASE UNCHANGED vars
  BY <1>2, <1>8
<1> QED BY <1>2, <1>3, <1>4, <1>5, <1>6, <1>7, <1>8 DEF Next, Walk

LEMMA RowsBackedStep == TypeInv /\ StoredInv /\ [Next]_vars => RowsBacked'
<1> SUFFICES ASSUME TypeInv, StoredInv, [Next]_vars PROVE RowsBacked'
  OBVIOUS
<1> USE DEF vars, scraperVars, queueVars, coordVars
<1>0. rows \in Seq(RowType) /\ DOMAIN rows = 1..Len(rows) /\ Len(rows) \in Nat
  BY DEF TypeInv, StoreTypes
<1>1. ASSUME \A n : \A i \in DOMAIN rows' :
                 n = rows'[i].start => \/ Behind(n)
                                       \/ i \in DOMAIN rows /\ n = rows[i].start
      PROVE  RowsBacked'
  <2>1. \A n : Behind(n) => Behind(n)'
    BY BehindStays
  <2>2. ASSUME NEW i \in DOMAIN rows' PROVE Behind(rows[i].start)'
    <3>1. PICK n : n = rows'[i].start
      OBVIOUS
    <3>2. Behind(n)
      BY <1>1, <3>1 DEF StoredInv, RowsBacked
    <3>3. Behind(n)'
      BY <2>1, <3>2
    <3> QED BY <3>1, <3>3
  <2> QED BY <2>2 DEF RowsBacked
<1>2. ASSUME UNCHANGED rows PROVE RowsBacked'
  BY <1>1, <1>2
<1>3. CASE OnScraperReg
  <2> DEFINE m == Head(regs)
             s == m.from
             start == m.start
             row == [start |-> start, owner |-> s]
  <2>0. regs \in Seq(RegMsgs) /\ regs # <<>>
    BY <1>3 DEF OnScraperReg, TypeInv, CrawlTypes
  <2>1. m \in RegMsgs /\ Behind(start)
    BY <2>0, ElementsOfTail DEF StoredInv, RegsBacked
  <2>2. s \in Scrapers /\ start \in 0..Last
    BY <2>1 DEF RegMsgs
  <2>3. \/ \E i \in DOMAIN rows : rows' = [rows EXCEPT ![i].owner = s]
        \/ \E i \in DOMAIN rows : rows' = [rows EXCEPT ![i].start = start]
        \/ rows' = Append(rows, row)
        \/ UNCHANGED rows
    BY <1>3 DEF OnScraperReg, ClaimRow, MoveRow, OwnedBy
  <2>4. row \in RowType /\ row.start = start
    BY <2>2 DEF RowType
  <2> HIDE DEF m, s, start, row
  <2>8. \A n : n = start => Behind(n)
    BY <2>1
  <2>5. ASSUME NEW i \in DOMAIN rows, rows' = [rows EXCEPT ![i].owner = s] PROVE RowsBacked'
    <3>1. rows[i] \in RowType
      BY <1>0, ElementOfSeq
    <3>2. DOMAIN rows' = DOMAIN rows /\ \A j \in DOMAIN rows : rows'[j].start = rows[j].start
      BY <1>0, <2>5, <3>1 DEF RowType
    <3> QED BY <1>1, <3>2
  <2>6. ASSUME NEW i \in DOMAIN rows, rows' = [rows EXCEPT ![i].start = start] PROVE RowsBacked'
    <3>1. rows[i] \in RowType
      BY <1>0, ElementOfSeq
    <3>2. /\ DOMAIN rows' = DOMAIN rows
          /\ \A j \in DOMAIN rows : rows'[j].start = IF j = i THEN start ELSE rows[j].start
      BY <1>0, <2>6, <3>1 DEF RowType
    <3> QED BY <1>1, <2>8, <3>2
  <2>7. CASE rows' = Append(rows, row)
    <3>1. /\ rows' \in Seq(RowType) /\ Len(rows') = Len(rows) + 1
          /\ \A j \in 1..Len(rows) : rows'[j] = rows[j]
          /\ rows'[Len(rows) + 1].start = start
      <4>1. /\ Append(rows, row) \in Seq(RowType) /\ Len(Append(rows, row)) = Len(rows) + 1
            /\ \A j \in 1..Len(rows) : Append(rows, row)[j] = rows[j]
            /\ Append(rows, row)[Len(rows) + 1] = row
        BY <1>0, <2>4, AppendProperties
      <4> QED BY <2>4, <2>7, <4>1
    <3>2. DOMAIN rows' = DOMAIN rows \union {Len(rows) + 1}
      BY <1>0, <3>1
    <3> QED BY <1>0, <1>1, <2>8, <3>1, <3>2
  <2> QED BY <1>2, <2>3, <2>5, <2>6, <2>7
<1>4. CASE CoordinatorRestarts
  <2>1. rows' = [i \in DOMAIN rows |-> [rows[i] EXCEPT !.owner = None]]
    BY <1>4 DEF CoordinatorRestarts
  <2>2. \A i \in DOMAIN rows : rows[i] \in RowType
    BY <1>0, ElementOfSeq
  <2>3. DOMAIN rows' = DOMAIN rows /\ \A j \in DOMAIN rows : rows'[j].start = rows[j].start
    BY <2>1, <2>2 DEF RowType
  <2> QED BY <1>1, <2>3
<1>5. ASSUME NEW s \in Scrapers, Walk(s) PROVE UNCHANGED rows
  BY <1>5 DEF Walk, StartCrawl, NextWindow, FinishCrawl, RequestPage, LeaveWindow, TakeRepo,
              LeavePage, CheckForUpdate, Bundle, FlushOnRequest, ClearRequest
<1>6. ASSUME NEW s \in Scrapers,
             \/ Boot(s) \/ Announce(s) \/ Reannounce(s) \/ FlushFails(s) \/ Dies(s)
             \/ OnControl(s) \/ ControlReconnects(s)
      PROVE  UNCHANGED rows
  BY <1>6 DEF Boot, Announce, Reannounce, FlushFails, Dies, OnControl, ControlReconnects
<1>7. ASSUME Starve \/ RequestRepos \/ RequestRefused \/ OnScrape
      PROVE  UNCHANGED rows
  BY <1>7 DEF Starve, RequestRepos, RequestRefused, OnScrape
<1>8. CASE UNCHANGED vars
  BY <1>2, <1>8
<1> QED BY <1>2, <1>3, <1>4, <1>5, <1>6, <1>7, <1>8 DEF Next

LEMMA ControlBackedStep == TypeInv /\ StoredInv /\ [Next]_vars => ControlBacked'
<1> SUFFICES ASSUME TypeInv, StoredInv, [Next]_vars PROVE ControlBacked'
  OBVIOUS
<1> USE DEF vars, scraperVars, queueVars, coordVars
<1>0. control \in [Scrapers -> ControlType]
  BY DEF TypeInv, CrawlTypes
<1>1. ASSUME \A n : \A s \in Scrapers :
                 n = control'[s].start => Behind(n) \/ n = control[s].start
      PROVE  ControlBacked'
  <2>1. \A n : Behind(n) => Behind(n)'
    BY BehindStays
  <2>2. ASSUME NEW s \in Scrapers PROVE Behind(control[s].start)'
    <3>1. PICK n : n = control'[s].start
      OBVIOUS
    <3>2. Behind(n)
      BY <1>1, <3>1 DEF StoredInv, ControlBacked
    <3>3. Behind(n)'
      BY <2>1, <3>2
    <3> QED BY <3>1, <3>3
  <2> QED BY <2>2 DEF ControlBacked
<1>2. ASSUME UNCHANGED control PROVE ControlBacked'
  BY <1>1, <1>2
<1>3. ASSUME NEW s \in Scrapers, OnControl(s) PROVE ControlBacked'
  <2> DEFINE m == Head(ctrl[s])
  <2>0. ctrl[s] \in Seq(Replies) /\ ctrl[s] # <<>>
    BY <1>3 DEF OnControl, TypeInv, CrawlTypes
  <2>1. \A n : m.type = "SETUP" /\ n = m.start => Behind(n)
    BY <2>0, ElementsOfTail DEF StoredInv, RepliesBacked
  <2>2. /\ \A x \in Scrapers : x # s => control'[x] = control[x]
        /\ control'[s].start = IF m.type = "SETUP" THEN m.start ELSE control[s].start
    BY <1>0, <1>3 DEF OnControl, ControlType
  <2> HIDE DEF m
  <2> QED BY <1>1, <2>1, <2>2
<1>4. ASSUME NEW s \in Scrapers, CheckForUpdate(s) \/ ClearRequest(s) PROVE ControlBacked'
  <2>1. \A x \in Scrapers : control'[x].start = control[x].start
    BY <1>0, <1>4 DEF CheckForUpdate, ClearRequest, ControlType
  <2> QED BY <1>1, <2>1
<1>5. ASSUME NEW s \in Scrapers, Dies(s) PROVE ControlBacked'
  <2>1. /\ \A x \in Scrapers : x # s => control'[x] = control[x]
        /\ control'[s].start = 0
    BY <1>0, <1>5 DEF Dies, Fresh
  <2>2. \A n : n = 0 => Behind(n)
    BY DEF Behind
  <2> QED BY <1>1, <2>1, <2>2
<1>6. ASSUME NEW s \in Scrapers,
             \/ StartCrawl(s) \/ NextWindow(s) \/ FinishCrawl(s) \/ RequestPage(s)
             \/ LeaveWindow(s) \/ TakeRepo(s) \/ LeavePage(s) \/ Bundle(s)
             \/ FlushOnRequest(s) \/ Boot(s) \/ Announce(s) \/ Reannounce(s) \/ FlushFails(s)
             \/ ControlReconnects(s)
      PROVE  UNCHANGED control
  BY <1>6 DEF StartCrawl, NextWindow, FinishCrawl, RequestPage, LeaveWindow, TakeRepo, LeavePage,
              Bundle, FlushOnRequest, Boot, Announce, Reannounce, FlushFails, ControlReconnects
<1>7. ASSUME \/ OnScraperReg \/ Starve \/ RequestRepos \/ RequestRefused \/ OnScrape
             \/ CoordinatorRestarts
      PROVE  UNCHANGED control
  BY <1>7 DEF OnScraperReg, Starve, RequestRepos, RequestRefused, OnScrape, CoordinatorRestarts
<1>8. CASE UNCHANGED vars
  BY <1>2, <1>8
<1> QED BY <1>2, <1>3, <1>4, <1>5, <1>6, <1>7, <1>8 DEF Next, Walk

LEMMA CrawlBackedStep == TypeInv /\ StoredInv /\ [Next]_vars => CrawlBacked'
<1> SUFFICES ASSUME TypeInv, StoredInv, [Next]_vars PROVE CrawlBacked'
  OBVIOUS
<1> USE DEF vars, scraperVars
<1>0. crawl \in [Scrapers -> CrawlType]
  BY DEF TypeInv, CrawlTypes
<1>1. ASSUME \A n : \A s \in Scrapers :
                 /\ InWindow(s)' \/ crawl'[s].at = "turn"
                 /\ n = crawl'[s].window
                 => Behind(n)' \/ ((InWindow(s) \/ crawl[s].at = "turn") /\ n = crawl[s].window)
      PROVE  CrawlBacked'
  <2>1. \A n : Behind(n) => Behind(n)'
    BY BehindStays
  <2>2. ASSUME NEW s \in Scrapers, (InWindow(s) \/ crawl[s].at = "turn")'
        PROVE  Behind(crawl[s].window)'
    <3>1. PICK n : n = crawl'[s].window
      OBVIOUS
    <3>2. Behind(n)'
      BY <1>1, <2>1, <2>2, <3>1 DEF StoredInv, CrawlBacked
    <3> QED BY <3>1, <3>2
  <2> QED BY <2>2 DEF CrawlBacked
<1>2. ASSUME UNCHANGED crawl PROVE CrawlBacked'
  BY <1>1, <1>2 DEF InWindow
<1>3. ASSUME NEW s \in Scrapers, NEW at, Goto(s, at),
             InWindow(s) \/ at \notin {"turn", "page", "repo", "sync", "bundle", "full", "clear"}
      PROVE  CrawlBacked'
  BY <1>0, <1>1, <1>3 DEF Goto, InWindow, CrawlType
<1>4. ASSUME NEW s \in Scrapers, StartCrawl(s) PROVE CrawlBacked'
  <2>1. /\ \A x \in Scrapers : x # s => crawl'[x] = crawl[x]
        /\ crawl'[s].window = control[s].start
    BY <1>0, <1>4 DEF StartCrawl, CrawlType
  <2>2. \A n : n = control[s].start => Behind(n)'
    BY BehindStays DEF StoredInv, ControlBacked
  <2> QED BY <1>1, <2>1, <2>2 DEF InWindow
<1>5. ASSUME NEW s \in Scrapers, NextWindow(s) PROVE CrawlBacked'
  <2>1. /\ \A x \in Scrapers : x # s => crawl'[x] = crawl[x]
        /\ crawl'[s].window = crawl[s].window + 1 /\ crawl'[s].at = "page"
        /\ crawl[s].at = "turn" /\ crawl[s].window \in Nat
    BY <1>0, <1>5 DEF NextWindow, CrawlType
  <2>2. PICK n : n = crawl[s].window
    OBVIOUS
  <2>3. n \in Nat /\ Behind(n)'
    BY <2>1, <2>2, BehindStays DEF StoredInv, CrawlBacked
  <2>4. Backed(n + 1)'
    BY <2>1, <2>2 DEF Backed, InWindow
  <2>5. Behind(n + 1)'
    BY <2>3, <2>4 DEF Behind
  <2> QED BY <1>1, <2>1, <2>2, <2>5 DEF InWindow
<1>6. ASSUME NEW s \in Scrapers, RequestPage(s) \/ TakeRepo(s) \/ LeavePage(s) PROVE CrawlBacked'
  <2>1. /\ \A x \in Scrapers : x # s => crawl'[x] = crawl[x]
        /\ crawl'[s].window = crawl[s].window
        /\ InWindow(s)
    <3>1. crawl[s] \in CrawlType /\ DOMAIN crawl = Scrapers
      BY <1>0
    <3>2. CASE RequestPage(s)
      BY <3>1, <3>2 DEF RequestPage, CrawlType, InWindow
    <3>3. CASE TakeRepo(s)
      BY <3>1, <3>3 DEF TakeRepo, CrawlType, InWindow
    <3>4. CASE LeavePage(s)
      BY <3>1, <3>4 DEF LeavePage, CrawlType, InWindow
    <3> QED BY <1>6, <3>2, <3>3, <3>4
  <2> QED BY <1>1, <2>1 DEF InWindow
<1>7. ASSUME NEW s \in Scrapers, FinishCrawl(s) \/ FlushFails(s) \/ Dies(s) PROVE CrawlBacked'
  <2>1. /\ \A x \in Scrapers : x # s => crawl'[x] = crawl[x]
        /\ crawl'[s].at \in {"setup", "dead"}
    BY <1>0, <1>7 DEF FinishCrawl, FlushFails, Dies, Idle
  <2> QED BY <1>1, <2>1 DEF InWindow
<1>8. ASSUME NEW s \in Scrapers,
             \/ LeaveWindow(s) \/ CheckForUpdate(s) \/ Bundle(s) \/ FlushOnRequest(s)
             \/ ClearRequest(s) \/ Boot(s) \/ Announce(s)
      PROVE  CrawlBacked'
  BY <1>3, <1>8 DEF LeaveWindow, CheckForUpdate, Bundle, FlushOnRequest, ClearRequest, Boot,
                    Announce, InWindow
<1>9. ASSUME NEW s \in Scrapers, Reannounce(s) \/ OnControl(s) \/ ControlReconnects(s)
      PROVE  UNCHANGED crawl
  BY <1>9 DEF Reannounce, OnControl, ControlReconnects
<1>10. ASSUME \/ OnScraperReg \/ Starve \/ RequestRepos \/ RequestRefused \/ OnScrape
              \/ CoordinatorRestarts
       PROVE  UNCHANGED crawl
  BY <1>10 DEF OnScraperReg, Starve, RequestRepos, RequestRefused, OnScrape, CoordinatorRestarts
<1>11. CASE UNCHANGED vars
  BY <1>2, <1>11
<1> QED BY <1>2, <1>4, <1>5, <1>6, <1>7, <1>8, <1>9, <1>10, <1>11 DEF Next, Walk

LEMMA RepliesBackedStep == TypeInv /\ StoredInv /\ [Next]_vars => RepliesBacked'
<1> SUFFICES ASSUME TypeInv, StoredInv, [Next]_vars PROVE RepliesBacked'
  OBVIOUS
<1> USE DEF vars, scraperVars, queueVars, coordVars
<1>0. ctrl \in [Scrapers -> Seq(Replies)]
  BY DEF TypeInv, CrawlTypes
<1>1. ASSUME \A s \in Scrapers : \A m \in Elements(ctrl'[s]) :
                 m \in Elements(ctrl[s]) \/ (m.type = "SETUP" => Behind(m.start)')
      PROVE  RepliesBacked'
  BY <1>1, BehindStays DEF StoredInv, RepliesBacked
<1>2. ASSUME UNCHANGED ctrl PROVE RepliesBacked'
  BY <1>1, <1>2
<1>3. ASSUME NEW s \in Scrapers, OnControl(s) PROVE RepliesBacked'
  <2>1. ctrl[s] \in Seq(Replies) /\ ctrl[s] # <<>> /\ ctrl' = [ctrl EXCEPT ![s] = Tail(ctrl[s])]
    BY <1>0, <1>3 DEF OnControl
  <2>2. Elements(Tail(ctrl[s])) \subseteq Elements(ctrl[s])
    BY <2>1, ElementsOfTail
  <2> QED BY <1>0, <1>1, <2>1, <2>2
<1>4. ASSUME NEW s \in Scrapers, ControlReconnects(s) \/ Dies(s) PROVE RepliesBacked'
  <2>1. ctrl' = [ctrl EXCEPT ![s] = <<>>]
    BY <1>4 DEF ControlReconnects, Dies
  <2>2. Elements(<<>>) = {}
    BY DEF Elements
  <2> QED BY <1>0, <1>1, <2>1, <2>2
<1>5. CASE OnScraperReg
  <2> DEFINE m == Head(regs)
             s == m.from
             reply == [type |-> m.type,
                       start |-> IF m.type = "SETUP" THEN RowStart(s) ELSE None]
  <2>1. regs \in Seq(RegMsgs) /\ regs # <<>>
    BY <1>5 DEF OnScraperReg, TypeInv, CrawlTypes
  <2>2. m \in RegMsgs
    BY <2>1
  <2>3. s \in Scrapers /\ m.start \in 0..Last
    BY <2>2 DEF RegMsgs
  <2>4. /\ ClaimRow(s, m.start) \/ MoveRow(s, m.start)
        /\ ctrl' = ctrl \/ ctrl' = [ctrl EXCEPT ![s] = Append(ctrl[s], reply)]
    BY <1>5 DEF OnScraperReg
  <2>5. rows' \in Seq(RowType) /\ \E i \in DOMAIN rows' : rows'[i].owner = s
    BY <2>3, <2>4, RowsOfReg
  <2>6. \A n : n = RowStart(s) => Behind(n)' /\ n \in 0..Last
    <3> DEFINE i == CHOOSE i \in DOMAIN rows' : rows'[i].owner = s
    <3>1. i \in DOMAIN rows'
      BY <2>5
    <3>2. RowStart(s) = rows'[i].start
      BY DEF RowStart
    <3>3. rows'[i] \in RowType
      BY <2>5, <3>1, ElementOfSeq
    <3> HIDE DEF i
    <3>4. PICK j : j = i
      OBVIOUS
    <3>5. Behind(rows[j].start)'
      BY <3>1, <3>4, RowsBackedStep DEF RowsBacked
    <3> QED BY <3>2, <3>3, <3>4, <3>5 DEF RowType
  <2>7. PICK r \in Replies : r = reply
    <3>1. PICK n : n = RowStart(s)
      OBVIOUS
    <3>2. n \in 0..Last /\ m.type \in {"SETUP", "UPDATE"}
      BY <2>2, <2>6, <3>1 DEF RegMsgs
    <3>3. reply = [type |-> m.type, start |-> IF m.type = "SETUP" THEN n ELSE None]
      BY <3>1
    <3> HIDE DEF m, s, reply
    <3>4. reply \in Replies
      BY <3>2, <3>3 DEF Replies, CtrlMsgs
    <3> QED BY <3>4
  <2>8. r.type = "SETUP" => Behind(r.start)'
    BY <2>6, <2>7
  <2> HIDE DEF m, s, reply
  <2>9. CASE ctrl' = [ctrl EXCEPT ![s] = Append(ctrl[s], reply)]
    <3>1. Elements(ctrl'[s]) = Elements(ctrl[s]) \union {r}
      BY <1>0, <2>3, <2>7, <2>9, ElementsOfAppend
    <3> QED BY <1>0, <1>1, <2>8, <2>9, <3>1
  <2> QED BY <1>2, <2>4, <2>9
<1>6. CASE RequestRepos
  <2> DEFINE request == [type |-> "REQUEST_REPOS", start |-> None]
  <2>1. request \in Replies /\ request.type # "SETUP"
    BY DEF Replies, CtrlMsgs
  <2>2. \A s \in Scrapers : ctrl'[s] = ctrl[s] \/ ctrl'[s] = Append(ctrl[s], request)
    BY <1>0, <1>6 DEF RequestRepos
  <2> HIDE DEF request
  <2>3. \A s \in Scrapers : Elements(ctrl'[s]) \subseteq Elements(ctrl[s]) \union {request}
    <3> SUFFICES ASSUME NEW s \in Scrapers
                 PROVE  Elements(ctrl'[s]) \subseteq Elements(ctrl[s]) \union {request}
      OBVIOUS
    <3>1. Elements(Append(ctrl[s], request)) = Elements(ctrl[s]) \union {request}
      BY <1>0, <2>1, ElementsOfAppend
    <3> QED BY <2>2, <3>1
  <2> QED BY <1>1, <2>1, <2>3
<1>7. ASSUME NEW s \in Scrapers,
             Walk(s) \/ Boot(s) \/ Announce(s) \/ Reannounce(s) \/ FlushFails(s)
      PROVE  UNCHANGED ctrl
  BY <1>7 DEF Walk, StartCrawl, NextWindow, FinishCrawl, RequestPage, LeaveWindow, TakeRepo,
              LeavePage, CheckForUpdate, Bundle, FlushOnRequest, ClearRequest, Boot, Announce,
              Reannounce, FlushFails
<1>8. ASSUME Starve \/ RequestRefused \/ OnScrape \/ CoordinatorRestarts PROVE UNCHANGED ctrl
  BY <1>8 DEF Starve, RequestRefused, OnScrape, CoordinatorRestarts
<1>9. CASE UNCHANGED vars
  BY <1>2, <1>9
<1> QED BY <1>2, <1>3, <1>4, <1>5, <1>6, <1>7, <1>8, <1>9 DEF Next

(* The crawl time in a row never jumps over a window: each one behind it   *)
(* was walked to the end, was cut short by a failure, or is being walked.  *)
THEOREM StoredIsWalkedHolds == Spec => []StoredIsWalked
<1>1. Init => TypeInv
  BY TypeInit
<1>2. Init => StoredInv
  <2> SUFFICES ASSUME Init PROVE StoredInv
    OBVIOUS
  <2>1. \A n : n = 0 => Behind(n)
    BY DEF Behind
  <2>2. rows = <<>> /\ regs = <<>> /\ \A s \in Scrapers : ctrl[s] = <<>>
    BY DEF Init
  <2>3. Elements(<<>>) = {}
    BY DEF Elements
  <2>4. \A s \in Scrapers : control[s].start = 0 /\ crawl[s].at = "unborn"
    BY DEF Init, Fresh, Idle
  <2> QED BY <2>1, <2>2, <2>3, <2>4 DEF StoredInv, RowsBacked, RegsBacked, ControlBacked,
             RepliesBacked, CrawlBacked, InWindow
<1>3. TypeInv /\ StoredInv /\ [Next]_vars => TypeInv' /\ StoredInv'
  BY TypeStep, RowsBackedStep, RegsBackedStep, ControlBackedStep, RepliesBackedStep,
     CrawlBackedStep DEF StoredInv
<1>4. StoredInv => StoredIsWalked
  BY DEF StoredInv, RowsBacked, Behind, Backed, StoredIsWalked
<1> QED BY <1>1, <1>2, <1>3, <1>4, PTL DEF Spec

-----------------------------------------------------------------------------
(* No page is skipped.                                                     *)

(* A page more is a page size more.                                        *)
LEMMA OnePageMore == \A p, n \in Int : p * n = (p - 1) * n + n
OBVIOUS

(* The pages up to p hold the results up to Upto(p): pages 0 and 1 are the *)
(* same.                                                                   *)
Upto(p) == IF p < 0 THEN 0 ELSE IF p = 0 THEN PageSize ELSE p * PageSize

LEMMA PageCovers ==
    ASSUME NEW w \in 1..Last, NEW p \in Nat, NEW i \in DOMAIN Results[w],
           i <= Upto(p), ~(i <= Upto(p - 1))
    PROVE  Results[w][i] \in Elements(PageOf(w, p))
<1> DEFINE first == (IF p = 0 THEN 0 ELSE p - 1) * PageSize
           end == IF first + PageSize < Len(Results[w]) THEN first + PageSize
                  ELSE Len(Results[w])
<1>1. /\ Results[w] \in Seq(Repos) /\ Len(Results[w]) \in Nat
      /\ PageSize \in Nat /\ DOMAIN Results[w] = 1..Len(Results[w])
  BY ScraperAssumption
<1>2. first \in Nat
  BY <1>1
<1>3. first < i /\ i <= first + PageSize
  <2>1. CASE p = 0
    <3>1. first = 0
      BY <1>1, <2>1
    <3> HIDE DEF first
    <3> QED BY <1>1, <2>1, <3>1 DEF Upto
  <2>2. CASE p = 1
    <3>1. 1 * PageSize = PageSize
      BY <1>1
    <3> QED BY <1>1, <2>2, <3>1 DEF Upto
  <2>3. CASE p > 1
    <3>1. first = (p - 1) * PageSize /\ p * PageSize = (p - 1) * PageSize + PageSize
      <4>1. p \in Int /\ PageSize \in Int /\ p # 0
        BY <1>1, <2>3
      <4>2. p * PageSize = (p - 1) * PageSize + PageSize
        BY <4>1, OnePageMore
      <4> QED BY <4>1, <4>2
    <3>2. Upto(p) = p * PageSize /\ Upto(p - 1) = (p - 1) * PageSize
      BY <2>3 DEF Upto
    <3> HIDE DEF first
    <3> QED BY <1>1, <1>2, <3>1, <3>2
  <2> QED BY <2>1, <2>2, <2>3
<1> HIDE DEF first
<1>4. i \in (first + 1)..end
  BY <1>1, <1>2, <1>3
<1>5. PageOf(w, p) = SubSeq(Results[w], first + 1, end)
  BY DEF PageOf, first
<1>6. \A j \in (first + 1)..end : j \in 1..Len(Results[w])
  BY <1>1, <1>2
<1>7. end \in Nat
  BY <1>1, <1>2
<1> HIDE DEF end
<1>8. /\ DOMAIN SubSeq(Results[w], first + 1, end) = 1..(end - first)
      /\ \A j \in 1..(end - first) : SubSeq(Results[w], first + 1, end)[j] = Results[w][first + j]
  BY <1>1, <1>2, <1>6, <1>7
<1>9. i - first \in 1..(end - first) /\ first + (i - first) = i
  BY <1>2, <1>4, <1>7
<1>10. SubSeq(Results[w], first + 1, end)[i - first] = Results[w][i]
  <2>1. PICK j : j = i - first
    OBVIOUS
  <2> QED BY <1>8, <1>9, <2>1
<1> QED BY <1>5, <1>8, <1>9, <1>10 DEF Elements

(* The invariant: of the window a scraper is in, the results of the pages  *)
(* requested so far are seen, missed or still in its hands.                *)
PagesKnown(s) ==
    InWindow(s) =>
        /\ Len(Results[crawl[s].window]) <= crawl[s].total
        /\ \A i \in DOMAIN Results[crawl[s].window] :
               i <= Upto(crawl[s].page) /\ Results[crawl[s].window][i] \in Eligible
               => Results[crawl[s].window][i] \in seen \union missed \union Elements(crawl[s].items)

HandsEmpty(s) ==
    crawl[s].at \notin {"repo", "sync", "bundle", "full", "clear"} => crawl[s].items = <<>>

WalkedInv == WalkedIsSeen /\ \A s \in Scrapers : PagesKnown(s) /\ HandsEmpty(s)

(* What has to be shown of a step of one scraper.                          *)
LEMMA WalkedOfScraper ==
    ASSUME TypeInv, WalkedInv, NEW s \in Scrapers,
           \A x \in Scrapers : x # s => crawl'[x] = crawl[x],
           seen \subseteq seen', missed \subseteq missed', walked' = walked,
           PagesKnown(s)', HandsEmpty(s)'
    PROVE  WalkedInv'
<1>1. WalkedIsSeen'
  BY DEF WalkedInv, WalkedIsSeen
<1>2. ASSUME NEW x \in Scrapers, x # s PROVE PagesKnown(x)' /\ HandsEmpty(x)'
  <2>1. crawl'[x] = crawl[x]
    BY <1>2
  <2>2. HandsEmpty(x) /\ PagesKnown(x)
    BY DEF WalkedInv
  <2>3. HandsEmpty(x)'
    BY <2>1, <2>2 DEF HandsEmpty
  <2>4. PagesKnown(x)'
    BY <2>1, <2>2 DEF PagesKnown, InWindow
  <2> QED BY <2>3, <2>4
<1> QED BY <1>1, <1>2 DEF WalkedInv

(* The same page in the same hands, or no page at all.                     *)
LEMMA WalkedOfGoto ==
    ASSUME TypeInv, WalkedInv, NEW s \in Scrapers, NEW at, Goto(s, at),
           UNCHANGED <<seen, missed, walked>>,
           \/ /\ crawl[s].at \in {"repo", "sync", "bundle", "full", "clear"}
              /\ at \in {"repo", "sync", "bundle", "full", "clear"}
           \/ ~InWindow(s) /\ at \notin {"page", "repo", "sync", "bundle", "full", "clear"}
    PROVE  WalkedInv'
<1>1. /\ \A x \in Scrapers : x # s => crawl'[x] = crawl[x]
      /\ crawl'[s].at = at /\ crawl'[s].window = crawl[s].window
      /\ crawl'[s].page = crawl[s].page /\ crawl'[s].total = crawl[s].total
      /\ crawl'[s].items = crawl[s].items
  BY DEF Goto, TypeInv, CrawlTypes, CrawlType
<1>2. PagesKnown(s)' /\ HandsEmpty(s)'
  BY <1>1 DEF WalkedInv, PagesKnown, HandsEmpty, InWindow
<1> QED BY <1>1, <1>2, WalkedOfScraper

ResultsFit == \A w \in 1..Last : Len(Results[w]) <= Cap

LEMMA WalkedStep ==
    ASSUME ResultsFit, TypeInv, WalkedInv, [Next]_vars
    PROVE  WalkedInv'
<1> USE DEF vars, scraperVars, queueVars, coordVars, repoHistory, windowHistory
<1>0. crawl \in [Scrapers -> CrawlType]
  BY DEF TypeInv, CrawlTypes
<1>1. ASSUME UNCHANGED <<crawl, seen, missed, walked>> PROVE WalkedInv'
  BY <1>1 DEF WalkedInv, WalkedIsSeen, PagesKnown, HandsEmpty, InWindow
<1>2. ASSUME NEW s \in Scrapers, NextWindow(s) PROVE WalkedInv'
  <2>1. /\ \A x \in Scrapers : x # s => crawl'[x] = crawl[x]
        /\ crawl'[s].at = "page" /\ crawl'[s].window = crawl[s].window + 1
        /\ crawl'[s].page = -1 /\ crawl'[s].total = Cap /\ crawl'[s].items = crawl[s].items
        /\ crawl[s].at = "turn" /\ crawl[s].window \in 0..Last /\ crawl[s].window < Last
    BY <1>0, <1>2 DEF NextWindow, CrawlType
  <2>2. crawl[s].items = <<>>
    BY <2>1 DEF WalkedInv, HandsEmpty
  <2>3. HandsEmpty(s)'
    BY <2>1, <2>2 DEF HandsEmpty
  <2>4. PagesKnown(s)'
    <3>1. crawl'[s].window \in 1..Last
      <4>1. PICK w \in 0..Last : w = crawl[s].window
        BY <2>1
      <4>2. w < Last /\ crawl'[s].window = w + 1
        BY <2>1, <4>1
      <4>3. w + 1 \in 1..Last
        BY <4>2, ScraperAssumption
      <4> QED BY <4>2, <4>3
    <3>2. Upto(crawl'[s].page) = 0
      BY <2>1 DEF Upto
    <3>3. Len(Results[crawl'[s].window]) <= crawl'[s].total
      BY <2>1, <3>1 DEF ResultsFit
    <3>4. \A i \in DOMAIN Results[crawl'[s].window] : ~(i <= 0)
      BY <3>1, ScraperAssumption
    <3> QED BY <3>2, <3>3, <3>4 DEF PagesKnown
  <2> QED BY <1>2, <2>1, <2>3, <2>4, WalkedOfScraper DEF NextWindow
<1>3. ASSUME NEW s \in Scrapers, RequestPage(s) PROVE WalkedInv'
  <2> DEFINE w == crawl[s].window
             p == crawl[s].page + 1
             found == PageOf(w, p)
  <2>0. crawl[s] \in CrawlType
    BY <1>0
  <2>1. /\ w \in 1..Last /\ p \in Nat /\ p - 1 = crawl[s].page
        /\ crawl[s].at = "page" /\ crawl[s].items = <<>>
    BY <1>3, <2>0 DEF RequestPage, InWindow, CrawlType, TypeInv, WindowExists, WalkedInv, HandsEmpty
  <2>2. /\ \A x \in Scrapers : x # s => crawl'[x] = crawl[x]
        /\ crawl'[s].window = w /\ crawl'[s].page = p
        /\ crawl'[s].at \in {"page", "repo"}
        /\ \/ crawl'[s].total = Len(Results[w])
           \/ crawl'[s].total = crawl[s].total
    BY <1>0, <1>3 DEF RequestPage, CrawlType
  <2>3. \/ crawl'[s].items = found /\ crawl'[s].at = "repo" /\ missed' = missed
        \/ /\ crawl'[s].items = <<>> /\ crawl'[s].at = "page"
           /\ missed' = missed \union Elements(found)
    BY <1>0, <1>3, <2>1 DEF RequestPage, CrawlType
  <2>4. seen' = seen /\ walked' = walked
    BY <1>3 DEF RequestPage
  <2>5. Len(Results[w]) \in Nat /\ Len(Results[w]) <= crawl[s].total
    BY <2>1, ScraperAssumption DEF WalkedInv, PagesKnown, InWindow
  <2>6. ASSUME NEW i \in DOMAIN Results[w], i <= Upto(p), Results[w][i] \in Eligible
        PROVE  Results[w][i] \in seen' \union missed' \union Elements(crawl'[s].items)
    <3>1. CASE i <= Upto(p - 1)
      <4>1. Results[w][i] \in seen \union missed \union Elements(<<>>)
        BY <2>1, <2>6, <3>1 DEF WalkedInv, PagesKnown, InWindow
      <4>2. Elements(<<>>) = {}
        BY DEF Elements
      <4> QED BY <2>3, <2>4, <4>1, <4>2
    <3>2. CASE ~(i <= Upto(p - 1))
      <4> HIDE DEF w, p
      <4>1. Results[w][i] \in Elements(found)
        BY <2>1, <2>6, <3>2, PageCovers
      <4> HIDE DEF found
      <4> QED BY <2>3, <4>1
    <3> QED BY <3>1, <3>2
  <2>7. PagesKnown(s)'
    <3>1. Len(Results[w]) <= crawl'[s].total
      BY <2>2, <2>5
    <3> HIDE DEF w, p, found
    <3> QED BY <2>2, <2>6, <3>1 DEF PagesKnown
  <2>8. HandsEmpty(s)'
    BY <2>3 DEF HandsEmpty
  <2>9. missed \subseteq missed'
    BY <2>3
  <2> QED BY <2>2, <2>4, <2>7, <2>8, <2>9, WalkedOfScraper
<1>4. ASSUME NEW s \in Scrapers, LeaveWindow(s) PROVE WalkedInv'
  <2> DEFINE w == crawl[s].window
  <2>1. /\ \A x \in Scrapers : x # s => crawl'[x] = crawl[x]
        /\ crawl'[s].at = "turn" /\ crawl'[s].items = crawl[s].items /\ crawl[s].at = "page"
        /\ seen' = seen /\ missed' = missed /\ walked' = walked \union {w}
    BY <1>0, <1>4 DEF LeaveWindow, Goto, CrawlType
  <2>2. crawl[s].items = <<>> /\ InWindow(s) /\ w \in 1..Last
    BY <1>0, <2>1 DEF WalkedInv, HandsEmpty, InWindow, TypeInv, WindowExists, CrawlType
  <2>3. /\ crawl[s].page \in Nat \union {-1} /\ crawl[s].total \in Nat /\ PageSize \in Nat \ {0}
        /\ Len(Results[w]) \in Nat /\ DOMAIN Results[w] = 1..Len(Results[w])
    BY <1>0, <2>2, ScraperAssumption DEF CrawlType
  <2>4. ~(crawl[s].page * PageSize < crawl[s].total) /\ Len(Results[w]) <= crawl[s].total
    BY <1>4, <2>2 DEF LeaveWindow, MorePages, WalkedInv, PagesKnown
  <2>5. \A i \in DOMAIN Results[w] : i <= Upto(crawl[s].page)
    <3>1. CASE crawl[s].page = -1
      <4>1. -1 * PageSize < 0
        BY <2>3
      <4> QED BY <2>3, <2>4, <3>1, <4>1
    <3>2. CASE crawl[s].page = 0
      <4>1. 0 * PageSize = 0
        BY <2>3
      <4>2. Len(Results[w]) = 0
        BY <2>3, <2>4, <3>2, <4>1
      <4> QED BY <2>3, <4>2
    <3>3. CASE crawl[s].page > 0
      <4>1. crawl[s].page * PageSize \in Nat
        BY <2>3, <3>3
      <4>2. Upto(crawl[s].page) = crawl[s].page * PageSize
        BY <2>3, <3>3 DEF Upto
      <4> QED BY <2>3, <2>4, <4>1, <4>2
    <3> QED BY <2>3, <3>1, <3>2, <3>3
  <2>6. Elements(<<>>) = {}
    BY DEF Elements
  <2>7. \A i \in DOMAIN Results[w] : Results[w][i] \in Eligible => Results[w][i] \in seen \union missed
    BY <2>2, <2>5, <2>6 DEF WalkedInv, PagesKnown
  <2> HIDE DEF w
  <2>8. WalkedIsSeen'
    BY <2>1, <2>7 DEF WalkedInv, WalkedIsSeen
  <2>9. \A x \in Scrapers : PagesKnown(x)' /\ HandsEmpty(x)'
    <3>1. ASSUME NEW x \in Scrapers, x # s PROVE PagesKnown(x)' /\ HandsEmpty(x)'
      <4>1. crawl'[x] = crawl[x]
        BY <2>1, <3>1
      <4> QED BY <2>1, <4>1 DEF WalkedInv, PagesKnown, HandsEmpty, InWindow
    <3>2. PagesKnown(s)' /\ HandsEmpty(s)'
      BY <2>1, <2>2 DEF PagesKnown, HandsEmpty, InWindow
    <3> QED BY <3>1, <3>2
  <2> QED BY <2>8, <2>9 DEF WalkedInv
<1>5. ASSUME NEW s \in Scrapers, TakeRepo(s) PROVE WalkedInv'
  <2> DEFINE w == crawl[s].window
             items == crawl[s].items
  <2>1. /\ \A x \in Scrapers : x # s => crawl'[x] = crawl[x]
        /\ crawl'[s].window = w /\ crawl'[s].page = crawl[s].page
        /\ crawl'[s].total = crawl[s].total
        /\ crawl'[s].at \in {"sync", "repo"} /\ crawl[s].at = "repo"
        /\ crawl'[s].items = Tail(items)
        /\ items \in Seq(Repos) /\ items # <<>>
    <3>1. /\ crawl[s] \in CrawlType /\ DOMAIN crawl = Scrapers /\ items # <<>>
          /\ crawl[s].at = "repo"
          /\ \/ crawl' = [crawl EXCEPT ![s] = [@ EXCEPT !.at = "sync", !.items = Tail(items)]]
             \/ crawl' = [crawl EXCEPT ![s] = [@ EXCEPT !.items = Tail(items)]]
      BY <1>0, <1>5 DEF TakeRepo
    <3>2. PICK c \in CrawlType : c = crawl[s]
      BY <3>1
    <3>3. \/ crawl'[s] = [c EXCEPT !.at = "sync", !.items = Tail(items)]
          \/ crawl'[s] = [c EXCEPT !.items = Tail(items)]
      BY <3>1, <3>2
    <3>4. \A x \in Scrapers : x # s => crawl'[x] = crawl[x]
      BY <3>1
    <3>5. /\ crawl'[s].window = c.window /\ crawl'[s].page = c.page /\ crawl'[s].total = c.total
          /\ crawl'[s].at \in {"sync", c.at} /\ crawl'[s].items = Tail(items)
      <4> HIDE DEF items
      <4> QED BY <3>2, <3>3 DEF CrawlType
    <3>6. items \in Seq(Repos)
      BY <3>2 DEF CrawlType
    <3> QED BY <3>1, <3>2, <3>4, <3>5, <3>6
  <2>2. /\ seen \subseteq seen' /\ missed \subseteq missed' /\ walked' = walked
        /\ Head(items) \in Eligible => Head(items) \in seen' \union missed'
    BY <1>5 DEF TakeRepo
  <2>3. Elements(items) = {Head(items)} \union Elements(Tail(items))
    BY <2>1, ElementsOfTail
  <2>4. PagesKnown(s)
    BY DEF WalkedInv
  <2> HIDE DEF items
  <2>5. ASSUME NEW i \in DOMAIN Results[w], i <= Upto(crawl[s].page), Results[w][i] \in Eligible
        PROVE  Results[w][i] \in seen' \union missed' \union Elements(Tail(items))
    <3>1. Results[w][i] \in seen \union missed \union Elements(items)
      BY <2>1, <2>4, <2>5 DEF PagesKnown, InWindow, items
    <3> HIDE DEF w
    <3> QED BY <2>2, <2>3, <2>5, <3>1
  <2>6. Len(Results[w]) <= crawl[s].total
    BY <2>1, <2>4 DEF PagesKnown, InWindow
  <2> HIDE DEF w
  <2>7. PagesKnown(s)' /\ HandsEmpty(s)'
    BY <2>1, <2>5, <2>6 DEF PagesKnown, HandsEmpty
  <2> QED BY <2>1, <2>2, <2>7, WalkedOfScraper
<1>6. ASSUME NEW s \in Scrapers, LeavePage(s) PROVE WalkedInv'
  <2>1. /\ \A x \in Scrapers : x # s => crawl'[x] = crawl[x]
        /\ crawl'[s].window = crawl[s].window /\ crawl'[s].page = crawl[s].page
        /\ crawl'[s].total = crawl[s].total
        /\ crawl'[s].at = "page" /\ crawl[s].at = "repo"
        /\ crawl'[s].items = <<>>
        /\ missed' = missed \union Elements(crawl[s].items)
        /\ seen' = seen /\ walked' = walked
    BY <1>0, <1>6 DEF LeavePage, CrawlType
  <2>2. PagesKnown(s)
    BY DEF WalkedInv
  <2>3. PagesKnown(s)' /\ HandsEmpty(s)'
    BY <2>1, <2>2 DEF PagesKnown, HandsEmpty, InWindow
  <2> QED BY <2>1, <2>3, WalkedOfScraper
<1>7. ASSUME NEW s \in Scrapers, FinishCrawl(s) \/ FlushFails(s) \/ Dies(s) PROVE WalkedInv'
  <2>1. /\ \A x \in Scrapers : x # s => crawl'[x] = crawl[x]
        /\ crawl'[s].at \in {"setup", "dead"} /\ crawl'[s].items = <<>>
        /\ UNCHANGED <<seen, missed, walked>>
    BY <1>0, <1>7 DEF FinishCrawl, FlushFails, Dies, Idle
  <2>2. PagesKnown(s)' /\ HandsEmpty(s)'
    BY <2>1 DEF PagesKnown, HandsEmpty, InWindow
  <2> QED BY <2>1, <2>2, WalkedOfScraper
<1>8. ASSUME NEW s \in Scrapers, StartCrawl(s) PROVE WalkedInv'
  <2>1. /\ \A x \in Scrapers : x # s => crawl'[x] = crawl[x]
        /\ crawl'[s].at = "turn" /\ crawl'[s].items = crawl[s].items /\ crawl[s].at = "await"
        /\ UNCHANGED <<seen, missed, walked>>
    BY <1>0, <1>8 DEF StartCrawl, CrawlType
  <2>2. PagesKnown(s)' /\ HandsEmpty(s)'
    BY <2>1 DEF WalkedInv, PagesKnown, HandsEmpty, InWindow
  <2> QED BY <2>1, <2>2, WalkedOfScraper
<1>9. ASSUME NEW s \in Scrapers,
             \/ CheckForUpdate(s) \/ Bundle(s) \/ FlushOnRequest(s) \/ ClearRequest(s)
             \/ Boot(s) \/ Announce(s)
      PROVE  WalkedInv'
  BY <1>9, WalkedOfGoto DEF CheckForUpdate, Bundle, FlushOnRequest, ClearRequest, Boot, Announce,
                            InWindow
<1>10. ASSUME NEW s \in Scrapers, Reannounce(s) \/ OnControl(s) \/ ControlReconnects(s)
       PROVE  WalkedInv'
  BY <1>1, <1>10 DEF Reannounce, OnControl, ControlReconnects
<1>11. ASSUME \/ OnScraperReg \/ Starve \/ RequestRepos \/ RequestRefused \/ OnScrape
              \/ CoordinatorRestarts
       PROVE  WalkedInv'
  BY <1>1, <1>11 DEF OnScraperReg, Starve, RequestRepos, RequestRefused, OnScrape,
                     CoordinatorRestarts
<1>12. CASE UNCHANGED vars
  BY <1>1, <1>12
<1> QED BY <1>2, <1>3, <1>4, <1>5, <1>6, <1>7, <1>8, <1>9, <1>10, <1>11, <1>12 DEF Next, Walk

(* A window walked to the end had all its results requested, if the search *)
(* never has more of them than the walk assumes before its first page.     *)
THEOREM WalkedIsSeenHolds ==
    ASSUME \A w \in 1..Last : Len(Results[w]) <= Cap
    PROVE  Spec => []WalkedIsSeen
<1>1. Init => TypeInv
  BY TypeInit
<1>2. Init => WalkedInv
  BY DEF Init, WalkedInv, WalkedIsSeen, PagesKnown, HandsEmpty, InWindow, Idle
<1>3. TypeInv /\ WalkedInv /\ [Next]_vars => TypeInv' /\ WalkedInv'
  BY TypeStep, WalkedStep DEF ResultsFit
<1>4. WalkedInv => WalkedIsSeen
  BY DEF WalkedInv
<1> QED BY <1>1, <1>2, <1>3, <1>4, PTL DEF Spec
=============================================================================
