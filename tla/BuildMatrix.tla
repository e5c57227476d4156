----------------------------- MODULE BuildMatrix -----------------------------
(* The task matrix: one b_status row for every repository and every build  *)
(* option that covers it.                                                  *)
(*                                                                         *)
(* Two threads of the coordinator extend it, each in transactions of its   *)
(* own: the consumer of `builder_reg` adds an option and a row for every   *)
(* repository it reads (register_build_opt); the consumer of `scrape` adds *)
(* the repositories of a bundle, one transaction each, with a row for every*)
(* option it reads (insert_repos).  The database runs at its default       *)
(* isolation, READ COMMITTED, so each reads what the other has committed by*)
(* then and nothing orders the two commits.                                *)
(*                                                                         *)
(* Bounds: MaxBundles bundles are published, MaxFaults faults happen.      *)
(***************************************************************************)
EXTENDS Integers, Sequences, FiniteSets

CONSTANTS
    Configs,        \* build options, by the nine columns that identify one
    Legacy,         \* those in the table already, with no repository scraped yet
    Urls,           \* repositories, by their url (unique in `projects`)
    Systems,        \* values of build_system
    All,            \* the build system "all"
    Within,         \* the pairs <<s, t>> such that s is a substring of t
    Languages,
    Canon,          \* languages_match compares languages up to this function
    OptSystem, OptLanguage,
    RepoSystem, RepoLanguage,
    Bundles,        \* what a scraper may publish: sequences of urls
    MaxBundles,
    MaxFaults,
    NoOpt, NoUrl

ASSUME MatrixAssumption ==
    /\ Legacy \subseteq Configs
    /\ All \in Systems
    /\ Within \subseteq Systems \X Systems
    /\ Canon \in [Languages -> Languages]
    /\ OptSystem \in [Configs -> Systems]
    /\ OptLanguage \in [Configs -> Languages]
    /\ RepoSystem \in [Urls -> Systems]
    /\ RepoLanguage \in [Urls -> Languages]
    /\ Bundles \subseteq Seq(Urls)
    /\ MaxBundles \in Nat
    /\ MaxFaults \in Nat
    /\ NoOpt \notin Configs
    /\ NoUrl \notin Urls

VARIABLES
    opts,           \* committed rows of `buildopt`
    repos,          \* committed rows of `projects`
    status,         \* how many rows of b_status each pair has
    reg,            \* the transaction of register_build_opt: its option, what it read
    ins,            \* the transaction of insert_repos: its repository, what it read
    scrapeQueue,    \* queue `scrape`
    handled,        \* how far handle_scrape is through the bundle at the head
    sent,           \* bundles published so far
    faults,
    swallowed,      \* history: repositories whose insertion failed and was logged
    overlapped      \* history: pairs whose two transactions read before either committed

regVars == <<opts, reg>>
insVars == <<repos, ins, scrapeQueue, handled, sent, swallowed>>
vars == <<regVars, insVars, status, faults, overlapped>>

Idle(none) == [row |-> none, seen |-> {}]

Fault == faults < MaxFaults /\ faults' = faults + 1

LanguagesMatch(r, c) == Canon[RepoLanguage[r]] = Canon[OptLanguage[c]]

(* The two operations ask the substring question the other way round.      *)
RegisterCovers(c, r) ==
    /\ <<OptSystem[c], RepoSystem[r]>> \in Within \/ OptSystem[c] = All
    /\ LanguagesMatch(r, c)

InsertCovers(c, r) ==
    /\ <<RepoSystem[r], OptSystem[c]>> \in Within \/ OptSystem[c] = All
    /\ LanguagesMatch(r, c)

AddRows(pairs) == status' = [p \in Urls \X Configs |-> status[p] + (IF p \in pairs THEN 1 ELSE 0)]

Init ==
    /\ opts = Legacy
    /\ repos = {}
    /\ status = [p \in Urls \X Configs |-> 0]
    /\ reg = Idle(NoOpt)
    /\ ins = Idle(NoUrl)
    /\ scrapeQueue = <<>>
    /\ handled = 0
    /\ sent = 0
    /\ faults = 0
    /\ swallowed = {}
    /\ overlapped = {}

-----------------------------------------------------------------------------
(* register_build_opt.  A registration of a known option changes nothing   *)
(* here (it enables the row again, a column nobody reads).                 *)

(* Mutant: the option is committed before its rows. *)
RegisterScanCommits(c) ==
    /\ reg.row = NoOpt
    /\ c \notin opts
    /\ opts' = opts \union {c}
    /\ reg' = [row |-> c, seen |-> repos]
    /\ UNCHANGED <<insVars, status, faults, overlapped>>

(* Mutant: the nine columns are not compared. *)
RegisterScanAgain(c) ==
    /\ reg.row = NoOpt
    /\ reg' = [row |-> c, seen |-> repos]
    /\ UNCHANGED <<opts, insVars, status, faults, overlapped>>

(* No row matches: the new option is flushed and the repositories read.    *)
RegisterScan(c) ==
    /\ reg.row = NoOpt
    /\ c \notin opts
    /\ reg' = [row |-> c, seen |-> repos]
    /\ UNCHANGED <<opts, insVars, status, faults, overlapped>>

RegisterCommit ==
    /\ reg.row # NoOpt
    /\ opts' = opts \union {reg.row}
    /\ AddRows({<<r, reg.row>> : r \in {r \in reg.seen : RegisterCovers(reg.row, r)}})
    /\ overlapped' = overlapped \union (IF ins.row = NoUrl THEN {} ELSE {<<ins.row, reg.row>>})
    /\ reg' = Idle(NoOpt)
    /\ UNCHANGED <<insVars, faults>>

(* An exception or a lost connection: rolled back, and the delivery is     *)
(* requeued, so the option may be asked for again.                         *)
RegisterFails ==
    /\ reg.row # NoOpt
    /\ Fault
    /\ reg' = Idle(NoOpt)
    /\ UNCHANGED <<opts, insVars, status, overlapped>>

-----------------------------------------------------------------------------
(* handle_scrape and insert_repos. *)

Current == Head(scrapeQueue)[handled + 1]

InBundle == scrapeQueue # <<>> /\ handled < Len(Head(scrapeQueue))

Scrape ==
    /\ sent < MaxBundles
    /\ sent' = sent + 1
    /\ \E bundle \in Bundles : scrapeQueue' = Append(scrapeQueue, bundle)
    /\ UNCHANGED <<regVars, repos, ins, handled, swallowed, status, faults, overlapped>>

(* The repository is flushed and the options read.                         *)
InsertScan ==
    /\ InBundle
    /\ ins.row = NoUrl
    /\ Current \notin repos
    /\ ins' = [row |-> Current, seen |-> opts]
    /\ UNCHANGED <<regVars, repos, scrapeQueue, handled, sent, swallowed, status, faults,
                   overlapped>>

(* Mutant: a duplicate fails the bundle, which is requeued. *)
DuplicateRequeues ==
    /\ InBundle
    /\ ins.row = NoUrl
    /\ Current \in repos
    /\ handled' = 0
    /\ UNCHANGED <<regVars, repos, ins, scrapeQueue, sent, swallowed, status, faults, overlapped>>

(* The url exists: IntegrityError, rolled back, a normal skip.             *)
InsertDuplicate ==
    /\ InBundle
    /\ ins.row = NoUrl
    /\ Current \in repos
    /\ handled' = handled + 1
    /\ UNCHANGED <<regVars, repos, ins, scrapeQueue, sent, swallowed, status, faults, overlapped>>

InsertCommit ==
    /\ ins.row # NoUrl
    /\ repos' = repos \union {ins.row}
    /\ AddRows({<<ins.row, c>> : c \in {c \in ins.seen : InsertCovers(c, ins.row)}})
    /\ overlapped' = overlapped \union (IF reg.row = NoOpt THEN {} ELSE {<<ins.row, reg.row>>})
    /\ ins' = Idle(NoUrl)
    /\ handled' = handled + 1
    /\ UNCHANGED <<regVars, scrapeQueue, sent, swallowed, faults>>

(* Any other failure is logged and the bundle goes on.                     *)
InsertFails ==
    /\ ins.row # NoUrl
    /\ Fault
    /\ swallowed' = swallowed \union {ins.row}
    /\ ins' = Idle(NoUrl)
    /\ handled' = handled + 1
    /\ UNCHANGED <<regVars, repos, scrapeQueue, sent, status, overlapped>>

(* The bundle is acknowledged; if the ack is lost it is delivered again.   *)
AckBundle ==
    /\ scrapeQueue # <<>>
    /\ handled = Len(Head(scrapeQueue))
    /\ handled' = 0
    /\ \/ UNCHANGED faults /\ scrapeQueue' = Tail(scrapeQueue)
       \/ Fault /\ UNCHANGED scrapeQueue
    /\ UNCHANGED <<regVars, repos, ins, sent, swallowed, status, overlapped>>

(* The coordinator dies: both transactions are rolled back, the bundle and *)
(* the registration are delivered again.                                   *)
CoordinatorCrashes ==
    /\ Fault
    /\ reg' = Idle(NoOpt)
    /\ ins' = Idle(NoUrl)
    /\ handled' = 0
    /\ UNCHANGED <<opts, repos, scrapeQueue, sent, swallowed, status, overlapped>>

Register == (\E c \in Configs : RegisterScan(c)) \/ RegisterCommit

Insert == InsertScan \/ InsertDuplicate \/ InsertCommit \/ AckBundle

Next ==
    \/ Register \/ RegisterFails
    \/ Scrape \/ Insert \/ InsertFails
    \/ CoordinatorCrashes

(* The consumer thread of `scrape` keeps running under its supervisor.     *)
Spec == Init /\ [][Next]_vars

FairSpec == Spec /\ WF_vars(Insert)

-----------------------------------------------------------------------------
(* Properties. *)

TypeOK ==
    /\ opts \in SUBSET Configs
    /\ repos \in SUBSET Urls
    /\ status \in [Urls \X Configs -> Nat]
    /\ reg \in [row : Configs \union {NoOpt}, seen : SUBSET Urls]
    /\ ins \in [row : Urls \union {NoUrl}, seen : SUBSET Configs]
    /\ scrapeQueue \in Seq(Seq(Urls))
    /\ handled \in Nat
    /\ handled > 0 => scrapeQueue # <<>> /\ handled <= Len(Head(scrapeQueue))
    /\ ins.row # NoUrl => InBundle
    /\ sent \in 0..MaxBundles
    /\ faults \in 0..MaxFaults
    /\ swallowed \in SUBSET Urls
    /\ overlapped \in SUBSET (Urls \X Configs)

(* No pair has two rows, although both threads may create the row of a pair*)
(* and bundles and registrations are delivered again: a second row would   *)
(* have the repository built twice for the option.                         *)
AtMostOnePerPair == \A p \in Urls \X Configs : status[p] <= 1

(* A row joins a repository and an option that exist and whose languages   *)
(* match: a builder is never handed a repository of another language.      *)
RowsWarranted ==
    \A r \in Urls, c \in Configs :
        status[<<r, c>>] > 0 => r \in repos /\ c \in opts /\ LanguagesMatch(r, c)

(* Both operations must agree on the pair, where both may create its row.  *)
Covered(r, c) ==
    /\ r \in repos
    /\ c \in opts
    /\ InsertCovers(c, r)
    /\ c \in Legacy \/ RegisterCovers(c, r)

(* Every repository has a row for every option that covers it, but for the *)
(* pairs whose two transactions overlapped: neither a crash, nor a         *)
(* redelivery, nor any other order of the two threads loses a pair.        *)
CompleteUnlessOverlapped ==
    \A r \in Urls, c \in Configs :
        Covered(r, c) /\ <<r, c>> \notin overlapped => status[<<r, c>>] = 1

(* The docstrings taken together (register_build_opt: "back-filled with a  *)
(* b_status for every existing repo", insert_repos: "a b_status per        *)
(* covering build option"): the matrix has no hole.  It may have one, and  *)
(* nothing fills it later.                                                 *)
MatrixComplete ==
    \A r \in Urls, c \in Configs : Covered(r, c) => status[<<r, c>>] = 1

(* A duplicate or a failed insertion never blocks the queue: every bundle  *)
(* is acknowledged in the end, and each of its repositories is then stored *)
(* or was logged as failed (handle_scrape).                                *)
BundlesDrain ==
    /\ \A r \in Urls :
          (\E i \in 1..Len(scrapeQueue) : \E j \in 1..Len(scrapeQueue[i]) : scrapeQueue[i][j] = r)
              ~> r \in repos \union swallowed
    /\ []<>(scrapeQueue = <<>>)

=============================================================================
