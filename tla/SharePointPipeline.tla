-------------------------- MODULE SharePointPipeline --------------------------
(***************************************************************************)
(* internal/processors/sharepoint.go, the paging loop of GetSites in       *)
(* internal/api/client.go and streamTo in internal/storage/                *)
(* sqlite_storage.go: one Process of the SharePoint processor.             *)
(*                                                                         *)
(*   GetSites -> filter -> dispatcher -> user and group workers -> streams *)
(*                                                                         *)
(* Whatever travels through a channel is represented by the site it is     *)
(* about.  Stages that hold one item while they wait for room are merged   *)
(* with the channel behind them.  Only the enumeration sees the interrupt: *)
(* every other stage runs under context.WithoutCancel, so the ctx.Done     *)
(* cases of their selects are never taken.  The fetch counters of the      *)
(* trackers stand for counters.Users, Groups and Members, their sums.      *)
(*                                                                         *)
(* Definitions marked (variant) are wrong on purpose: no specification     *)
(* uses them, and each breaks a property when put in the place of the      *)
(* definition that follows it.                                             *)
(***************************************************************************)
EXTENDS Integers, Sequences, FiniteSets, Functions

CONSTANTS Sites,
          NoSite,
          Listing,       \* the records of the tenant's site list, in order
          PageSize,
          MaxPages,      \* 0 for no limit
          Undecodable,   \* sites whose record json.Unmarshal rejects
          Skipped,       \* sites shouldSkipSite rejects
          UserWorkers,   \* goroutines of the user pool
          GroupWorkers,  \* goroutines of the group pool
          ProcessGroups,
          ProcessGroupMembers,
          Cap,           \* channel -> capacity
          MaxRows        \* bound of the model: rows of one fetch and table

Tables   == {"users", "groups", "members"}
Channels == {"raw", "filtered", "sites", "userSites", "groupSites"} \cup Tables
Workers  == UserWorkers \cup GroupWorkers

ASSUME SharePointPipelineAssumption ==
  /\ NoSite \notin Sites
  /\ Listing \in Seq(Sites)
  /\ PageSize \in Nat \ {0} /\ MaxPages \in Nat
  /\ Undecodable \subseteq Sites /\ Skipped \subseteq Sites
  /\ UserWorkers \cap GroupWorkers = {}
  /\ IsFiniteSet(Workers)
  /\ ProcessGroups \in BOOLEAN /\ ProcessGroupMembers \in BOOLEAN
  /\ ~ProcessGroups => GroupWorkers = {}
  /\ Cap \in [Channels -> Nat \ {0}]
  /\ MaxRows \in Nat

VARIABLES
  interrupted, \* the context of the run is cancelled
  epc,         \* enumerator: "first", "page", "send" or "done"
  page,        \* number of the page at hand
  pos,         \* records of the list gone through
  chan,        \* channel -> items in it
  filtering,   \* the filter has not closed its output
  dpc,         \* dispatcher: "recv", "done", or the channel it sends on
  dsite,       \* the site it is dispatching
  trackers,    \* every tracker ever created
  outcomes,    \* site -> its tracker in the sync.Map, 0 for none
  wpc,         \* worker -> where it is
  job,         \* worker -> its site, tracker and rows
  tokens,      \* idle tokens of the throttle scaler
  counters,
  recorded,    \* the outcome collector
  written,     \* table -> site -> rows given to the batch writer
  returned,    \* Process has returned
  saved        \* outcomes SaveSiteOutcomes has stored

enumVars     == <<interrupted, epc, page, pos>>
dispatchVars == <<filtering, dpc, dsite>>
siteVars     == <<trackers, outcomes, recorded>>
flowVars     == <<dispatchVars, siteVars>>
workVars     == <<wpc, job, tokens>>
outVars      == <<written, returned, saved>>
vars == <<enumVars, chan, flowVars, workVars, counters, outVars>>

Fetch == [Tables -> 0..MaxRows]

Tracker == [site : Sites, remaining : Int, usersFailed : BOOLEAN,
            groupsFailed : BOOLEAN, memberErrors : BOOLEAN, fetched : Fetch]

Job == [site : Sites \cup {NoSite}, tracker : Nat, left : Fetch, rows : Fetch]

NoRows == [c \in Tables |-> 0]
NoJob  == [site |-> NoSite, tracker |-> 0, left |-> NoRows, rows |-> NoRows]

Init ==
  /\ interrupted = FALSE
  /\ epc = "first"
  /\ page = 1
  /\ pos = 0
  /\ chan = [c \in Channels |-> <<>>]
  /\ filtering = TRUE
  /\ dpc = "recv"
  /\ dsite = NoSite
  /\ trackers = <<>>
  /\ outcomes = [s \in Sites |-> 0]
  /\ wpc = [w \in Workers |-> "idle"]
  /\ job = [w \in Workers |-> NoJob]
  /\ tokens = Cardinality(Workers)
  /\ counters = [discovered |-> 0, skipped |-> 0, dispatched |-> 0,
                 completed |-> 0, succeeded |-> 0, failed |-> 0]
  /\ recorded = <<>>
  /\ written = [c \in {"sites"} \cup Tables |-> [s \in Sites |-> 0]]
  /\ returned = FALSE
  /\ saved = {}

-----------------------------------------------------------------------------
Room(c) == Len(chan[c]) < Cap[c]

Push(ch, c, s) == [ch EXCEPT ![c] = Append(@, s)]

Pop(ch, c) == [ch EXCEPT ![c] = Tail(@)]

-----------------------------------------------------------------------------
(* The enumerator.                                                         *)

\* Once the enumeration has ended nothing in Process looks at its context.
Interrupt ==
  /\ ~interrupted
  /\ epc # "done"
  /\ interrupted' = TRUE
  /\ UNCHANGED <<epc, page, pos, chan, flowVars, workVars, counters, outVars>>

PageEnd == IF page * PageSize < Len(Listing) THEN page * PageSize
           ELSE Len(Listing)

\* The request for the first page succeeds or ends the enumeration.
FirstPage ==
  /\ epc = "first"
  /\ epc' \in {"page", "done"}
  /\ UNCHANGED <<interrupted, page, pos, chan, flowVars, workVars, counters,
                 outVars>>

\* The head of the loop over pages: onPage counts a page before it is sent.
StartPage ==
  /\ epc = "page"
  /\ IF interrupted \/ (MaxPages > 0 /\ page > MaxPages)
     THEN epc' = "done" /\ UNCHANGED counters
     ELSE /\ epc' = "send"
          /\ counters' = [counters EXCEPT !.discovered = @ + PageEnd - pos]
  /\ UNCHANGED <<interrupted, page, pos, chan, flowVars, workVars, outVars>>

SendRecord ==
  /\ epc = "send" /\ pos < PageEnd
  /\ LET s == Listing[pos + 1] IN
       \/ /\ s \in Undecodable
          /\ UNCHANGED chan
       \/ /\ s \notin Undecodable
          /\ Room("raw")
          /\ chan' = Push(chan, "raw", s)
  /\ pos' = pos + 1
  /\ UNCHANGED <<interrupted, epc, page, flowVars, workVars, counters,
                 outVars>>

\* The other case of the select around the send.
SendInterrupted ==
  /\ epc = "send" /\ pos < PageEnd
  /\ Listing[pos + 1] \notin Undecodable
  /\ interrupted
  /\ epc' = "done"
  /\ UNCHANGED <<interrupted, page, pos, chan, flowVars, workVars, counters,
                 outVars>>

\* No page is left, or the request for the next one succeeds or fails.
NextPage ==
  /\ epc = "send" /\ pos = PageEnd
  /\ \/ /\ epc' = "done"
        /\ UNCHANGED page
     \/ /\ pos < Len(Listing)
        /\ epc' = "page"
        /\ page' = page + 1
  /\ UNCHANGED <<interrupted, pos, chan, flowVars, workVars, counters,
                 outVars>>

-----------------------------------------------------------------------------
(* The filter and the dispatcher.                                          *)

filterSites ==
  /\ chan["raw"] # <<>>
  /\ LET s == Head(chan["raw"]) IN
       \/ /\ s \in Skipped
          /\ counters' = [counters EXCEPT !.skipped = @ + 1]
          /\ chan' = Pop(chan, "raw")
       \/ /\ s \notin Skipped
          /\ Room("filtered")
          /\ chan' = Push(Pop(chan, "raw"), "filtered", s)
          /\ UNCHANGED counters
  /\ UNCHANGED <<enumVars, flowVars, workVars, outVars>>

FilterEnds ==
  /\ filtering
  /\ epc = "done" /\ chan["raw"] = <<>>
  /\ filtering' = FALSE
  /\ UNCHANGED <<enumVars, chan, dpc, dsite, siteVars, workVars, counters,
                 outVars>>

NewTracker(s) ==
  [site |-> s, remaining |-> IF ProcessGroups THEN 2 ELSE 1,
   usersFailed |-> FALSE, groupsFailed |-> FALSE, memberErrors |-> FALSE,
   fetched |-> NoRows]

\* The tracker is in the map before any worker can see the site.
Dispatch ==
  /\ dpc = "recv"
  /\ chan["filtered"] # <<>>
  /\ LET s == Head(chan["filtered"]) IN
       /\ dsite' = s
       /\ trackers' = Append(trackers, NewTracker(s))
       /\ outcomes' = [outcomes EXCEPT ![s] = Len(trackers) + 1]
  /\ chan' = Pop(chan, "filtered")
  /\ counters' = [counters EXCEPT !.dispatched = @ + 1]
  /\ dpc' = "sites"
  /\ UNCHANGED <<enumVars, filtering, recorded, workVars, outVars>>

\* The blocking sends, in their order.
NextSend == IF dpc = "sites" THEN "userSites"
            ELSE IF dpc = "userSites" /\ ProcessGroups THEN "groupSites"
            ELSE "recv"

DispatchSend ==
  /\ dpc \in {"sites", "userSites", "groupSites"}
  /\ Room(dpc)
  /\ chan' = Push(chan, dpc, dsite)
  /\ dpc' = NextSend
  /\ dsite' = IF NextSend = "recv" THEN NoSite ELSE dsite
  /\ UNCHANGED <<enumVars, filtering, siteVars, workVars, counters, outVars>>

\* The dispatcher closes its three outputs.
DispatchEnds ==
  /\ dpc = "recv"
  /\ ~filtering /\ chan["filtered"] = <<>>
  /\ dpc' = "done"
  /\ UNCHANGED <<enumVars, chan, filtering, dsite, siteVars, workVars,
                 counters, outVars>>

-----------------------------------------------------------------------------
(* The workers of both pools.                                              *)

Input(w) == IF w \in UserWorkers THEN "userSites" ELSE "groupSites"

Goto(w, from, to) ==
  /\ wpc[w] = from
  /\ wpc' = [wpc EXCEPT ![w] = to]

TakeSite(w) ==
  /\ chan[Input(w)] # <<>>
  /\ Goto(w, "idle", "acquire")
  /\ job' = [job EXCEPT ![w].site = Head(chan[Input(w)])]
  /\ chan' = Pop(chan, Input(w))
  /\ UNCHANGED <<enumVars, flowVars, tokens, counters, outVars>>

\* (variant) the channel of the group workers is never closed
WorkerEndsUsersOnly(w) ==
  /\ w \in UserWorkers
  /\ chan[Input(w)] = <<>> /\ dpc = "done"
  /\ Goto(w, "idle", "done")
  /\ UNCHANGED <<enumVars, chan, flowVars, job, tokens, counters, outVars>>

WorkerEnds(w) ==
  /\ chan[Input(w)] = <<>> /\ dpc = "done"
  /\ Goto(w, "idle", "done")
  /\ UNCHANGED <<enumVars, chan, flowVars, job, tokens, counters, outVars>>

Acquire(w) ==
  /\ tokens > 0
  /\ tokens' = tokens - 1
  /\ Goto(w, "acquire", "lookup")
  /\ UNCHANGED <<enumVars, chan, flowVars, job, counters, outVars>>

\* A site without a tracker is counted as a failure and left alone.
Lookup(w) ==
  /\ wpc[w] = "lookup"
  /\ \/ /\ outcomes[job[w].site] # 0
        /\ Goto(w, "lookup", "fetch")
        /\ job' = [job EXCEPT ![w].tracker = outcomes[job[w].site]]
        /\ UNCHANGED counters
     \/ /\ outcomes[job[w].site] = 0
        /\ Goto(w, "lookup", "release")
        /\ counters' = [counters EXCEPT !.completed = @ + 1, !.failed = @ + 1]
        /\ UNCHANGED job
  /\ UNCHANGED <<enumVars, chan, flowVars, tokens, outVars>>

\* (variant) an early return without finalizeSiteOutcome
FetchFailsUnfinalized(w) ==
  /\ Goto(w, "fetch", "release")
  /\ trackers' = IF w \in UserWorkers
                 THEN [trackers EXCEPT ![job[w].tracker].usersFailed = TRUE]
                 ELSE [trackers EXCEPT ![job[w].tracker].groupsFailed = TRUE]
  /\ UNCHANGED <<enumVars, chan, dispatchVars, outcomes, recorded, job,
                 tokens, counters, outVars>>

\* GetSiteUsers or GetSiteGroups returns an error, of a timeout or otherwise.
FetchFails(w) ==
  /\ Goto(w, "fetch", "finalize")
  /\ trackers' = IF w \in UserWorkers
                 THEN [trackers EXCEPT ![job[w].tracker].usersFailed = TRUE]
                 ELSE [trackers EXCEPT ![job[w].tracker].groupsFailed = TRUE]
  /\ UNCHANGED <<enumVars, chan, dispatchVars, outcomes, recorded, job,
                 tokens, counters, outVars>>

\* What GetSiteGroups can return: members come from groups whose own fetch has
\* not failed.
GroupResult(rows, errs) ==
  /\ rows["users"] = 0
  /\ rows["groups"] >= (IF errs THEN 1 ELSE 0) +
                       (IF rows["members"] > 0 THEN 1 ELSE 0)

FetchSucceeds(w) ==
  /\ Goto(w, "fetch", "send")
  /\ \E rows \in Fetch :
       /\ LET wanted == IF ProcessGroupMembers THEN rows
                        ELSE [rows EXCEPT !["members"] = 0]
          IN  job' = [job EXCEPT ![w].rows = wanted, ![w].left = wanted]
       /\ \/ /\ w \in UserWorkers
             /\ rows["groups"] = 0 /\ rows["members"] = 0
             /\ UNCHANGED trackers
          \/ /\ w \in GroupWorkers
             /\ \E errs \in BOOLEAN :
                  /\ GroupResult(rows, errs)
                  /\ trackers' = [trackers EXCEPT ![job[w].tracker]
                                    .memberErrors = @ \/ errs]
  /\ UNCHANGED <<enumVars, chan, dispatchVars, outcomes, recorded, tokens,
                 counters, outVars>>

\* All groups are sent before the first member.
SendRow(w, c) ==
  /\ wpc[w] = "send"
  /\ job[w].left[c] > 0
  /\ c = "members" => job[w].left["groups"] = 0
  /\ Room(c)
  /\ chan' = Push(chan, c, job[w].site)
  /\ job' = [job EXCEPT ![w].left[c] = @ - 1]
  /\ UNCHANGED <<enumVars, flowVars, wpc, tokens, counters, outVars>>

RowsSent(w) ==
  /\ job[w].left = NoRows
  /\ Goto(w, "send", "finalize")
  /\ trackers' = [trackers EXCEPT ![job[w].tracker].fetched =
       [c \in Tables |-> IF (c = "users") = (w \in UserWorkers)
                         THEN job[w].rows[c] ELSE @[c]]]
  /\ UNCHANGED <<enumVars, chan, dispatchVars, outcomes, recorded, job,
                 tokens, counters, outVars>>

\* (variant) the first worker to finish closes the site
FinalizeFirst(w) ==
  /\ wpc[w] = "finalize"
  /\ trackers' = [trackers EXCEPT ![job[w].tracker].remaining = @ - 1]
  /\ Goto(w, "finalize",
          IF trackers[job[w].tracker].remaining = 2
          THEN "close" ELSE "release")
  /\ UNCHANGED <<enumVars, chan, dispatchVars, outcomes, recorded, job,
                 tokens, counters, outVars>>

\* finalizeSiteOutcome: only the worker that brings remaining to zero goes on.
Finalize(w) ==
  /\ wpc[w] = "finalize"
  /\ trackers' = [trackers EXCEPT ![job[w].tracker].remaining = @ - 1]
  /\ Goto(w, "finalize",
          IF trackers[job[w].tracker].remaining = 1 THEN "close" ELSE "release")
  /\ UNCHANGED <<enumVars, chan, dispatchVars, outcomes, recorded, job,
                 tokens, counters, outVars>>

\* (variant) only errors of the two calls count
HasFailedCallsOnly(t) == t.usersFailed \/ t.groupsFailed

HasFailed(t) == t.usersFailed \/ t.groupsFailed \/ t.memberErrors

RecordSPOutcome(o) == recorded' = Append(recorded, o)

CloseSite(w) ==
  /\ Goto(w, "close", "release")
  /\ LET t == trackers[job[w].tracker] IN
       /\ outcomes' = [outcomes EXCEPT ![t.site] = 0]
       /\ IF HasFailed(t)
          THEN /\ RecordSPOutcome(t)
               /\ counters' = [counters EXCEPT !.completed = @ + 1,
                                               !.failed = @ + 1]
          ELSE /\ counters' = [counters EXCEPT !.completed = @ + 1,
                                               !.succeeded = @ + 1]
               /\ UNCHANGED recorded
  /\ UNCHANGED <<enumVars, chan, dispatchVars, trackers, job, tokens,
                 outVars>>

\* A token too many is swallowed; any other is sent to the semaphore, by a
\* worker that then looks at the limit no more.
Release(w) ==
  /\ Goto(w, "release", "idle") \/ Goto(w, "release", "return")
  /\ job' = [job EXCEPT ![w] = NoJob]
  /\ UNCHANGED <<enumVars, chan, flowVars, tokens, counters, outVars>>

\* The send, which waits for room in the semaphore.
ReturnToken(w) ==
  /\ tokens < Cardinality(Workers)
  /\ tokens' = tokens + 1
  /\ Goto(w, "return", "idle")
  /\ UNCHANGED <<enumVars, chan, flowVars, job, counters, outVars>>

-----------------------------------------------------------------------------
(* The throttle scaler takes tokens out of the semaphore and puts new ones *)
(* into it while there is room, whatever number is in use; when it does    *)
(* which is the subject of module ThrottleScaler.                          *)

TokenLost ==
  /\ ~returned
  /\ tokens > 0
  /\ tokens' = tokens - 1
  /\ UNCHANGED <<enumVars, chan, flowVars, wpc, job, counters, outVars>>

TokenBack ==
  /\ ~returned
  /\ tokens < Cardinality(Workers)
  /\ tokens' = tokens + 1
  /\ UNCHANGED <<enumVars, chan, flowVars, wpc, job, counters, outVars>>

-----------------------------------------------------------------------------
(* The storage streams and the end.                                        *)

\* streamTo hands one value to the batch writer.
Stream(c) ==
  /\ chan[c] # <<>>
  /\ written' = [written EXCEPT ![c][Head(chan[c])] = @ + 1]
  /\ chan' = Pop(chan, c)
  /\ UNCHANGED <<enumVars, flowVars, workVars, counters, returned, saved>>

\* (variant) the users' stream is not waited for
StreamsEndedEarly ==
  /\ dpc = "done" /\ chan["sites"] = <<>>
  /\ \A w \in Workers : wpc[w] = "done"
  /\ ProcessGroups => chan["groups"] = <<>>
  /\ ProcessGroups /\ ProcessGroupMembers => chan["members"] = <<>>

\* Every stream has seen its channel closed and empty: the sites by the
\* dispatcher, the rows once all workers are done.
StreamsEnded ==
  /\ dpc = "done" /\ chan["sites"] = <<>>
  /\ \A w \in Workers : wpc[w] = "done"
  /\ chan["users"] = <<>>
  /\ ProcessGroups => chan["groups"] = <<>>
  /\ ProcessGroups /\ ProcessGroupMembers => chan["members"] = <<>>

\* One row per site.  A row that cannot be written is skipped, and a failed
\* transaction leaves none; either is only logged.
SaveOutcomes ==
  saved' \in {rows \in SUBSET Range(recorded) :
                \A o, p \in rows : o.site = p.site => o = p}

CollectResults ==
  /\ StreamsEnded
  /\ ~returned
  /\ returned' = TRUE
  /\ SaveOutcomes
  /\ UNCHANGED <<enumVars, chan, flowVars, workVars, counters, written>>

Returned == returned /\ UNCHANGED vars

-----------------------------------------------------------------------------
Enumerate == FirstPage \/ StartPage \/ SendRecord \/ NextPage

Distribute == filterSites \/ FilterEnds \/ Dispatch \/ DispatchSend \/ DispatchEnds

ProcessSite(w) ==
  \/ Lookup(w) \/ FetchFails(w) \/ FetchSucceeds(w)
  \/ \E c \in Tables : SendRow(w, c)
  \/ RowsSent(w) \/ Finalize(w) \/ CloseSite(w) \/ Release(w)

Work(w) ==
  \/ TakeSite(w) \/ WorkerEnds(w) \/ Acquire(w) \/ ProcessSite(w)
  \/ ReturnToken(w)

Next ==
  \/ Interrupt \/ Enumerate \/ SendInterrupted
  \/ Distribute
  \/ \E w \in Workers : Work(w)
  \/ TokenLost \/ TokenBack
  \/ \E c \in DOMAIN written : Stream(c)
  \/ CollectResults \/ Returned

Spec == Init /\ [][Next]_vars

\* The requests for pages have neither a deadline nor a context.
AwaitingPage ==
  epc = "first" \/ (epc = "send" /\ pos = PageEnd /\ pos < Len(Listing))

\* A worker about to send its token to a full semaphore.
ReturnBlocked(w) == wpc[w] = "return" /\ tokens = Cardinality(Workers)

InUse == {w \in Workers : wpc[w] \notin {"idle", "acquire", "done"}}

\* The scaler has taken every token, and no worker is going to return one.
NoTokenLeft == tokens = 0 /\ InUse = {}

(***************************************************************************)
(* Every goroutine that can run does, the calls of the workers end by      *)
(* their timeouts and the batch writer takes what it is given, but nobody  *)
(* has to answer the request for a page.  Receivers and senders that wait  *)
(* at the semaphore are served in the order of their arrival.  A scaler    *)
(* that has left no token puts one back, as AcquireReturns says of it.     *)
(***************************************************************************)
Fairness ==
  /\ WF_vars((Enumerate \/ SendInterrupted) /\ ~AwaitingPage)
  /\ WF_vars(filterSites \/ FilterEnds)
  /\ WF_vars(Dispatch \/ DispatchSend \/ DispatchEnds)
  /\ \A w \in Workers :
       WF_vars(Work(w)) /\ SF_vars(Acquire(w)) /\ SF_vars(ReturnToken(w))
  /\ WF_vars(TokenBack /\ NoTokenLeft)
  /\ \A c \in {"sites"} \cup Tables : WF_vars(Stream(c))
  /\ WF_vars(CollectResults)

FairSpec == Spec /\ Fairness

-----------------------------------------------------------------------------
(* Properties.                                                             *)

Counter == {"discovered", "skipped", "dispatched", "completed", "succeeded",
            "failed"}

\* Types, and no channel above its capacity.
TypeOK ==
  /\ interrupted \in BOOLEAN
  /\ epc \in {"first", "page", "send", "done"}
  /\ page \in Nat \ {0} /\ pos \in 0..Len(Listing)
  /\ chan \in [Channels -> Seq(Sites)]
  /\ \A c \in Channels : Len(chan[c]) <= Cap[c]
  /\ filtering \in BOOLEAN
  /\ dpc \in {"recv", "sites", "userSites", "groupSites", "done"}
  /\ dsite \in Sites \cup {NoSite}
  /\ trackers \in Seq(Tracker)
  /\ outcomes \in [Sites -> 0..Len(trackers)]
  /\ wpc \in [Workers -> {"idle", "acquire", "lookup", "fetch", "send",
                          "finalize", "close", "release", "return", "done"}]
  /\ job \in [Workers -> Job]
  /\ tokens \in 0..Cardinality(Workers)
  /\ counters \in [Counter -> Nat]
  /\ recorded \in Seq(Tracker) /\ saved \subseteq Tracker
  /\ written \in [{"sites"} \cup Tables -> [Sites -> Nat]]
  /\ returned \in BOOLEAN

TrackerFound ==
  \A w \in Workers : wpc[w] = "lookup" => outcomes[job[w].site] # 0

ClosedLast ==
  \A w \in Workers : wpc[w] = "close" =>
    /\ \A v \in Workers \ {w} :
         job[v].site = job[w].site => wpc[v] = "release"
    /\ dsite # job[w].site
    /\ \A c \in {"userSites", "groupSites"} : \A i \in DOMAIN chan[c] :
         chan[c][i] # job[w].site

\* A tracker lives as long as somebody needs it: no worker ever misses that of
\* its site, however far the other pool has run ahead, and a site is closed
\* when nobody is working on it and nobody is going to.
TrackerLifetime == TrackerFound /\ ClosedLast

\* The records gone through that were none.
Rejected == {i \in 1..pos : Listing[i] \in Undecodable}

\* When Process returns, every record of the list it went through is a site
\* skipped, undecodable or dispatched, every dispatched site has been completed
\* once, as a success or as a failure, and no tracker is left, whether or not
\* the enumeration was interrupted or failed.
SitesAccountedFor ==
  returned =>
    /\ counters.dispatched + counters.skipped
         + Cardinality(Rejected) = pos
    /\ pos <= counters.discovered
    /\ counters.completed = counters.dispatched
    /\ counters.succeeded + counters.failed = counters.completed
    /\ \A s \in Sites : outcomes[s] = 0

\* The outcomes are the sites with a failure, each once, with every failure
\* either worker met: none is decided before both workers are through.
FailuresRecorded ==
  returned =>
    /\ Len(recorded) = counters.failed
    /\ {recorded[i] : i \in DOMAIN recorded} =
         {t \in {trackers[i] : i \in DOMAIN trackers} :
            t.usersFailed \/ t.groupsFailed \/ t.memberErrors}

\* Process returns only when every row fetched has been handed to the batch
\* writer, and the site row of every dispatched site with them.
RowsWritten ==
  returned => \A t \in {trackers[i] : i \in DOMAIN trackers} :
    /\ written["sites"][t.site] = 1
    /\ \A c \in Tables : written[c][t.site] = t.fetched[c]

\* The records gone through that name a site.
Listed(s) == {i \in 1..pos : Listing[i] = s}

\* A record that the filter keeps is given to the batch writer as often as the
\* list names it, although the two share a tracker then, and no other record is.
\* What the table makes of a second row with the same key is not said here.
SiteRowsWritten ==
  returned => \A s \in Sites :
    written["sites"][s] = IF s \in Undecodable \cup Skipped THEN 0
                          ELSE Cardinality(Listed(s))

\* All that main relies on: every record that is a site is passed over by the
\* filter or completed once, by whichever worker is last, Process returns when
\* none is open, and from then on no goroutine counts a site or gives a row to
\* the batch writer, which main is going to close.
SP == INSTANCE SiteProcessor WITH
        Tables <- {"sites"} \cup Tables,
        open <- pos - Cardinality(Rejected) - counters.skipped
                  - counters.completed,
        passed <- counters.skipped,
        succeeded <- counters.succeeded, failed <- counters.failed,
        rows <- written, ended <- returned
ImplementsSiteProcessor == SP!Spec

\* Process returns, interrupted or not, unless one of two waits lasts for ever:
\* that of the enumerator for a page that never comes, or that of a worker in
\* Release for room in a full semaphore when nobody acquires any more.
ProcessReturns ==
  \/ <>returned
  \/ <>[]AwaitingPage
  \/ <>[](\E w \in Workers : ReturnBlocked(w))
=============================================================================
