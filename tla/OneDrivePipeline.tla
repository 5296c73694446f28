--------------------------- MODULE OneDrivePipeline ---------------------------
(***************************************************************************)
(* internal/processors/onedrive.go with GetPersonalSites of                *)
(* internal/api/client.go: one Process of the OneDrive processor.          *)
(*                                                                         *)
(*   GetPersonalSites -> countDispatched -> workers -> streams             *)
(*                                                                         *)
(* One pool does everything about a site: its own row, its users, the      *)
(* profile of its owner.  Whatever travels through a channel is            *)
(* represented by the site it is about, and the site countDispatched has   *)
(* in hand counts as one of the channel behind it.  As in module           *)
(* SharePointPipeline only the enumeration sees the interrupt.             *)
(*                                                                         *)
(* Definitions marked (variant) are wrong on purpose: no specification     *)
(* uses them, and each breaks a property when put in the place of the      *)
(* definition that follows it.                                             *)
(***************************************************************************)
EXTENDS Integers, Sequences, FiniteSets, Functions

CONSTANTS Sites,
          NoSite,
          Listing,   \* the personal sites of the tenant, in the order listed
          PageSize,
          MaxSites,  \* SPRAWLER_DEBUG_MAX_ONEDRIVE_SITES, 0 for no limit
          Locked,    \* sites in a known lock state
          Owned,     \* sites with a CreatedByEmail
          Workers,   \* goroutines of the pool
          Cap,       \* channel -> capacity
          MaxRows    \* bound of the model: users of one site

Tables   == {"sites", "users", "profiles"}
Channels == {"raw", "counted"} \cup Tables

ASSUME OneDrivePipelineAssumption ==
  /\ NoSite \notin Sites
  /\ Listing \in Seq(Sites)
  /\ PageSize \in Nat \ {0} /\ MaxSites \in Nat
  /\ Locked \subseteq Sites /\ Owned \subseteq Sites
  /\ IsFiniteSet(Workers)
  /\ Cap \in [Channels -> Nat \ {0}]
  /\ MaxRows \in Nat

VARIABLES
  interrupted, \* the context of the run is cancelled
  epc,         \* enumerator: "query", "send" or "done"
  page,        \* number of the page at hand
  pos,         \* records of the list gone through
  chan,        \* channel -> items in it
  counting,    \* countDispatched has not closed its output
  wpc,         \* worker -> where it is
  job,         \* worker -> its site and what it has found out about it
  tokens,      \* idle tokens of the throttle scaler
  counters,
  recorded,    \* the outcome collector
  written,     \* table -> site -> rows given to the batch writer
  returned,    \* Process has returned
  saved,       \* outcomes SaveOneDriveOutcomes has stored
  errors       \* history: <<site, operation>> of every API call that failed

enumVars == <<interrupted, epc, page, pos>>
workVars == <<wpc, job, tokens>>
bookVars == <<counters, recorded, errors>>
outVars  == <<written, returned, saved>>
vars == <<enumVars, chan, counting, workVars, bookVars, outVars>>

Outcome == [site : Sites, usersFailure : BOOLEAN, profileFailure : BOOLEAN,
            usersFetched : 0..MaxRows, profileFetched : BOOLEAN]

Job == [site : Sites \cup {NoSite}, left : 0..MaxRows,
        usersFailure : BOOLEAN, profileFailure : BOOLEAN,
        usersFetched : 0..MaxRows, profileFetched : BOOLEAN]

NoJob == [site |-> NoSite, left |-> 0, usersFailure |-> FALSE,
          profileFailure |-> FALSE, usersFetched |-> 0,
          profileFetched |-> FALSE]

Counter == {"discovered", "dispatched", "completed", "succeeded", "failed",
            "users", "profiles", "locked", "orphaned", "noOwner"}

Init ==
  /\ interrupted = FALSE
  /\ epc = "query"
  /\ page = 1
  /\ pos = 0
  /\ chan = [c \in Channels |-> <<>>]
  /\ counting = TRUE
  /\ wpc = [w \in Workers |-> "idle"]
  /\ job = [w \in Workers |-> NoJob]
  /\ tokens = Cardinality(Workers)
  /\ counters = [c \in Counter |-> 0]
  /\ recorded = <<>>
  /\ errors = {}
  /\ written = [c \in Tables |-> [s \in Sites |-> 0]]
  /\ returned = FALSE
  /\ saved = {}

-----------------------------------------------------------------------------
Room(c) == Len(chan[c]) < Cap[c]

Push(ch, c, s) == [ch EXCEPT ![c] = Append(@, s)]

Pop(ch, c) == [ch EXCEPT ![c] = Tail(@)]

Count(c) == counters' = [counters EXCEPT ![c] = @ + 1]

-----------------------------------------------------------------------------
(* The enumerator.                                                         *)

\* Once the enumeration has ended nothing in Process looks at its context.
Interrupt ==
  /\ ~interrupted
  /\ epc # "done"
  /\ interrupted' = TRUE
  /\ UNCHANGED <<epc, page, pos, chan, counting, workVars, bookVars, outVars>>

PageEnd == IF page * PageSize < Len(Listing) THEN page * PageSize
           ELSE Len(Listing)

\* The query for a page fails, finds an empty page, or succeeds; onPage counts
\* the page before the first of its sites is sent.
QueryPage ==
  /\ epc = "query"
  /\ \/ /\ epc' = "done"
        /\ UNCHANGED counters
     \/ /\ pos < PageEnd
        /\ epc' = "send"
        /\ counters' = [counters EXCEPT !.discovered = @ + PageEnd - pos]
  /\ UNCHANGED <<interrupted, page, pos, chan, counting, workVars, recorded,
                 errors, outVars>>

LimitReached == MaxSites > 0 /\ pos >= MaxSites

SendSite ==
  /\ epc = "send" /\ pos < PageEnd
  /\ ~LimitReached
  /\ Room("raw")
  /\ chan' = Push(chan, "raw", Listing[pos + 1])
  /\ pos' = pos + 1
  /\ UNCHANGED <<interrupted, epc, page, counting, workVars, bookVars,
                 outVars>>

\* In the middle of a page the limit, or the other case of the select around
\* the send, ends the enumeration.
StopSending ==
  /\ epc = "send" /\ pos < PageEnd
  /\ LimitReached \/ interrupted
  /\ epc' = "done"
  /\ UNCHANGED <<interrupted, page, pos, chan, counting, workVars, bookVars,
                 outVars>>

\* The reply has a new continuation token, as it must while sites are left,
\* or it has none.
NextPage ==
  /\ epc = "send" /\ pos = PageEnd
  /\ \/ /\ pos = Len(Listing)
        /\ epc' = "done"
        /\ UNCHANGED page
     \/ /\ epc' = "query"
        /\ page' = page + 1
  /\ UNCHANGED <<interrupted, pos, chan, counting, workVars, bookVars,
                 outVars>>

\* countDispatched
CountDispatched ==
  /\ chan["raw"] # <<>>
  /\ Room("counted")
  /\ chan' = Push(Pop(chan, "raw"), "counted", Head(chan["raw"]))
  /\ Count("dispatched")
  /\ UNCHANGED <<enumVars, counting, workVars, recorded, errors, outVars>>

\* (variant) an interrupted run leaves the output of countDispatched open
CountingEndsUninterrupted ==
  /\ counting /\ ~interrupted
  /\ epc = "done" /\ chan["raw"] = <<>>
  /\ counting' = FALSE
  /\ UNCHANGED <<enumVars, chan, workVars, bookVars, outVars>>

CountingEnds ==
  /\ counting
  /\ epc = "done" /\ chan["raw"] = <<>>
  /\ counting' = FALSE
  /\ UNCHANGED <<enumVars, chan, workVars, bookVars, outVars>>

-----------------------------------------------------------------------------
(* The workers.                                                            *)

Goto(w, from, to) ==
  /\ wpc[w] = from
  /\ wpc' = [wpc EXCEPT ![w] = to]

TakeSite(w) ==
  /\ chan["counted"] # <<>>
  /\ Goto(w, "idle", "acquire")
  /\ job' = [job EXCEPT ![w].site = Head(chan["counted"])]
  /\ chan' = Pop(chan, "counted")
  /\ UNCHANGED <<enumVars, counting, tokens, bookVars, outVars>>

WorkerEnds(w) ==
  /\ chan["counted"] = <<>> /\ ~counting
  /\ Goto(w, "idle", "done")
  /\ UNCHANGED <<enumVars, chan, counting, job, tokens, bookVars, outVars>>

Acquire(w) ==
  /\ tokens > 0
  /\ tokens' = tokens - 1
  /\ Goto(w, "acquire", "emit")
  /\ UNCHANGED <<enumVars, chan, counting, job, bookVars, outVars>>

\* processSite: the site itself goes first, locked or not.
EmitSite(w) ==
  /\ Goto(w, "emit", "users")
  /\ Room("sites")
  /\ chan' = Push(chan, "sites", job[w].site)
  /\ UNCHANGED <<enumVars, counting, job, tokens, bookVars, outVars>>

SkipUsers(w) ==
  /\ Goto(w, "users", "profile")
  /\ job[w].site \in Locked
  /\ Count("locked")
  /\ UNCHANGED <<enumVars, chan, counting, job, tokens, recorded, errors,
                 outVars>>

\* (variant) the site is given up after the first error
FetchUsersGivesUp(w) ==
  /\ job[w].site \notin Locked
  /\ \/ /\ Goto(w, "users", "release")
        /\ job' = [job EXCEPT ![w].usersFailure = TRUE]
        /\ errors' = errors \cup {<<job[w].site, "users">>}
     \/ /\ Goto(w, "users", "sendUsers")
        /\ \E n \in 0..MaxRows :
             job' = [job EXCEPT ![w].usersFetched = n, ![w].left = n]
        /\ UNCHANGED errors
  /\ UNCHANGED <<enumVars, chan, counting, tokens, counters, recorded,
                 outVars>>

\* GetSiteUsers, which its own timeout ends at the latest.  An error does not
\* keep the profile from being fetched.
FetchUsers(w) ==
  /\ job[w].site \notin Locked
  /\ \/ /\ Goto(w, "users", "profile")
        /\ job' = [job EXCEPT ![w].usersFailure = TRUE]
        /\ errors' = errors \cup {<<job[w].site, "users">>}
     \/ /\ Goto(w, "users", "sendUsers")
        /\ \E n \in 0..MaxRows :
             job' = [job EXCEPT ![w].usersFetched = n, ![w].left = n]
        /\ UNCHANGED errors
  /\ UNCHANGED <<enumVars, chan, counting, tokens, counters, recorded,
                 outVars>>

SendUser(w) ==
  /\ wpc[w] = "sendUsers"
  /\ job[w].left > 0
  /\ Room("users")
  /\ chan' = Push(chan, "users", job[w].site)
  /\ job' = [job EXCEPT ![w].left = @ - 1]
  /\ Count("users")
  /\ UNCHANGED <<enumVars, counting, wpc, tokens, recorded, errors, outVars>>

UsersSent(w) ==
  /\ job[w].left = 0
  /\ Goto(w, "sendUsers", "profile")
  /\ UNCHANGED <<enumVars, chan, counting, job, tokens, bookVars, outVars>>

NoOwner(w) ==
  /\ Goto(w, "profile", "finish")
  /\ job[w].site \notin Owned
  /\ Count("noOwner")
  /\ UNCHANGED <<enumVars, chan, counting, job, tokens, recorded, errors,
                 outVars>>

\* (variant) the profile of a deleted owner is kept as well
FetchProfileKeepsOrphans(w) ==
  /\ job[w].site \in Owned
  /\ \/ /\ Goto(w, "profile", "finish")
        /\ job' = [job EXCEPT ![w].profileFailure = TRUE]
        /\ errors' = errors \cup {<<job[w].site, "profile">>}
        /\ UNCHANGED counters
     \/ /\ Goto(w, "profile", "sendProfile")
        /\ Count("orphaned")
        /\ UNCHANGED <<job, errors>>
     \/ /\ Goto(w, "profile", "sendProfile")
        /\ UNCHANGED <<job, counters, errors>>
  /\ UNCHANGED <<enumVars, chan, counting, tokens, recorded, outVars>>

\* fetchUserProfile: an error, a profile without its identifiers, a profile.
FetchProfile(w) ==
  /\ job[w].site \in Owned
  /\ \/ /\ Goto(w, "profile", "finish")
        /\ job' = [job EXCEPT ![w].profileFailure = TRUE]
        /\ errors' = errors \cup {<<job[w].site, "profile">>}
        /\ UNCHANGED counters
     \/ /\ Goto(w, "profile", "finish")
        /\ Count("orphaned")
        /\ UNCHANGED <<job, errors>>
     \/ /\ Goto(w, "profile", "sendProfile")
        /\ UNCHANGED <<job, counters, errors>>
  /\ UNCHANGED <<enumVars, chan, counting, tokens, recorded, outVars>>

SendProfile(w) ==
  /\ Goto(w, "sendProfile", "finish")
  /\ Room("profiles")
  /\ chan' = Push(chan, "profiles", job[w].site)
  /\ job' = [job EXCEPT ![w].profileFetched = TRUE]
  /\ Count("profiles")
  /\ UNCHANGED <<enumVars, counting, tokens, recorded, errors, outVars>>

\* (variant) only a site of which nothing could be fetched has failed
HasFailedAll(j) == j.usersFailure /\ j.profileFailure

HasFailed(j) == j.usersFailure \/ j.profileFailure

RecordODOutcome(o) == recorded' = Append(recorded, o)

FinishSite(w) ==
  /\ Goto(w, "finish", "release")
  /\ LET j == job[w] IN
       IF HasFailed(j)
       THEN /\ RecordODOutcome(
                 [site |-> j.site, usersFailure |-> j.usersFailure,
                  profileFailure |-> j.profileFailure,
                  usersFetched |-> j.usersFetched,
                  profileFetched |-> j.profileFetched])
            /\ counters' = [counters EXCEPT !.completed = @ + 1,
                                            !.failed = @ + 1]
       ELSE /\ UNCHANGED recorded
            /\ counters' = [counters EXCEPT !.completed = @ + 1,
                                            !.succeeded = @ + 1]
  /\ UNCHANGED <<enumVars, chan, counting, job, tokens, errors, outVars>>

\* A token too many is swallowed; any other is sent to the semaphore, by a
\* worker that then looks at the limit no more.
Release(w) ==
  /\ Goto(w, "release", "idle") \/ Goto(w, "release", "return")
  /\ job' = [job EXCEPT ![w] = NoJob]
  /\ UNCHANGED <<enumVars, chan, counting, tokens, bookVars, outVars>>

\* The send, which waits for room in the semaphore.
ReturnToken(w) ==
  /\ tokens < Cardinality(Workers)
  /\ tokens' = tokens + 1
  /\ Goto(w, "return", "idle")
  /\ UNCHANGED <<enumVars, chan, counting, job, bookVars, outVars>>

-----------------------------------------------------------------------------
(* The throttle scaler takes tokens out of the semaphore and puts new ones *)
(* into it while there is room, whatever number is in use; when it does    *)
(* which is the subject of module ThrottleScaler.                          *)

TokenLost ==
  /\ ~returned
  /\ tokens > 0
  /\ tokens' = tokens - 1
  /\ UNCHANGED <<enumVars, chan, counting, wpc, job, bookVars, outVars>>

TokenBack ==
  /\ ~returned
  /\ tokens < Cardinality(Workers)
  /\ tokens' = tokens + 1
  /\ UNCHANGED <<enumVars, chan, counting, wpc, job, bookVars, outVars>>

-----------------------------------------------------------------------------
(* The storage streams and the end.                                        *)

\* streamTo hands one value to the batch writer.
Stream(c) ==
  /\ chan[c] # <<>>
  /\ written' = [written EXCEPT ![c][Head(chan[c])] = @ + 1]
  /\ chan' = Pop(chan, c)
  /\ UNCHANGED <<enumVars, counting, workVars, bookVars, returned, saved>>

\* (variant) the stream of the profiles is not waited for
StreamsEndedEarly ==
  /\ \A w \in Workers : wpc[w] = "done"
  /\ \A c \in Tables \ {"profiles"} : chan[c] = <<>>

\* Every stream has seen its channel closed, after the last worker, and empty.
StreamsEnded ==
  /\ \A w \in Workers : wpc[w] = "done"
  /\ \A c \in Tables : chan[c] = <<>>

\* One row per site.  A row that cannot be written is skipped, and a failed
\* transaction leaves none; either is only logged.
SaveOutcomes ==
  saved' \in {rows \in SUBSET Range(recorded) :
                \A o, p \in rows : o.site = p.site => o = p}

CollectResults ==
  /\ StreamsEnded
  /\ ~returned
  /\ returned' = TRUE
  /\ SaveOutcomes
  /\ UNCHANGED <<enumVars, chan, counting, workVars, bookVars, written>>

Returned == returned /\ UNCHANGED vars

-----------------------------------------------------------------------------
Enumerate == QueryPage \/ SendSite \/ NextPage \/ StopSending

ProcessSite(w) ==
  \/ EmitSite(w)
  \/ SkipUsers(w) \/ FetchUsers(w) \/ SendUser(w) \/ UsersSent(w)
  \/ NoOwner(w) \/ FetchProfile(w) \/ SendProfile(w)
  \/ FinishSite(w)

Work(w) ==
  \/ TakeSite(w) \/ WorkerEnds(w) \/ Acquire(w) \/ ProcessSite(w)
  \/ Release(w) \/ ReturnToken(w)

Next ==
  \/ Interrupt \/ Enumerate
  \/ CountDispatched \/ CountingEnds
  \/ \E w \in Workers : Work(w)
  \/ TokenLost \/ TokenBack
  \/ \E c \in Tables : Stream(c)
  \/ CollectResults \/ Returned

Spec == Init /\ [][Next]_vars

\* The query for a page has no deadline, only the context of the run.
AwaitingPage == epc = "query" /\ ~interrupted

\* A worker about to send its token to a full semaphore.
ReturnBlocked(w) == wpc[w] = "return" /\ tokens = Cardinality(Workers)

InUse == {w \in Workers : wpc[w] \notin {"idle", "acquire", "done"}}

\* The scaler has taken every token, and no worker is going to return one.
NoTokenLeft == tokens = 0 /\ InUse = {}

(***************************************************************************)
(* Goroutines run, the calls of the workers end by their timeouts and the  *)
(* batch writer takes what it is given, but the query for a page ends only *)
(* when it is answered or interrupted.  Receivers and senders that wait at *)
(* the semaphore are served in the order of their arrival.  A scaler that  *)
(* has left no token puts one back, as AcquireReturns says of it.          *)
(***************************************************************************)
Fairness ==
  /\ WF_vars(Enumerate /\ ~AwaitingPage)
  /\ WF_vars(CountDispatched \/ CountingEnds)
  /\ \A w \in Workers :
       WF_vars(Work(w)) /\ SF_vars(Acquire(w)) /\ SF_vars(ReturnToken(w))
  /\ WF_vars(TokenBack /\ NoTokenLeft)
  /\ \A c \in Tables : WF_vars(Stream(c))
  /\ WF_vars(CollectResults)

FairSpec == Spec /\ Fairness

-----------------------------------------------------------------------------
(* Properties.                                                             *)

\* Types, and no channel above its capacity.
TypeOK ==
  /\ interrupted \in BOOLEAN
  /\ epc \in {"query", "send", "done"}
  /\ page \in Nat \ {0} /\ pos \in 0..Len(Listing)
  /\ chan \in [Channels -> Seq(Sites)]
  /\ \A c \in Channels : Len(chan[c]) <= Cap[c]
  /\ counting \in BOOLEAN
  /\ wpc \in [Workers -> {"idle", "acquire", "emit", "users", "sendUsers",
                          "profile", "sendProfile", "finish", "release",
                          "return", "done"}]
  /\ job \in [Workers -> Job]
  /\ tokens \in 0..Cardinality(Workers)
  /\ counters \in [Counter -> Nat]
  /\ recorded \in Seq(Outcome) /\ saved \subseteq Outcome
  /\ written \in [Tables -> [Sites -> Nat]]
  /\ returned \in BOOLEAN
  /\ errors \subseteq Sites \X {"users", "profile"}

\* When Process returns, every site it took from the list has been dispatched
\* and completed once, as a success or as a failure, and the debug limit has
\* not been exceeded, however the enumeration ended.
SitesAccountedFor ==
  returned =>
    /\ counters.dispatched = pos /\ pos <= counters.discovered
    /\ MaxSites > 0 => pos <= MaxSites
    /\ counters.completed = counters.dispatched
    /\ counters.succeeded + counters.failed = counters.completed

ProfileFailures == {i \in DOMAIN recorded : recorded[i].profileFailure}

\* What the summary prints adds up: every completed site has a profile, or is
\* orphaned, or has no owner, or is among the outcomes with a profile failure.
SitesClassified ==
  returned => counters.completed =
    counters.profiles + counters.orphaned + counters.noOwner
      + Cardinality(ProfileFailures)

\* Every API call that failed for a site is in the one outcome of the site,
\* and no other outcome is recorded.
FailuresRecorded ==
  returned =>
    /\ Len(recorded) = counters.failed
    /\ errors =
         {<<recorded[i].site, "users">> :
            i \in {k \in DOMAIN recorded : recorded[k].usersFailure}}
         \cup {<<recorded[i].site, "profile">> : i \in ProfileFailures}

\* The records gone through that name a site.
Listed(s) == {i \in 1..pos : Listing[i] = s}

\* Process returns only when a site has been handed to the batch writer as often
\* as the part of the list gone through names it, locked or failed or not, and
\* with it every user and profile counted.
RowsWritten ==
  returned =>
    LET Rows(c) == UNION {{s} \X (1..written[c][s]) : s \in Sites}
    IN  /\ \A s \in Sites : written["sites"][s] = Cardinality(Listed(s))
        /\ Cardinality(Rows("users")) = counters.users
        /\ Cardinality(Rows("profiles")) = counters.profiles

\* All that main relies on: every site taken is completed once, Process returns
\* when none is open, and from then on no goroutine counts a site or gives a row
\* to the batch writer, which main is going to close.
SP == INSTANCE SiteProcessor WITH
        open <- pos - counters.completed, passed <- 0,
        succeeded <- counters.succeeded, failed <- counters.failed,
        rows <- written, ended <- returned
ImplementsSiteProcessor == SP!Spec

\* Process returns, interrupted or not, unless one of two waits lasts for ever:
\* that of an enumerator nobody interrupts for a page that never comes, or that
\* of a worker in Release for room in a full semaphore when nobody acquires any
\* more.
ProcessReturns ==
  \/ <>returned
  \/ <>[]AwaitingPage
  \/ <>[](\E w \in Workers : ReturnBlocked(w))
=============================================================================
