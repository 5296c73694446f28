------------------------ MODULE OneDrivePipelineProofs ------------------------
(***************************************************************************)
(* What holds of one Process of the OneDrive processor for any list of     *)
(* sites, with duplicates or without, any page size, limit, number of      *)
(* workers and capacities.                                                 *)
(***************************************************************************)
EXTENDS OneDrivePipeline, FiniteSetTheorems, FunctionTheorems, SequenceTheorems,
        TLAPS

Places == {"idle", "acquire", "emit", "users", "sendUsers", "profile",
           "sendProfile", "finish", "release", "return", "done"}

\* Where a worker has a site it has not finished, and where it has none at all.
HandPlaces == Places \ {"idle", "release", "return", "done"}
FreePlaces == {"idle", "return", "done"}

At(P) == {w \in Workers : wpc[w] \in P}

TypeInv ==
  /\ TypeOK
  /\ \A w \in Workers : wpc[w] \notin FreePlaces => job[w].site \in Sites

-----------------------------------------------------------------------------
(* How many workers are where after a step of one of them.                 *)

LEMMA WorkersCount ==
  IsFiniteSet(Workers) /\ Cardinality(Workers) \in Nat
BY OneDrivePipelineAssumption, FS_CardinalityType

LEMMA AtCount ==
  ASSUME NEW P
  PROVE  /\ IsFiniteSet(At(P)) /\ Cardinality(At(P)) \in Nat
<1>1. IsFiniteSet(At(P))
  BY WorkersCount, FS_Subset DEF At
<1>. QED
  BY <1>1, FS_CardinalityType

LEMMA AtGain ==
  ASSUME wpc \in [Workers -> Places], NEW P, NEW w \in Workers,
         NEW from, NEW to, Goto(w, from, to), from \notin P, to \in P
  PROVE  Cardinality(At(P)') = Cardinality(At(P)) + 1
<1>1. At(P)' = At(P) \cup {w} /\ w \notin At(P)
  BY DEF Goto, At
<1>. QED
  BY <1>1, AtCount, FS_AddElement

LEMMA AtLoss ==
  ASSUME wpc \in [Workers -> Places], NEW P, NEW w \in Workers,
         NEW from, NEW to, Goto(w, from, to), from \in P, to \notin P
  PROVE  Cardinality(At(P)') = Cardinality(At(P)) - 1
<1>1. At(P)' = At(P) \ {w} /\ w \in At(P)
  BY DEF Goto, At
<1>. QED
  BY <1>1, AtCount, FS_RemoveElement

LEMMA AtSame ==
  ASSUME wpc \in [Workers -> Places], NEW P, NEW w \in Workers,
         NEW from, NEW to, Goto(w, from, to), from \in P <=> to \in P
  PROVE  At(P)' = At(P)
BY DEF Goto, At

\* Only a worker with room for it adds a token.
LEMMA WorkTokens ==
  ASSUME TypeInv, NEW w \in Workers, Work(w)
  PROVE  /\ wpc' \in [Workers -> Places]
         /\ tokens' \in 0..Cardinality(Workers)
<1>1. /\ wpc \in [Workers -> Places] /\ tokens \in 0..Cardinality(Workers)
      /\ Cardinality(Workers) \in Nat
  BY WorkersCount DEF TypeInv, TypeOK, Places
<1>2. CASE Acquire(w) \/ Release(w) \/ ReturnToken(w)
  BY <1>1, <1>2 DEF Acquire, Release, ReturnToken, Goto, Places
<1>3. CASE TakeSite(w) \/ WorkerEnds(w)
  BY <1>1, <1>3 DEF TakeSite, WorkerEnds, Goto, Places
<1>4. CASE ProcessSite(w)
  <2>1. tokens' = tokens
    BY <1>4 DEF ProcessSite, EmitSite, SkipUsers, FetchUsers, SendUser,
                UsersSent, NoOwner, FetchProfile, SendProfile, FinishSite
  <2>2. \/ wpc' = wpc
        \/ \E from, to \in Places : Goto(w, from, to)
    BY <1>4 DEF ProcessSite, EmitSite, SkipUsers, FetchUsers, SendUser,
                UsersSent, NoOwner, FetchProfile, SendProfile, FinishSite,
                Places
  <2>. QED
    BY <1>1, <2>1, <2>2 DEF Goto
<1>. QED
  BY <1>2, <1>3, <1>4 DEF Work

-----------------------------------------------------------------------------
(* The types.                                                              *)

ChanOK(ch) ==
  /\ ch \in [Channels -> Seq(Sites)]
  /\ \A c \in Channels : Len(ch[c]) <= Cap[c]

LEMMA Pushed ==
  ASSUME NEW ch, ChanOK(ch), NEW c \in Channels, NEW s \in Sites,
         Len(ch[c]) < Cap[c]
  PROVE  /\ ChanOK(Push(ch, c, s))
         /\ Push(ch, c, s)[c] = Append(ch[c], s)
         /\ Len(Push(ch, c, s)[c]) = Len(ch[c]) + 1
         /\ \A d \in Channels : d # c => Push(ch, c, s)[d] = ch[d]
<1>1. /\ ch[c] \in Seq(Sites) /\ Cap[c] \in Nat
      /\ Append(ch[c], s) \in Seq(Sites)
      /\ Len(Append(ch[c], s)) = Len(ch[c]) + 1 /\ Len(ch[c]) \in Nat
      /\ Len(ch[c]) + 1 <= Cap[c]
  BY OneDrivePipelineAssumption DEF ChanOK
<1>2. /\ Push(ch, c, s) \in [Channels -> Seq(Sites)]
      /\ Push(ch, c, s)[c] = Append(ch[c], s)
      /\ \A d \in Channels : d # c => Push(ch, c, s)[d] = ch[d]
  BY <1>1 DEF Push, ChanOK
<1>3. ASSUME NEW d \in Channels PROVE Len(Push(ch, c, s)[d]) <= Cap[d]
  BY <1>1, <1>2 DEF ChanOK
<1>. QED
  BY <1>1, <1>2, <1>3 DEF ChanOK

LEMMA Popped ==
  ASSUME NEW ch, ChanOK(ch), NEW c \in Channels, ch[c] # <<>>
  PROVE  /\ ChanOK(Pop(ch, c)) /\ Head(ch[c]) \in Sites
         /\ Pop(ch, c)[c] = Tail(ch[c])
         /\ Len(Pop(ch, c)[c]) = Len(ch[c]) - 1
         /\ \A d \in Channels : d # c => Pop(ch, c)[d] = ch[d]
<1>1. /\ ch[c] \in Seq(Sites) /\ Cap[c] \in Nat /\ Head(ch[c]) \in Sites
      /\ Tail(ch[c]) \in Seq(Sites) /\ Len(Tail(ch[c])) = Len(ch[c]) - 1
      /\ Len(ch[c]) \in Nat
  BY OneDrivePipelineAssumption DEF ChanOK
<1>2. /\ Pop(ch, c) \in [Channels -> Seq(Sites)]
      /\ Pop(ch, c)[c] = Tail(ch[c])
      /\ \A d \in Channels : d # c => Pop(ch, c)[d] = ch[d]
  BY <1>1 DEF Pop, ChanOK
<1>3. ASSUME NEW d \in Channels PROVE Len(Pop(ch, c)[d]) <= Cap[d]
  BY <1>1, <1>2 DEF ChanOK
<1>. QED
  BY <1>1, <1>2, <1>3 DEF ChanOK

LEMMA ChannelNames ==
  /\ "raw" \in Channels /\ "counted" \in Channels
  /\ "sites" \in Channels /\ "users" \in Channels /\ "profiles" \in Channels
  /\ Tables \subseteq Channels
BY DEF Channels, Tables

LEMMA ListingFacts ==
  /\ Listing \in Seq(Sites) /\ Len(Listing) \in Nat
  /\ \A i \in 1..Len(Listing) : Listing[i] \in Sites
BY OneDrivePipelineAssumption

LEMMA PageEndType ==
  ASSUME page \in Nat \ {0}
  PROVE  PageEnd \in Nat /\ PageEnd <= Len(Listing)
<1>1. page * PageSize \in Nat
  BY OneDrivePipelineAssumption
<1>. QED
  BY <1>1, ListingFacts DEF PageEnd

LEMMA WorkJobs ==
  ASSUME TypeInv, NEW w \in Workers, Work(w)
  PROVE  /\ job' \in [Workers -> Job]
         /\ \A v \in Workers : wpc'[v] \notin FreePlaces =>
                                 job'[v].site \in Sites
<1>0. /\ wpc \in [Workers -> Places] /\ ChanOK(chan)
      /\ job \in [Workers -> Job] /\ MaxRows \in Nat
      /\ \A v \in Workers : wpc[v] \notin FreePlaces =>
                              job[v].site \in Sites
  BY OneDrivePipelineAssumption DEF TypeInv, TypeOK, ChanOK, Places
<1>1. CASE TakeSite(w)
  <2>1. Head(chan["counted"]) \in Sites
    BY <1>0, <1>1, ChannelNames, Popped DEF TakeSite
  <2>. QED
    BY <1>0, <1>1, <2>1 DEF TakeSite, Goto, Job, FreePlaces
<1>2. CASE FetchUsers(w)
  <2>1. /\ wpc[w] \notin FreePlaces
        /\ \A v \in Workers : v # w => wpc'[v] = wpc[v]
    BY <1>0, <1>2 DEF FetchUsers, Goto, FreePlaces
  <2>2. CASE job' = [job EXCEPT ![w].usersFailure = TRUE]
    BY <1>0, <2>1, <2>2 DEF Job
  <2>3. ASSUME NEW n \in 0..MaxRows,
               job' = [job EXCEPT ![w].usersFetched = n, ![w].left = n]
        PROVE  /\ job' \in [Workers -> Job]
               /\ \A v \in Workers : job'[v].site = job[v].site
    BY <1>0, <2>3 DEF Job
  <2>. QED
    BY <1>0, <1>2, <2>1, <2>2, <2>3 DEF FetchUsers
<1>3. CASE SendUser(w)
  <2>1. job[w].left - 1 \in 0..MaxRows
    BY <1>0, <1>3 DEF SendUser, Job
  <2>. QED
    BY <1>0, <1>3, <2>1 DEF SendUser, Job
<1>4. CASE FetchProfile(w) \/ SendProfile(w)
  <2>1. /\ wpc[w] \notin FreePlaces
        /\ \A v \in Workers : v # w => wpc'[v] = wpc[v]
    BY <1>0, <1>4 DEF FetchProfile, SendProfile, Goto, FreePlaces
  <2>2. CASE job' = [job EXCEPT ![w].profileFailure = TRUE]
    BY <1>0, <2>1, <2>2 DEF Job
  <2>3. CASE job' = [job EXCEPT ![w].profileFetched = TRUE]
    BY <1>0, <2>1, <2>3 DEF Job
  <2>4. CASE job' = job
    BY <1>0, <2>1, <2>4
  <2>. QED
    BY <1>4, <2>2, <2>3, <2>4 DEF FetchProfile, SendProfile
<1>5. CASE Release(w)
  <2>1. NoJob \in Job
    BY <1>0 DEF NoJob, Job
  <2>2. /\ wpc'[w] \in FreePlaces /\ job' = [job EXCEPT ![w] = NoJob]
        /\ \A v \in Workers : v # w => wpc'[v] = wpc[v]
    BY <1>0, <1>5 DEF Release, ReturnToken, Goto, FreePlaces
  <2>. QED
    BY <1>0, <2>1, <2>2
<1>6. CASE \/ ReturnToken(w)
           \/ WorkerEnds(w) \/ Acquire(w) \/ EmitSite(w) \/ SkipUsers(w)
           \/ UsersSent(w) \/ NoOwner(w) \/ FinishSite(w)
  BY <1>0, <1>6 DEF WorkerEnds, Acquire, EmitSite, SkipUsers, UsersSent,
                    NoOwner, FinishSite, ReturnToken, Goto, FreePlaces
<1>. QED
  BY <1>1, <1>2, <1>3, <1>4, <1>5, <1>6 DEF Work, ProcessSite

\* What a step does to the channels: it keeps them, moves a site on, or puts one
\* in, or takes one out.
LEMMA ChanKept ==
  ASSUME TypeInv, [Next]_vars
  PROVE  ChanOK(chan')
<1>0. ChanOK(chan) /\ pos \in 0..Len(Listing) /\ page \in Nat \ {0}
  BY DEF TypeInv, TypeOK, ChanOK
<1>1. CASE chan' = chan
  BY <1>0, <1>1
<1>2. CASE SendSite
  <2>1. Listing[pos + 1] \in Sites
    BY <1>0, <1>2, ListingFacts, PageEndType DEF SendSite
  <2>. QED
    BY <1>0, <1>2, <2>1, ChannelNames, Pushed DEF SendSite, Room
<1>3. CASE CountDispatched
  <2>1. /\ ChanOK(Pop(chan, "raw")) /\ Head(chan["raw"]) \in Sites
        /\ Pop(chan, "raw")["counted"] = chan["counted"]
    BY <1>0, <1>3, ChannelNames, Popped DEF CountDispatched
  <2>. QED
    BY <1>3, <2>1, ChannelNames, Pushed DEF CountDispatched, Room
<1>4. ASSUME NEW w \in Workers, TakeSite(w)
      PROVE  ChanOK(chan')
  BY <1>0, <1>4, ChannelNames, Popped DEF TakeSite
<1>5. ASSUME NEW w \in Workers, EmitSite(w) \/ SendUser(w) \/ SendProfile(w)
      PROVE  ChanOK(chan')
  <2>1. job[w].site \in Sites
    BY <1>5 DEF EmitSite, SendUser, SendProfile, Goto, TypeInv, FreePlaces
  <2>. QED
    BY <1>0, <1>5, <2>1, ChannelNames, Pushed
       DEF EmitSite, SendUser, SendProfile, Room
<1>6. ASSUME NEW c \in Tables, Stream(c)
      PROVE  ChanOK(chan')
  BY <1>0, <1>6, ChannelNames, Popped DEF Stream
<1>. QED
  BY <1>1, <1>2, <1>3, <1>4, <1>5, <1>6
     DEF Next, Enumerate, Interrupt, QueryPage, StopSending, NextPage,
         CountingEnds, Work, ProcessSite, WorkerEnds, Acquire, SkipUsers,
         FetchUsers, UsersSent, NoOwner, FetchProfile, FinishSite, Release,
         ReturnToken, TokenLost, TokenBack, CollectResults, Returned, vars

LEMMA WorkFrame ==
  ASSUME NEW w \in Workers, Work(w)
  PROVE  UNCHANGED <<interrupted, epc, page, pos, counting, written, returned,
                     saved>>
<1>1. CASE ProcessSite(w)
  <2>1. UNCHANGED <<enumVars, counting, outVars>>
    BY <1>1, Zenon
       DEF ProcessSite, EmitSite, SkipUsers, FetchUsers, SendUser, UsersSent,
           NoOwner, FetchProfile, SendProfile, FinishSite
  <2>. QED
    BY <2>1 DEF enumVars, outVars
<1>2. CASE \/ TakeSite(w) \/ WorkerEnds(w) \/ Acquire(w) \/ Release(w)
           \/ ReturnToken(w)
  BY <1>2 DEF TakeSite, WorkerEnds, Acquire, Release, ReturnToken, enumVars,
              outVars
<1>. QED
  BY <1>1, <1>2 DEF Work

LEMMA EnumKept ==
  ASSUME TypeInv, [Next]_vars
  PROVE  /\ interrupted' \in BOOLEAN /\ epc' \in {"query", "send", "done"}
         /\ page' \in Nat \ {0} /\ pos' \in 0..Len(Listing)
         /\ counting' \in BOOLEAN /\ returned' \in BOOLEAN
<1>0. /\ interrupted \in BOOLEAN /\ epc \in {"query", "send", "done"}
      /\ page \in Nat \ {0} /\ pos \in 0..Len(Listing)
      /\ counting \in BOOLEAN /\ returned \in BOOLEAN
  BY DEF TypeInv, TypeOK
<1>1. CASE SendSite
  BY <1>0, <1>1, ListingFacts, PageEndType DEF SendSite, outVars
<1>2. CASE Interrupt \/ QueryPage \/ StopSending \/ CountingEnds \/ CollectResults
  <2>1. CASE Interrupt
    BY <1>0, <2>1 DEF Interrupt, outVars
  <2>2. CASE QueryPage
    BY <1>0, <2>2 DEF QueryPage, outVars
  <2>3. CASE StopSending
    BY <1>0, <2>3 DEF StopSending, outVars
  <2>4. CASE CountingEnds
    BY <1>0, <2>4 DEF CountingEnds, enumVars, outVars
  <2>5. CASE CollectResults
    BY <1>0, <2>5 DEF CollectResults, enumVars
  <2>. QED
    BY <1>2, <2>1, <2>2, <2>3, <2>4, <2>5
<1>6. CASE NextPage
  <2>1. page + 1 \in Nat \ {0}
    BY <1>0
  <2>2. page' = page \/ page' = page + 1
    BY <1>6 DEF NextPage
  <2>3. epc' \in {"done", "query"} /\ UNCHANGED <<interrupted, pos, counting, returned>>
    BY <1>6 DEF NextPage, outVars
  <2>. QED
    BY <1>0, <2>1, <2>2, <2>3
<1>3. CASE UNCHANGED <<enumVars, counting, returned>>
  BY <1>0, <1>3 DEF enumVars
<1>4. CASE \E w \in Workers : Work(w)
  BY <1>3, <1>4, WorkFrame DEF enumVars
<1>5. CASE \/ CountDispatched \/ TokenLost \/ TokenBack
           \/ (\E c \in Tables : Stream(c)) \/ UNCHANGED vars
  BY <1>3, <1>5 DEF CountDispatched, TokenLost, TokenBack, Stream, vars, outVars
<1>. QED
  BY <1>1, <1>2, <1>4, <1>5, <1>6 DEF Next, Enumerate, Returned

LEMMA Counted ==
  ASSUME counters \in [Counter -> Nat], NEW c \in Counter, Count(c)
  PROVE  /\ counters' \in [Counter -> Nat] /\ counters'[c] = counters[c] + 1
         /\ \A d \in Counter : d # c => counters'[d] = counters[d]
BY DEF Count

LEMMA CounterNames ==
  /\ "discovered" \in Counter /\ "dispatched" \in Counter
  /\ "completed" \in Counter /\ "succeeded" \in Counter
  /\ "failed" \in Counter /\ "users" \in Counter /\ "profiles" \in Counter
  /\ "locked" \in Counter /\ "orphaned" \in Counter /\ "noOwner" \in Counter
BY DEF Counter

LEMMA PageCounted ==
  ASSUME TypeInv, QueryPage
  PROVE  \/ epc' = "done" /\ counters' = counters
         \/ /\ epc' = "send" /\ pos < PageEnd
            /\ counters' \in [Counter -> Nat]
            /\ counters'["discovered"] = counters["discovered"] + PageEnd - pos
            /\ \A d \in Counter : d # "discovered" => counters'[d] = counters[d]
<1>0. /\ counters \in [Counter -> Nat] /\ pos \in Nat /\ PageEnd \in Nat
      /\ counters["discovered"] \in Nat
  BY ListingFacts, PageEndType, CounterNames DEF TypeInv, TypeOK
<1>1. CASE epc' = "done" /\ counters' = counters
  BY <1>1
<1>2. CASE /\ pos < PageEnd /\ epc' = "send"
           /\ counters' = [counters EXCEPT !.discovered = @ + PageEnd - pos]
  <2>. DEFINE n == counters["discovered"] + PageEnd - pos
  <2>1. n \in Nat
    BY <1>0, <1>2
  <2>2. counters' = [counters EXCEPT !["discovered"] = n]
    BY <1>2
  <2>. HIDE DEF n
  <2>3. /\ counters' \in [Counter -> Nat] /\ counters'["discovered"] = n
        /\ \A d \in Counter : d # "discovered" => counters'[d] = counters[d]
    BY <1>0, <2>1, <2>2, CounterNames
  <2>. QED
    BY <1>2, <2>3 DEF n
<1>. QED
  BY <1>1, <1>2 DEF QueryPage

LEMMA FinishCounted ==
  ASSUME TypeInv, NEW w \in Workers, FinishSite(w)
  PROVE  /\ counters' \in [Counter -> Nat]
         /\ counters'["completed"] = counters["completed"] + 1
         /\ HasFailed(job[w]) =>
              /\ counters'["failed"] = counters["failed"] + 1
              /\ counters'["succeeded"] = counters["succeeded"]
         /\ ~HasFailed(job[w]) =>
              /\ counters'["succeeded"] = counters["succeeded"] + 1
              /\ counters'["failed"] = counters["failed"]
         /\ \A d \in Counter \ {"completed", "succeeded", "failed"} :
              counters'[d] = counters[d]
<1>0. counters \in [Counter -> Nat]
  BY DEF TypeInv, TypeOK
<1>1. CASE HasFailed(job[w])
  <2>1. counters' = [counters EXCEPT !["completed"] = @ + 1,
                                     !["failed"] = @ + 1]
    BY <1>1 DEF FinishSite
  <2>. QED
    BY <1>0, <1>1, <2>1, CounterNames
<1>2. CASE ~HasFailed(job[w])
  <2>1. counters' = [counters EXCEPT !["completed"] = @ + 1,
                                     !["succeeded"] = @ + 1]
    BY <1>2 DEF FinishSite
  <2>. QED
    BY <1>0, <1>2, <2>1, CounterNames
<1>. QED
  BY <1>1, <1>2

LEMMA CountersKept ==
  ASSUME TypeInv, [Next]_vars
  PROVE  counters' \in [Counter -> Nat]
<1>0. counters \in [Counter -> Nat]
  BY DEF TypeInv, TypeOK
<1>1. CASE QueryPage
  BY <1>0, <1>1, PageCounted
<1>2. ASSUME NEW c \in Counter, Count(c)
      PROVE  counters' \in [Counter -> Nat]
  BY <1>0, <1>2, Counted
<1>3. ASSUME NEW w \in Workers, FinishSite(w)
      PROVE  counters' \in [Counter -> Nat]
  BY <1>3, FinishCounted
<1>4. CASE counters' = counters
  BY <1>0, <1>4
<1>5. \/ counters' = counters \/ QueryPage
      \/ \E c \in Counter : Count(c)
      \/ \E w \in Workers : FinishSite(w)
  BY CounterNames
     DEF Next, Enumerate, Interrupt, SendSite, StopSending, NextPage,
         CountDispatched, CountingEnds, Work, ProcessSite, TakeSite,
         WorkerEnds, Acquire, EmitSite, SkipUsers, FetchUsers, SendUser,
         UsersSent, NoOwner, FetchProfile, SendProfile, Release, ReturnToken,
         TokenLost, TokenBack, Stream, CollectResults, Returned, vars, bookVars
<1>. QED
  BY <1>1, <1>2, <1>3, <1>4, <1>5

LEMMA OutcomeOf ==
  ASSUME TypeInv, NEW w \in Workers, wpc[w] = "finish"
  PROVE  [site |-> job[w].site, usersFailure |-> job[w].usersFailure,
          profileFailure |-> job[w].profileFailure,
          usersFetched |-> job[w].usersFetched,
          profileFetched |-> job[w].profileFetched] \in Outcome
<1>1. job[w] \in Job /\ job[w].site \in Sites
  BY DEF TypeInv, TypeOK, FreePlaces
<1>. QED
  BY <1>1 DEF Job, Outcome

LEMMA RecordsKept ==
  ASSUME TypeInv, [Next]_vars
  PROVE  /\ recorded' \in Seq(Outcome) /\ saved' \subseteq Outcome
         /\ errors' \subseteq Sites \X {"users", "profile"}
<1>0. /\ recorded \in Seq(Outcome) /\ saved \subseteq Outcome
      /\ errors \subseteq Sites \X {"users", "profile"}
  BY DEF TypeInv, TypeOK
<1>1. ASSUME NEW w \in Workers, FinishSite(w)
      PROVE  /\ recorded' \in Seq(Outcome) /\ UNCHANGED <<saved, errors>>
  <2>1. wpc[w] = "finish" /\ UNCHANGED <<saved, errors>>
    BY <1>1 DEF FinishSite, Goto, outVars
  <2>2. CASE recorded' = recorded
    BY <1>0, <2>1, <2>2
  <2>3. CASE recorded' = Append(recorded,
               [site |-> job[w].site, usersFailure |-> job[w].usersFailure,
                profileFailure |-> job[w].profileFailure,
                usersFetched |-> job[w].usersFetched,
                profileFetched |-> job[w].profileFetched])
    BY <1>0, <2>1, <2>3, OutcomeOf, AppendProperties
  <2>. QED
    BY <1>1, <2>1, <2>2, <2>3 DEF FinishSite, RecordODOutcome
<1>2. ASSUME NEW w \in Workers, FetchUsers(w) \/ FetchProfile(w)
      PROVE  /\ errors' \subseteq Sites \X {"users", "profile"}
             /\ UNCHANGED <<saved, recorded>>
  <2>1. job[w].site \in Sites
    BY <1>2 DEF FetchUsers, FetchProfile, Goto, TypeInv, FreePlaces
  <2>. QED
    BY <1>0, <1>2, <2>1 DEF FetchUsers, FetchProfile, outVars
<1>3. CASE CollectResults
  <2>1. Range(recorded) \subseteq Outcome
    BY <1>0 DEF Range
  <2>2. saved' \subseteq Range(recorded) /\ UNCHANGED <<recorded, errors>>
    BY <1>3 DEF CollectResults, SaveOutcomes, bookVars
  <2>. QED
    BY <1>0, <2>1, <2>2
<1>4. CASE UNCHANGED <<recorded, saved, errors>>
  BY <1>0, <1>4
<1>5. \/ UNCHANGED <<recorded, saved, errors>>
      \/ CollectResults
      \/ \E w \in Workers : FinishSite(w) \/ FetchUsers(w) \/ FetchProfile(w)
  BY DEF Next, Enumerate, Interrupt, QueryPage, SendSite, StopSending,
         NextPage, CountDispatched, CountingEnds, Work, ProcessSite, TakeSite,
         WorkerEnds, Acquire, EmitSite, SkipUsers, SendUser,
         UsersSent, NoOwner, SendProfile, Release, ReturnToken,
         TokenLost, TokenBack, Stream, Returned, vars, bookVars, outVars
<1>. QED
  BY <1>0, <1>1, <1>2, <1>3, <1>4, <1>5

LEMMA WrittenKept ==
  ASSUME TypeInv, [Next]_vars
  PROVE  written' \in [Tables -> [Sites -> Nat]]
<1>0. written \in [Tables -> [Sites -> Nat]] /\ ChanOK(chan)
  BY DEF TypeInv, TypeOK, ChanOK
<1>1. ASSUME NEW c \in Tables, Stream(c)
      PROVE  written' \in [Tables -> [Sites -> Nat]]
  <2>1. Head(chan[c]) \in Sites
    BY <1>0, <1>1, ChannelNames, Popped DEF Stream
  <2>. QED
    BY <1>0, <1>1, <2>1 DEF Stream
<1>2. CASE written' = written
  BY <1>0, <1>2
<1>. QED
  BY <1>1, <1>2
     DEF Next, Enumerate, Interrupt, QueryPage, SendSite, StopSending,
         NextPage, CountDispatched, CountingEnds, Work, ProcessSite, TakeSite,
         WorkerEnds, Acquire, EmitSite, SkipUsers, FetchUsers, SendUser,
         UsersSent, NoOwner, FetchProfile, SendProfile, FinishSite, Release,
         ReturnToken,
         TokenLost, TokenBack, CollectResults, Returned, vars, outVars

LEMMA ScalerTokens ==
  ASSUME TypeInv, TokenLost \/ TokenBack
  PROVE  tokens' \in 0..Cardinality(Workers)
BY WorkersCount DEF TypeInv, TypeOK, TokenLost, TokenBack

LEMMA TypeInvNext == TypeInv /\ [Next]_vars => TypeInv'
<1>. SUFFICES ASSUME TypeInv, [Next]_vars PROVE TypeInv'
  OBVIOUS
<1>1. /\ wpc' \in [Workers -> Places]
      /\ tokens' \in 0..Cardinality(Workers)
      /\ job' \in [Workers -> Job]
      /\ \A v \in Workers : wpc'[v] \notin FreePlaces =>
                              job'[v].site \in Sites
  <2>1. CASE \E w \in Workers : Work(w)
    BY <2>1, WorkTokens, WorkJobs
  <2>2. CASE TokenLost \/ TokenBack
    <3>1. UNCHANGED <<wpc, job>>
      BY <2>2 DEF TokenLost, TokenBack
    <3>. QED
      BY <2>2, <3>1, ScalerTokens DEF TypeInv, TypeOK, Places
  <2>3. CASE UNCHANGED workVars
    BY <2>3 DEF workVars, TypeInv, TypeOK, Places
  <2>. QED
    BY <2>1, <2>2, <2>3
       DEF Next, Enumerate, Interrupt, QueryPage, SendSite, StopSending,
           NextPage, CountDispatched, CountingEnds, Stream, CollectResults,
           Returned, vars
<1>. QED
  BY <1>1, ChanKept, EnumKept, CountersKept, RecordsKept, WrittenKept, Zenon
     DEF TypeInv, TypeOK, ChanOK, Places

LEMMA TypeInvInit == Init => TypeInv
<1>. SUFFICES ASSUME Init PROVE TypeInv
  OBVIOUS
<1>1. /\ chan \in [Channels -> Seq(Sites)]
      /\ \A c \in Channels : Len(chan[c]) <= Cap[c]
  BY OneDrivePipelineAssumption DEF Init
<1>2. /\ wpc \in [Workers -> Places] /\ \A w \in Workers : wpc[w] = "idle"
      /\ NoJob \in Job /\ job \in [Workers -> Job]
  BY OneDrivePipelineAssumption DEF Init, Places, NoJob, Job
<1>4. tokens \in 0..Cardinality(Workers)
  BY WorkersCount DEF Init
<1>5. /\ counters \in [Counter -> Nat] /\ recorded \in Seq(Outcome)
      /\ written \in [Tables -> [Sites -> Nat]]
      /\ errors \subseteq Sites \X {"users", "profile"}
      /\ saved \subseteq Outcome
  BY DEF Init
<1>6. /\ interrupted \in BOOLEAN /\ epc \in {"query", "send", "done"}
      /\ page \in Nat \ {0} /\ pos \in 0..Len(Listing)
      /\ counting \in BOOLEAN /\ returned \in BOOLEAN
  <2>1. /\ interrupted = FALSE /\ epc = "query" /\ page = 1 /\ pos = 0
        /\ counting = TRUE /\ returned = FALSE
    BY DEF Init
  <2>2. pos \in 0..Len(Listing) /\ page \in Nat \ {0}
    <3>1. Len(Listing) \in Nat
      BY ListingFacts
    <3>. QED
      BY <2>1, <3>1
  <2>. QED
    BY <2>1, <2>2
<1>. QED
  BY <1>1, <1>2, <1>4, <1>5, <1>6 DEF TypeInv, TypeOK, Places, FreePlaces

LEMMA TypeInvAlways == Spec => []TypeInv
BY TypeInvInit, TypeInvNext, PTL DEF Spec

\* Type correctness: in particular neither a channel nor the semaphore ever
\* exceeds its capacity, for any list, pages, limit, pool and capacities.
THEOREM TypeCorrect == Spec => []TypeOK
<1>1. TypeInv => TypeOK
  BY DEF TypeInv
<1>. QED
  BY <1>1, TypeInvAlways, PTL

-----------------------------------------------------------------------------
(* The books: what has been taken from the list is in a channel, with a    *)
(* worker, or completed.                                                   *)

FlowInv ==
  /\ pos = counters["dispatched"] + Len(chan["raw"])
  /\ counters["dispatched"] =
       counters["completed"] + Len(chan["counted"]) + Cardinality(At(HandPlaces))
  /\ counters["completed"] = counters["succeeded"] + counters["failed"]

Core == {"discovered", "dispatched", "completed", "succeeded", "failed"}

\* What a worker counts before it finishes the site.
Details == {"locked", "users", "noOwner", "orphaned", "profiles"}

LEMMA WorkCounts ==
  ASSUME TypeInv, NEW w \in Workers, Work(w), ~FinishSite(w)
  PROVE  \A c \in Core : counters'[c] = counters[c]
<1>0. counters \in [Counter -> Nat] /\ Details \subseteq Counter
      /\ Core \subseteq Counter /\ Core \cap Details = {}
  BY DEF TypeInv, TypeOK, Counter, Details, Core
<1>1. counters' = counters \/ \E c \in Details : Count(c)
  BY DEF Work, ProcessSite, TakeSite, WorkerEnds, Acquire, EmitSite,
         SkipUsers, FetchUsers, SendUser, UsersSent, NoOwner, FetchProfile,
         SendProfile, Release, ReturnToken, Details, bookVars
<1>. QED
  BY <1>0, <1>1, Counted

\* Only TakeSite touches a channel that is not a table's.
LEMMA WorkChan ==
  ASSUME TypeInv, NEW w \in Workers, Work(w), ~TakeSite(w)
  PROVE  chan'["raw"] = chan["raw"] /\ chan'["counted"] = chan["counted"]
<1>0. ChanOK(chan)
  BY DEF TypeInv, TypeOK, ChanOK
<1>1. CASE EmitSite(w) \/ SendUser(w) \/ SendProfile(w)
  <2>1. job[w].site \in Sites
    BY <1>1 DEF EmitSite, SendUser, SendProfile, Goto, TypeInv, FreePlaces
  <2>2. PICK c \in Tables : Room(c) /\ chan' = Push(chan, c, job[w].site)
    BY <1>1 DEF EmitSite, SendUser, SendProfile, Tables
  <2>3. c \in Channels /\ c # "raw" /\ c # "counted"
    BY DEF Channels, Tables
  <2>. QED
    BY <1>0, <2>1, <2>2, <2>3, ChannelNames, Pushed DEF Room
<1>2. CASE chan' = chan
  BY <1>2
<1>. QED
  BY <1>1, <1>2
     DEF Work, ProcessSite, WorkerEnds, Acquire, SkipUsers, FetchUsers,
         UsersSent, NoOwner, FetchProfile, FinishSite, Release, ReturnToken

\* Every other step leaves a worker on the same side of what it has in hand.
LEMMA WorkHands ==
  ASSUME TypeInv, NEW w \in Workers, Work(w), ~TakeSite(w), ~FinishSite(w)
  PROVE  At(HandPlaces)' = At(HandPlaces)
<1>0. wpc \in [Workers -> Places]
  BY DEF TypeInv, TypeOK, Places
<1>1. \/ wpc' = wpc
      \/ \E from, to \in HandPlaces : Goto(w, from, to)
      \/ \E from, to \in Places \ HandPlaces : Goto(w, from, to)
  BY DEF Work, ProcessSite, WorkerEnds, Acquire, EmitSite, SkipUsers,
         FetchUsers, SendUser, UsersSent, NoOwner, FetchProfile, SendProfile,
         Release, ReturnToken, HandPlaces, Places
<1>2. CASE wpc' = wpc
  BY <1>2 DEF At
<1>3. CASE \E from, to \in HandPlaces : Goto(w, from, to)
  BY <1>0, <1>3, AtSame
<1>4. CASE \E from, to \in Places \ HandPlaces : Goto(w, from, to)
  BY <1>0, <1>4, AtSame
<1>. QED
  BY <1>1, <1>2, <1>3, <1>4

\* What the books are about, and the steps that change any of it.
LEMMA OtherSteps ==
  ASSUME TypeInv, [Next]_vars, ~QueryPage, ~SendSite, ~CountDispatched,
         ~(\E w \in Workers : TakeSite(w) \/ FinishSite(w))
  PROVE  /\ pos' = pos
         /\ chan'["raw"] = chan["raw"] /\ chan'["counted"] = chan["counted"]
         /\ \A c \in Core : counters'[c] = counters[c]
         /\ At(HandPlaces)' = At(HandPlaces)
<1>1. CASE \E w \in Workers : Work(w)
  BY <1>1, WorkFrame, WorkCounts, WorkChan, WorkHands
<1>2. CASE \E c \in Tables : Stream(c)
  <2>1. PICK c \in Tables : Stream(c)
    BY <1>2
  <2>2. c \in Channels /\ c # "raw" /\ c # "counted"
    BY DEF Channels, Tables
  <2>3. chan'["raw"] = chan["raw"] /\ chan'["counted"] = chan["counted"]
    BY <2>1, <2>2, Popped, ChannelNames DEF Stream, TypeInv, TypeOK, ChanOK
  <2>. QED
    BY <2>1, <2>3 DEF Stream, enumVars, workVars, bookVars, At
<1>3. CASE UNCHANGED <<pos, chan, counters, wpc>>
  BY <1>3 DEF At
<1>. QED
  BY <1>1, <1>2, <1>3
     DEF Next, Enumerate, Interrupt, StopSending, NextPage, CountingEnds,
         TokenLost, TokenBack, CollectResults, Returned, vars, enumVars,
         workVars, bookVars

LEMMA FlowTypes ==
  ASSUME TypeInv
  PROVE  /\ pos \in Nat
         /\ counters["discovered"] \in Nat /\ counters["dispatched"] \in Nat
         /\ counters["completed"] \in Nat /\ counters["succeeded"] \in Nat
         /\ counters["failed"] \in Nat
         /\ Len(chan["raw"]) \in Nat /\ Len(chan["counted"]) \in Nat
         /\ Cardinality(At(HandPlaces)) \in Nat
<1>1. pos \in Nat
  BY ListingFacts DEF TypeInv, TypeOK
<1>2. chan["raw"] \in Seq(Sites) /\ chan["counted"] \in Seq(Sites)
  BY ChannelNames DEF TypeInv, TypeOK
<1>. QED
  BY <1>1, <1>2, CounterNames, AtCount, LenProperties DEF TypeInv, TypeOK

LEMMA FlowNext == TypeInv /\ FlowInv /\ [Next]_vars => FlowInv'
<1>. SUFFICES ASSUME TypeInv, FlowInv, [Next]_vars PROVE FlowInv'
  OBVIOUS
<1>0. /\ ChanOK(chan) /\ counters \in [Counter -> Nat]
      /\ wpc \in [Workers -> Places]
  BY DEF TypeInv, TypeOK, ChanOK, Places
<1>1. CASE QueryPage
  <2>1. /\ counters'["dispatched"] = counters["dispatched"]
        /\ counters'["completed"] = counters["completed"]
        /\ counters'["succeeded"] = counters["succeeded"]
        /\ counters'["failed"] = counters["failed"]
    BY <1>1, PageCounted, CounterNames
  <2>2. UNCHANGED <<pos, chan, wpc>>
    BY <1>1 DEF QueryPage, workVars
  <2>. QED
    BY <2>1, <2>2 DEF FlowInv, At
<1>2. CASE SendSite
  <2>1. Listing[pos + 1] \in Sites
    BY <1>2, ListingFacts, PageEndType DEF SendSite, TypeInv, TypeOK
  <2>2. /\ Len(chan'["raw"]) = Len(chan["raw"]) + 1
        /\ chan'["counted"] = chan["counted"]
    BY <1>0, <1>2, <2>1, ChannelNames, Pushed DEF SendSite, Room
  <2>3. pos' = pos + 1 /\ UNCHANGED <<counters, wpc>>
    BY <1>2 DEF SendSite, workVars, bookVars
  <2>. QED
    BY <2>2, <2>3, FlowTypes DEF FlowInv, At
<1>3. CASE CountDispatched
  <2>1. /\ ChanOK(Pop(chan, "raw")) /\ Head(chan["raw"]) \in Sites
        /\ Pop(chan, "raw")["counted"] = chan["counted"]
        /\ Len(Pop(chan, "raw")["raw"]) = Len(chan["raw"]) - 1
    BY <1>0, <1>3, ChannelNames, Popped DEF CountDispatched
  <2>2. /\ Len(chan'["counted"]) = Len(chan["counted"]) + 1
        /\ Len(chan'["raw"]) = Len(chan["raw"]) - 1
    <3>1. /\ Len(Pop(chan, "raw")["counted"]) < Cap["counted"]
          /\ chan' = Push(Pop(chan, "raw"), "counted", Head(chan["raw"]))
      BY <1>3, <2>1 DEF CountDispatched, Room
    <3>2. /\ Len(chan'["counted"]) = Len(Pop(chan, "raw")["counted"]) + 1
          /\ chan'["raw"] = Pop(chan, "raw")["raw"]
      BY <2>1, <3>1, ChannelNames, Pushed
    <3>. QED
      BY <2>1, <3>2
  <2>3. /\ counters'["dispatched"] = counters["dispatched"] + 1
        /\ counters'["completed"] = counters["completed"]
        /\ counters'["succeeded"] = counters["succeeded"]
        /\ counters'["failed"] = counters["failed"]
    BY <1>0, <1>3, Counted, CounterNames DEF CountDispatched
  <2>4. UNCHANGED <<pos, wpc>>
    BY <1>3 DEF CountDispatched, enumVars, workVars
  <2>5. At(HandPlaces)' = At(HandPlaces)
    BY <2>4 DEF At
  <2>6. pos' = counters'["dispatched"] + Len(chan'["raw"])
    BY <2>2, <2>3, <2>4, FlowTypes DEF FlowInv
  <2>7. counters'["dispatched"] = counters'["completed"] + Len(chan'["counted"])
                                    + Cardinality(At(HandPlaces)')
    BY <2>2, <2>3, <2>5, FlowTypes DEF FlowInv
  <2>. QED
    BY <2>3, <2>6, <2>7 DEF FlowInv
<1>4. ASSUME NEW w \in Workers, TakeSite(w)
      PROVE  FlowInv'
  <2>1. /\ Len(chan'["counted"]) = Len(chan["counted"]) - 1
        /\ chan'["raw"] = chan["raw"]
    BY <1>0, <1>4, ChannelNames, Popped DEF TakeSite
  <2>2. Cardinality(At(HandPlaces)') = Cardinality(At(HandPlaces)) + 1
    BY <1>0, <1>4, AtGain DEF TakeSite, HandPlaces, Places
  <2>3. UNCHANGED <<pos, counters>>
    BY <1>4 DEF TakeSite, enumVars, bookVars
  <2>. QED
    BY <2>1, <2>2, <2>3, FlowTypes DEF FlowInv
<1>5. ASSUME NEW w \in Workers, FinishSite(w)
      PROVE  FlowInv'
  <2>1. Cardinality(At(HandPlaces)') = Cardinality(At(HandPlaces)) - 1
    BY <1>0, <1>5, AtLoss DEF FinishSite, HandPlaces, Places
  <2>2. /\ counters'["dispatched"] = counters["dispatched"]
        /\ counters'["completed"] = counters["completed"] + 1
        /\ \/ /\ counters'["failed"] = counters["failed"] + 1
              /\ counters'["succeeded"] = counters["succeeded"]
           \/ /\ counters'["succeeded"] = counters["succeeded"] + 1
              /\ counters'["failed"] = counters["failed"]
    BY <1>5, FinishCounted, CounterNames
  <2>3. UNCHANGED <<pos, chan>>
    BY <1>5 DEF FinishSite, enumVars
  <2>. DEFINE d == counters["dispatched"]
              c == counters["completed"]
              q == Len(chan["counted"])
              h == Cardinality(At(HandPlaces))
              y == counters["succeeded"]
              n == counters["failed"]
  <2>4. /\ d \in Nat /\ c \in Nat /\ q \in Nat /\ h \in Nat
        /\ y \in Nat /\ n \in Nat
    BY FlowTypes
  <2>5. d = c + q + h /\ c = y + n
    BY DEF FlowInv
  <2>6. /\ counters'["dispatched"] = d /\ counters'["completed"] = c + 1
        /\ Len(chan'["counted"]) = q /\ Cardinality(At(HandPlaces)') = h - 1
    BY <2>1, <2>2, <2>3
  <2>7. \/ counters'["failed"] = n + 1 /\ counters'["succeeded"] = y
        \/ counters'["succeeded"] = y + 1 /\ counters'["failed"] = n
    BY <2>2
  <2>8. pos' = counters'["dispatched"] + Len(chan'["raw"])
    BY <2>2, <2>3 DEF FlowInv
  <2>. HIDE DEF d, c, q, h, y, n
  <2>9. /\ d = (c + 1) + q + (h - 1)
        /\ c + 1 = y + (n + 1) /\ c + 1 = (y + 1) + n
    BY <2>4, <2>5
  <2>. QED
    BY <2>6, <2>7, <2>8, <2>9 DEF FlowInv
<1>6. CASE /\ ~QueryPage /\ ~SendSite /\ ~CountDispatched
           /\ ~(\E w \in Workers : TakeSite(w) \/ FinishSite(w))
  BY <1>6, OtherSteps DEF FlowInv, Core
<1>. QED
  BY <1>1, <1>2, <1>3, <1>4, <1>5, <1>6

LEMMA FlowInit == Init => FlowInv
<1>. SUFFICES ASSUME Init PROVE FlowInv
  OBVIOUS
<1>1. At(HandPlaces) = {}
  BY DEF Init, At, HandPlaces
<1>2. pos = 0 /\ Len(chan["raw"]) = 0 /\ Len(chan["counted"]) = 0
  BY ChannelNames DEF Init
<1>3. /\ counters["dispatched"] = 0 /\ counters["completed"] = 0
      /\ counters["succeeded"] = 0 /\ counters["failed"] = 0
  BY CounterNames DEF Init
<1>. QED
  BY <1>1, <1>2, <1>3, FS_EmptySet DEF FlowInv

-----------------------------------------------------------------------------
(* The enumeration: a page is counted before its first site is sent, and   *)
(* the limit is looked at before every site.                               *)

ListInv ==
  /\ pos <= counters["discovered"]
  /\ epc = "query" => counters["discovered"] = pos
  /\ epc = "send" => counters["discovered"] = PageEnd
  /\ MaxSites > 0 => pos <= MaxSites

LEMMA ListOthers ==
  ASSUME TypeInv, [Next]_vars, ~Enumerate
  PROVE  /\ UNCHANGED <<epc, page, pos>>
         /\ counters'["discovered"] = counters["discovered"]
<1>1. ~QueryPage /\ ~SendSite
  BY DEF Enumerate
<1>2. UNCHANGED <<epc, page, pos>>
  BY WorkFrame
     DEF Next, Interrupt, CountDispatched, CountingEnds, TokenLost, TokenBack,
         Stream, CollectResults, Returned, vars, enumVars
<1>3. CASE CountDispatched
  BY <1>2, <1>3, Counted, CounterNames DEF CountDispatched, TypeInv, TypeOK
<1>4. CASE \E w \in Workers : TakeSite(w) \/ FinishSite(w)
  <2>1. ASSUME NEW w \in Workers, TakeSite(w) PROVE counters' = counters
    BY <2>1 DEF TakeSite, bookVars
  <2>. QED
    BY <1>2, <1>4, <2>1, FinishCounted, CounterNames
<1>. QED
  BY <1>1, <1>2, <1>3, <1>4, OtherSteps DEF Core

LEMMA ListNext == TypeInv /\ ListInv /\ [Next]_vars => ListInv'
<1>. SUFFICES ASSUME TypeInv, ListInv, [Next]_vars PROVE ListInv'
  OBVIOUS
<1>0. /\ pos \in Nat /\ page \in Nat \ {0} /\ PageEnd \in Nat
      /\ counters["discovered"] \in Nat /\ MaxSites \in Nat
  BY FlowTypes, PageEndType, OneDrivePipelineAssumption DEF TypeInv, TypeOK
<1>1. CASE QueryPage
  <2>1. pos' = pos /\ page' = page /\ PageEnd' = PageEnd /\ epc = "query"
    BY <1>1 DEF QueryPage, PageEnd
  <2>2. CASE epc' = "done" /\ counters' = counters
    BY <2>1, <2>2 DEF ListInv
  <2>3. CASE /\ epc' = "send" /\ pos < PageEnd
             /\ counters'["discovered"] = counters["discovered"] + PageEnd - pos
    <3>1. counters'["discovered"] = PageEnd
      BY <1>0, <2>1, <2>3 DEF ListInv
    <3>. QED
      BY <1>0, <2>1, <2>3, <3>1 DEF ListInv
  <2>. QED
    BY <1>1, <2>2, <2>3, PageCounted
<1>2. CASE SendSite
  <2>1. /\ pos' = pos + 1 /\ pos < PageEnd /\ ~LimitReached
        /\ epc = "send" /\ epc' = "send" /\ page' = page
        /\ counters' = counters
    BY <1>2 DEF SendSite, bookVars
  <2>2. PageEnd' = PageEnd
    BY <2>1 DEF PageEnd
  <2>. QED
    BY <1>0, <2>1, <2>2 DEF ListInv, LimitReached
<1>3. CASE StopSending
  <2>1. epc' = "done" /\ pos' = pos /\ counters' = counters
    BY <1>3 DEF StopSending, bookVars
  <2>. QED
    BY <2>1 DEF ListInv
<1>4. CASE NextPage
  <2>1. /\ epc = "send" /\ pos = PageEnd /\ epc' \in {"done", "query"}
        /\ pos' = pos /\ counters' = counters
    BY <1>4 DEF NextPage, bookVars
  <2>. QED
    BY <2>1 DEF ListInv
<1>5. CASE ~Enumerate
  <2>1. PageEnd' = PageEnd
    BY <1>5, ListOthers DEF PageEnd
  <2>. QED
    BY <1>5, <2>1, ListOthers DEF ListInv
<1>. QED
  BY <1>1, <1>2, <1>3, <1>4, <1>5 DEF Enumerate

LEMMA ListInit == Init => ListInv
<1>. SUFFICES ASSUME Init PROVE ListInv
  OBVIOUS
<1>1. pos = 0 /\ epc = "query" /\ counters["discovered"] = 0
  BY CounterNames DEF Init
<1>. QED
  BY <1>1, OneDrivePipelineAssumption DEF ListInv

-----------------------------------------------------------------------------
(* The end: each stage ends only behind the one before it.                 *)

EndInv ==
  /\ ~counting => epc = "done" /\ chan["raw"] = <<>>
  /\ \A w \in Workers : wpc[w] = "done" => ~counting /\ chan["counted"] = <<>>
  /\ returned => StreamsEnded

LEMMA EndNext == TypeInv /\ EndInv /\ [Next]_vars => EndInv'
<1>. SUFFICES ASSUME TypeInv, EndInv, [Next]_vars PROVE EndInv'
  OBVIOUS
<1>0. ChanOK(chan) /\ wpc \in [Workers -> Places]
  BY DEF TypeInv, TypeOK, ChanOK, Places
<1>1. CASE Enumerate
  <2>1. counting
    BY <1>1 DEF Enumerate, QueryPage, SendSite, NextPage, StopSending, EndInv
  <2>2. UNCHANGED <<counting, wpc, returned>> /\ \A w \in Workers : wpc[w] # "done"
    BY <1>1, <2>1 DEF Enumerate, QueryPage, SendSite, NextPage, StopSending,
                      EndInv, workVars, outVars
  <2>3. ASSUME NEW c \in Tables PROVE chan'[c] = chan[c]
    <3>1. CASE SendSite
      <4>1. Listing[pos + 1] \in Sites
        BY <3>1, ListingFacts, PageEndType DEF SendSite, TypeInv, TypeOK
      <4>2. c # "raw" /\ c \in Channels
        BY DEF Tables, Channels
      <4>. QED
        BY <1>0, <3>1, <4>1, <4>2, ChannelNames, Pushed DEF SendSite, Room
    <3>. QED
      BY <1>1, <3>1 DEF Enumerate, QueryPage, NextPage, StopSending
  <2>. QED
    BY <2>1, <2>2, <2>3 DEF EndInv, StreamsEnded
<1>2. CASE CountDispatched
  <2>1. counting
    BY <1>2 DEF CountDispatched, EndInv
  <2>2. UNCHANGED <<counting, wpc, returned>> /\ \A w \in Workers : wpc[w] # "done"
    BY <1>2, <2>1 DEF CountDispatched, EndInv, workVars, outVars
  <2>3. ASSUME NEW c \in Tables PROVE chan'[c] = chan[c]
    <3>1. c # "raw" /\ c # "counted" /\ c \in Channels
      BY DEF Tables, Channels
    <3>2. /\ ChanOK(Pop(chan, "raw")) /\ Head(chan["raw"]) \in Sites
          /\ Pop(chan, "raw")[c] = chan[c]
      BY <1>0, <1>2, <3>1, ChannelNames, Popped DEF CountDispatched
    <3>3. Push(Pop(chan, "raw"), "counted", Head(chan["raw"]))[c] = chan[c]
      BY <3>1, <3>2 DEF Push, ChanOK
    <3>. QED
      BY <1>2, <3>3 DEF CountDispatched
  <2>. QED
    BY <2>1, <2>2, <2>3 DEF EndInv, StreamsEnded
<1>3. CASE CountingEnds
  <2>1. /\ UNCHANGED <<epc, chan, wpc, returned>> /\ epc = "done"
        /\ chan["raw"] = <<>> /\ counting
    BY <1>3 DEF CountingEnds, enumVars, workVars, outVars
  <2>. QED
    BY <2>1 DEF EndInv, StreamsEnded
<1>4. ASSUME NEW w \in Workers, Work(w)
      PROVE  EndInv'
  <2>1. UNCHANGED <<epc, counting, returned>>
    BY <1>4, WorkFrame
  <2>2. /\ wpc[w] # "done" /\ \A v \in Workers : v # w => wpc'[v] = wpc[v]
        /\ wpc'[w] = "done" => WorkerEnds(w)
    BY <1>0, <1>4
       DEF Work, ProcessSite, TakeSite, Acquire, EmitSite, SkipUsers,
           FetchUsers, SendUser, UsersSent, NoOwner, FetchProfile,
           SendProfile, FinishSite, Release, ReturnToken, WorkerEnds, Goto
  <2>3. ~returned
    BY <2>2 DEF EndInv, StreamsEnded
  <2>4. /\ chan'["raw"] = chan["raw"]
        /\ chan["counted"] = <<>> => chan'["counted"] = <<>>
    <3>1. CASE TakeSite(w)
      <4>1. chan["counted"] # <<>> /\ chan' = Pop(chan, "counted")
        BY <3>1 DEF TakeSite
      <4>. QED
        BY <1>0, <4>1, ChannelNames, Popped
    <3>. QED
      BY <1>4, <3>1, WorkChan
  <2>5. CASE WorkerEnds(w)
    BY <2>1, <2>2, <2>3, <2>5, <2>4 DEF WorkerEnds, EndInv
  <2>6. CASE wpc'[w] # "done"
    BY <2>1, <2>2, <2>3, <2>4, <2>6 DEF EndInv
  <2>. QED
    BY <2>2, <2>5, <2>6
<1>5. ASSUME NEW c \in Tables, Stream(c)
      PROVE  EndInv'
  <2>1. /\ c \in Channels /\ c # "raw" /\ c # "counted" /\ chan[c] # <<>>
        /\ UNCHANGED <<epc, counting, wpc, returned>>
    BY <1>5 DEF Stream, enumVars, workVars, Channels, Tables
  <2>2. chan'["raw"] = chan["raw"] /\ chan'["counted"] = chan["counted"]
    BY <1>0, <1>5, <2>1, Popped, ChannelNames DEF Stream
  <2>3. ~returned
    BY <2>1 DEF EndInv, StreamsEnded
  <2>. QED
    BY <2>1, <2>2, <2>3 DEF EndInv
<1>6. CASE CollectResults
  <2>1. StreamsEnded /\ UNCHANGED <<epc, chan, counting, wpc>>
    BY <1>6 DEF CollectResults, enumVars, workVars
  <2>. QED
    BY <2>1 DEF EndInv, StreamsEnded
<1>7. CASE UNCHANGED <<epc, chan, counting, wpc, returned>>
  BY <1>7 DEF EndInv, StreamsEnded
<1>. QED
  BY <1>1, <1>2, <1>3, <1>4, <1>5, <1>6, <1>7
     DEF Next, Interrupt, TokenLost, TokenBack, Returned, vars, enumVars,
         workVars, outVars

LEMMA EndInit == Init => EndInv
BY DEF Init, EndInv

\* Every site taken from the list is dispatched and completed, once, and the
\* debug limit holds, for any list, pages, limit and pool: with no worker there
\* is nothing to wait for, and Process returns at once.
THEOREM SitesAccounted == Workers # {} => (Spec => []SitesAccountedFor)
<1>. SUFFICES ASSUME Workers # {} PROVE Spec => []SitesAccountedFor
  OBVIOUS
<1>1. TypeInv /\ FlowInv /\ ListInv /\ EndInv => SitesAccountedFor
  <2>. SUFFICES ASSUME TypeInv, FlowInv, ListInv, EndInv, returned
                PROVE  /\ counters["dispatched"] = pos
                       /\ pos <= counters["discovered"]
                       /\ MaxSites > 0 => pos <= MaxSites
                       /\ counters["completed"] = counters["dispatched"]
                       /\ counters["succeeded"] + counters["failed"]
                            = counters["completed"]
    BY DEF SitesAccountedFor
  <2>1. \A w \in Workers : wpc[w] = "done"
    BY DEF EndInv, StreamsEnded
  <2>2. chan["raw"] = <<>> /\ chan["counted"] = <<>>
    BY <2>1 DEF EndInv
  <2>3. At(HandPlaces) = {}
    BY <2>1 DEF At, HandPlaces
  <2>4. Len(chan["raw"]) = 0 /\ Len(chan["counted"]) = 0
        /\ Cardinality(At(HandPlaces)) = 0
    BY <2>2, <2>3, FS_EmptySet
  <2>5. pos = counters["dispatched"] /\ counters["completed"] = counters["dispatched"]
    BY <2>4, FlowTypes DEF FlowInv
  <2>. QED
    BY <2>5 DEF FlowInv, ListInv
<1>. QED
  BY <1>1, TypeInvAlways, TypeInvNext, FlowInit, FlowNext, ListInit, ListNext,
     EndInit, EndNext, PTL DEF Spec

-----------------------------------------------------------------------------
(* What a worker knows of its site, from the call that failed until the    *)
(* site is finished.                                                       *)

FlagsInv ==
  \A w \in Workers :
    /\ job[w].usersFailure =>
         wpc[w] \in {"profile", "sendProfile", "finish", "release"}
    /\ job[w].profileFailure => wpc[w] \in {"finish", "release"}

LEMMA FlagsNext == TypeInv /\ FlagsInv /\ [Next]_vars => FlagsInv'
<1>. SUFFICES ASSUME TypeInv, FlagsInv, [Next]_vars PROVE FlagsInv'
  OBVIOUS
<1>0. wpc \in [Workers -> Places] /\ job \in [Workers -> Job]
  BY DEF TypeInv, TypeOK, Places
<1>1. ASSUME NEW w \in Workers, Work(w)
      PROVE  FlagsInv'
  <2>1. /\ \A v \in Workers : v # w => wpc'[v] = wpc[v] /\ job'[v] = job[v]
        /\ job'[w].usersFailure =>
             wpc'[w] \in {"profile", "sendProfile", "finish", "release"}
        /\ job'[w].profileFailure => wpc'[w] \in {"finish", "release"}
    <3>1. CASE TakeSite(w)
      BY <1>0, <3>1 DEF TakeSite, Goto, FlagsInv, Job
    <3>2. CASE FetchUsers(w)
      <4>1. CASE /\ Goto(w, "users", "profile")
                 /\ job' = [job EXCEPT ![w].usersFailure = TRUE]
        BY <1>0, <4>1 DEF Goto, FlagsInv, Job
      <4>2. CASE /\ Goto(w, "users", "sendUsers")
                 /\ \E n \in 0..MaxRows :
                      job' = [job EXCEPT ![w].usersFetched = n, ![w].left = n]
        BY <1>0, <4>2 DEF Goto, FlagsInv, Job
      <4>. QED
        BY <3>2, <4>1, <4>2 DEF FetchUsers
    <3>3. CASE SendUser(w)
      BY <1>0, <3>3 DEF SendUser, FlagsInv, Job
    <3>4. CASE FetchProfile(w)
      <4>1. CASE /\ Goto(w, "profile", "finish")
                 /\ job' = [job EXCEPT ![w].profileFailure = TRUE]
        BY <1>0, <4>1 DEF Goto, FlagsInv, Job
      <4>2. CASE /\ Goto(w, "profile", "finish") \/ Goto(w, "profile", "sendProfile")
                 /\ job' = job
        BY <1>0, <4>2 DEF Goto, FlagsInv
      <4>. QED
        BY <3>4, <4>1, <4>2 DEF FetchProfile
    <3>5. CASE SendProfile(w)
      BY <1>0, <3>5 DEF SendProfile, Goto, FlagsInv, Job
    <3>6. CASE Release(w)
      BY <1>0, <3>6 DEF Release, ReturnToken, Goto, FlagsInv, NoJob
    <3>7. CASE \/ ReturnToken(w)
               \/ WorkerEnds(w) \/ Acquire(w) \/ EmitSite(w) \/ SkipUsers(w)
               \/ UsersSent(w) \/ NoOwner(w) \/ FinishSite(w)
      BY <1>0, <3>7 DEF WorkerEnds, Acquire, EmitSite, SkipUsers, UsersSent,
                        NoOwner, FinishSite, ReturnToken, Goto, FlagsInv
    <3>. QED
      BY <1>1, <3>1, <3>2, <3>3, <3>4, <3>5, <3>6, <3>7 DEF Work, ProcessSite
  <2>. QED
    BY <2>1 DEF FlagsInv
<1>2. CASE UNCHANGED <<wpc, job>>
  BY <1>2 DEF FlagsInv
<1>. QED
  BY <1>1, <1>2
     DEF Next, Enumerate, Interrupt, QueryPage, SendSite, StopSending,
         NextPage, CountDispatched, CountingEnds, TokenLost, TokenBack,
         Stream, CollectResults, Returned, vars, workVars

LEMMA FlagsInit == Init => FlagsInv
BY DEF Init, FlagsInv, NoJob

-----------------------------------------------------------------------------
(* Every completed site is in one class.                                   *)

Pending == {w \in Workers : wpc[w] = "finish" /\ job[w].profileFailure}

ClassInv ==
  counters["completed"] + Cardinality(At({"finish"})) =
    counters["profiles"] + counters["orphaned"] + counters["noOwner"]
      + (Cardinality(ProfileFailures) + Cardinality(Pending))

ClassCounters == {"completed", "profiles", "orphaned", "noOwner"}

LEMMA ClassTypes ==
  ASSUME TypeInv
  PROVE  /\ counters \in [Counter -> Nat]
         /\ \A c \in ClassCounters : counters[c] \in Nat
         /\ IsFiniteSet(Pending) /\ Cardinality(Pending) \in Nat
         /\ IsFiniteSet(At({"finish"})) /\ Cardinality(At({"finish"})) \in Nat
         /\ IsFiniteSet(ProfileFailures) /\ Cardinality(ProfileFailures) \in Nat
<1>1. IsFiniteSet(Pending)
  BY WorkersCount, FS_Subset DEF Pending
<1>2. IsFiniteSet(ProfileFailures)
  <2>1. recorded \in Seq(Outcome)
    BY DEF TypeInv, TypeOK
  <2>2. ProfileFailures \subseteq 1..Len(recorded) /\ Len(recorded) \in Nat
    BY <2>1 DEF ProfileFailures
  <2>3. IsFiniteSet(1..Len(recorded))
    BY <2>2, FS_Interval
  <2>. QED
    BY <2>2, <2>3, FS_Subset
<1>3. counters \in [Counter -> Nat] /\ ClassCounters \subseteq Counter
  BY DEF TypeInv, TypeOK, ClassCounters, Counter
<1>. QED
  BY <1>1, <1>2, <1>3, AtCount, FS_CardinalityType

\* The steps of a worker that reach or leave "finish" have a lemma each.
LEMMA ClassNoOwner ==
  ASSUME TypeInv, FlagsInv, ClassInv, NEW w \in Workers,
         \/ NoOwner(w)
         \/ /\ Goto(w, "profile", "finish") /\ Count("orphaned")
            /\ UNCHANGED <<job, recorded>>
         \/ SendProfile(w)
  PROVE  ClassInv'
<1>0. wpc \in [Workers -> Places] /\ job \in [Workers -> Job]
  BY DEF TypeInv, TypeOK, Places
<1>1. Cardinality(At({"finish"})') = Cardinality(At({"finish"})) + 1
  BY <1>0, AtGain DEF NoOwner, SendProfile
<1>2. ~job'[w].profileFailure /\ ~job[w].profileFailure
      /\ recorded' = recorded /\ wpc'[w] = "finish"
      /\ \A v \in Workers : v # w => wpc'[v] = wpc[v] /\ job'[v] = job[v]
  BY <1>0 DEF NoOwner, SendProfile, Goto, FlagsInv, Job
<1>3. Pending' = Pending /\ ProfileFailures' = ProfileFailures
  BY <1>2 DEF Pending, ProfileFailures
<1>4. PICK c \in {"noOwner", "orphaned", "profiles"} : Count(c)
  BY DEF NoOwner, SendProfile
<1>5. counters'["completed"] = counters["completed"]
      /\ counters'["profiles"] + counters'["orphaned"] + counters'["noOwner"] =
           counters["profiles"] + counters["orphaned"] + counters["noOwner"] + 1
  BY <1>4, Counted, CounterNames, ClassTypes DEF ClassCounters
<1>. DEFINE s == counters["profiles"] + counters["orphaned"] + counters["noOwner"]
            f == Cardinality(ProfileFailures) + Cardinality(Pending)
            a == counters["completed"]
            h == Cardinality(At({"finish"}))
<1>6. s \in Nat /\ f \in Nat /\ a \in Nat /\ h \in Nat /\ a + h = s + f
  BY ClassTypes DEF ClassInv, ClassCounters
<1>. HIDE DEF s, f, a, h
<1>7. a + (h + 1) = (s + 1) + f
  BY <1>6
<1>. QED
  BY <1>1, <1>3, <1>5, <1>7 DEF ClassInv, s, f, a, h

LEMMA ClassFailure ==
  ASSUME TypeInv, FlagsInv, ClassInv, NEW w \in Workers,
         Goto(w, "profile", "finish"),
         job' = [job EXCEPT ![w].profileFailure = TRUE],
         counters' = counters, recorded' = recorded
  PROVE  ClassInv'
<1>0. wpc \in [Workers -> Places] /\ job \in [Workers -> Job]
  BY DEF TypeInv, TypeOK, Places
<1>1. Cardinality(At({"finish"})') = Cardinality(At({"finish"})) + 1
  BY <1>0, AtGain
<1>2. Cardinality(Pending') = Cardinality(Pending) + 1
  <2>1. Pending' = Pending \cup {w} /\ w \notin Pending
    BY <1>0 DEF Pending, Goto, Job
  <2>. QED
    BY <2>1, ClassTypes, FS_AddElement
<1>3. ProfileFailures' = ProfileFailures
  BY DEF ProfileFailures
<1>. DEFINE s == counters["profiles"] + counters["orphaned"] + counters["noOwner"]
            p == Cardinality(ProfileFailures)
            q == Cardinality(Pending)
            a == counters["completed"]
            h == Cardinality(At({"finish"}))
<1>6. s \in Nat /\ p \in Nat /\ q \in Nat /\ a \in Nat /\ h \in Nat
      /\ a + h = s + (p + q)
  BY ClassTypes DEF ClassInv, ClassCounters
<1>. HIDE DEF s, p, q, a, h
<1>7. a + (h + 1) = s + (p + (q + 1))
  BY <1>6
<1>. QED
  BY <1>1, <1>2, <1>3, <1>7 DEF ClassInv, s, p, q, a, h

LEMMA FailuresAppended ==
  ASSUME TypeInv, NEW o \in Outcome, recorded' = Append(recorded, o)
  PROVE  Cardinality(ProfileFailures') =
           Cardinality(ProfileFailures) + (IF o.profileFailure THEN 1 ELSE 0)
<1>0. recorded \in Seq(Outcome) /\ Len(recorded) \in Nat
  BY DEF TypeInv, TypeOK
<1>1. /\ Len(recorded') = Len(recorded) + 1
      /\ DOMAIN recorded' = 1..(Len(recorded) + 1)
      /\ recorded'[Len(recorded) + 1] = o
      /\ \A i \in 1..Len(recorded) : recorded'[i] = recorded[i]
      /\ DOMAIN recorded = 1..Len(recorded)
  BY <1>0
<1>2. CASE o.profileFailure
  <2>1. /\ ProfileFailures' = ProfileFailures \cup {Len(recorded) + 1}
        /\ Len(recorded) + 1 \notin ProfileFailures
    BY <1>0, <1>1, <1>2 DEF ProfileFailures
  <2>. QED
    BY <1>2, <2>1, ClassTypes, FS_AddElement
<1>3. CASE ~o.profileFailure
  <2>1. ProfileFailures' = ProfileFailures
    BY <1>0, <1>1, <1>3 DEF ProfileFailures
  <2>. QED
    BY <1>3, <2>1, ClassTypes
<1>. QED
  BY <1>2, <1>3

LEMMA ClassFinish ==
  ASSUME TypeInv, FlagsInv, ClassInv, NEW w \in Workers, FinishSite(w)
  PROVE  ClassInv'
<1>0. /\ wpc \in [Workers -> Places] /\ job \in [Workers -> Job]
      /\ wpc[w] = "finish" /\ job' = job
  BY DEF TypeInv, TypeOK, Places, FinishSite, Goto
<1>1. Cardinality(At({"finish"})') = Cardinality(At({"finish"})) - 1
  BY <1>0, AtLoss DEF FinishSite
<1>2. /\ counters'["completed"] = counters["completed"] + 1
      /\ counters'["profiles"] = counters["profiles"]
      /\ counters'["orphaned"] = counters["orphaned"]
      /\ counters'["noOwner"] = counters["noOwner"]
  BY FinishCounted, CounterNames
<1>3. Cardinality(ProfileFailures') + Cardinality(Pending') =
        Cardinality(ProfileFailures) + Cardinality(Pending)
  <2>1. CASE job[w].profileFailure
    <3>1. Pending' = Pending \ {w} /\ w \in Pending
      BY <1>0, <2>1 DEF Pending, FinishSite, Goto
    <3>2. Cardinality(Pending') = Cardinality(Pending) - 1
      BY <3>1, ClassTypes, FS_RemoveElement
    <3>3. Cardinality(ProfileFailures') = Cardinality(ProfileFailures) + 1
      <4>. DEFINE o == [site |-> job[w].site, usersFailure |-> job[w].usersFailure,
                        profileFailure |-> job[w].profileFailure,
                        usersFetched |-> job[w].usersFetched,
                        profileFetched |-> job[w].profileFetched]
      <4>1. o \in Outcome /\ o.profileFailure
        BY <1>0, <2>1, OutcomeOf
      <4>2. recorded' = Append(recorded, o)
        BY <2>1 DEF FinishSite, HasFailed, RecordODOutcome
      <4>. HIDE DEF o
      <4>. QED
        BY <4>1, <4>2, FailuresAppended
    <3>. QED
      BY <3>2, <3>3, ClassTypes
  <2>2. CASE ~job[w].profileFailure
    <3>1. Pending' = Pending
      BY <1>0, <2>2 DEF Pending, FinishSite, Goto
    <3>2. Cardinality(ProfileFailures') = Cardinality(ProfileFailures)
      <4>. DEFINE o == [site |-> job[w].site, usersFailure |-> job[w].usersFailure,
                        profileFailure |-> job[w].profileFailure,
                        usersFetched |-> job[w].usersFetched,
                        profileFetched |-> job[w].profileFetched]
      <4>1. o \in Outcome /\ ~o.profileFailure
        BY <1>0, <2>2, OutcomeOf
      <4>2. recorded' = Append(recorded, o) \/ recorded' = recorded
        BY DEF FinishSite, RecordODOutcome
      <4>. HIDE DEF o
      <4>3. CASE recorded' = Append(recorded, o)
        BY <4>1, <4>3, FailuresAppended, ClassTypes
      <4>4. CASE recorded' = recorded
        BY <4>4 DEF ProfileFailures
      <4>. QED
        BY <4>2, <4>3, <4>4
    <3>. QED
      BY <3>1, <3>2
  <2>. QED
    BY <2>1, <2>2
<1>. DEFINE s == counters["profiles"] + counters["orphaned"] + counters["noOwner"]
            f == Cardinality(ProfileFailures) + Cardinality(Pending)
            a == counters["completed"]
            h == Cardinality(At({"finish"}))
<1>6. s \in Nat /\ f \in Nat /\ a \in Nat /\ h \in Nat /\ a + h = s + f
  BY ClassTypes DEF ClassInv, ClassCounters
<1>. HIDE DEF s, f, a, h
<1>7. (a + 1) + (h - 1) = s + f
  BY <1>6
<1>8. counters'["completed"] = a + 1 /\ Cardinality(At({"finish"})') = h - 1
      /\ counters'["profiles"] + counters'["orphaned"] + counters'["noOwner"] = s
      /\ Cardinality(ProfileFailures') + Cardinality(Pending') = f
  BY <1>1, <1>2, <1>3 DEF s, f, a, h
<1>. QED
  BY <1>7, <1>8 DEF ClassInv

LEMMA ClassSame ==
  ASSUME ClassInv, At({"finish"})' = At({"finish"}), Pending' = Pending,
         recorded' = recorded,
         \A c \in ClassCounters : counters'[c] = counters[c]
  PROVE  ClassInv'
<1>1. ProfileFailures' = ProfileFailures
  BY DEF ProfileFailures
<1>2. /\ counters'["completed"] = counters["completed"]
      /\ counters'["profiles"] = counters["profiles"]
      /\ counters'["orphaned"] = counters["orphaned"]
      /\ counters'["noOwner"] = counters["noOwner"]
  BY DEF ClassCounters
<1>. QED
  BY <1>1, <1>2 DEF ClassInv

\* A worker before its last step at a site.
LEMMA ClassElsewhere ==
  ASSUME TypeInv, FlagsInv, ClassInv, NEW w \in Workers,
         \/ TakeSite(w) \/ WorkerEnds(w) \/ Acquire(w) \/ EmitSite(w)
         \/ SkipUsers(w) \/ FetchUsers(w) \/ SendUser(w) \/ UsersSent(w)
         \/ /\ Goto(w, "profile", "sendProfile")
            /\ UNCHANGED <<job, counters, recorded>>
         \/ Release(w) \/ ReturnToken(w)
  PROVE  ClassInv'
<1>0. /\ wpc \in [Workers -> Places] /\ job \in [Workers -> Job]
      /\ counters \in [Counter -> Nat]
  BY DEF TypeInv, TypeOK, Places
<1>1. /\ wpc[w] # "finish" /\ wpc'[w] # "finish" /\ recorded' = recorded
      /\ \A v \in Workers : v # w => wpc'[v] = wpc[v] /\ job'[v] = job[v]
  <2>1. CASE FetchUsers(w)
    <3>1. /\ \E p \in {"profile", "sendUsers"} : Goto(w, "users", p)
          /\ recorded' = recorded
          /\ \A v \in Workers : v # w => job'[v] = job[v]
      BY <1>0, <2>1 DEF FetchUsers
    <3>. QED
      BY <1>0, <3>1 DEF Goto
  <2>2. CASE SendUser(w)
    BY <1>0, <2>2 DEF SendUser
  <2>3. CASE TakeSite(w) \/ Release(w) \/ ReturnToken(w)
    BY <1>0, <2>3 DEF TakeSite, Release, ReturnToken, Goto, bookVars
  <2>4. CASE \/ WorkerEnds(w) \/ Acquire(w) \/ EmitSite(w) \/ SkipUsers(w)
             \/ UsersSent(w)
             \/ /\ Goto(w, "profile", "sendProfile")
                /\ UNCHANGED <<job, counters, recorded>>
    BY <1>0, <2>4 DEF WorkerEnds, Acquire, EmitSite, SkipUsers, UsersSent,
                      Goto, bookVars
  <2>. QED
    BY <2>1, <2>2, <2>3, <2>4
<1>2. At({"finish"})' = At({"finish"}) /\ Pending' = Pending
  BY <1>1 DEF At, Pending
<1>3. counters' = counters \/ Count("locked") \/ Count("users")
  BY DEF TakeSite, WorkerEnds, Acquire, EmitSite, SkipUsers, FetchUsers,
         SendUser, UsersSent, Release, ReturnToken, bookVars
<1>4. \A c \in ClassCounters : counters'[c] = counters[c]
  BY <1>0, <1>3, Counted, CounterNames DEF ClassCounters
<1>. QED
  BY <1>1, <1>2, <1>4, ClassSame

LEMMA ClassNext == TypeInv /\ FlagsInv /\ ClassInv /\ [Next]_vars => ClassInv'
<1>. SUFFICES ASSUME TypeInv, FlagsInv, ClassInv, [Next]_vars PROVE ClassInv'
  OBVIOUS
<1>1. ASSUME NEW w \in Workers, Work(w)
      PROVE  ClassInv'
  <2>1. CASE FetchProfile(w)
    BY <2>1, ClassNoOwner, ClassFailure, ClassElsewhere DEF FetchProfile
  <2>. QED
    BY <1>1, <2>1, ClassNoOwner, ClassFinish, ClassElsewhere
       DEF Work, ProcessSite
<1>2. CASE UNCHANGED <<wpc, job, recorded>>
  <2>1. At({"finish"})' = At({"finish"}) /\ Pending' = Pending
    BY <1>2 DEF At, Pending
  <2>2. CASE \A c \in ClassCounters : counters'[c] = counters[c]
    BY <1>2, <2>1, <2>2, ClassSame
  <2>3. CASE QueryPage
    BY <2>2, <2>3, PageCounted DEF ClassCounters, Counter
  <2>4. CASE CountDispatched
    BY <2>2, <2>4, ClassTypes, Counted, CounterNames
       DEF CountDispatched, ClassCounters, Counter
  <2>5. CASE counters' = counters
    BY <2>2, <2>5
  <2>6. CASE \E w \in Workers : Work(w)
    BY <1>1, <2>6
  <2>. QED
    BY <2>3, <2>4, <2>5, <2>6
       DEF Next, Enumerate, Interrupt, SendSite, StopSending, NextPage,
           CountingEnds, TokenLost, TokenBack, Stream, CollectResults,
           Returned, vars, bookVars
<1>. QED
  BY <1>1, <1>2
     DEF Next, Enumerate, Interrupt, QueryPage, SendSite, StopSending,
         NextPage, CountDispatched, CountingEnds, TokenLost, TokenBack,
         Stream, CollectResults, Returned, vars, workVars, bookVars

LEMMA ClassInit == Init => ClassInv
<1>. SUFFICES ASSUME Init PROVE ClassInv
  OBVIOUS
<1>1. At({"finish"}) = {} /\ Pending = {} /\ ProfileFailures = {}
  BY DEF Init, At, Pending, ProfileFailures
<1>2. /\ counters["completed"] = 0 /\ counters["profiles"] = 0
      /\ counters["orphaned"] = 0 /\ counters["noOwner"] = 0
  BY CounterNames DEF Init
<1>. QED
  BY <1>1, <1>2, FS_EmptySet DEF ClassInv

\* What the summary prints adds up for any tenant: every completed site has a
\* profile, or is orphaned, or has no owner, or its profile failed.
THEOREM ClassesAddUp == Spec => []SitesClassified
<1>1. TypeInv /\ ClassInv /\ EndInv => SitesClassified
  <2>. SUFFICES ASSUME TypeInv, ClassInv, EndInv, returned
                PROVE  counters["completed"] =
                         counters["profiles"] + counters["orphaned"]
                           + counters["noOwner"] + Cardinality(ProfileFailures)
    BY DEF SitesClassified
  <2>1. At({"finish"}) = {} /\ Pending = {}
    BY DEF EndInv, StreamsEnded, At, Pending
  <2>2. Cardinality(At({"finish"})) = 0 /\ Cardinality(Pending) = 0
    BY <2>1, FS_EmptySet
  <2>. QED
    BY <2>2, ClassTypes DEF ClassInv, ClassCounters
<1>. QED
  BY <1>1, TypeInvAlways, TypeInvNext, FlagsInit, FlagsNext, ClassInit,
     ClassNext, EndInit, EndNext, PTL DEF Spec

-----------------------------------------------------------------------------
(* Every failed call is in an outcome, or with the worker that has yet to  *)
(* write it.                                                               *)

Failed(r, e) ==
  \/ r.usersFailure /\ e = <<r.site, "users">>
  \/ r.profileFailure /\ e = <<r.site, "profile">>

Told(e) == \E i \in DOMAIN recorded : Failed(recorded[i], e)

Held(e) ==
  \E w \in Workers : wpc[w] # "release" /\ Failed(job[w], e)

ErrorInv ==
  /\ Len(recorded) = counters["failed"]
  /\ \A e \in Sites \X {"users", "profile"} : e \in errors <=> Told(e) \/ Held(e)

LEMMA ErrorFinish ==
  ASSUME TypeInv, ErrorInv, NEW w \in Workers, FinishSite(w)
  PROVE  ErrorInv'
<1>0. /\ wpc \in [Workers -> Places] /\ recorded \in Seq(Outcome)
      /\ Len(recorded) \in Nat /\ counters["failed"] \in Nat
  BY CounterNames DEF TypeInv, TypeOK, Places
<1>1. /\ wpc[w] = "finish" /\ wpc'[w] = "release" /\ job' = job
      /\ errors' = errors /\ \A v \in Workers : v # w => wpc'[v] = wpc[v]
  BY <1>0 DEF FinishSite, Goto
<1>. DEFINE o == [site |-> job[w].site, usersFailure |-> job[w].usersFailure,
                  profileFailure |-> job[w].profileFailure,
                  usersFetched |-> job[w].usersFetched,
                  profileFetched |-> job[w].profileFetched]
<1>2. \A e : Held(e) <=> (Failed(job[w], e) \/ Held(e)')
  BY <1>1 DEF Held, Failed
<1>3. CASE HasFailed(job[w])
  <2>1. recorded' = Append(recorded, o) /\ o \in Outcome
    BY <1>1, <1>3, OutcomeOf DEF FinishSite, RecordODOutcome
  <2>2. \A e : Failed(o, e) <=> Failed(job[w], e)
    BY DEF Failed
  <2>. HIDE DEF o
  <2>3. /\ DOMAIN recorded' = 1..(Len(recorded) + 1)
        /\ recorded'[Len(recorded) + 1] = o /\ DOMAIN recorded = 1..Len(recorded)
        /\ \A i \in 1..Len(recorded) : recorded'[i] = recorded[i]
        /\ Len(recorded') = Len(recorded) + 1
    BY <1>0, <2>1
  <2>4. \A e : Told(e)' <=> (Told(e) \/ Failed(o, e))
    <3>. TAKE e
    <3>1. ASSUME Told(e)' PROVE Told(e) \/ Failed(o, e)
      <4>1. PICK i \in DOMAIN recorded' : Failed(recorded'[i], e)
        BY <3>1 DEF Told, Failed
      <4>. QED
        BY <1>0, <2>3, <4>1 DEF Told
    <3>2. ASSUME Told(e) \/ Failed(o, e) PROVE Told(e)'
      <4>1. \E i \in DOMAIN recorded' : Failed(recorded'[i], e)
        BY <1>0, <2>3, <3>2 DEF Told
      <4>. QED
        BY <4>1 DEF Told, Failed
    <3>. QED
      BY <3>1, <3>2
  <2>5. counters'["failed"] = counters["failed"] + 1
    BY <1>3, FinishCounted
  <2>. QED
    BY <1>1, <1>2, <2>2, <2>3, <2>4, <2>5 DEF ErrorInv
<1>4. CASE ~HasFailed(job[w])
  <2>1. recorded' = recorded /\ counters'["failed"] = counters["failed"]
    BY <1>4, FinishCounted DEF FinishSite
  <2>2. \A e : ~Failed(job[w], e)
    BY <1>4 DEF HasFailed, Failed
  <2>3. \A e : Told(e)' <=> Told(e)
    BY <2>1 DEF Told, Failed
  <2>. QED
    BY <1>1, <1>2, <2>1, <2>2, <2>3 DEF ErrorInv
<1>. QED
  BY <1>3, <1>4

\* A step of the others adds to the errors what it adds to the worker's.
LEMMA ErrorWork ==
  ASSUME TypeInv, FlagsInv, ErrorInv, NEW w \in Workers, Work(w), ~FinishSite(w)
  PROVE  ErrorInv'
<1>0. /\ wpc \in [Workers -> Places] /\ job \in [Workers -> Job]
  BY DEF TypeInv, TypeOK, Places
<1>1. recorded' = recorded /\ counters'["failed"] = counters["failed"]
  <2>1. recorded' = recorded
    BY DEF Work, ProcessSite, TakeSite, WorkerEnds, Acquire, EmitSite,
           SkipUsers, FetchUsers, SendUser, UsersSent, NoOwner, FetchProfile,
           SendProfile, Release, ReturnToken, bookVars
  <2>. QED
    BY <2>1, WorkCounts DEF Core
<1>2. \A e : Told(e)' <=> Told(e)
  BY <1>1 DEF Told, Failed
<1>3. ASSUME errors' = errors, wpc[w] # "release",
             \A v \in Workers : v # w => wpc'[v] = wpc[v] /\ job'[v] = job[v],
             wpc'[w] # "release",
             \A e : Failed(job[w], e) <=> Failed(job'[w], e)
      PROVE  ErrorInv'
  <2>1. \A e : Held(e)' <=> Held(e)
    BY <1>3 DEF Held, Failed
  <2>. QED
    BY <1>1, <1>2, <1>3, <2>1 DEF ErrorInv
<1>4. CASE TakeSite(w)
  <2>1. /\ errors' = errors /\ wpc[w] = "idle" /\ wpc'[w] = "acquire"
        /\ \A v \in Workers : v # w => wpc'[v] = wpc[v] /\ job'[v] = job[v]
        /\ job'[w].usersFailure = job[w].usersFailure
        /\ job'[w].profileFailure = job[w].profileFailure
    BY <1>0, <1>4 DEF TakeSite, Goto, bookVars, Job
  <2>2. ~job[w].usersFailure /\ ~job[w].profileFailure
    BY <2>1 DEF FlagsInv
  <2>3. \A e : Failed(job[w], e) <=> Failed(job'[w], e)
    BY <2>1, <2>2 DEF Failed
  <2>. QED
    BY <1>3, <2>1, <2>3
<1>5. CASE Release(w)
  <2>1. /\ errors' = errors /\ wpc[w] = "release" /\ wpc'[w] # "release"
        /\ \A v \in Workers : v # w => wpc'[v] = wpc[v] /\ job'[v] = job[v]
        /\ ~job'[w].usersFailure /\ ~job'[w].profileFailure
    BY <1>0, <1>5 DEF Release, ReturnToken, Goto, bookVars, NoJob
  <2>2. \A e : Held(e)' <=> Held(e)
    BY <2>1 DEF Held, Failed
  <2>. QED
    BY <1>1, <1>2, <2>1, <2>2 DEF ErrorInv
<1>6. ASSUME NEW f \in {"users", "profile"},
             errors' = errors \cup {<<job[w].site, f>>},
             wpc[w] \notin {"release", "idle", "done"}, wpc'[w] # "release",
             \A v \in Workers : v # w => wpc'[v] = wpc[v] /\ job'[v] = job[v],
             \A e : Failed(job'[w], e) <=>
                      (Failed(job[w], e) \/ e = <<job[w].site, f>>)
      PROVE  ErrorInv'
  <2>1. \A e : Held(e)' <=> (Held(e) \/ e = <<job[w].site, f>>)
    BY <1>6 DEF Held, Failed
  <2>. QED
    BY <1>1, <1>2, <1>6, <2>1 DEF ErrorInv
<1>7. CASE FetchUsers(w)
  <2>1. CASE /\ Goto(w, "users", "profile")
             /\ job' = [job EXCEPT ![w].usersFailure = TRUE]
             /\ errors' = errors \cup {<<job[w].site, "users">>}
    <3>1. /\ wpc[w] = "users" /\ wpc'[w] = "profile"
          /\ \A v \in Workers : v # w => wpc'[v] = wpc[v] /\ job'[v] = job[v]
          /\ job'[w].usersFailure /\ job'[w].site = job[w].site
          /\ job'[w].profileFailure = job[w].profileFailure
          /\ ~job[w].usersFailure
      BY <1>0, <2>1 DEF Goto, Job, FlagsInv
    <3>2. \A e : Failed(job'[w], e) <=>
                   (Failed(job[w], e) \/ e = <<job[w].site, "users">>)
      BY <3>1 DEF Failed
    <3>. QED
      BY <1>6, <2>1, <3>1, <3>2
  <2>2. CASE /\ Goto(w, "users", "sendUsers")
             /\ \E n \in 0..MaxRows :
                  job' = [job EXCEPT ![w].usersFetched = n, ![w].left = n]
             /\ errors' = errors
    <3>1. /\ wpc[w] = "users" /\ wpc'[w] = "sendUsers"
          /\ \A v \in Workers : v # w => wpc'[v] = wpc[v] /\ job'[v] = job[v]
          /\ job'[w].usersFailure = job[w].usersFailure
          /\ job'[w].site = job[w].site
          /\ job'[w].profileFailure = job[w].profileFailure
      BY <1>0, <2>2 DEF Goto, Job
    <3>2. \A e : Failed(job[w], e) <=> Failed(job'[w], e)
      BY <3>1 DEF Failed
    <3>. QED
      BY <1>3, <2>2, <3>1, <3>2
  <2>. QED
    BY <1>7, <2>1, <2>2 DEF FetchUsers
<1>8. CASE FetchProfile(w)
  <2>1. CASE /\ Goto(w, "profile", "finish")
             /\ job' = [job EXCEPT ![w].profileFailure = TRUE]
             /\ errors' = errors \cup {<<job[w].site, "profile">>}
    <3>1. /\ wpc[w] = "profile" /\ wpc'[w] = "finish"
          /\ \A v \in Workers : v # w => wpc'[v] = wpc[v] /\ job'[v] = job[v]
          /\ job'[w].profileFailure /\ job'[w].site = job[w].site
          /\ job'[w].usersFailure = job[w].usersFailure
          /\ ~job[w].profileFailure
      BY <1>0, <2>1 DEF Goto, Job, FlagsInv
    <3>2. \A e : Failed(job'[w], e) <=>
                   (Failed(job[w], e) \/ e = <<job[w].site, "profile">>)
      BY <3>1 DEF Failed
    <3>. QED
      BY <1>6, <2>1, <3>1, <3>2
  <2>2. CASE /\ Goto(w, "profile", "finish") \/ Goto(w, "profile", "sendProfile")
             /\ job' = job /\ errors' = errors
    <3>1. /\ wpc[w] = "profile" /\ wpc'[w] # "release"
          /\ \A v \in Workers : v # w => wpc'[v] = wpc[v]
      BY <1>0, <2>2 DEF Goto
    <3>. QED
      BY <1>3, <2>2, <3>1
  <2>. QED
    BY <1>8, <2>1, <2>2 DEF FetchProfile
<1>9. CASE SendUser(w) \/ SendProfile(w)
  <2>1. /\ errors' = errors /\ wpc[w] # "release" /\ wpc'[w] # "release"
        /\ \A v \in Workers : v # w => wpc'[v] = wpc[v] /\ job'[v] = job[v]
        /\ job'[w].usersFailure = job[w].usersFailure
        /\ job'[w].site = job[w].site
        /\ job'[w].profileFailure = job[w].profileFailure
    BY <1>0, <1>9 DEF SendUser, SendProfile, Goto, Job
  <2>2. \A e : Failed(job[w], e) <=> Failed(job'[w], e)
    BY <2>1 DEF Failed
  <2>. QED
    BY <1>3, <2>1, <2>2
<1>10. CASE \/ ReturnToken(w)
            \/ WorkerEnds(w) \/ Acquire(w) \/ EmitSite(w) \/ SkipUsers(w)
            \/ UsersSent(w) \/ NoOwner(w)
  <2>1. /\ errors' = errors /\ wpc[w] # "release" /\ wpc'[w] # "release"
        /\ job' = job /\ \A v \in Workers : v # w => wpc'[v] = wpc[v]
    BY <1>0, <1>10 DEF WorkerEnds, Acquire, EmitSite, SkipUsers, UsersSent,
                       NoOwner, ReturnToken, Goto, bookVars
  <2>. QED
    BY <1>3, <2>1
<1>. QED
  BY <1>4, <1>5, <1>7, <1>8, <1>9, <1>10 DEF Work, ProcessSite

LEMMA ErrorNext == TypeInv /\ FlagsInv /\ ErrorInv /\ [Next]_vars => ErrorInv'
<1>. SUFFICES ASSUME TypeInv, FlagsInv, ErrorInv, [Next]_vars PROVE ErrorInv'
  OBVIOUS
<1>1. CASE \E w \in Workers : Work(w)
  BY <1>1, ErrorFinish, ErrorWork
<1>2. CASE UNCHANGED <<wpc, job, recorded, errors>>
  <2>1. \A e : (Told(e)' <=> Told(e)) /\ (Held(e)' <=> Held(e))
    BY <1>2 DEF Told, Held, Failed
  <2>2. counters'["failed"] = counters["failed"]
    <3>1. CASE QueryPage
      BY <3>1, PageCounted, CounterNames
    <3>2. CASE CountDispatched
      BY <3>2, Counted, CounterNames DEF CountDispatched, TypeInv, TypeOK
    <3>3. CASE counters' = counters
      BY <3>3
    <3>4. CASE \E w \in Workers : FinishSite(w)
      BY <1>2, <3>4 DEF FinishSite, Goto, TypeInv, TypeOK
    <3>5. CASE \E w \in Workers : Work(w) /\ ~FinishSite(w)
      BY <3>5, WorkCounts DEF Core
    <3>. QED
      BY <3>1, <3>2, <3>3, <3>4, <3>5
         DEF Next, Enumerate, Interrupt, SendSite, StopSending, NextPage,
             CountingEnds, TokenLost, TokenBack, Stream, CollectResults,
             Returned, vars, bookVars
  <2>. QED
    BY <1>2, <2>1, <2>2 DEF ErrorInv
<1>. QED
  BY <1>1, <1>2
     DEF Next, Enumerate, Interrupt, QueryPage, SendSite, StopSending,
         NextPage, CountDispatched, CountingEnds, TokenLost, TokenBack,
         Stream, CollectResults, Returned, vars, workVars, bookVars

LEMMA ErrorInit == Init => ErrorInv
<1>. SUFFICES ASSUME Init PROVE ErrorInv
  OBVIOUS
<1>1. Len(recorded) = 0 /\ counters["failed"] = 0
  BY CounterNames DEF Init
<1>2. \A e : ~Told(e) /\ ~Held(e)
  BY DEF Init, Told, Held, Failed, NoJob
<1>3. errors = {}
  BY DEF Init
<1>. QED
  BY <1>1, <1>2, <1>3 DEF ErrorInv

\* Every API call that failed is in an outcome when Process returns, and no
\* outcome says more.
THEOREM FailuresTold == Spec => []FailuresRecorded
<1>1. TypeInv /\ FlagsInv /\ ErrorInv /\ EndInv => FailuresRecorded
  <2>. SUFFICES ASSUME TypeInv, FlagsInv, ErrorInv, EndInv, returned
                PROVE  /\ Len(recorded) = counters["failed"]
                       /\ errors =
                            {<<recorded[i].site, "users">> :
                               i \in {k \in DOMAIN recorded :
                                        recorded[k].usersFailure}}
                            \cup {<<recorded[i].site, "profile">> :
                                    i \in ProfileFailures}
    BY DEF FailuresRecorded
  <2>1. \A e : ~Held(e)
    BY DEF EndInv, StreamsEnded, FlagsInv, Held, Failed
  <2>2. \A i \in DOMAIN recorded : recorded[i].site \in Sites
    <3>1. recorded \in Seq(Outcome)
      BY DEF TypeInv, TypeOK
    <3>2. \A i \in DOMAIN recorded : recorded[i] \in Outcome
      BY <3>1
    <3>. QED
      BY <3>2 DEF Outcome
  <2>3. \A e : Told(e) => e \in Sites \X {"users", "profile"}
    BY <2>2 DEF Told, Failed
  <2>4. \A e : e \in errors <=> Told(e)
    BY <2>1, <2>3 DEF ErrorInv, TypeInv, TypeOK
  <2>5. Len(recorded) = counters["failed"]
    BY DEF ErrorInv
  <2>6. \A e : e \in errors <=>
          \/ \E i \in DOMAIN recorded :
               recorded[i].usersFailure /\ e = <<recorded[i].site, "users">>
          \/ \E i \in DOMAIN recorded :
               recorded[i].profileFailure /\ e = <<recorded[i].site, "profile">>
    BY <2>4, Zenon DEF Told, Failed
  <2>. QED
    BY <2>5, <2>6, Zenon DEF ProfileFailures
<1>. QED
  BY <1>1, TypeInvAlways, TypeInvNext, FlagsInit, FlagsNext, ErrorInit,
     ErrorNext, EndInit, EndNext, PTL DEF Spec

-----------------------------------------------------------------------------
(* The rows of users and profiles: what has been counted is written, or in *)
(* the channel of its table.                                               *)

RowsOf(c) == UNION {{s} \X (1..written[c][s]) : s \in Sites}

Fetched == {"users", "profiles"}

RowInv ==
  \A c \in Fetched : /\ IsFiniteSet(RowsOf(c))
                  /\ Cardinality(RowsOf(c)) + Len(chan[c]) = counters[c]

LEMMA FetchedNames ==
  /\ Fetched \subseteq Tables /\ Fetched \subseteq Counter /\ Fetched \subseteq Channels
  /\ "raw" \notin Fetched /\ "counted" \notin Fetched /\ "sites" \notin Fetched
BY DEF Fetched, Tables, Counter, Channels

LEMMA RowTypes ==
  ASSUME TypeInv, RowInv, NEW c \in Fetched
  PROVE  /\ Len(chan[c]) \in Nat /\ Cardinality(RowsOf(c)) \in Nat
         /\ counters[c] \in Nat
<1>1. chan[c] \in Seq(Sites) /\ counters \in [Counter -> Nat]
  BY FetchedNames DEF TypeInv, TypeOK
<1>2. Cardinality(RowsOf(c)) \in Nat
  BY FS_CardinalityType DEF RowInv
<1>. QED
  BY <1>1, <1>2, FetchedNames, LenProperties

LEMMA RowSame ==
  ASSUME RowInv, NEW c \in Fetched, written'[c] = written[c],
         chan'[c] = chan[c], counters'[c] = counters[c]
  PROVE  /\ IsFiniteSet(RowsOf(c)')
         /\ Cardinality(RowsOf(c)') + Len(chan'[c]) = counters'[c]
<1>1. RowsOf(c)' = RowsOf(c)
  BY DEF RowsOf
<1>. QED
  BY <1>1 DEF RowInv

\* A stream makes one row of the item it takes.
LEMMA RowStream ==
  ASSUME TypeInv, RowInv, NEW c \in Fetched, Stream(c)
  PROVE  RowInv'
<1>. DEFINE s == Head(chan[c])
<1>0. /\ written \in [Tables -> [Sites -> Nat]] /\ ChanOK(chan)
      /\ c \in Channels /\ c \in Tables /\ s \in Sites
      /\ Len(chan'[c]) = Len(chan[c]) - 1
      /\ \A d \in Fetched : d # c => chan'[d] = chan[d]
  BY FetchedNames, Popped DEF TypeInv, TypeOK, ChanOK, Stream
<1>1. counters' = counters
  BY DEF Stream, bookVars
<1>. HIDE DEF s
<1>2. /\ \A d \in Fetched : d # c => written'[d] = written[d]
      /\ written'[c][s] = written[c][s] + 1 /\ written[c][s] \in Nat
      /\ \A t \in Sites : t # s => written'[c][t] = written[c][t]
  BY <1>0, FetchedNames DEF Stream, s
<1>. DEFINE k == <<s, written[c][s] + 1>>
<1>3. RowsOf(c)' = RowsOf(c) \cup {k} /\ k \notin RowsOf(c)
  <2>1. \A n : n \in 1..(written[c][s] + 1) <=>
                 (n \in 1..written[c][s] \/ n = written[c][s] + 1)
    BY <1>2
  <2>2. \A x : x \in RowsOf(c) <=>
                 \E t \in Sites : \E n \in 1..written[c][t] : x = <<t, n>>
    BY DEF RowsOf
  <2>3. \A x : x \in RowsOf(c)' <=>
                 \E t \in Sites : \E n \in 1..written'[c][t] : x = <<t, n>>
    BY DEF RowsOf
  <2>4. ASSUME NEW x, x \in RowsOf(c)' PROVE x \in RowsOf(c) \cup {k}
    <3>1. PICK t \in Sites : \E n \in 1..written'[c][t] : x = <<t, n>>
      BY <2>3, <2>4
    <3>2. PICK n \in 1..written'[c][t] : x = <<t, n>>
      BY <3>1
    <3>. QED
      BY <1>0, <1>2, <2>1, <2>2, <3>2
  <2>5. ASSUME NEW x, x \in RowsOf(c) PROVE x \in RowsOf(c)'
    <3>1. PICK t \in Sites : \E n \in 1..written[c][t] : x = <<t, n>>
      BY <2>2, <2>5
    <3>2. PICK n \in 1..written[c][t] : x = <<t, n>>
      BY <3>1
    <3>. QED
      BY <1>0, <1>2, <2>1, <2>3, <3>2
  <2>6. k \in RowsOf(c)'
    BY <1>0, <1>2, <2>1, <2>3
  <2>7. k \notin RowsOf(c)
    BY <1>2, <2>2
  <2>. QED
    BY <2>4, <2>5, <2>6, <2>7
<1>. HIDE DEF k
<1>4. /\ IsFiniteSet(RowsOf(c)')
      /\ Cardinality(RowsOf(c)') = Cardinality(RowsOf(c)) + 1
  BY <1>3, FS_AddElement DEF RowInv
<1>5. Cardinality(RowsOf(c)') + Len(chan'[c]) = counters'[c]
  <2>. DEFINE a == Cardinality(RowsOf(c))
              b == Len(chan[c])
  <2>1. a \in Nat /\ b \in Nat /\ a + b = counters[c]
    BY RowTypes DEF RowInv
  <2>2. Cardinality(RowsOf(c)') = a + 1 /\ Len(chan'[c]) = b - 1
    BY <1>0, <1>4
  <2>. HIDE DEF a, b
  <2>. QED
    BY <1>1, <2>1, <2>2
<1>6. ASSUME NEW d \in Fetched, d # c
      PROVE  /\ IsFiniteSet(RowsOf(d)')
             /\ Cardinality(RowsOf(d)') + Len(chan'[d]) = counters'[d]
  BY <1>0, <1>1, <1>2, <1>6, RowSame
<1>. QED
  BY <1>4, <1>5, <1>6 DEF RowInv

\* A worker counts a row when it sends it.
LEMMA RowPushed ==
  ASSUME TypeInv, RowInv, written' = written, NEW c \in Fetched,
         NEW s \in Sites, Room(c), chan' = Push(chan, c, s), Count(c)
  PROVE  RowInv'
<1>1. /\ Len(chan'[c]) = Len(chan[c]) + 1
      /\ \A d \in Fetched : d # c => chan'[d] = chan[d]
  <2>1. ChanOK(chan) /\ Len(chan[c]) < Cap[c]
    BY DEF TypeInv, TypeOK, ChanOK, Room
  <2>. QED
    BY <2>1, FetchedNames, Pushed
<1>2. /\ counters'[c] = counters[c] + 1
      /\ \A d \in Fetched : d # c => counters'[d] = counters[d]
  BY FetchedNames, Counted DEF TypeInv, TypeOK
<1>3. RowsOf(c)' = RowsOf(c)
  BY DEF RowsOf
<1>4. Cardinality(RowsOf(c)') + Len(chan'[c]) = counters'[c]
  <2>. DEFINE a == Cardinality(RowsOf(c))
              b == Len(chan[c])
  <2>1. a \in Nat /\ b \in Nat /\ a + b = counters[c]
    BY RowTypes DEF RowInv
  <2>2. Cardinality(RowsOf(c)') = a /\ Len(chan'[c]) = b + 1
    BY <1>1, <1>3
  <2>. HIDE DEF a, b
  <2>. QED
    BY <1>2, <2>1, <2>2
<1>. QED
  BY <1>1, <1>2, <1>3, <1>4, RowSame DEF RowInv

LEMMA RowWork ==
  ASSUME TypeInv, RowInv, NEW w \in Workers, Work(w)
  PROVE  RowInv'
<1>0. counters \in [Counter -> Nat] /\ ChanOK(chan) /\ written' = written
  BY WorkFrame DEF TypeInv, TypeOK, ChanOK
<1>1. CASE SendUser(w) \/ SendProfile(w)
  <2>1. job[w].site \in Sites
    BY <1>1 DEF SendUser, SendProfile, Goto, TypeInv, FreePlaces
  <2>2. \E c \in Fetched : /\ Room(c) /\ chan' = Push(chan, c, job[w].site)
                        /\ Count(c)
    BY <1>1 DEF SendUser, SendProfile, Fetched
  <2>. QED
    BY <1>0, <2>1, <2>2, RowPushed
<1>2. ASSUME \A c \in Fetched : chan'[c] = chan[c] /\ counters'[c] = counters[c]
      PROVE  RowInv'
  BY <1>0, <1>2, RowSame DEF RowInv
<1>3. CASE EmitSite(w)
  <2>1. job[w].site \in Sites /\ Len(chan["sites"]) < Cap["sites"]
    BY <1>3 DEF EmitSite, Goto, TypeInv, FreePlaces, Room
  <2>2. \A c \in Fetched : chan'[c] = chan[c]
    BY <1>0, <1>3, <2>1, FetchedNames, ChannelNames, Pushed DEF EmitSite
  <2>. QED
    BY <1>2, <1>3, <2>2 DEF EmitSite, bookVars
<1>4. CASE FinishSite(w)
  <2>1. \A c \in Fetched : c \in Counter \ {"completed", "succeeded", "failed"}
    BY FetchedNames DEF Fetched
  <2>. QED
    BY <1>2, <1>4, <2>1, FinishCounted DEF FinishSite
<1>5. CASE \/ TakeSite(w) \/ WorkerEnds(w) \/ Acquire(w) \/ SkipUsers(w)
           \/ FetchUsers(w) \/ UsersSent(w) \/ NoOwner(w) \/ FetchProfile(w)
           \/ Release(w) \/ ReturnToken(w)
  <2>1. counters' = counters \/ \E c \in {"locked", "noOwner", "orphaned"} : Count(c)
    BY <1>5 DEF TakeSite, WorkerEnds, Acquire, SkipUsers, FetchUsers,
                UsersSent, NoOwner, FetchProfile, Release, ReturnToken, bookVars
  <2>2. \A c \in Fetched : counters'[c] = counters[c]
    BY <1>0, <2>1, Counted DEF Fetched, Counter
  <2>3. \A c \in Fetched : chan'[c] = chan[c]
    <3>1. CASE TakeSite(w)
      BY <1>0, <3>1, FetchedNames, ChannelNames, Popped DEF TakeSite
    <3>2. CASE chan' = chan
      BY <3>2
    <3>. QED
      BY <1>5, <3>1, <3>2
         DEF WorkerEnds, Acquire, SkipUsers, FetchUsers, UsersSent, NoOwner,
             FetchProfile, Release, ReturnToken
  <2>. QED
    BY <1>2, <2>2, <2>3
<1>. QED
  BY <1>1, <1>3, <1>4, <1>5 DEF Work, ProcessSite

LEMMA RowNext == TypeInv /\ RowInv /\ [Next]_vars => RowInv'
<1>. SUFFICES ASSUME TypeInv, RowInv, [Next]_vars PROVE RowInv'
  OBVIOUS
<1>0. /\ ChanOK(chan) /\ counters \in [Counter -> Nat]
      /\ written \in [Tables -> [Sites -> Nat]]
  BY DEF TypeInv, TypeOK, ChanOK
<1>1. CASE \E w \in Workers : Work(w)
  BY <1>1, RowWork
<1>2. CASE \E c \in Fetched : Stream(c)
  BY <1>2, RowStream
<1>3. ASSUME \A c \in Fetched : /\ chan'[c] = chan[c] /\ written'[c] = written[c]
                             /\ counters'[c] = counters[c]
      PROVE  RowInv'
  BY <1>3, RowSame DEF RowInv
<1>4. CASE Stream("sites")
  BY <1>0, <1>3, <1>4, FetchedNames, ChannelNames, Popped DEF Stream, bookVars
<1>5. CASE QueryPage
  BY <1>3, <1>5, PageCounted DEF QueryPage, outVars, Fetched, Counter
<1>6. CASE SendSite
  <2>1. Listing[pos + 1] \in Sites
    BY <1>6, ListingFacts, PageEndType DEF SendSite, TypeInv, TypeOK
  <2>2. \A c \in Fetched : chan'[c] = chan[c]
    BY <1>0, <1>6, <2>1, FetchedNames, ChannelNames, Pushed DEF SendSite, Room
  <2>. QED
    BY <1>3, <1>6, <2>2 DEF SendSite, bookVars, outVars
<1>7. CASE CountDispatched
  <2>1. /\ ChanOK(Pop(chan, "raw")) /\ Head(chan["raw"]) \in Sites
        /\ \A c \in Fetched : Pop(chan, "raw")[c] = chan[c]
    BY <1>0, <1>7, FetchedNames, ChannelNames, Popped DEF CountDispatched
  <2>2. \A c \in Fetched :
          Push(Pop(chan, "raw"), "counted", Head(chan["raw"]))[c] = chan[c]
    BY <2>1, FetchedNames DEF Push, ChanOK
  <2>3. \A c \in Fetched : counters'[c] = counters[c]
    BY <1>0, <1>7, Counted, CounterNames DEF CountDispatched, Fetched, Counter
  <2>. QED
    BY <1>3, <1>7, <2>2, <2>3 DEF CountDispatched, outVars
<1>8. CASE UNCHANGED <<written, chan, counters>>
  BY <1>3, <1>8
<1>9. \A c \in Tables : c = "sites" \/ c \in Fetched
  BY DEF Tables, Fetched
<1>. QED
  BY <1>1, <1>2, <1>4, <1>5, <1>6, <1>7, <1>8, <1>9
     DEF Next, Enumerate, Interrupt, StopSending, NextPage, CountingEnds,
         TokenLost, TokenBack, CollectResults, Returned, vars, workVars,
         bookVars, outVars

LEMMA RowInit == Init => RowInv
<1>. SUFFICES ASSUME Init, NEW c \in Fetched
              PROVE  /\ IsFiniteSet(RowsOf(c))
                     /\ Cardinality(RowsOf(c)) + Len(chan[c]) = counters[c]
  BY DEF RowInv
<1>1. \A s \in Sites : written[c][s] = 0
  BY FetchedNames DEF Init
<1>2. RowsOf(c) = {}
  BY <1>1 DEF RowsOf
<1>3. Len(chan[c]) = 0 /\ counters[c] = 0
  BY FetchedNames DEF Init
<1>. QED
  BY <1>2, <1>3, FS_EmptySet

-----------------------------------------------------------------------------
(* The row of a site, from the list over a worker to the table.            *)

One(b) == IF b THEN 1 ELSE 0

On(c, s) == {i \in DOMAIN chan[c] : chan[c][i] = s}

\* The workers that have a site and have not sent its row.
Holders(s) == {w \in Workers : wpc[w] \in {"acquire", "emit"} /\ job[w].site = s}

\* Every time the list names a site, the site is in one place on this way.
RouteInv ==
  \A s \in Sites :
    written["sites"][s] + Cardinality(On("sites", s)) + Cardinality(Holders(s))
      + Cardinality(On("counted", s)) + Cardinality(On("raw", s))
        = Cardinality(Listed(s))

LEMMA OnType ==
  ASSUME TypeInv, NEW c \in Channels, NEW s \in Sites
  PROVE  IsFiniteSet(On(c, s)) /\ Cardinality(On(c, s)) \in Nat
<1>1. Len(chan[c]) \in Int /\ DOMAIN chan[c] = 1..Len(chan[c])
  BY DEF TypeInv, TypeOK
<1>2. IsFiniteSet(1..Len(chan[c])) /\ On(c, s) \subseteq 1..Len(chan[c])
  BY <1>1, FS_Interval DEF On
<1>. QED
  BY <1>2, FS_Subset, FS_CardinalityType

LEMMA OnSent ==
  ASSUME TypeInv, NEW c \in Channels, NEW s \in Sites, NEW x \in Sites,
         chan'[c] = Append(chan[c], x)
  PROVE  Cardinality(On(c, s)') = Cardinality(On(c, s)) + One(s = x)
<1>1. chan[c] \in Seq(Sites)
  BY DEF TypeInv, TypeOK
<1>. DEFINE n == Len(chan[c])
<1>2. /\ n \in Nat /\ DOMAIN chan[c] = 1..n /\ DOMAIN chan'[c] = 1..(n + 1)
      /\ chan'[c][n + 1] = x /\ \A i \in 1..n : chan'[c][i] = chan[c][i]
  BY <1>1
<1>. HIDE DEF n
<1>3. On(c, s)' = On(c, s) \cup (IF s = x THEN {n + 1} ELSE {})
  BY <1>2 DEF On
<1>4. n + 1 \notin On(c, s)
  BY <1>2 DEF On
<1>5. CASE s = x
  BY <1>3, <1>4, <1>5, OnType, FS_AddElement DEF One
<1>6. CASE s # x
  <2>1. On(c, s)' = On(c, s) /\ One(s = x) = 0
    BY <1>3, <1>6 DEF One
  <2>. QED
    BY <2>1, OnType
<1>. QED
  BY <1>5, <1>6

LEMMA OnTaken ==
  ASSUME TypeInv, NEW c \in Channels, NEW s \in Sites,
         chan[c] # <<>>, chan'[c] = Tail(chan[c])
  PROVE  Cardinality(On(c, s)') = Cardinality(On(c, s)) - One(s = Head(chan[c]))
<1>. DEFINE q == chan[c]
            n == Len(chan[c])
<1>1. q \in Seq(Sites) /\ q # <<>> /\ chan'[c] = Tail(q)
  BY DEF TypeInv, TypeOK
<1>2. /\ n \in Nat \ {0} /\ DOMAIN q = 1..n /\ Head(q) = q[1] /\ Head(q) \in Sites
      /\ DOMAIN Tail(q) = 1..(n - 1)
      /\ \A i \in 1..(n - 1) : Tail(q)[i] = q[i + 1]
  BY <1>1
<1>. DEFINE rest  == On(c, s) \ {1}
            moved == On(c, s)'
            shift == [i \in moved |-> i + 1]
<1>4. moved = {i \in 1..(n - 1) : q[i + 1] = s}
  BY <1>1, <1>2 DEF On
<1>5. rest = {i \in 2..n : q[i] = s}
  BY <1>2 DEF On
<1>6. shift \in Bijection(moved, rest)
  <2>1. \A i \in moved : i + 1 \in rest
    BY <1>2, <1>4, <1>5
  <2>2. \A m \in rest : m - 1 \in moved /\ (m - 1) + 1 = m
    BY <1>2, <1>4, <1>5
  <2>3. \A i, j \in moved : i + 1 = j + 1 => i = j
    BY <1>2, <1>4
  <2>. HIDE DEF moved, rest
  <2>4. shift \in [moved -> rest]
    BY <2>1
  <2>5. \A i, j \in moved : shift[i] = shift[j] => i = j
    BY <2>3
  <2>6. \A m \in rest : \E i \in moved : shift[i] = m
    BY <2>2
  <2>. QED
    BY <2>4, <2>5, <2>6, Fun_IsBij
<1>7. IsFiniteSet(rest) /\ Cardinality(rest) = Cardinality(On(c, s)) - One(s = Head(q))
  <2>1. 1 \in On(c, s) <=> s = Head(q)
    BY <1>2 DEF On
  <2>. DEFINE old == On(c, s)
  <2>0. IsFiniteSet(old) /\ Cardinality(old) \in Nat /\ (1 \in old <=> s = Head(q))
    BY <2>1, OnType
  <2>. HIDE DEF old
  <2>2. CASE s = Head(q)
    <3>1. One(s = Head(q)) = 1
      BY <2>2 DEF One
    <3>2. IsFiniteSet(old \ {1}) /\ Cardinality(old \ {1}) = Cardinality(old) - 1
      BY <2>0, <2>2, FS_RemoveElement
    <3>. QED
      BY <3>1, <3>2 DEF old
  <2>3. CASE s # Head(q)
    <3>1. One(s = Head(q)) = 0
      BY <2>3 DEF One
    <3>2. old \ {1} = old /\ Cardinality(old) - 0 = Cardinality(old)
      BY <2>0, <2>3
    <3>. QED
      BY <2>0, <3>1, <3>2 DEF old
  <2>. QED
    BY <2>2, <2>3
<1>8. Cardinality(moved) = Cardinality(rest)
  <2>1. IsFiniteSet(moved)
    <3>1. moved \subseteq 1..(n - 1) /\ n - 1 \in Int /\ 1 \in Int
      BY <1>2, <1>4
    <3>. HIDE DEF moved, n
    <3>. QED
      BY <3>1, FS_Interval, FS_Subset
  <2>. HIDE DEF moved, rest, shift
  <2>. QED
    BY <1>6, <1>7, <2>1, FS_Bijection DEF ExistsBijection
<1>. QED
  BY <1>7, <1>8

LEMMA ListedType ==
  ASSUME TypeInv, NEW s \in Sites
  PROVE  IsFiniteSet(Listed(s)) /\ Cardinality(Listed(s)) \in Nat
<1>1. pos \in Int
  BY ListingFacts DEF TypeInv, TypeOK
<1>2. IsFiniteSet(1..pos) /\ Listed(s) \subseteq 1..pos
  BY <1>1, FS_Interval DEF Listed
<1>. QED
  BY <1>2, FS_Subset, FS_CardinalityType

LEMMA ListedMore ==
  ASSUME TypeInv, SendSite, NEW s \in Sites
  PROVE  Cardinality(Listed(s)') = Cardinality(Listed(s)) + One(s = Listing[pos + 1])
<1>1. pos' = pos + 1 /\ pos \in Nat
  BY ListingFacts DEF SendSite, TypeInv, TypeOK
<1>2. Listed(s)' = Listed(s) \cup (IF s = Listing[pos + 1] THEN {pos + 1} ELSE {})
  BY <1>1 DEF Listed
<1>3. pos + 1 \notin Listed(s)
  BY <1>1 DEF Listed
<1>4. CASE s = Listing[pos + 1]
  BY <1>2, <1>3, <1>4, ListedType, FS_AddElement DEF One
<1>5. CASE s # Listing[pos + 1]
  <2>1. Listed(s)' = Listed(s) /\ One(s = Listing[pos + 1]) = 0
    BY <1>2, <1>5 DEF One
  <2>. QED
    BY <2>1, ListedType
<1>. QED
  BY <1>4, <1>5

LEMMA HoldersType ==
  ASSUME NEW s
  PROVE  IsFiniteSet(Holders(s)) /\ Cardinality(Holders(s)) \in Nat
<1>1. IsFiniteSet(Holders(s))
  BY WorkersCount, FS_Subset DEF Holders
<1>. QED
  BY <1>1, FS_CardinalityType

LEMMA HoldersTake ==
  ASSUME TypeInv, NEW w \in Workers, TakeSite(w), NEW s \in Sites
  PROVE  Cardinality(Holders(s)')
           = Cardinality(Holders(s)) + One(s = Head(chan["counted"]))
<1>. DEFINE h == Head(chan["counted"])
<1>1. /\ wpc[w] = "idle" /\ wpc'[w] = "acquire" /\ job'[w].site = h
      /\ \A v \in Workers : v # w => wpc'[v] = wpc[v] /\ job'[v] = job[v]
  BY DEF TakeSite, Goto, TypeInv, TypeOK, Job
<1>. HIDE DEF h
<1>2. Holders(s)' = Holders(s) \cup (IF s = h THEN {w} ELSE {})
  BY <1>1 DEF Holders
<1>3. w \notin Holders(s)
  BY <1>1 DEF Holders
<1>4. CASE s = h
  <2>1. One(s = h) = 1 /\ Holders(s)' = Holders(s) \cup {w}
    BY <1>2, <1>4 DEF One
  <2>. QED
    BY <1>3, <2>1, HoldersType, FS_AddElement DEF h
<1>5. CASE s # h
  <2>1. One(s = h) = 0 /\ Holders(s)' = Holders(s)
    BY <1>2, <1>5 DEF One
  <2>. QED
    BY <2>1, HoldersType DEF h
<1>. QED
  BY <1>4, <1>5

LEMMA HoldersEmit ==
  ASSUME TypeInv, NEW w \in Workers, EmitSite(w), NEW s \in Sites
  PROVE  Cardinality(Holders(s)') = Cardinality(Holders(s)) - One(s = job[w].site)
<1>1. /\ wpc[w] = "emit" /\ wpc'[w] = "users" /\ job' = job
      /\ \A v \in Workers : v # w => wpc'[v] = wpc[v]
  BY DEF EmitSite, Goto, TypeInv, TypeOK
<1>2. CASE s = job[w].site
  <2>1. /\ One(s = job[w].site) = 1 /\ w \in Holders(s)
        /\ Holders(s)' = Holders(s) \ {w}
    BY <1>1, <1>2 DEF One, Holders
  <2>. QED
    BY <2>1, HoldersType, FS_RemoveElement
<1>3. CASE s # job[w].site
  <2>1. One(s = job[w].site) = 0 /\ Holders(s)' = Holders(s)
    BY <1>1, <1>3 DEF One, Holders
  <2>. QED
    BY <2>1, HoldersType
<1>. QED
  BY <1>2, <1>3

\* Whatever else a worker does, it neither comes to hold a site nor sends its row.
LEMMA HoldersSame ==
  ASSUME TypeInv, NEW w \in Workers, Work(w), ~TakeSite(w), ~EmitSite(w)
  PROVE  \A s \in Sites : Holders(s)' = Holders(s)
<1>1. CASE Acquire(w)
  BY <1>1 DEF Acquire, Goto, Holders, TypeInv, TypeOK
<1>2. CASE ~Acquire(w)
  <2>1. /\ wpc[w] \notin {"acquire", "emit"} /\ wpc'[w] \notin {"acquire", "emit"}
        /\ \A v \in Workers : v # w => wpc'[v] = wpc[v]
    BY <1>2 DEF Work, ProcessSite, WorkerEnds, SkipUsers, FetchUsers, SendUser,
                UsersSent, NoOwner, FetchProfile, SendProfile, FinishSite,
                Release, ReturnToken, Goto, TypeInv, TypeOK
  <2>2. \A v \in Workers : v # w => job'[v] = job[v]
    BY <1>2 DEF Work, ProcessSite, WorkerEnds, SkipUsers, FetchUsers, SendUser,
                UsersSent, NoOwner, FetchProfile, SendProfile, FinishSite,
                Release, ReturnToken, TypeInv, TypeOK
  <2>. QED
    BY <2>1, <2>2 DEF Holders
<1>. QED
  BY <1>1, <1>2

LEMMA RouteTypes ==
  ASSUME TypeInv, NEW s \in Sites
  PROVE  /\ written["sites"][s] \in Nat /\ Cardinality(On("sites", s)) \in Nat
         /\ Cardinality(Holders(s)) \in Nat
         /\ Cardinality(On("counted", s)) \in Nat
         /\ Cardinality(On("raw", s)) \in Nat /\ Cardinality(Listed(s)) \in Nat
<1>1. written["sites"][s] \in Nat
  BY DEF TypeInv, TypeOK, Tables
<1>. QED
  BY <1>1, ChannelNames, OnType, HoldersType, ListedType

\* Only the worker that emits a site, and its stream, touch the channel of sites.
LEMMA SitesChan ==
  ASSUME TypeInv, [Next]_vars, ~Stream("sites"),
         ~\E w \in Workers : EmitSite(w)
  PROVE  chan'["sites"] = chan["sites"] /\ written'["sites"] = written["sites"]
<1>0. ChanOK(chan) /\ written \in [Tables -> [Sites -> Nat]]
  BY DEF TypeInv, TypeOK, ChanOK
<1>1. CASE SendSite
  <2>1. Listing[pos + 1] \in Sites
    BY <1>1, ListingFacts, PageEndType DEF SendSite, TypeInv, TypeOK
  <2>. QED
    BY <1>0, <1>1, <2>1, ChannelNames, Pushed DEF SendSite, Room, outVars
<1>2. CASE CountDispatched
  <2>1. /\ ChanOK(Pop(chan, "raw")) /\ Head(chan["raw"]) \in Sites
        /\ Pop(chan, "raw")["sites"] = chan["sites"]
    BY <1>0, <1>2, ChannelNames, Popped DEF CountDispatched
  <2>2. Push(Pop(chan, "raw"), "counted", Head(chan["raw"]))["sites"] = chan["sites"]
    BY <2>1, ChannelNames DEF Push, ChanOK
  <2>. QED
    BY <1>2, <2>2 DEF CountDispatched, outVars
<1>3. ASSUME NEW w \in Workers, Work(w)
      PROVE  chan'["sites"] = chan["sites"] /\ written'["sites"] = written["sites"]
  <2>0. written' = written /\ ~EmitSite(w)
    BY <1>3, WorkFrame
  <2>1. CASE TakeSite(w)
    BY <1>0, <2>0, <2>1, ChannelNames, Popped DEF TakeSite
  <2>2. CASE SendUser(w) \/ SendProfile(w)
    <3>1. job[w].site \in Sites
      BY <2>2 DEF SendUser, SendProfile, Goto, TypeInv, FreePlaces
    <3>2. \E c \in {"users", "profiles"} :
             Room(c) /\ chan' = Push(chan, c, job[w].site)
      BY <2>2 DEF SendUser, SendProfile
    <3>. QED
      BY <1>0, <2>0, <3>1, <3>2, ChannelNames, Pushed DEF Room
  <2>3. CASE chan' = chan
    BY <2>0, <2>3
  <2>. QED
    BY <1>3, <2>0, <2>1, <2>2, <2>3
       DEF Work, ProcessSite, WorkerEnds, Acquire, SkipUsers, FetchUsers,
           UsersSent, NoOwner, FetchProfile, FinishSite, Release, ReturnToken
<1>4. ASSUME NEW c \in Tables, Stream(c), c # "sites"
      PROVE  chan'["sites"] = chan["sites"] /\ written'["sites"] = written["sites"]
  BY <1>0, <1>4, ChannelNames, Popped DEF Stream, Tables
<1>5. CASE UNCHANGED <<chan, written>>
  BY <1>5
<1>. QED
  BY <1>1, <1>2, <1>3, <1>4, <1>5
     DEF Next, Enumerate, QueryPage, Interrupt, StopSending, NextPage,
         CountingEnds, TokenLost, TokenBack, CollectResults, Returned, vars,
         outVars

LEMMA RouteNext == TypeInv /\ RouteInv /\ [Next]_vars => RouteInv'
<1>. SUFFICES ASSUME TypeInv, RouteInv, [Next]_vars, NEW s \in Sites
     PROVE  written'["sites"][s] + Cardinality(On("sites", s)')
              + Cardinality(Holders(s)') + Cardinality(On("counted", s)')
              + Cardinality(On("raw", s)') = Cardinality(Listed(s)')
  BY DEF RouteInv
<1>. DEFINE n == written["sites"][s]
            t == Cardinality(On("sites", s))
            h == Cardinality(Holders(s))
            q == Cardinality(On("counted", s))
            r == Cardinality(On("raw", s))
            l == Cardinality(Listed(s))
<1>0. /\ n \in Nat /\ t \in Nat /\ h \in Nat /\ q \in Nat /\ r \in Nat /\ l \in Nat
      /\ n + t + h + q + r = l
  BY RouteTypes DEF RouteInv
<1>. DEFINE Moved(x) == One(s = x)
<1>7. ChanOK(chan) /\ \A x : Moved(x) \in Nat
  BY DEF One, TypeInv, TypeOK, ChanOK
<1>1. CASE SendSite
  <2>1. /\ Listing[pos + 1] \in Sites /\ UNCHANGED <<wpc, job, written>>
    BY <1>1, ListingFacts, PageEndType
       DEF SendSite, TypeInv, TypeOK, workVars, outVars
  <2>. DEFINE x == Listing[pos + 1]
  <2>2. /\ chan'["raw"] = Append(chan["raw"], x)
        /\ chan'["counted"] = chan["counted"] /\ chan'["sites"] = chan["sites"]
    <3>1. Len(chan["raw"]) < Cap["raw"] /\ chan' = Push(chan, "raw", x)
      BY <1>1 DEF SendSite, Room
    <3>. HIDE DEF x
    <3>. QED
      BY <1>7, <2>1, <3>1, ChannelNames, Pushed DEF x
  <2>3. r' = r + Moved(x) /\ l' = l + Moved(x)
    BY <1>1, <2>1, <2>2, ChannelNames, OnSent, ListedMore
  <2>4. n' = n /\ t' = t /\ h' = h /\ q' = q
    BY <2>1, <2>2 DEF On, Holders
  <2>. HIDE DEF Moved, n, t, h, q, r, l, x
  <2>5. n' + t' + h' + q' + r' = l'
    BY <1>0, <1>7, <2>3, <2>4
  <2>. QED
    BY <2>5 DEF n, t, h, q, r, l
<1>2. CASE CountDispatched
  <2>. DEFINE x == Head(chan["raw"])
  <2>1. /\ ChanOK(Pop(chan, "raw")) /\ x \in Sites /\ chan["raw"] # <<>>
        /\ Pop(chan, "raw")["raw"] = Tail(chan["raw"])
        /\ Pop(chan, "raw")["counted"] = chan["counted"]
        /\ Pop(chan, "raw")["sites"] = chan["sites"]
        /\ UNCHANGED <<pos, wpc, job, written>>
    BY <1>7, <1>2, ChannelNames, Popped
       DEF CountDispatched, enumVars, workVars, outVars
  <2>2. /\ chan'["raw"] = Tail(chan["raw"]) /\ chan'["sites"] = chan["sites"]
        /\ chan'["counted"] = Append(chan["counted"], x)
    <3>1. /\ Len(Pop(chan, "raw")["counted"]) < Cap["counted"]
          /\ chan' = Push(Pop(chan, "raw"), "counted", x)
      BY <1>2, <2>1 DEF CountDispatched, Room
    <3>. QED
      BY <2>1, <3>1, ChannelNames, Pushed
  <2>. HIDE DEF x
  <2>3. q' = q + Moved(x)
    BY <2>1, <2>2, ChannelNames, OnSent
  <2>4. r' = r - Moved(x)
    BY <2>1, <2>2, ChannelNames, OnTaken DEF x
  <2>5. n' = n /\ t' = t /\ h' = h /\ l' = l
    BY <2>1, <2>2 DEF On, Holders, Listed
  <2>. HIDE DEF Moved, n, t, h, q, r, l
  <2>6. n' + t' + h' + q' + r' = l'
    BY <1>0, <1>7, <2>3, <2>4, <2>5
  <2>. QED
    BY <2>6 DEF n, t, h, q, r, l
<1>3. ASSUME NEW w \in Workers, TakeSite(w)
      PROVE  n' + t' + h' + q' + r' = l'
  <2>. DEFINE x == Head(chan["counted"])
  <2>1. /\ chan["counted"] # <<>> /\ chan'["counted"] = Tail(chan["counted"])
        /\ chan'["raw"] = chan["raw"] /\ chan'["sites"] = chan["sites"]
        /\ UNCHANGED <<pos, written>>
    BY <1>7, <1>3, ChannelNames, Popped DEF TakeSite, enumVars, outVars
  <2>2. q' = q - Moved(x)
    BY <2>1, ChannelNames, OnTaken
  <2>3. h' = h + Moved(x)
    BY <1>3, HoldersTake
  <2>4. n' = n /\ t' = t /\ r' = r /\ l' = l
    BY <2>1 DEF On, Listed
  <2>. HIDE DEF Moved, n, t, h, q, r, l, x
  <2>. QED
    BY <1>0, <1>7, <2>2, <2>3, <2>4
<1>4. ASSUME NEW w \in Workers, EmitSite(w)
      PROVE  n' + t' + h' + q' + r' = l'
  <2>. DEFINE x == job[w].site
  <2>1. x \in Sites /\ UNCHANGED <<pos, written>>
    BY <1>4 DEF EmitSite, Goto, TypeInv, FreePlaces, enumVars, outVars
  <2>2. /\ chan'["sites"] = Append(chan["sites"], x)
        /\ chan'["raw"] = chan["raw"] /\ chan'["counted"] = chan["counted"]
    <3>1. Len(chan["sites"]) < Cap["sites"] /\ chan' = Push(chan, "sites", x)
      BY <1>4 DEF EmitSite, Room
    <3>. HIDE DEF x
    <3>. QED
      BY <1>7, <2>1, <3>1, ChannelNames, Pushed
  <2>3. t' = t + Moved(x)
    BY <2>1, <2>2, ChannelNames, OnSent
  <2>4. h' = h - Moved(x)
    BY <1>4, HoldersEmit
  <2>5. n' = n /\ q' = q /\ r' = r /\ l' = l
    BY <2>1, <2>2 DEF On, Listed
  <2>. HIDE DEF Moved, n, t, h, q, r, l, x
  <2>. QED
    BY <1>0, <1>7, <2>3, <2>4, <2>5
<1>5. CASE Stream("sites")
  <2>. DEFINE x == Head(chan["sites"])
  <2>1. /\ chan["sites"] # <<>> /\ x \in Sites
        /\ chan'["sites"] = Tail(chan["sites"])
        /\ chan'["raw"] = chan["raw"] /\ chan'["counted"] = chan["counted"]
        /\ UNCHANGED <<pos, wpc, job>>
    BY <1>7, <1>5, ChannelNames, Popped DEF Stream, enumVars, workVars
  <2>2. t' = t - Moved(x)
    BY <2>1, ChannelNames, OnTaken
  <2>3. n' = n + Moved(x)
    <3>1. /\ written \in [Tables -> [Sites -> Nat]] /\ "sites" \in Tables
          /\ written' = [written EXCEPT !["sites"][x] = @ + 1]
      BY <1>5 DEF Stream, TypeInv, TypeOK, Tables
    <3>. HIDE DEF x
    <3>2. CASE s = x
      BY <2>1, <3>1, <3>2 DEF One
    <3>3. CASE s # x
      <4>1. n' = n /\ One(s = x) = 0
        BY <2>1, <3>1, <3>3 DEF One
      <4>. QED
        BY <1>0, <4>1
    <3>. QED
      BY <3>2, <3>3
  <2>4. h' = h /\ q' = q /\ r' = r /\ l' = l
    BY <2>1 DEF On, Holders, Listed
  <2>. HIDE DEF Moved, n, t, h, q, r, l, x
  <2>5. n' + t' + h' + q' + r' = l'
    BY <1>0, <1>7, <2>2, <2>3, <2>4
  <2>. QED
    BY <2>5 DEF n, t, h, q, r, l
<1>6. CASE /\ ~SendSite /\ ~CountDispatched /\ ~Stream("sites")
           /\ ~\E w \in Workers : TakeSite(w) \/ EmitSite(w)
  <2>1. chan'["sites"] = chan["sites"] /\ written'["sites"] = written["sites"]
    BY <1>6, SitesChan
  <2>2. /\ pos' = pos
        /\ chan'["raw"] = chan["raw"] /\ chan'["counted"] = chan["counted"]
    <3>1. CASE QueryPage \/ \E w \in Workers : FinishSite(w)
      BY <3>1 DEF QueryPage, FinishSite, enumVars
    <3>. QED
      BY <1>6, <3>1, OtherSteps
  <2>3. Holders(s)' = Holders(s)
    <3>1. CASE \E w \in Workers : Work(w)
      BY <1>6, <3>1, HoldersSame
    <3>2. CASE UNCHANGED <<wpc, job>>
      BY <3>2 DEF Holders
    <3>. QED
      BY <3>1, <3>2
         DEF Next, Enumerate, QueryPage, SendSite, Interrupt, StopSending,
             NextPage, CountDispatched, CountingEnds, TokenLost, TokenBack,
             Stream, CollectResults, Returned, vars, workVars
  <2>4. n' = n /\ t' = t /\ h' = h /\ q' = q /\ r' = r /\ l' = l
    BY <2>1, <2>2, <2>3 DEF On, Listed
  <2>. QED
    BY <1>0, <2>4
<1>. QED
  BY <1>1, <1>2, <1>3, <1>4, <1>5, <1>6

LEMMA RouteInit == Init => RouteInv
<1>. SUFFICES ASSUME Init, NEW s \in Sites
     PROVE  /\ written["sites"][s] = 0 /\ Holders(s) = {} /\ Listed(s) = {}
            /\ On("raw", s) = {} /\ On("counted", s) = {} /\ On("sites", s) = {}
  <2>1. Cardinality({}) = 0 /\ 0 + 0 + 0 + 0 + 0 = 0
    BY FS_EmptySet
  <2>. QED
    BY <2>1, Zenon DEF RouteInv
<1>1. /\ \A c \in Channels : chan[c] = <<>>
      /\ pos = 0 /\ \A w \in Workers : wpc[w] = "idle"
  BY DEF Init
<1>2. \A c \in Channels : On(c, s) = {}
  BY <1>1 DEF On
<1>. QED
  BY <1>1, <1>2, ChannelNames DEF Init, Holders, Listed, Tables

\* Process returns only behind the streams: every site has been handed to the
\* batch writer as often as it was taken from the list, and so has every user
\* and profile counted, for any list, duplicates included, and any pool.
THEOREM RowsHandedOver == Workers # {} => (Spec => []RowsWritten)
<1>. SUFFICES ASSUME Workers # {} PROVE Spec => []RowsWritten
  OBVIOUS
<1>1. TypeInv /\ RowInv /\ RouteInv /\ EndInv => RowsWritten
  <2>. SUFFICES ASSUME TypeInv, RowInv, RouteInv, EndInv, returned
       PROVE  /\ \A s \in Sites : written["sites"][s] = Cardinality(Listed(s))
              /\ Cardinality(RowsOf("users")) = counters["users"]
              /\ Cardinality(RowsOf("profiles")) = counters["profiles"]
    BY DEF RowsWritten, RowsOf
  <2>1. \A w \in Workers : wpc[w] = "done"
    BY DEF EndInv, StreamsEnded
  <2>2. /\ \A c \in Tables : chan[c] = <<>>
        /\ chan["raw"] = <<>> /\ chan["counted"] = <<>>
    BY <2>1 DEF EndInv, StreamsEnded
  <2>3. ASSUME NEW s \in Sites
        PROVE  written["sites"][s] = Cardinality(Listed(s))
    <3>1. /\ On("sites", s) = {} /\ Holders(s) = {} /\ On("counted", s) = {}
          /\ On("raw", s) = {}
      BY <2>1, <2>2 DEF On, Holders, Tables
    <3>2. written["sites"][s] \in Nat /\ Cardinality(Listed(s)) \in Nat
      BY RouteTypes
    <3>3. written["sites"][s] + 0 + 0 + 0 + 0 = Cardinality(Listed(s))
      BY <3>1, FS_EmptySet, Zenon DEF RouteInv
    <3>. QED
      BY <3>2, <3>3
  <2>4. \A c \in Fetched : Cardinality(RowsOf(c)) = counters[c]
    <3>1. \A c \in Fetched : Len(chan[c]) = 0
      BY <2>2, FetchedNames
    <3>. QED
      BY <3>1, RowTypes DEF RowInv
  <2>. QED
    BY <2>3, <2>4 DEF Fetched
<1>. QED
  BY <1>1, TypeInvAlways, TypeInvNext, RowInit, RowNext, RouteInit, RouteNext,
     EndInit, EndNext, PTL DEF Spec

-----------------------------------------------------------------------------
(* The processor as main sees it.                                          *)

LEMMA NothingRuns ==
  ASSUME Workers # {}, EndInv, StreamsEnded
  PROVE  /\ epc = "done" /\ ~counting
         /\ chan["raw"] = <<>> /\ chan["counted"] = <<>>
         /\ \A w \in Workers : wpc[w] = "done"
         /\ \A c \in Tables : chan[c] = <<>>
BY DEF EndInv, StreamsEnded

LEMMA OpenSites ==
  ASSUME TypeInv, FlowInv
  PROVE  pos - counters["completed"] =
           Len(chan["raw"]) + Len(chan["counted"]) + Cardinality(At(HandPlaces))
<1>. DEFINE d == counters["dispatched"]
            c == counters["completed"]
            r == Len(chan["raw"])
            q == Len(chan["counted"])
            h == Cardinality(At(HandPlaces))
<1>1. pos = d + r /\ d = c + q + h
  BY DEF FlowInv
<1>2. d \in Nat /\ c \in Nat /\ r \in Nat /\ q \in Nat /\ h \in Nat
  BY FlowTypes
<1>. HIDE DEF d, c, r, q, h
<1>3. pos - c = r + q + h
  BY <1>1, <1>2
<1>. QED
  BY <1>3 DEF c, r, q, h

\* What a step may do to all that main sees, when it is not one of these.
LEMMA UnseenSteps ==
  ASSUME TypeInv, [Next]_vars, ~SendSite, ~CollectResults,
         ~(\E w \in Workers : FinishSite(w)), ~(\E c \in Tables : Stream(c))
  PROVE  /\ UNCHANGED <<pos, written, returned>>
         /\ counters'["completed"] = counters["completed"]
         /\ counters'["succeeded"] = counters["succeeded"]
         /\ counters'["failed"] = counters["failed"]
<1>1. CASE QueryPage
  BY <1>1, PageCounted, CounterNames DEF QueryPage, outVars
<1>2. CASE CountDispatched
  <2>1. counters \in [Counter -> Nat]
    BY DEF TypeInv, TypeOK
  <2>. QED
    BY <1>2, <2>1, Counted, CounterNames DEF CountDispatched, enumVars, outVars
<1>3. CASE \E w \in Workers : Work(w)
  <2>1. PICK w \in Workers : Work(w)
    BY <1>3
  <2>. QED
    BY <2>1, WorkFrame, WorkCounts DEF Core
<1>4. CASE UNCHANGED <<pos, written, returned, counters>>
  BY <1>4
<1>. QED
  BY <1>1, <1>2, <1>3, <1>4
     DEF Next, Enumerate, Interrupt, StopSending, NextPage, CountingEnds,
         TokenLost, TokenBack, Returned, vars, enumVars, bookVars, outVars

LEMMA ProcessorStep ==
  ASSUME Workers # {}, TypeInv, FlowInv, EndInv, [Next]_vars
  PROVE  [SP!Next]_(SP!spVars)
<1>0. /\ pos \in Nat /\ counters["completed"] \in Nat
      /\ counters["succeeded"] \in Nat /\ counters["failed"] \in Nat
      /\ counters \in [Counter -> Nat]
  BY FlowTypes DEF TypeInv, TypeOK
<1>1. CASE SendSite
  <2>1. ~returned
    BY <1>1, NothingRuns DEF SendSite, EndInv
  <2>2. /\ pos' = pos + 1 /\ counters' = counters
        /\ UNCHANGED <<written, returned>>
    BY <1>1 DEF SendSite, bookVars, outVars
  <2>3. pos' - counters'["completed"] = (pos - counters["completed"]) + 1
    BY <1>0, <2>2
  <2>4. SP!Take
    BY <2>2, <2>3 DEF SP!Take
  <2>. QED
    BY <2>1, <2>4 DEF SP!Next
<1>2. ASSUME NEW w \in Workers, FinishSite(w)
      PROVE  SP!Next
  <2>1. ~returned
    BY <1>2, NothingRuns DEF FinishSite, Goto, EndInv
  <2>2. /\ counters'["completed"] = counters["completed"] + 1
        /\ \/ /\ counters'["failed"] = counters["failed"] + 1
              /\ counters'["succeeded"] = counters["succeeded"]
           \/ /\ counters'["succeeded"] = counters["succeeded"] + 1
              /\ counters'["failed"] = counters["failed"]
    BY <1>2, FinishCounted
  <2>3. UNCHANGED <<pos, written, returned>>
    BY <1>2 DEF FinishSite, enumVars, outVars
  <2>4. pos - counters["completed"] > 0
    <3>1. w \in At(HandPlaces)
      BY <1>2 DEF FinishSite, Goto, At, HandPlaces, Places
    <3>2. Cardinality(At(HandPlaces)) \in Nat \ {0}
      BY <3>1, AtCount, FS_EmptySet
    <3>. DEFINE h == Cardinality(At(HandPlaces))
                q == Len(chan["raw"])
                r == Len(chan["counted"])
                d == pos - counters["completed"]
    <3>3. d = q + r + h /\ h \in Nat \ {0} /\ q \in Nat /\ r \in Nat
      BY <3>2, OpenSites, FlowTypes
    <3>. HIDE DEF h, q, r, d
    <3>4. d > 0
      BY <3>3
    <3>. QED
      BY <3>4 DEF d
  <2>5. pos' - counters'["completed"] = (pos - counters["completed"]) - 1
    BY <1>0, <2>2, <2>3
  <2>6. SP!Complete
    BY <2>2, <2>3, <2>4, <2>5 DEF SP!Complete
  <2>. QED
    BY <2>1, <2>6 DEF SP!Next
<1>3. ASSUME NEW c \in Tables, Stream(c)
      PROVE  SP!Next
  <2>1. ~returned
    BY <1>3, NothingRuns DEF Stream, EndInv
  <2>2. Head(chan[c]) \in Sites
    BY <1>3, ChannelNames, Popped DEF Stream, TypeInv, TypeOK, ChanOK
  <2>3. SP!HandOver(c, Head(chan[c]))
    BY <1>3 DEF SP!HandOver, Stream, enumVars, bookVars
  <2>. QED
    BY <2>1, <2>2, <2>3 DEF SP!Next
<1>4. CASE CollectResults
  <2>1. StreamsEnded /\ ~returned /\ returned' = TRUE
        /\ UNCHANGED <<pos, counters, written>>
    BY <1>4 DEF CollectResults, enumVars, bookVars
  <2>2. pos - counters["completed"] = 0
    <3>1. At(HandPlaces) = {} /\ Len(chan["raw"]) = 0 /\ Len(chan["counted"]) = 0
      BY <2>1, NothingRuns DEF At, HandPlaces
    <3>. QED
      BY <3>1, OpenSites, FS_EmptySet
  <2>3. SP!Return
    BY <2>1, <2>2 DEF SP!Return
  <2>. QED
    BY <2>1, <2>3 DEF SP!Next
<1>5. CASE /\ ~SendSite /\ ~CollectResults
           /\ ~(\E w \in Workers : FinishSite(w)) /\ ~(\E c \in Tables : Stream(c))
  BY <1>5, UnseenSteps DEF SP!spVars
<1>. QED
  BY <1>1, <1>2, <1>3, <1>4, <1>5

\* A Process of the OneDrive processor does what main relies on: it completes
\* every site it takes once, returns when none is open, and neither counts a
\* site nor gives the batch writer a row after that.
THEOREM ProcessorImplemented ==
  Workers # {} => (Spec => ImplementsSiteProcessor)
<1>. SUFFICES ASSUME Workers # {} PROVE Spec => ImplementsSiteProcessor
  OBVIOUS
<1>1. Init => SP!Init
  <2>. SUFFICES ASSUME Init PROVE SP!Init
    OBVIOUS
  <2>1. /\ counters["completed"] = 0 /\ counters["succeeded"] = 0
        /\ counters["failed"] = 0
    BY CounterNames DEF Init
  <2>2. /\ pos = 0 /\ ~returned /\ returned \in BOOLEAN
        /\ written = [c \in Tables |-> [s \in Sites |-> 0]]
    BY DEF Init
  <2>. QED
    BY <2>1, <2>2 DEF SP!Init
<1>2. TypeInv /\ FlowInv /\ EndInv /\ [Next]_vars => [SP!Next]_(SP!spVars)
  BY ProcessorStep
<1>. QED
  BY <1>1, <1>2, TypeInvAlways, TypeInvNext, FlowInit, FlowNext, EndInit,
     EndNext, PTL DEF Spec, ImplementsSiteProcessor, SP!Spec

-----------------------------------------------------------------------------
(* The goroutines of Process do not hold one another up: until it returns   *)
(* there is one whose next step nothing stops, unless one of them waits for  *)
(* somebody else.  The guards are those of the actions, for ENABLED is       *)
(* beyond the provers.                                                       *)

EnumeratorCanMove ==
  \/ epc = "query" /\ interrupted
  \/ epc = "send" /\ pos = PageEnd
  \/ epc = "send" /\ pos < PageEnd /\ (LimitReached \/ interrupted \/ Room("raw"))

CounterCanMove ==
  \/ chan["raw"] # <<>> /\ Room("counted")
  \/ counting /\ epc = "done" /\ chan["raw"] = <<>>

WorkerCanMove(w) ==
  \/ wpc[w] = "idle" /\ (chan["counted"] # <<>> \/ ~counting)
  \/ wpc[w] = "acquire" /\ tokens > 0
  \/ wpc[w] = "emit" /\ Room("sites")
  \/ wpc[w] = "sendUsers" /\ (job[w].left = 0 \/ Room("users"))
  \/ wpc[w] = "sendProfile" /\ Room("profiles")
  \/ wpc[w] \in {"users", "profile", "finish", "release"}
  \/ wpc[w] = "return" /\ tokens < Cardinality(Workers)

SomeoneCanMove ==
  \/ EnumeratorCanMove \/ CounterCanMove
  \/ \E w \in Workers : WorkerCanMove(w)
  \/ \E c \in Tables : chan[c] # <<>>
  \/ StreamsEnded

\* A worker waits for a token when none is left: only the scaler can help it.
AwaitingToken == NoTokenLeft /\ \E w \in Workers : wpc[w] = "acquire"

NeverStuck ==
  \/ returned
  \/ SomeoneCanMove
  \/ AwaitingPage
  \/ AwaitingToken
  \/ \E w \in Workers : ReturnBlocked(w)

\* A full channel is full of what a worker, or a stream that never stops, is
\* going to take, so the stages cannot block one another in a circle, for any
\* capacities, workers and pages.  What can stop them all before Process returns
\* comes from outside: a page that is not answered, a scaler that has taken
\* every token, or a semaphore the scaler has filled under a worker's Release.
THEOREM NobodyStuck == Spec => []NeverStuck
<1>1. TypeInv /\ ListInv => NeverStuck
  <2>. SUFFICES ASSUME TypeInv, ListInv, ~SomeoneCanMove, ~AwaitingPage,
                       ~AwaitingToken, \A w \in Workers : ~ReturnBlocked(w)
                PROVE  FALSE
    BY DEF NeverStuck
  <2>0. /\ chan \in [Channels -> Seq(Sites)] /\ Cap \in [Channels -> Nat \ {0}]
        /\ wpc \in [Workers -> Places] /\ tokens \in 0..Cardinality(Workers)
        /\ Cardinality(Workers) \in Nat
        /\ epc \in {"query", "send", "done"}
    BY OneDrivePipelineAssumption, WorkersCount DEF TypeInv, TypeOK, Places
  <2>1. \A c \in Channels : chan[c] = <<>> => Room(c)
    BY <2>0 DEF Room
  <2>2. \A c \in Tables : Room(c)
    BY <2>1, ChannelNames DEF SomeoneCanMove
  <2>3. \A w \in Workers : wpc[w] # "return"
    <3>1. SUFFICES ASSUME NEW w \in Workers, wpc[w] = "return" PROVE FALSE
      OBVIOUS
    <3>2. tokens < Cardinality(Workers)
      BY <2>0, <3>1 DEF ReturnBlocked
    <3>. QED
      BY <3>1, <3>2 DEF SomeoneCanMove, WorkerCanMove
  <2>4. \A w \in Workers : wpc[w] \in {"idle", "acquire", "done"}
    BY <2>0, <2>2, <2>3 DEF SomeoneCanMove, WorkerCanMove, Places, Tables
  <2>5. \A w \in Workers : wpc[w] # "acquire"
    <3>1. SUFFICES ASSUME NEW w \in Workers, wpc[w] = "acquire" PROVE FALSE
      OBVIOUS
    <3>2. tokens = 0
      BY <2>0, <3>1 DEF SomeoneCanMove, WorkerCanMove
    <3>3. InUse = {}
      BY <2>4 DEF InUse
    <3>. QED
      BY <3>1, <3>2, <3>3 DEF AwaitingToken, NoTokenLeft
  <2>6. PICK w \in Workers : wpc[w] = "idle"
    BY <2>4, <2>5 DEF SomeoneCanMove, StreamsEnded
  <2>7. chan["counted"] = <<>> /\ counting
    BY <2>6 DEF SomeoneCanMove, WorkerCanMove
  <2>8. chan["raw"] = <<>> /\ epc # "done"
    BY <2>1, <2>7, ChannelNames DEF SomeoneCanMove, CounterCanMove
  <2>9. epc = "send" /\ ~Room("raw")
    <3>1. epc = "send"
      BY <2>0, <2>8 DEF SomeoneCanMove, EnumeratorCanMove, AwaitingPage
    <3>2. pos <= PageEnd /\ pos \in Nat /\ PageEnd \in Nat
      BY <3>1, FlowTypes, PageEndType DEF ListInv, TypeInv, TypeOK
    <3>. QED
      BY <3>1, <3>2 DEF SomeoneCanMove, EnumeratorCanMove
  <2>. QED
    BY <2>1, <2>8, <2>9, ChannelNames
<1>. QED
  BY <1>1, TypeInvAlways, TypeInvNext, ListInit, ListNext, PTL DEF Spec
=============================================================================
