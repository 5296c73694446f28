----------------------- MODULE SharePointPipelineProofs -----------------------
(***************************************************************************)
(* What holds of one Process of the SharePoint processor for any pools,    *)
(* pages, limits and capacities.                                           *)
(***************************************************************************)
EXTENDS SharePointPipeline, FiniteSetTheorems, FunctionTheorems,
        SequenceTheorems, TLAPS

Places == {"idle", "acquire", "lookup", "fetch", "send", "finalize", "close",
           "release", "return", "done"}

\* Where a worker has no site at all, and where it has looked up its tracker and
\* not let go of it.
FreePlaces    == {"idle", "return", "done"}
TrackerPlaces == {"fetch", "send", "finalize", "close"}

\* A page is counted before its first record is gone through.
ListInv ==
  /\ pos <= counters["discovered"]
  /\ epc \in {"first", "page"} => counters["discovered"] = pos /\ pos <= PageEnd
  /\ epc = "send" => counters["discovered"] = PageEnd

TypeInv ==
  /\ TypeOK
  /\ ListInv
  /\ \A w \in Workers :
       /\ wpc[w] \notin FreePlaces => job[w].site \in Sites
       /\ wpc[w] \in TrackerPlaces => job[w].tracker \in 1..Len(trackers)
  /\ dpc \in {"sites", "userSites", "groupSites"} => dsite \in Sites

-----------------------------------------------------------------------------
(* The workers and the tokens.                                             *)

LEMMA WorkersCount ==
  IsFiniteSet(Workers) /\ Cardinality(Workers) \in Nat
BY SharePointPipelineAssumption, FS_CardinalityType

\* A worker between Acquire and Release keeps its token.
LEMMA ProcessMoves ==
  ASSUME wpc \in [Workers -> Places], NEW w \in Workers, ProcessSite(w)
  PROVE  /\ tokens' = tokens
         /\ \/ wpc' = wpc
            \/ \E from, to \in Places : Goto(w, from, to)
<1>1. CASE \E c \in Tables : SendRow(w, c)
  BY <1>1 DEF SendRow
<1>2. CASE Lookup(w)
  BY <1>2 DEF Lookup, Places
<1>3. CASE FetchFails(w) \/ FetchSucceeds(w) \/ RowsSent(w) \/ CloseSite(w)
  BY <1>3 DEF FetchFails, FetchSucceeds, RowsSent, CloseSite, Places
<1>4. CASE Finalize(w)
  BY <1>4 DEF Finalize, Places
<1>5. CASE Release(w)
  BY <1>5 DEF Release, Places
<1>. QED
  BY <1>1, <1>2, <1>3, <1>4, <1>5 DEF ProcessSite

\* Only a worker with room for it adds a token.
LEMMA WorkTokens ==
  ASSUME TypeInv, NEW w \in Workers, Work(w)
  PROVE  /\ wpc' \in [Workers -> Places]
         /\ tokens' \in 0..Cardinality(Workers)
<1>1. /\ wpc \in [Workers -> Places] /\ tokens \in 0..Cardinality(Workers)
      /\ Cardinality(Workers) \in Nat
  BY WorkersCount DEF TypeInv, TypeOK, Places
<1>2. CASE Acquire(w) \/ ReturnToken(w)
  BY <1>1, <1>2 DEF Acquire, ReturnToken, Goto, Places
<1>3. CASE TakeSite(w) \/ WorkerEnds(w)
  BY <1>1, <1>3 DEF TakeSite, WorkerEnds, Goto, Places
<1>4. CASE ProcessSite(w)
  <2>1. /\ tokens' = tokens
        /\ wpc' = wpc \/ \E from, to \in Places : Goto(w, from, to)
    BY <1>1, <1>4, ProcessMoves
  <2>. QED
    BY <1>1, <2>1 DEF Goto
<1>. QED
  BY <1>2, <1>3, <1>4 DEF Work

-----------------------------------------------------------------------------
(* The channels.                                                           *)

ChanOK(ch) ==
  /\ ch \in [Channels -> Seq(Sites)]
  /\ \A c \in Channels : Len(ch[c]) <= Cap[c]

LEMMA Pushed ==
  ASSUME NEW ch, ChanOK(ch), NEW c \in Channels, NEW s \in Sites,
         Len(ch[c]) < Cap[c]
  PROVE  /\ ChanOK(Push(ch, c, s))
         /\ Push(ch, c, s)[c] = Append(ch[c], s)
         /\ \A d \in Channels : d # c => Push(ch, c, s)[d] = ch[d]
<1>1. /\ ch[c] \in Seq(Sites) /\ Cap[c] \in Nat
      /\ Append(ch[c], s) \in Seq(Sites)
      /\ Len(Append(ch[c], s)) = Len(ch[c]) + 1 /\ Len(ch[c]) \in Nat
      /\ Len(ch[c]) + 1 <= Cap[c]
  BY SharePointPipelineAssumption DEF ChanOK
<1>2. /\ Push(ch, c, s) \in [Channels -> Seq(Sites)]
      /\ Push(ch, c, s)[c] = Append(ch[c], s)
      /\ \A d \in Channels : d # c => Push(ch, c, s)[d] = ch[d]
  BY <1>1 DEF Push, ChanOK
<1>3. ASSUME NEW d \in Channels PROVE Len(Push(ch, c, s)[d]) <= Cap[d]
  BY <1>1, <1>2 DEF ChanOK
<1>. QED
  BY <1>2, <1>3 DEF ChanOK

LEMMA Popped ==
  ASSUME NEW ch, ChanOK(ch), NEW c \in Channels, ch[c] # <<>>
  PROVE  /\ ChanOK(Pop(ch, c)) /\ Head(ch[c]) \in Sites
         /\ Pop(ch, c)[c] = Tail(ch[c])
         /\ \A d \in Channels : d # c => Pop(ch, c)[d] = ch[d]
<1>1. /\ ch[c] \in Seq(Sites) /\ Cap[c] \in Nat /\ Head(ch[c]) \in Sites
      /\ Tail(ch[c]) \in Seq(Sites) /\ Len(Tail(ch[c])) = Len(ch[c]) - 1
      /\ Len(ch[c]) \in Nat
  BY SharePointPipelineAssumption DEF ChanOK
<1>2. /\ Pop(ch, c) \in [Channels -> Seq(Sites)]
      /\ Pop(ch, c)[c] = Tail(ch[c])
      /\ \A d \in Channels : d # c => Pop(ch, c)[d] = ch[d]
  BY <1>1 DEF Pop, ChanOK
<1>3. ASSUME NEW d \in Channels PROVE Len(Pop(ch, c)[d]) <= Cap[d]
  BY <1>1, <1>2 DEF ChanOK
<1>. QED
  BY <1>1, <1>2, <1>3 DEF ChanOK

LEMMA ChannelNames ==
  /\ "raw" \in Channels /\ "filtered" \in Channels /\ "sites" \in Channels
  /\ "userSites" \in Channels /\ "groupSites" \in Channels
  /\ Tables \subseteq Channels
  /\ \A w \in Workers : Input(w) \in {"userSites", "groupSites"}
BY DEF Channels, Tables, Input

LEMMA ListingFacts ==
  /\ Listing \in Seq(Sites) /\ Len(Listing) \in Nat
  /\ \A i \in 1..Len(Listing) : Listing[i] \in Sites
BY SharePointPipelineAssumption

LEMMA PageEndType ==
  ASSUME page \in Nat \ {0}
  PROVE  PageEnd \in Nat /\ PageEnd <= Len(Listing)
<1>1. page * PageSize \in Nat
  BY SharePointPipelineAssumption
<1>. QED
  BY <1>1, ListingFacts DEF PageEnd

\* What a step does to the channels, and who does it.
LEMMA ChanSteps ==
  ASSUME TypeInv, [Next]_vars
  PROVE  \/ chan' = chan
         \/ SendRecord /\ chan' = Push(chan, "raw", Listing[pos + 1])
         \/ filterSites \/ Dispatch \/ DispatchSend
         \/ \E w \in Workers : TakeSite(w) \/ \E c \in Tables : SendRow(w, c)
         \/ \E c \in {"sites"} \cup Tables : Stream(c)
<1>1. DOMAIN written = {"sites"} \cup Tables
  BY DEF TypeInv, TypeOK
<1>2. CASE \E w \in Workers : Work(w)
  BY <1>2 DEF Work, ProcessSite, WorkerEnds, Acquire, Lookup, FetchFails,
              FetchSucceeds, RowsSent, Finalize, CloseSite, Release, ReturnToken
<1>3. CASE SendRecord
  BY <1>3 DEF SendRecord
<1>4. CASE Distribute
  BY <1>4 DEF Distribute, FilterEnds, DispatchEnds
<1>5. CASE \/ Interrupt \/ FirstPage \/ StartPage \/ NextPage
           \/ SendInterrupted \/ TokenLost \/ TokenBack \/ CollectResults
           \/ UNCHANGED vars
  BY <1>5 DEF Interrupt, FirstPage, StartPage, NextPage, SendInterrupted,
              TokenLost, TokenBack, CollectResults, vars
<1>. QED
  BY <1>1, <1>2, <1>3, <1>4, <1>5 DEF Next, Enumerate, Returned

LEMMA RecordSent ==
  ASSUME TypeInv, SendRecord
  PROVE  Listing[pos + 1] \in Sites /\ pos + 1 \in 1..Len(Listing)
BY ListingFacts, PageEndType DEF SendRecord, TypeInv, TypeOK

LEMMA ChanKept ==
  ASSUME TypeInv, [Next]_vars
  PROVE  ChanOK(chan')
<1>0. ChanOK(chan)
  BY DEF TypeInv, TypeOK, ChanOK
<1>1. CASE SendRecord /\ chan' = Push(chan, "raw", Listing[pos + 1])
  <2>1. Len(chan["raw"]) < Cap["raw"] \/ chan' = chan
    BY <1>1 DEF SendRecord, Room
  <2>. QED
    BY <1>0, <1>1, <2>1, ChannelNames, RecordSent, Pushed
<1>2. CASE filterSites
  <2>1. /\ ChanOK(Pop(chan, "raw")) /\ Head(chan["raw"]) \in Sites
        /\ Pop(chan, "raw")["filtered"] = chan["filtered"]
    BY <1>0, <1>2, ChannelNames, Popped DEF filterSites
  <2>. QED
    BY <1>2, <2>1, ChannelNames, Pushed DEF filterSites, Room
<1>3. CASE Dispatch
  BY <1>0, <1>3, ChannelNames, Popped DEF Dispatch
<1>4. CASE DispatchSend
  <2>1. dsite \in Sites /\ dpc \in Channels
    BY <1>4, ChannelNames DEF DispatchSend, TypeInv
  <2>. QED
    BY <1>0, <1>4, <2>1, Pushed DEF DispatchSend, Room
<1>5. ASSUME NEW w \in Workers, TakeSite(w)
      PROVE  ChanOK(chan')
  <2>1. Input(w) \in Channels
    BY ChannelNames
  <2>. QED
    BY <1>0, <1>5, <2>1, Popped DEF TakeSite
<1>6. ASSUME NEW w \in Workers, NEW c \in Tables, SendRow(w, c)
      PROVE  ChanOK(chan')
  <2>1. job[w].site \in Sites
    BY <1>6 DEF SendRow, TypeInv, FreePlaces
  <2>. QED
    BY <1>0, <1>6, <2>1, ChannelNames, Pushed DEF SendRow, Room
<1>7. ASSUME NEW c \in {"sites"} \cup Tables, Stream(c)
      PROVE  ChanOK(chan')
  BY <1>0, <1>7, ChannelNames, Popped DEF Stream
<1>. QED
  BY <1>0, <1>1, <1>2, <1>3, <1>4, <1>5, <1>6, <1>7, ChanSteps

-----------------------------------------------------------------------------
(* The trackers.                                                           *)

\* A worker writes one tracker, and leaves its site alone.
TrackerWritten(k, t) ==
  /\ trackers' \in Seq(Tracker) /\ Len(trackers') = Len(trackers)
  /\ trackers'[k] = t
  /\ \A i \in 1..Len(trackers) : i # k => trackers'[i] = trackers[i]

LEMMA TrackerExcept ==
  ASSUME trackers \in Seq(Tracker), NEW k \in 1..Len(trackers),
         NEW t \in Tracker, trackers' = [trackers EXCEPT ![k] = t]
  PROVE  TrackerWritten(k, t)
BY DEF TrackerWritten

LEMMA TrackerFields ==
  ASSUME NEW t \in Tracker
  PROVE  /\ t.site \in Sites /\ t.remaining \in Int
         /\ t.usersFailed \in BOOLEAN /\ t.groupsFailed \in BOOLEAN
         /\ t.memberErrors \in BOOLEAN /\ t.fetched \in Fetch
         /\ [t EXCEPT !.usersFailed = TRUE] \in Tracker
         /\ [t EXCEPT !.groupsFailed = TRUE] \in Tracker
         /\ \A b \in BOOLEAN : [t EXCEPT !.memberErrors = @ \/ b] \in Tracker
         /\ \A f \in Fetch : [t EXCEPT !.fetched = f] \in Tracker
         /\ [t EXCEPT !.remaining = @ - 1] \in Tracker
<1>1. /\ t.site \in Sites /\ t.remaining \in Int
      /\ t.usersFailed \in BOOLEAN /\ t.groupsFailed \in BOOLEAN
      /\ t.memberErrors \in BOOLEAN /\ t.fetched \in Fetch
  BY DEF Tracker
<1>2. /\ [t EXCEPT !.usersFailed = TRUE] \in Tracker
      /\ [t EXCEPT !.groupsFailed = TRUE] \in Tracker
  BY DEF Tracker
<1>4. ASSUME NEW f \in Fetch PROVE [t EXCEPT !.fetched = f] \in Tracker
  BY DEF Tracker
<1>5. ASSUME NEW n \in Int PROVE [t EXCEPT !.remaining = n] \in Tracker
  BY DEF Tracker
<1>6. [t EXCEPT !.remaining = @ - 1] \in Tracker
  <2>1. t.remaining - 1 \in Int
    BY <1>1
  <2>. QED
    BY <1>5, <2>1
<1>3. ASSUME NEW b \in BOOLEAN
      PROVE  [t EXCEPT !.memberErrors = @ \/ b] \in Tracker
  <2>. DEFINE m == t.memberErrors \/ b
  <2>1. m \in BOOLEAN
    OBVIOUS
  <2>. HIDE DEF m
  <2>2. [t EXCEPT !.memberErrors = m] \in Tracker
    BY <2>1 DEF Tracker
  <2>. QED
    BY <2>2 DEF m
<1>. QED
  BY <1>1, <1>2, <1>3, <1>4, <1>6

LEMMA HasTracker ==
  ASSUME TypeInv, NEW w \in Workers, wpc[w] \in TrackerPlaces
  PROVE  /\ trackers \in Seq(Tracker) /\ Len(trackers) \in Nat
         /\ job[w].tracker \in 1..Len(trackers)
         /\ trackers[job[w].tracker] \in Tracker
<1>1. trackers \in Seq(Tracker) /\ job[w].tracker \in 1..Len(trackers)
  BY DEF TypeInv, TypeOK
<1>. QED
  BY <1>1, LenProperties, ElementOfSeq

LEMMA FailureWritten ==
  ASSUME TypeInv, NEW w \in Workers, FetchFails(w)
  PROVE  \E t \in Tracker :
           /\ TrackerWritten(job[w].tracker, t)
           /\ \/ t = [trackers[job[w].tracker] EXCEPT !.usersFailed = TRUE]
              \/ t = [trackers[job[w].tracker] EXCEPT !.groupsFailed = TRUE]
<1>. DEFINE k == job[w].tracker
            old == trackers[k]
<1>1. /\ trackers \in Seq(Tracker) /\ k \in 1..Len(trackers) /\ old \in Tracker
      /\ \/ trackers' = [trackers EXCEPT ![k] = [old EXCEPT !.usersFailed = TRUE]]
         \/ trackers' = [trackers EXCEPT ![k] = [old EXCEPT !.groupsFailed = TRUE]]
  BY HasTracker DEF FetchFails, Goto, TrackerPlaces
<1>. HIDE DEF k, old
<1>2. /\ [old EXCEPT !.usersFailed = TRUE] \in Tracker
      /\ [old EXCEPT !.groupsFailed = TRUE] \in Tracker
  BY <1>1, TrackerFields
<1>3. \/ TrackerWritten(k, [old EXCEPT !.usersFailed = TRUE])
      \/ TrackerWritten(k, [old EXCEPT !.groupsFailed = TRUE])
  BY <1>1, <1>2, TrackerExcept
<1>. QED
  BY <1>2, <1>3 DEF k, old

LEMMA FetchWritten ==
  ASSUME TypeInv, NEW w \in Workers, FetchSucceeds(w)
  PROVE  \/ trackers' = trackers
         \/ \E b \in BOOLEAN :
              LET t == [trackers[job[w].tracker] EXCEPT !.memberErrors = @ \/ b]
              IN  t \in Tracker /\ TrackerWritten(job[w].tracker, t)
<1>. DEFINE k == job[w].tracker
            old == trackers[k]
<1>1. /\ trackers \in Seq(Tracker) /\ k \in 1..Len(trackers) /\ old \in Tracker
      /\ \/ trackers' = trackers
         \/ \E b \in BOOLEAN : trackers' = [trackers EXCEPT ![k] =
                                 [old EXCEPT !.memberErrors = @ \/ b]]
  BY HasTracker DEF FetchSucceeds, Goto, TrackerPlaces
<1>. HIDE DEF k, old
<1>2. CASE trackers' = trackers
  BY <1>2
<1>3. ASSUME NEW b \in BOOLEAN,
             trackers' = [trackers EXCEPT ![k] = [old EXCEPT !.memberErrors = @ \/ b]]
      PROVE  /\ [old EXCEPT !.memberErrors = @ \/ b] \in Tracker
             /\ TrackerWritten(k, [old EXCEPT !.memberErrors = @ \/ b])
  <2>1. [old EXCEPT !.memberErrors = @ \/ b] \in Tracker
    BY <1>1, TrackerFields
  <2>. QED
    BY <1>1, <1>3, <2>1, TrackerExcept
<1>. QED
  BY <1>1, <1>2, <1>3 DEF k, old

Told(w) ==
  [c \in Tables |-> IF (c = "users") = (w \in UserWorkers)
                    THEN job[w].rows[c] ELSE trackers[job[w].tracker].fetched[c]]

LEMMA RowsWrittenDown ==
  ASSUME TypeInv, NEW w \in Workers, RowsSent(w)
  PROVE  LET t == [trackers[job[w].tracker] EXCEPT !.fetched = Told(w)]
         IN  t \in Tracker /\ TrackerWritten(job[w].tracker, t)
<1>. DEFINE k == job[w].tracker
            old == trackers[k]
<1>1. /\ trackers \in Seq(Tracker) /\ k \in 1..Len(trackers) /\ old \in Tracker
  BY HasTracker DEF RowsSent, Goto, TrackerPlaces
<1>2. trackers' = [trackers EXCEPT ![k] = [old EXCEPT !.fetched = Told(w)]]
  BY <1>1 DEF RowsSent, Told
<1>3. Told(w) \in Fetch
  <2>1. job[w].rows \in Fetch /\ old.fetched \in Fetch
    BY <1>1, TrackerFields DEF TypeInv, TypeOK, Job
  <2>. QED
    BY <2>1 DEF Told, Fetch
<1>. HIDE DEF k, old
<1>4. [old EXCEPT !.fetched = Told(w)] \in Tracker
  BY <1>1, <1>3, TrackerFields
<1>. QED
  BY <1>1, <1>2, <1>4, TrackerExcept DEF k, old

LEMMA FinalizeWritten ==
  ASSUME TypeInv, NEW w \in Workers, Finalize(w)
  PROVE  LET t == [trackers[job[w].tracker] EXCEPT !.remaining = @ - 1]
         IN  t \in Tracker /\ TrackerWritten(job[w].tracker, t)
<1>. DEFINE k == job[w].tracker
            old == trackers[k]
<1>1. /\ trackers \in Seq(Tracker) /\ k \in 1..Len(trackers) /\ old \in Tracker
  BY HasTracker DEF Finalize, Goto, TrackerPlaces
<1>2. trackers' = [trackers EXCEPT ![k] = [old EXCEPT !.remaining = @ - 1]]
  BY <1>1 DEF Finalize
<1>. HIDE DEF k, old
<1>3. [old EXCEPT !.remaining = @ - 1] \in Tracker
  BY <1>1, TrackerFields
<1>. QED
  BY <1>1, <1>2, <1>3, TrackerExcept DEF k, old

LEMMA NewTrackerType ==
  ASSUME NEW s \in Sites
  PROVE  NewTracker(s) \in Tracker
<1>1. NoRows \in Fetch
  BY SharePointPipelineAssumption DEF NoRows, Fetch
<1>. QED
  BY <1>1 DEF NewTracker, Tracker

\* What a step does to the trackers, and who does it.
LEMMA TrackerSteps ==
  ASSUME TypeInv, [Next]_vars
  PROVE  \/ trackers' = trackers \/ Dispatch
         \/ \E w \in Workers : \/ FetchFails(w) \/ FetchSucceeds(w)
                               \/ RowsSent(w) \/ Finalize(w)
<1>1. CASE \E w \in Workers : Work(w)
  BY <1>1 DEF Work, ProcessSite, TakeSite, WorkerEnds, Acquire, Lookup,
              SendRow, CloseSite, Release, ReturnToken, flowVars, siteVars
<1>2. CASE Distribute
  BY <1>2 DEF Distribute, filterSites, FilterEnds, DispatchSend, DispatchEnds,
              flowVars, siteVars
<1>3. CASE \/ Interrupt \/ Enumerate \/ SendInterrupted \/ TokenLost
           \/ TokenBack \/ (\E c \in DOMAIN written : Stream(c))
           \/ CollectResults \/ UNCHANGED vars
  BY <1>3 DEF Interrupt, Enumerate, FirstPage, StartPage, SendRecord, NextPage,
              SendInterrupted, TokenLost, TokenBack, Stream, CollectResults,
              vars, flowVars, siteVars
<1>. QED
  BY <1>1, <1>2, <1>3 DEF Next, Returned

\* No tracker is lost and none changes its site.
LEMMA TrackersKept ==
  ASSUME TypeInv, [Next]_vars
  PROVE  /\ trackers' \in Seq(Tracker) /\ Len(trackers) <= Len(trackers')
         /\ Len(trackers') \in Nat
         /\ \A i \in 1..Len(trackers) : trackers'[i].site = trackers[i].site
<1>0. trackers \in Seq(Tracker) /\ Len(trackers) \in Nat
  BY DEF TypeInv, TypeOK
<1>1. CASE trackers' = trackers
  BY <1>0, <1>1
<1>2. CASE Dispatch
  <2>1. Head(chan["filtered"]) \in Sites
    BY <1>2, ChannelNames, Popped DEF Dispatch, TypeInv, TypeOK, ChanOK
  <2>. DEFINE t == NewTracker(Head(chan["filtered"]))
  <2>2. t \in Tracker /\ trackers' = Append(trackers, t)
    BY <1>2, <2>1, NewTrackerType DEF Dispatch
  <2>. HIDE DEF t
  <2>. QED
    BY <1>0, <2>2
<1>3. ASSUME NEW w \in Workers, NEW t \in Tracker,
             wpc[w] \in TrackerPlaces,
             TrackerWritten(job[w].tracker, t),
             t.site = trackers[job[w].tracker].site
      PROVE  /\ trackers' \in Seq(Tracker) /\ Len(trackers) <= Len(trackers')
             /\ Len(trackers') \in Nat
             /\ \A i \in 1..Len(trackers) : trackers'[i].site = trackers[i].site
  BY <1>0, <1>3, HasTracker DEF TrackerWritten
<1>4. ASSUME NEW w \in Workers, FetchFails(w)
      PROVE  \E t \in Tracker : /\ TrackerWritten(job[w].tracker, t)
                                /\ t.site = trackers[job[w].tracker].site
                                /\ wpc[w] \in TrackerPlaces
  <2>1. wpc[w] \in TrackerPlaces /\ trackers[job[w].tracker] \in Tracker
    BY <1>4, HasTracker DEF FetchFails, Goto, TrackerPlaces
  <2>. QED
    BY <1>4, <2>1, FailureWritten DEF Tracker
<1>5. ASSUME NEW w \in Workers, FetchSucceeds(w)
      PROVE  \/ trackers' = trackers
             \/ \E t \in Tracker : /\ TrackerWritten(job[w].tracker, t)
                                   /\ t.site = trackers[job[w].tracker].site
                                   /\ wpc[w] \in TrackerPlaces
  <2>1. wpc[w] \in TrackerPlaces /\ trackers[job[w].tracker] \in Tracker
    BY <1>5, HasTracker DEF FetchSucceeds, Goto, TrackerPlaces
  <2>. QED
    BY <1>5, <2>1, FetchWritten DEF Tracker
<1>6. ASSUME NEW w \in Workers, RowsSent(w) \/ Finalize(w)
      PROVE  \E t \in Tracker : /\ TrackerWritten(job[w].tracker, t)
                                /\ t.site = trackers[job[w].tracker].site
                                /\ wpc[w] \in TrackerPlaces
  <2>1. wpc[w] \in TrackerPlaces /\ trackers[job[w].tracker] \in Tracker
    BY <1>6, HasTracker DEF RowsSent, Finalize, Goto, TrackerPlaces
  <2>. QED
    BY <1>6, <2>1, RowsWrittenDown, FinalizeWritten DEF Tracker
<1>. QED
  BY <1>1, <1>2, <1>3, <1>4, <1>5, <1>6, TrackerSteps

-----------------------------------------------------------------------------
(* The types.                                                              *)

LEMMA OutcomesKept ==
  ASSUME TypeInv, [Next]_vars
  PROVE  outcomes' \in [Sites -> 0..Len(trackers')]
<1>0. /\ outcomes \in [Sites -> 0..Len(trackers)]
      /\ Len(trackers) \in Nat /\ Len(trackers') \in Nat
      /\ Len(trackers) <= Len(trackers')
  BY TrackersKept DEF TypeInv, TypeOK
<1>1. CASE outcomes' = outcomes
  BY <1>0, <1>1
<1>2. CASE Dispatch
  <2>1. Head(chan["filtered"]) \in Sites
    BY <1>2, ChannelNames, Popped DEF Dispatch, TypeInv, TypeOK, ChanOK
  <2>. DEFINE t == NewTracker(Head(chan["filtered"]))
  <2>2. t \in Tracker /\ trackers' = Append(trackers, t)
    BY <1>2, <2>1, NewTrackerType DEF Dispatch
  <2>. HIDE DEF t
  <2>3. Len(trackers') = Len(trackers) + 1
    BY <2>2 DEF TypeInv, TypeOK
  <2>. QED
    BY <1>0, <1>2, <2>1, <2>3 DEF Dispatch
<1>3. ASSUME NEW w \in Workers, CloseSite(w)
      PROVE  outcomes' \in [Sites -> 0..Len(trackers')]
  <2>1. trackers' = trackers
    BY <1>3 DEF CloseSite
  <2>2. PICK s : outcomes' = [outcomes EXCEPT ![s] = 0]
    BY <1>3 DEF CloseSite
  <2>3. 0 \in 0..Len(trackers)
    BY <1>0
  <2>. QED
    BY <1>0, <2>1, <2>2, <2>3
<1>4. CASE \E w \in Workers : Work(w) /\ ~CloseSite(w)
  BY <1>1, <1>4
     DEF Work, ProcessSite, TakeSite, WorkerEnds, Acquire, Lookup, FetchFails,
         FetchSucceeds, SendRow, RowsSent, Finalize, Release, ReturnToken,
         flowVars, siteVars
<1>5. CASE Distribute /\ ~Dispatch
  BY <1>1, <1>5 DEF Distribute, filterSites, FilterEnds, DispatchSend,
                    DispatchEnds, flowVars, siteVars
<1>6. CASE \/ Interrupt \/ Enumerate \/ SendInterrupted \/ TokenLost
           \/ TokenBack \/ (\E c \in DOMAIN written : Stream(c))
           \/ CollectResults \/ UNCHANGED vars
  BY <1>1, <1>6
     DEF Interrupt, Enumerate, FirstPage, StartPage, SendRecord, NextPage,
         SendInterrupted, TokenLost, TokenBack, Stream, CollectResults,
         vars, flowVars, siteVars
<1>. QED
  BY <1>2, <1>3, <1>4, <1>5, <1>6 DEF Next, Returned

\* What a worker holds.
JobOK(v) ==
  /\ wpc[v] \notin FreePlaces => job[v].site \in Sites
  /\ wpc[v] \in TrackerPlaces => job[v].tracker \in 1..Len(trackers)

\* A worker changes only its own job; its site and its tracker only where it
\* takes, looks up or lets go of a site.
LEMMA WorkJobs ==
  ASSUME TypeInv, NEW w \in Workers, Work(w)
  PROVE  /\ job' \in [Workers -> Job]
         /\ \A v \in Workers : v # w => job'[v] = job[v] /\ wpc'[v] = wpc[v]
         /\ TakeSite(w) => /\ Head(chan[Input(w)]) \in Sites
                           /\ job'[w].site = Head(chan[Input(w)])
         /\ Lookup(w) /\ wpc'[w] = "fetch" =>
              /\ outcomes[job[w].site] \in 1..Len(trackers)
              /\ job'[w].tracker = outcomes[job[w].site]
              /\ job'[w].site = job[w].site
         /\ Lookup(w) /\ wpc'[w] # "fetch" => job' = job
         /\ ~TakeSite(w) /\ ~Lookup(w) /\ ~Release(w) =>
              job'[w].site = job[w].site /\ job'[w].tracker = job[w].tracker
<1>0. /\ job \in [Workers -> Job] /\ wpc \in [Workers -> Places]
      /\ ChanOK(chan) /\ Len(trackers) \in Nat
  BY LenProperties DEF TypeInv, TypeOK, ChanOK, Places
<1>1. \A v \in Workers : v # w => wpc'[v] = wpc[v]
  BY <1>0 DEF Work, ProcessSite, TakeSite, WorkerEnds, Acquire, Lookup,
              FetchFails, FetchSucceeds, SendRow, RowsSent, Finalize,
              CloseSite, Release, ReturnToken, Goto
<1>2. CASE TakeSite(w)
  <2>1. Head(chan[Input(w)]) \in Sites
    BY <1>0, <1>2, ChannelNames, Popped DEF TakeSite
  <2>2. /\ job' \in [Workers -> Job] /\ job'[w].site = Head(chan[Input(w)])
        /\ \A v \in Workers : v # w => job'[v] = job[v]
    BY <1>0, <1>2, <2>1 DEF TakeSite, Job
  <2>3. ~Lookup(w)
    BY <1>2 DEF TakeSite, Lookup, Goto
  <2>. QED
    BY <1>1, <1>2, <2>1, <2>2, <2>3
<1>3. CASE Lookup(w)
  <2>1. ~TakeSite(w) /\ ~Release(w) /\ wpc[w] = "lookup" /\ job[w].site \in Sites
    BY <1>3 DEF TakeSite, Lookup, Release, Goto, TypeInv, FreePlaces
  <2>. DEFINE k == outcomes[job[w].site]
  <2>2. k \in 0..Len(trackers)
    BY <2>1 DEF TypeInv, TypeOK
  <2>3. CASE k # 0 /\ Goto(w, "lookup", "fetch") /\ job' = [job EXCEPT ![w].tracker = k]
    <3>1. k \in 1..Len(trackers) /\ k \in Nat
      BY <1>0, <2>2, <2>3
    <3>2. wpc'[w] = "fetch"
      BY <1>0, <2>3 DEF Goto
    <3>. HIDE DEF k
    <3>3. /\ job' \in [Workers -> Job] /\ job'[w].tracker = k
          /\ job'[w].site = job[w].site
          /\ \A v \in Workers : v # w => job'[v] = job[v]
      BY <1>0, <2>3, <3>1 DEF Job
    <3>. QED
      BY <1>1, <1>3, <2>1, <3>1, <3>2, <3>3 DEF k
  <2>4. CASE wpc'[w] = "release" /\ job' = job
    BY <1>0, <1>1, <2>1, <2>4
  <2>. QED
    BY <1>0, <1>3, <2>3, <2>4 DEF Lookup, Goto
<1>4. CASE FetchSucceeds(w)
  <2>1. ~TakeSite(w) /\ ~Release(w) /\ ~Lookup(w)
    BY <1>4 DEF TakeSite, Lookup, Release, FetchSucceeds, Goto
  <2>2. \E f \in Fetch : job' = [job EXCEPT ![w].rows = f, ![w].left = f]
    <3>1. PICK rows \in Fetch :
            job' = [job EXCEPT
              ![w].rows = (IF ProcessGroupMembers THEN rows
                           ELSE [rows EXCEPT !["members"] = 0]),
              ![w].left = (IF ProcessGroupMembers THEN rows
                           ELSE [rows EXCEPT !["members"] = 0])]
      BY <1>4 DEF FetchSucceeds
    <3>. DEFINE f == IF ProcessGroupMembers THEN rows
                     ELSE [rows EXCEPT !["members"] = 0]
    <3>2. f \in Fetch
      BY SharePointPipelineAssumption DEF Fetch, Tables
    <3>3. job' = [job EXCEPT ![w].rows = f, ![w].left = f]
      BY <3>1
    <3>. QED
      BY <3>2, <3>3
  <2>3. /\ job' \in [Workers -> Job] /\ job'[w].tracker = job[w].tracker
        /\ job'[w].site = job[w].site
        /\ \A v \in Workers : v # w => job'[v] = job[v]
    BY <1>0, <2>2 DEF Job
  <2>. QED
    BY <1>1, <2>1, <2>3
<1>5. ASSUME NEW c \in Tables, SendRow(w, c)
      PROVE  /\ job' \in [Workers -> Job] /\ job'[w].tracker = job[w].tracker
             /\ job'[w].site = job[w].site
             /\ \A v \in Workers : v # w => job'[v] = job[v]
             /\ ~TakeSite(w) /\ ~Release(w) /\ ~Lookup(w)
  <2>1. job[w] \in Job /\ job[w].left \in Fetch /\ job[w].left[c] > 0
    BY <1>0, <1>5 DEF SendRow, Job
  <2>2. job[w].left[c] \in 0..MaxRows /\ MaxRows \in Nat
    BY <2>1, SharePointPipelineAssumption DEF Fetch
  <2>3. job[w].left[c] - 1 \in 0..MaxRows
    BY <2>1, <2>2
  <2>4. [job[w].left EXCEPT ![c] = @ - 1] \in Fetch
    BY <2>1, <2>3 DEF Fetch
  <2>5. job' = [job EXCEPT ![w].left = [job[w].left EXCEPT ![c] = @ - 1]]
    BY <1>0, <1>5 DEF SendRow
  <2>6. ~TakeSite(w) /\ ~Release(w) /\ ~Lookup(w)
    BY <1>5 DEF TakeSite, Lookup, Release, SendRow, Goto
  <2>. QED
    BY <1>0, <2>4, <2>5, <2>6 DEF Job
<1>6. CASE Release(w)
  <2>1. NoJob \in Job
    BY SharePointPipelineAssumption DEF NoJob, NoRows, Job, Fetch
  <2>2. ~TakeSite(w) /\ ~Lookup(w)
    BY <1>6 DEF TakeSite, Lookup, Release, Goto
  <2>. QED
    BY <1>0, <1>1, <1>6, <2>1, <2>2 DEF Release
<1>7. CASE job' = job /\ ~TakeSite(w) /\ ~Lookup(w)
  BY <1>0, <1>1, <1>7
<1>8. CASE \/ WorkerEnds(w) \/ Acquire(w) \/ FetchFails(w) \/ RowsSent(w)
           \/ Finalize(w) \/ CloseSite(w) \/ ReturnToken(w)
  <2>1. job' = job
    BY <1>8 DEF WorkerEnds, Acquire, FetchFails, RowsSent, Finalize, CloseSite,
                ReturnToken
  <2>2. CASE TakeSite(w)
    BY <1>2, <2>2
  <2>3. CASE Lookup(w)
    BY <1>3, <2>3
  <2>. QED
    BY <1>7, <2>1, <2>2, <2>3
<1>. QED
  BY <1>1, <1>2, <1>3, <1>4, <1>5, <1>6, <1>8 DEF Work, ProcessSite

LEMMA JobsKept ==
  ASSUME TypeInv, NEW w \in Workers, Work(w)
  PROVE  \A v \in Workers : JobOK(v)'
<1>0. /\ wpc \in [Workers -> Places]
      /\ Len(trackers) \in Nat /\ Len(trackers') \in Nat
      /\ Len(trackers) <= Len(trackers')
  BY TrackersKept DEF TypeInv, TypeOK, Places, Next
<1>1. ASSUME NEW v \in Workers, v # w PROVE JobOK(v)'
  <2>1. job'[v] = job[v] /\ wpc'[v] = wpc[v]
    BY <1>1, WorkJobs
  <2>. QED
    BY <1>0, <2>1 DEF JobOK, TypeInv
<1>2. JobOK(w)'
  <2>1. CASE TakeSite(w)
    <3>1. wpc'[w] = "acquire"
      BY <1>0, <2>1 DEF TakeSite, Goto
    <3>. QED
      BY <2>1, <3>1, WorkJobs DEF JobOK, TrackerPlaces
  <2>2. CASE Lookup(w)
    <3>1. wpc[w] = "lookup" /\ job[w].site \in Sites
      BY <2>2 DEF Lookup, TypeInv, FreePlaces
    <3>2. CASE wpc'[w] = "fetch"
      BY <1>0, <2>2, <3>1, <3>2, WorkJobs DEF JobOK
    <3>3. CASE wpc'[w] = "release" /\ job' = job
      BY <3>1, <3>3 DEF JobOK, TrackerPlaces
    <3>. QED
      BY <1>0, <2>2, <3>2, <3>3 DEF Lookup, Goto
  <2>3. CASE Release(w) \/ ReturnToken(w) \/ WorkerEnds(w)
    BY <1>0, <2>3
       DEF Release, ReturnToken, WorkerEnds, Goto, JobOK, FreePlaces,
           TrackerPlaces
  <2>4. CASE Acquire(w)
    BY <1>0, <2>4 DEF Acquire, Goto, JobOK, FreePlaces, TrackerPlaces, TypeInv
  <2>5. CASE \/ FetchFails(w) \/ FetchSucceeds(w) \/ RowsSent(w)
             \/ Finalize(w) \/ CloseSite(w) \/ \E c \in Tables : SendRow(w, c)
    <3>1. wpc[w] \in TrackerPlaces
      BY <2>5 DEF FetchFails, FetchSucceeds, RowsSent, Finalize, CloseSite,
                  SendRow, Goto, TrackerPlaces
    <3>2. ~TakeSite(w) /\ ~Lookup(w) /\ ~Release(w)
      BY <3>1 DEF TakeSite, Lookup, Release, Goto, TrackerPlaces
    <3>3. job'[w].site = job[w].site /\ job'[w].tracker = job[w].tracker
      BY <3>2, WorkJobs
    <3>4. job[w].site \in Sites /\ job[w].tracker \in 1..Len(trackers)
      BY <3>1 DEF TypeInv, FreePlaces, TrackerPlaces
    <3>. QED
      BY <1>0, <3>3, <3>4 DEF JobOK
  <2>. QED
    BY <2>1, <2>2, <2>3, <2>4, <2>5 DEF Work, ProcessSite
<1>. QED
  BY <1>1, <1>2

LEMMA WorkFrame ==
  ASSUME NEW w \in Workers, Work(w)
  PROVE  UNCHANGED <<interrupted, epc, page, pos, filtering, dpc, dsite,
                     written, returned, saved>>
<1>1. UNCHANGED <<enumVars, dispatchVars, outVars>>
  <2>1. CASE \E c \in Tables : SendRow(w, c)
    BY <2>1 DEF SendRow, flowVars
  <2>2. CASE TakeSite(w) \/ WorkerEnds(w) \/ Acquire(w) \/ ReturnToken(w)
    BY <2>2 DEF TakeSite, WorkerEnds, Acquire, ReturnToken, flowVars
  <2>3. CASE Lookup(w) \/ Release(w) \/ CloseSite(w)
    BY <2>3 DEF Lookup, Release, CloseSite, flowVars
  <2>4. CASE FetchFails(w) \/ FetchSucceeds(w) \/ RowsSent(w) \/ Finalize(w)
    BY <2>4 DEF FetchFails, FetchSucceeds, RowsSent, Finalize
  <2>. QED
    BY <2>1, <2>2, <2>3, <2>4 DEF Work, ProcessSite
<1>. QED
  BY <1>1 DEF enumVars, dispatchVars, outVars

LEMMA EnumKept ==
  ASSUME TypeInv, [Next]_vars
  PROVE  /\ interrupted' \in BOOLEAN /\ epc' \in {"first", "page", "send", "done"}
         /\ page' \in Nat \ {0} /\ pos' \in 0..Len(Listing)
<1>0. /\ interrupted \in BOOLEAN /\ epc \in {"first", "page", "send", "done"}
      /\ page \in Nat \ {0} /\ pos \in 0..Len(Listing)
  BY DEF TypeInv, TypeOK
<1>1. CASE SendRecord
  <2>1. pos + 1 \in 0..Len(Listing)
    BY <1>1, RecordSent
  <2>. QED
    BY <1>0, <1>1, <2>1 DEF SendRecord
<1>2. CASE Interrupt \/ FirstPage \/ SendInterrupted
  BY <1>0, <1>2 DEF Interrupt, FirstPage, SendInterrupted
<1>3. CASE StartPage
  BY <1>0, <1>3 DEF StartPage
<1>4. CASE NextPage
  <2>1. page + 1 \in Nat \ {0}
    BY <1>0
  <2>2. page' = page \/ page' = page + 1
    BY <1>4 DEF NextPage
  <2>3. epc' \in {"done", "page"} /\ UNCHANGED <<interrupted, pos>>
    BY <1>4 DEF NextPage
  <2>. QED
    BY <1>0, <2>1, <2>2, <2>3
<1>5. CASE UNCHANGED enumVars
  BY <1>0, <1>5 DEF enumVars
<1>6. CASE \E w \in Workers : Work(w)
  BY <1>5, <1>6, WorkFrame DEF enumVars
<1>7. CASE Distribute
  BY <1>5, <1>7 DEF Distribute, filterSites, FilterEnds, Dispatch,
                    DispatchSend, DispatchEnds
<1>8. CASE \/ TokenLost \/ TokenBack \/ (\E c \in DOMAIN written : Stream(c))
           \/ CollectResults \/ UNCHANGED vars
  BY <1>5, <1>8 DEF TokenLost, TokenBack, Stream, CollectResults, vars
<1>. QED
  BY <1>1, <1>2, <1>3, <1>4, <1>6, <1>7, <1>8 DEF Next, Enumerate, Returned

LEMMA DispatchKept ==
  ASSUME TypeInv, [Next]_vars
  PROVE  /\ filtering' \in BOOLEAN
         /\ dpc' \in {"recv", "sites", "userSites", "groupSites", "done"}
         /\ dsite' \in Sites \cup {NoSite}
         /\ dpc' \in {"sites", "userSites", "groupSites"} => dsite' \in Sites
<1>0. /\ filtering \in BOOLEAN /\ dsite \in Sites \cup {NoSite}
      /\ dpc \in {"recv", "sites", "userSites", "groupSites", "done"}
      /\ dpc \in {"sites", "userSites", "groupSites"} => dsite \in Sites
  BY DEF TypeInv, TypeOK
<1>1. CASE UNCHANGED dispatchVars
  BY <1>0, <1>1 DEF dispatchVars
<1>2. CASE Dispatch
  <2>1. Head(chan["filtered"]) \in Sites
    BY <1>2, ChannelNames, Popped DEF Dispatch, TypeInv, TypeOK, ChanOK
  <2>. QED
    BY <1>0, <1>2, <2>1 DEF Dispatch
<1>3. CASE DispatchSend
  <2>1. NextSend \in {"userSites", "groupSites", "recv"}
    BY DEF NextSend
  <2>. QED
    BY <1>0, <1>3, <2>1 DEF DispatchSend
<1>4. CASE FilterEnds \/ DispatchEnds
  BY <1>0, <1>4 DEF FilterEnds, DispatchEnds
<1>5. CASE filterSites
  BY <1>1, <1>5 DEF filterSites, flowVars
<1>6. CASE \E w \in Workers : Work(w)
  BY <1>1, <1>6, WorkFrame DEF dispatchVars
<1>7. CASE \/ Interrupt \/ Enumerate \/ SendInterrupted \/ TokenLost
           \/ TokenBack \/ (\E c \in DOMAIN written : Stream(c))
           \/ CollectResults \/ UNCHANGED vars
  BY <1>1, <1>7
     DEF Interrupt, Enumerate, FirstPage, StartPage, SendRecord, NextPage,
         SendInterrupted, TokenLost, TokenBack, Stream, CollectResults,
         vars, flowVars
<1>. QED
  BY <1>2, <1>3, <1>4, <1>5, <1>6, <1>7 DEF Next, Distribute, Returned

LEMMA CounterNames ==
  /\ "discovered" \in Counter /\ "skipped" \in Counter
  /\ "dispatched" \in Counter /\ "completed" \in Counter
  /\ "succeeded" \in Counter /\ "failed" \in Counter
BY DEF Counter

LEMMA PageCounted ==
  ASSUME TypeInv, StartPage
  PROVE  \/ epc' = "done" /\ counters' = counters
         \/ /\ epc' = "send" /\ counters' \in [Counter -> Nat]
            /\ counters'["discovered"] = PageEnd
            /\ \A d \in Counter : d # "discovered" => counters'[d] = counters[d]
<1>0. /\ counters \in [Counter -> Nat] /\ pos \in Nat /\ PageEnd \in Nat
      /\ counters["discovered"] \in Nat
  BY ListingFacts, PageEndType, CounterNames DEF TypeInv, TypeOK
<1>3. epc = "page" => counters["discovered"] = pos /\ pos <= PageEnd
  BY DEF TypeInv, ListInv
<1>1. CASE epc' = "done" /\ counters' = counters
  BY <1>1
<1>2. CASE /\ epc' = "send" /\ epc = "page"
           /\ counters' = [counters EXCEPT !.discovered = @ + PageEnd - pos]
  <2>. DEFINE n == counters["discovered"] + PageEnd - pos
  <2>1. n = PageEnd /\ n \in Nat
    BY <1>0, <1>2, <1>3
  <2>2. counters' = [counters EXCEPT !["discovered"] = n]
    BY <1>2
  <2>. HIDE DEF n
  <2>3. /\ counters' \in [Counter -> Nat] /\ counters'["discovered"] = n
        /\ \A d \in Counter : d # "discovered" => counters'[d] = counters[d]
    BY <1>0, <2>1, <2>2, CounterNames
  <2>. QED
    BY <1>2, <2>1, <2>3
<1>. QED
  BY <1>1, <1>2 DEF StartPage

LEMMA CounterMoves ==
  ASSUME counters \in [Counter -> Nat]
  PROVE  /\ \A c \in Counter :
              counters' = [counters EXCEPT ![c] = @ + 1] =>
                /\ counters' \in [Counter -> Nat]
                /\ counters'[c] = counters[c] + 1
                /\ \A d \in Counter : d # c => counters'[d] = counters[d]
         /\ \A c \in {"succeeded", "failed"} :
              counters' = [counters EXCEPT !["completed"] = @ + 1, ![c] = @ + 1] =>
                /\ counters' \in [Counter -> Nat]
                /\ counters'["completed"] = counters["completed"] + 1
                /\ counters'[c] = counters[c] + 1
                /\ \A d \in Counter : d \notin {"completed", c} =>
                                        counters'[d] = counters[d]
BY DEF Counter

\* What a step counts, and who does it.
LEMMA CounterSteps ==
  ASSUME TypeInv, [Next]_vars
  PROVE  \/ counters' = counters
         \/ StartPage
         \/ filterSites /\ counters' = [counters EXCEPT !["skipped"] = @ + 1]
         \/ Dispatch /\ counters' = [counters EXCEPT !["dispatched"] = @ + 1]
         \/ \E w \in Workers : \E c \in {"succeeded", "failed"} :
              /\ Lookup(w) \/ CloseSite(w)
              /\ counters' = [counters EXCEPT !["completed"] = @ + 1, ![c] = @ + 1]
<1>1. CASE \E w \in Workers : Work(w)
  <2>1. PICK w \in Workers : Work(w)
    BY <1>1
  <2>2. CASE CloseSite(w)
    BY <2>2 DEF CloseSite
  <2>3. CASE Lookup(w)
    BY <2>3 DEF Lookup
  <2>4. CASE ~CloseSite(w) /\ ~Lookup(w)
    BY <2>1, <2>4
       DEF Work, ProcessSite, TakeSite, WorkerEnds, Acquire, FetchFails,
           FetchSucceeds, SendRow, RowsSent, Finalize, Release, ReturnToken
  <2>. QED
    BY <2>2, <2>3, <2>4
<1>2. CASE filterSites
  BY <1>2 DEF filterSites
<1>3. CASE Dispatch
  BY <1>3 DEF Dispatch
<1>4. CASE FilterEnds \/ DispatchSend \/ DispatchEnds
  BY <1>4 DEF FilterEnds, DispatchSend, DispatchEnds
<1>5. CASE \/ Interrupt \/ FirstPage \/ SendRecord \/ NextPage
           \/ SendInterrupted \/ TokenLost \/ TokenBack
           \/ (\E c \in DOMAIN written : Stream(c))
           \/ CollectResults \/ UNCHANGED vars
  BY <1>5
     DEF Interrupt, FirstPage, SendRecord, NextPage, SendInterrupted,
         TokenLost, TokenBack, Stream, CollectResults, vars
<1>. QED
  BY <1>1, <1>2, <1>3, <1>4, <1>5 DEF Next, Enumerate, Distribute, Returned

LEMMA CountersKept ==
  ASSUME TypeInv, [Next]_vars
  PROVE  counters' \in [Counter -> Nat]
<1>0. counters \in [Counter -> Nat]
  BY DEF TypeInv, TypeOK
<1>. QED
  BY <1>0, CounterSteps, CounterMoves, CounterNames, PageCounted

LEMMA ListOthers ==
  ASSUME TypeInv, [Next]_vars, ~Enumerate, ~SendInterrupted
  PROVE  /\ UNCHANGED <<epc, page, pos>>
         /\ counters'["discovered"] = counters["discovered"]
<1>0. counters \in [Counter -> Nat]
  BY DEF TypeInv, TypeOK
<1>1. UNCHANGED <<epc, page, pos>>
  BY WorkFrame
     DEF Next, Interrupt, Distribute, filterSites, FilterEnds, Dispatch,
         DispatchSend, DispatchEnds, TokenLost, TokenBack, Stream,
         CollectResults, Returned, vars, enumVars
<1>2. ~StartPage
  BY DEF Enumerate
<1>3. counters'["discovered"] = counters["discovered"]
  BY <1>0, <1>2, CounterSteps, CounterMoves, CounterNames
<1>. QED
  BY <1>1, <1>3

\* The next page begins where the last one ended.
LEMMA NextPageEnd ==
  ASSUME page \in Nat \ {0}, page' = page + 1, pos = PageEnd,
         pos < Len(Listing)
  PROVE  pos <= PageEnd'
<1>1. /\ page * PageSize \in Nat /\ PageSize \in Nat /\ Len(Listing) \in Nat
      /\ (page + 1) * PageSize = page * PageSize + PageSize
  BY SharePointPipelineAssumption, ListingFacts
<1>. DEFINE a == page * PageSize
            b == (page + 1) * PageSize
<1>2. a \in Nat /\ PageSize \in Nat /\ Len(Listing) \in Nat /\ b = a + PageSize
  BY <1>1
<1>3. /\ pos = IF a < Len(Listing) THEN a ELSE Len(Listing)
      /\ PageEnd' = IF b < Len(Listing) THEN b ELSE Len(Listing)
  BY DEF PageEnd
<1>. HIDE DEF a, b
<1>. QED
  BY <1>2, <1>3

LEMMA ListKept ==
  ASSUME TypeInv, [Next]_vars
  PROVE  ListInv'
<1>0. /\ pos \in Nat /\ page \in Nat \ {0} /\ PageEnd \in Nat /\ ListInv
      /\ counters["discovered"] \in Nat
  BY ListingFacts, PageEndType, CounterNames DEF TypeInv, TypeOK
<1>1. CASE FirstPage
  <2>1. /\ UNCHANGED <<page, pos, counters>> /\ epc' \in {"page", "done"}
        /\ epc = "first"
    BY <1>1 DEF FirstPage
  <2>. QED
    BY <1>0, <2>1 DEF ListInv, PageEnd
<1>2. CASE StartPage
  <2>1. pos' = pos /\ PageEnd' = PageEnd /\ epc = "page"
    BY <1>2 DEF StartPage, PageEnd
  <2>. QED
    BY <1>0, <1>2, <2>1, PageCounted DEF ListInv
<1>3. CASE SendRecord
  <2>1. /\ pos' = pos + 1 /\ pos < PageEnd /\ epc = "send" /\ epc' = epc
        /\ page' = page /\ counters' = counters
    BY <1>3 DEF SendRecord
  <2>2. PageEnd' = PageEnd
    BY <2>1 DEF PageEnd
  <2>. QED
    BY <1>0, <2>1, <2>2 DEF ListInv
<1>4. CASE NextPage
  <2>1. /\ pos' = pos /\ counters' = counters /\ epc = "send" /\ pos = PageEnd
    BY <1>4 DEF NextPage
  <2>2. CASE epc' = "done"
    BY <1>0, <2>1, <2>2 DEF ListInv
  <2>3. CASE epc' = "page" /\ page' = page + 1 /\ pos < Len(Listing)
    BY <1>0, <2>1, <2>3, NextPageEnd DEF ListInv
  <2>. QED
    BY <1>4, <2>2, <2>3 DEF NextPage
<1>5. CASE SendInterrupted
  <2>1. epc' = "done" /\ pos' = pos /\ counters' = counters
    BY <1>5 DEF SendInterrupted
  <2>. QED
    BY <1>0, <2>1 DEF ListInv
<1>6. CASE ~Enumerate /\ ~SendInterrupted
  <2>1. PageEnd' = PageEnd
    BY <1>6, ListOthers DEF PageEnd
  <2>. QED
    BY <1>0, <1>6, <2>1, ListOthers DEF ListInv
<1>. QED
  BY <1>1, <1>2, <1>3, <1>4, <1>5, <1>6 DEF Enumerate

LEMMA RecordsKept ==
  ASSUME TypeInv, [Next]_vars
  PROVE  recorded' \in Seq(Tracker) /\ saved' \subseteq Tracker
<1>0. recorded \in Seq(Tracker) /\ saved \subseteq Tracker
  BY DEF TypeInv, TypeOK
<1>1. ASSUME NEW w \in Workers, CloseSite(w)
      PROVE  recorded' \in Seq(Tracker) /\ saved' = saved
  <2>1. trackers[job[w].tracker] \in Tracker
    BY <1>1, HasTracker DEF CloseSite, Goto, TrackerPlaces
  <2>2. saved' = saved
    BY <1>1 DEF CloseSite, outVars
  <2>3. recorded' = recorded \/ recorded' = Append(recorded, trackers[job[w].tracker])
    BY <1>1 DEF CloseSite, RecordSPOutcome
  <2>. QED
    BY <1>0, <2>1, <2>2, <2>3, AppendProperties
<1>2. CASE CollectResults
  <2>1. Range(recorded) \subseteq Tracker
    BY <1>0 DEF Range
  <2>2. saved' \subseteq Range(recorded) /\ recorded' = recorded
    BY <1>2 DEF CollectResults, SaveOutcomes, flowVars, siteVars
  <2>. QED
    BY <1>0, <2>1, <2>2
<1>3. CASE UNCHANGED <<recorded, saved>>
  BY <1>0, <1>3
<1>4. CASE \E w \in Workers : Work(w) /\ ~CloseSite(w)
  BY <1>3, <1>4
     DEF Work, ProcessSite, TakeSite, WorkerEnds, Acquire, Lookup, FetchFails,
         FetchSucceeds, SendRow, RowsSent, Finalize, Release, ReturnToken,
         flowVars, siteVars, outVars
<1>5. CASE Distribute
  BY <1>3, <1>5 DEF Distribute, filterSites, FilterEnds, Dispatch,
                    DispatchSend, DispatchEnds, flowVars, siteVars, outVars
<1>6. CASE \/ Interrupt \/ Enumerate \/ SendInterrupted \/ TokenLost
           \/ TokenBack \/ (\E c \in DOMAIN written : Stream(c))
           \/ UNCHANGED vars
  BY <1>3, <1>6
     DEF Interrupt, Enumerate, FirstPage, StartPage, SendRecord, NextPage,
         SendInterrupted, TokenLost, TokenBack, Stream,
         vars, flowVars, siteVars, outVars
<1>. QED
  BY <1>0, <1>1, <1>2, <1>4, <1>5, <1>6 DEF Next, Returned

LEMMA WrittenKept ==
  ASSUME TypeInv, [Next]_vars
  PROVE  written' \in [{"sites"} \cup Tables -> [Sites -> Nat]] /\ returned' \in BOOLEAN
<1>0. /\ written \in [{"sites"} \cup Tables -> [Sites -> Nat]] /\ ChanOK(chan)
      /\ DOMAIN written = {"sites"} \cup Tables /\ returned \in BOOLEAN
  BY DEF TypeInv, TypeOK, ChanOK
<1>1. ASSUME NEW c \in {"sites"} \cup Tables, Stream(c)
      PROVE  /\ written' \in [{"sites"} \cup Tables -> [Sites -> Nat]]
             /\ returned' = returned
  <2>1. Head(chan[c]) \in Sites
    BY <1>0, <1>1, ChannelNames, Popped DEF Stream
  <2>. QED
    BY <1>0, <1>1, <2>1 DEF Stream
<1>2. CASE written' = written /\ returned' \in BOOLEAN
  BY <1>0, <1>2
<1>3. CASE \E w \in Workers : Work(w)
  BY <1>0, <1>2, <1>3, WorkFrame
<1>4. CASE Distribute
  BY <1>0, <1>2, <1>4 DEF Distribute, filterSites, FilterEnds, Dispatch,
                          DispatchSend, DispatchEnds, outVars
<1>5. CASE CollectResults
  BY <1>2, <1>5 DEF CollectResults
<1>6. CASE \/ Interrupt \/ Enumerate \/ SendInterrupted \/ TokenLost
           \/ TokenBack \/ UNCHANGED vars
  BY <1>0, <1>2, <1>6
     DEF Interrupt, Enumerate, FirstPage, StartPage, SendRecord, NextPage,
         SendInterrupted, TokenLost, TokenBack, vars, outVars
<1>. QED
  BY <1>0, <1>1, <1>3, <1>4, <1>5, <1>6 DEF Next, Returned

LEMMA ScalerTokens ==
  ASSUME TypeInv, TokenLost \/ TokenBack
  PROVE  tokens' \in 0..Cardinality(Workers)
BY WorkersCount DEF TypeInv, TypeOK, TokenLost, TokenBack

LEMMA WorkersKept ==
  ASSUME TypeInv, [Next]_vars
  PROVE  /\ wpc' \in [Workers -> Places] /\ job' \in [Workers -> Job]
         /\ tokens' \in 0..Cardinality(Workers)
         /\ \A v \in Workers : JobOK(v)'
<1>0. /\ wpc \in [Workers -> Places] /\ job \in [Workers -> Job]
      /\ tokens \in 0..Cardinality(Workers)
  BY DEF TypeInv, TypeOK, Places
<1>1. ASSUME UNCHANGED <<wpc, job>> PROVE \A v \in Workers : JobOK(v)'
  <2>1. Len(trackers) <= Len(trackers') /\ Len(trackers) \in Nat /\ Len(trackers') \in Nat
    BY TrackersKept DEF TypeInv, TypeOK
  <2>. QED
    BY <1>1, <2>1 DEF JobOK, TypeInv
<1>2. CASE \E w \in Workers : Work(w)
  BY <1>2, WorkTokens, WorkJobs, JobsKept
<1>3. CASE TokenLost \/ TokenBack
  <2>1. UNCHANGED <<wpc, job>>
    BY <1>3 DEF TokenLost, TokenBack
  <2>. QED
    BY <1>0, <1>1, <1>3, <2>1, ScalerTokens
<1>4. CASE UNCHANGED workVars
  <2>1. UNCHANGED <<wpc, job, tokens>>
    BY <1>4 DEF workVars
  <2>. QED
    BY <1>0, <1>1, <2>1
<1>. QED
  BY <1>2, <1>3, <1>4
     DEF Next, Enumerate, Interrupt, FirstPage, StartPage, SendRecord,
         NextPage, SendInterrupted, Distribute, filterSites, FilterEnds,
         Dispatch, DispatchSend, DispatchEnds, Stream, CollectResults,
         Returned, vars

LEMMA TypeInvNext == TypeInv /\ [Next]_vars => TypeInv'
<1>. SUFFICES ASSUME TypeInv, [Next]_vars PROVE TypeInv'
  OBVIOUS
<1>1. \A w \in Workers :
        /\ wpc'[w] \notin FreePlaces => job'[w].site \in Sites
        /\ wpc'[w] \in TrackerPlaces => job'[w].tracker \in 1..Len(trackers')
  BY WorkersKept DEF JobOK
<1>. QED
  BY <1>1, WorkersKept, ChanKept, EnumKept, DispatchKept, TrackersKept,
     OutcomesKept, CountersKept, ListKept, RecordsKept, WrittenKept, Zenon
     DEF TypeInv, TypeOK, ChanOK, Places

LEMMA TypeInvInit == Init => TypeInv
<1>. SUFFICES ASSUME Init PROVE TypeInv
  OBVIOUS
<1>1. /\ chan \in [Channels -> Seq(Sites)]
      /\ \A c \in Channels : Len(chan[c]) <= Cap[c]
  BY SharePointPipelineAssumption DEF Init
<1>2. /\ wpc \in [Workers -> Places] /\ \A w \in Workers : wpc[w] = "idle"
      /\ job \in [Workers -> Job]
  <2>1. NoJob \in Job
    BY SharePointPipelineAssumption DEF NoJob, NoRows, Job, Fetch
  <2>. QED
    BY <2>1 DEF Init, Places
<1>4. tokens \in 0..Cardinality(Workers)
  BY WorkersCount DEF Init
<1>5. /\ counters \in [Counter -> Nat] /\ counters["discovered"] = 0
      /\ recorded \in Seq(Tracker) /\ trackers \in Seq(Tracker)
      /\ written \in [{"sites"} \cup Tables -> [Sites -> Nat]]
      /\ saved \subseteq Tracker /\ outcomes \in [Sites -> 0..Len(trackers)]
  BY DEF Init, Counter
<1>6. /\ interrupted = FALSE /\ epc = "first" /\ page = 1 /\ pos = 0
      /\ filtering = TRUE /\ dpc = "recv" /\ dsite = NoSite /\ returned = FALSE
  BY DEF Init
<1>7. page \in Nat \ {0} /\ pos \in 0..Len(Listing) /\ PageEnd \in Nat
  BY <1>6, ListingFacts, PageEndType
<1>8. ListInv
  BY <1>5, <1>6, <1>7 DEF ListInv
<1>. QED
  BY <1>1, <1>2, <1>4, <1>5, <1>6, <1>7, <1>8
     DEF TypeInv, TypeOK, Places, FreePlaces, TrackerPlaces

LEMMA TypeInvAlways == Spec => []TypeInv
BY TypeInvInit, TypeInvNext, PTL DEF Spec

\* Type correctness: no channel, and not the semaphore, ever exceeds its capacity,
\* a worker's tracker exists, and the count of records discovered never falls
\* behind the records gone through, for any list, with duplicates or without.
THEOREM TypeCorrect == Spec => []TypeOK
<1>1. TypeInv => TypeOK
  BY DEF TypeInv
<1>. QED
  BY <1>1, TypeInvAlways, PTL

-----------------------------------------------------------------------------
(* Where the sites are, of a list without duplicates.                      *)

Inj(q) == \A i, j \in DOMAIN q : q[i] = q[j] => i = j

Distinct == Inj(Listing)

\* The sites not gone through yet, and those that have a tracker.
Fresh == {Listing[i] : i \in pos + 1..Len(Listing)}
Known == {trackers[k].site : k \in DOMAIN trackers}

\* Before its dispatch a site is in one place.
UpInv ==
  /\ Inj(chan["raw"]) /\ Inj(chan["filtered"])
  /\ \A i, j \in DOMAIN trackers : trackers[i].site = trackers[j].site => i = j
  /\ Fresh \cap Range(chan["raw"]) = {}
  /\ Fresh \cap Range(chan["filtered"]) = {}
  /\ Fresh \cap Known = {}
  /\ Range(chan["raw"]) \cap Range(chan["filtered"]) = {}
  /\ Range(chan["raw"]) \cap Known = {}
  /\ Range(chan["filtered"]) \cap Known = {}

Branches == {"userSites", "groupSites"}

\* The dispatcher has still to send its site to the workers of a branch; a
\* worker has a site it has not finalized.
ToCome(b) == \/ dpc \in {"sites", "userSites"} /\ (b = "userSites" \/ ProcessGroups)
             \/ dpc = "groupSites" /\ b = "groupSites"

OpenAt == {"acquire", "lookup", "fetch", "send", "finalize"}

Works(b, w) == Input(w) = b /\ wpc[w] \in OpenAt

\* A branch has still to finalize a site.
Open(b, s) == \/ ToCome(b) /\ dsite = s
              \/ s \in Range(chan[b])
              \/ \E w \in Workers : Works(b, w) /\ job[w].site = s

\* A site is in one place of a branch.
SingleInv(b) ==
  /\ Inj(chan[b])
  /\ ToCome(b) => dsite \notin Range(chan[b])
  /\ \A w \in Workers : Works(b, w) =>
       /\ job[w].site \notin Range(chan[b])
       /\ ToCome(b) => dsite # job[w].site
       /\ \A v \in Workers : Works(b, v) /\ job[v].site = job[w].site => v = w

IdleInv ==
  /\ dpc = "groupSites" => ProcessGroups
  /\ dpc \in {"recv", "done"} => dsite = NoSite
  /\ \A w \in Workers : wpc[w] \in FreePlaces => job[w].site = NoSite

OpenInv ==
  /\ IdleInv
  /\ \A b \in Branches :
       /\ SingleInv(b)
       /\ \A s \in Sites : Open(b, s) =>
            s \in Known /\ (b = "groupSites" => ProcessGroups)

One(p) == IF p THEN 1 ELSE 0

Closing(k) == \E w \in Workers : wpc[w] = "close" /\ job[w].tracker = k

\* A tracker counts the branches that have still to finalize its site, and it
\* is in the map until the last of them has closed it.
TrackerOK(k, s) ==
  /\ trackers[k].remaining = One(Open("userSites", s)) + One(Open("groupSites", s))
  /\ outcomes[s] = IF trackers[k].remaining > 0 \/ Closing(k) THEN k ELSE 0
  /\ Closing(k) => trackers[k].remaining = 0

TrackInv ==
  /\ \A k \in DOMAIN trackers : \A s \in Sites :
       trackers[k].site = s => TrackerOK(k, s)
  /\ \A s \in Sites \ Known : outcomes[s] = 0
  /\ \A w \in Workers : wpc[w] \in TrackerPlaces =>
       trackers[job[w].tracker].site = job[w].site
  /\ \A v, w \in Workers :
       wpc[v] = "close" /\ wpc[w] = "close" /\ job[v].tracker = job[w].tracker => v = w

LEMMA TailInj ==
  ASSUME NEW S, NEW q \in Seq(S), q # <<>>
  PROVE  /\ Head(q) \in Range(q)
         /\ Range(Tail(q)) \subseteq Range(q)
         /\ Inj(q) => Inj(Tail(q)) /\ Range(Tail(q)) = Range(q) \ {Head(q)}
<1>1. /\ Len(q) \in Nat \ {0} /\ DOMAIN q = 1..Len(q) /\ Head(q) = q[1]
      /\ Tail(q) \in Seq(S) /\ DOMAIN Tail(q) = 1..(Len(q) - 1)
      /\ \A i \in 1..(Len(q) - 1) : Tail(q)[i] = q[i + 1]
  OBVIOUS
<1>2. Range(Tail(q)) = {q[i] : i \in 2..Len(q)}
  <2>1. ASSUME NEW x \in Range(Tail(q)) PROVE x \in {q[i] : i \in 2..Len(q)}
    BY <1>1 DEF Range
  <2>2. ASSUME NEW i \in 2..Len(q) PROVE q[i] \in Range(Tail(q))
    <3>1. i - 1 \in 1..(Len(q) - 1) /\ Tail(q)[i - 1] = q[i]
      BY <1>1
    <3>. QED
      BY <1>1, <3>1 DEF Range
  <2>. QED
    BY <2>1, <2>2
<1>3. Inj(q) => Range(Tail(q)) = Range(q) \ {Head(q)}
  BY <1>1, <1>2 DEF Inj, Range
<1>4. Inj(q) => Inj(Tail(q))
  BY <1>1 DEF Inj
<1>. QED
  BY <1>1, <1>2, <1>3, <1>4 DEF Range

LEMMA AppendInj ==
  ASSUME NEW S, NEW q \in Seq(S), NEW x \in S
  PROVE  /\ Range(Append(q, x)) = Range(q) \cup {x}
         /\ Inj(q) /\ x \notin Range(q) => Inj(Append(q, x))
<1>1. /\ Len(q) \in Nat /\ DOMAIN q = 1..Len(q)
      /\ DOMAIN Append(q, x) = 1..(Len(q) + 1)
      /\ Append(q, x)[Len(q) + 1] = x
      /\ \A i \in 1..Len(q) : Append(q, x)[i] = q[i]
  OBVIOUS
<1>2. Range(Append(q, x)) = Range(q) \cup {x}
  BY <1>1 DEF Range
<1>3. Inj(q) /\ x \notin Range(q) => Inj(Append(q, x))
  BY <1>1 DEF Inj, Range
<1>. QED
  BY <1>2, <1>3

\* Only a dispatch adds a tracker.
LEMMA SitesKept ==
  ASSUME TypeInv, [Next]_vars, ~Dispatch
  PROVE  /\ Len(trackers') = Len(trackers) /\ DOMAIN trackers' = DOMAIN trackers
         /\ \A k \in DOMAIN trackers : trackers'[k].site = trackers[k].site
         /\ Known' = Known
<1>0. trackers \in Seq(Tracker) /\ trackers' \in Seq(Tracker)
  BY TrackersKept DEF TypeInv, TypeOK
<1>1. Len(trackers') = Len(trackers)
  <2>1. ASSUME NEW w \in Workers, FetchFails(w)
        PROVE  Len(trackers') = Len(trackers)
    BY <2>1, FailureWritten DEF TrackerWritten
  <2>2. ASSUME NEW w \in Workers, FetchSucceeds(w)
        PROVE  Len(trackers') = Len(trackers)
    BY <2>2, FetchWritten DEF TrackerWritten
  <2>3. ASSUME NEW w \in Workers, RowsSent(w)
        PROVE  Len(trackers') = Len(trackers)
    BY <2>3, RowsWrittenDown DEF TrackerWritten
  <2>4. ASSUME NEW w \in Workers, Finalize(w)
        PROVE  Len(trackers') = Len(trackers)
    BY <2>4, FinalizeWritten DEF TrackerWritten
  <2>. QED
    BY <2>1, <2>2, <2>3, <2>4, TrackerSteps
<1>2. DOMAIN trackers' = DOMAIN trackers /\ DOMAIN trackers = 1..Len(trackers)
  BY <1>0, <1>1
<1>3. \A k \in DOMAIN trackers : trackers'[k].site = trackers[k].site
  BY <1>2, TrackersKept
<1>. QED
  BY <1>1, <1>2, <1>3 DEF Known

LEMMA KnownSites ==
  ASSUME TypeInv
  PROVE  /\ DOMAIN trackers = 1..Len(trackers) /\ Len(trackers) \in Nat
         /\ \A k \in DOMAIN trackers :
              trackers[k] \in Tracker /\ trackers[k].site \in Sites
         /\ Known \subseteq Sites
<1>1. trackers \in Seq(Tracker)
  BY DEF TypeInv, TypeOK
<1>2. DOMAIN trackers = 1..Len(trackers) /\ Len(trackers) \in Nat
      /\ \A k \in DOMAIN trackers : trackers[k] \in Tracker
  BY <1>1
<1>. QED
  BY <1>2 DEF Known, Tracker

LEMMA Dispatched ==
  ASSUME TypeInv, Dispatch
  PROVE  /\ dsite' \in Sites /\ dsite' = Head(chan["filtered"])
         /\ chan["filtered"] # <<>> /\ chan' = Pop(chan, "filtered")
         /\ trackers' = Append(trackers, NewTracker(dsite'))
         /\ DOMAIN trackers' = 1..(Len(trackers) + 1)
         /\ trackers'[Len(trackers) + 1] = NewTracker(dsite')
         /\ \A k \in DOMAIN trackers : trackers'[k] = trackers[k]
         /\ Known' = Known \cup {dsite'}
<1>1. /\ dsite' \in Sites /\ dsite' = Head(chan["filtered"])
      /\ chan["filtered"] # <<>> /\ chan' = Pop(chan, "filtered")
      /\ trackers' = Append(trackers, NewTracker(dsite'))
  BY ChannelNames, Popped DEF Dispatch, TypeInv, TypeOK, ChanOK
<1>. DEFINE t == NewTracker(dsite')
<1>2. t \in Tracker /\ t.site = dsite'
  BY <1>1, NewTrackerType DEF NewTracker
<1>3. trackers \in Seq(Tracker) /\ trackers' = Append(trackers, t)
  BY <1>1 DEF TypeInv, TypeOK
<1>. HIDE DEF t
<1>4. /\ DOMAIN trackers' = 1..(Len(trackers) + 1) /\ Len(trackers) \in Nat
      /\ DOMAIN trackers = 1..Len(trackers)
      /\ trackers'[Len(trackers) + 1] = t
      /\ \A k \in DOMAIN trackers : trackers'[k] = trackers[k]
  BY <1>2, <1>3
<1>5. Known' = Known \cup {dsite'}
  BY <1>2, <1>4 DEF Known
<1>. QED
  BY <1>1, <1>4, <1>5 DEF t

\* Who moves a site in front of the dispatcher.
LEMMA UpSteps ==
  ASSUME TypeInv, [Next]_vars
  PROVE  \/ SendRecord \/ filterSites \/ Dispatch
         \/ /\ pos' = pos
            /\ chan'["raw"] = chan["raw"] /\ chan'["filtered"] = chan["filtered"]
<1>0. ChanOK(chan)
  BY DEF TypeInv, TypeOK, ChanOK
<1>1. \/ SendRecord \/ pos' = pos
  BY ListOthers DEF Enumerate, FirstPage, StartPage, NextPage, SendInterrupted
<1>2. ASSUME ~SendRecord, ~filterSites, ~Dispatch
      PROVE  chan'["raw"] = chan["raw"] /\ chan'["filtered"] = chan["filtered"]
  <2>1. CASE DispatchSend
    <3>1. dsite \in Sites /\ dpc \in Channels \ {"raw", "filtered"}
          /\ Len(chan[dpc]) < Cap[dpc] /\ chan' = Push(chan, dpc, dsite)
      BY <2>1, ChannelNames DEF DispatchSend, TypeInv, Room
    <3>. QED
      BY <1>0, <3>1, ChannelNames, Pushed
  <2>2. ASSUME NEW w \in Workers, TakeSite(w)
        PROVE  chan'["raw"] = chan["raw"] /\ chan'["filtered"] = chan["filtered"]
    <3>1. Input(w) \in Channels \ {"raw", "filtered"}
      BY ChannelNames
    <3>. QED
      BY <1>0, <2>2, <3>1, ChannelNames, Popped DEF TakeSite
  <2>3. ASSUME NEW w \in Workers, NEW c \in Tables, SendRow(w, c)
        PROVE  chan'["raw"] = chan["raw"] /\ chan'["filtered"] = chan["filtered"]
    <3>1. job[w].site \in Sites /\ c \in Channels \ {"raw", "filtered"}
      BY <2>3, ChannelNames DEF SendRow, TypeInv, FreePlaces, Tables
    <3>. QED
      BY <1>0, <2>3, <3>1, ChannelNames, Pushed DEF SendRow, Room
  <2>4. ASSUME NEW c \in {"sites"} \cup Tables, Stream(c)
        PROVE  chan'["raw"] = chan["raw"] /\ chan'["filtered"] = chan["filtered"]
    <3>1. c \in Channels \ {"raw", "filtered"}
      BY <2>4, ChannelNames DEF Tables
    <3>. QED
      BY <1>0, <2>4, <3>1, ChannelNames, Popped DEF Stream
  <2>. QED
    BY <1>2, <2>1, <2>2, <2>3, <2>4, ChanSteps
<1>. QED
  BY <1>1, <1>2

LEMMA UpKept ==
  ASSUME Distinct, TypeInv, UpInv, [Next]_vars
  PROVE  UpInv'
<1>0. /\ ChanOK(chan) /\ chan["raw"] \in Seq(Sites)
      /\ chan["filtered"] \in Seq(Sites)
      /\ pos \in Nat /\ Len(Listing) \in Nat /\ DOMAIN Listing = 1..Len(Listing)
  BY ChannelNames, ListingFacts DEF TypeInv, TypeOK, ChanOK
<1>1. CASE SendRecord
  <2>. DEFINE s == Listing[pos + 1]
  <2>1. s \in Sites /\ pos + 1 \in 1..Len(Listing) /\ pos' = pos + 1
    BY <1>1, RecordSent DEF SendRecord
  <2>2. Fresh' = Fresh \ {s} /\ s \in Fresh
    <3>1. Fresh' = {Listing[i] : i \in pos + 2..Len(Listing)}
      BY <1>0, <2>1 DEF Fresh
    <3>. QED
      BY <1>0, <2>1, <3>1 DEF Fresh, Distinct, Inj
  <2>3. UNCHANGED trackers
    BY <1>1 DEF SendRecord, flowVars, siteVars
  <2>4. CASE chan' = chan
    BY <2>2, <2>3, <2>4 DEF UpInv, Known
  <2>5. CASE chan' = Push(chan, "raw", s) /\ Len(chan["raw"]) < Cap["raw"]
    <3>1. chan'["raw"] = Append(chan["raw"], s) /\ chan'["filtered"] = chan["filtered"]
      BY <1>0, <2>1, <2>5, ChannelNames, Pushed
    <3>2. /\ Range(chan'["raw"]) = Range(chan["raw"]) \cup {s}
          /\ Inj(chan'["raw"])
      BY <1>0, <2>1, <2>2, <3>1, AppendInj DEF UpInv
    <3>. QED
      BY <2>2, <2>3, <3>1, <3>2 DEF UpInv, Known
  <2>. QED
    BY <1>1, <2>4, <2>5 DEF SendRecord, Room
<1>2. CASE filterSites
  <2>. DEFINE s == Head(chan["raw"])
  <2>1. /\ UNCHANGED <<trackers, pos>> /\ chan["raw"] # <<>>
    BY <1>2 DEF filterSites, enumVars, flowVars, siteVars
  <2>2. /\ Fresh' = Fresh /\ Known' = Known
    BY <2>1 DEF Fresh, Known
  <2>3. /\ ChanOK(Pop(chan, "raw")) /\ s \in Sites
        /\ Pop(chan, "raw")["raw"] = Tail(chan["raw"])
        /\ Pop(chan, "raw")["filtered"] = chan["filtered"]
    BY <1>0, <2>1, ChannelNames, Popped
  <2>4. /\ s \in Range(chan["raw"]) /\ Inj(Tail(chan["raw"]))
        /\ Range(Tail(chan["raw"])) = Range(chan["raw"]) \ {s}
    BY <1>0, <2>1, TailInj DEF UpInv
  <2>5. CASE chan' = Pop(chan, "raw")
    BY <2>1, <2>2, <2>3, <2>4, <2>5 DEF UpInv
  <2>6. CASE chan' = Push(Pop(chan, "raw"), "filtered", s) /\ Room("filtered")
    <3>1. /\ chan'["raw"] = Tail(chan["raw"])
          /\ chan'["filtered"] = Append(chan["filtered"], s)
      BY <2>3, <2>6, ChannelNames, Pushed DEF Room
    <3>2. /\ Range(chan'["filtered"]) = Range(chan["filtered"]) \cup {s}
          /\ Inj(chan'["filtered"])
      BY <1>0, <2>3, <2>4, <3>1, AppendInj DEF UpInv
    <3>. QED
      BY <2>1, <2>2, <2>4, <3>1, <3>2 DEF UpInv
  <2>. QED
    BY <1>2, <2>5, <2>6 DEF filterSites
<1>3. CASE Dispatch
  <2>1. /\ chan["filtered"] # <<>> /\ dsite' = Head(chan["filtered"])
        /\ chan' = Pop(chan, "filtered") /\ Known' = Known \cup {dsite'}
        /\ DOMAIN trackers' = 1..(Len(trackers) + 1)
        /\ trackers'[Len(trackers) + 1] = NewTracker(dsite')
        /\ \A k \in DOMAIN trackers : trackers'[k] = trackers[k]
    BY <1>3, Dispatched
  <2>2. chan'["raw"] = chan["raw"] /\ chan'["filtered"] = Tail(chan["filtered"])
    BY <1>0, <2>1, ChannelNames, Popped
  <2>3. /\ dsite' \in Range(chan["filtered"]) /\ Inj(chan'["filtered"])
        /\ Range(chan'["filtered"]) = Range(chan["filtered"]) \ {dsite'}
    BY <1>0, <2>1, <2>2, TailInj DEF UpInv
  <2>4. Fresh' = Fresh
    BY <1>3 DEF Dispatch, enumVars, Fresh
  <2>5. ASSUME NEW i \in DOMAIN trackers', NEW j \in DOMAIN trackers',
               trackers'[i].site = trackers'[j].site
        PROVE  i = j
    <3>1. /\ NewTracker(dsite').site = dsite' /\ dsite' \notin Known
          /\ DOMAIN trackers = 1..Len(trackers) /\ Len(trackers) \in Nat
      BY <2>3, KnownSites DEF NewTracker, UpInv
    <3>2. \A k \in DOMAIN trackers : trackers[k].site # dsite'
      BY <3>1 DEF Known
    <3>. QED
      BY <2>1, <2>5, <3>1, <3>2 DEF UpInv
  <2>. QED
    BY <2>1, <2>2, <2>3, <2>4, <2>5 DEF UpInv
<1>4. CASE /\ ~Dispatch /\ pos' = pos
           /\ chan'["raw"] = chan["raw"] /\ chan'["filtered"] = chan["filtered"]
  <2>1. Fresh' = Fresh /\ Known' = Known
    BY <1>4, SitesKept DEF Fresh
  <2>. QED
    BY <1>4, <2>1, SitesKept DEF UpInv
<1>. QED
  BY <1>1, <1>2, <1>3, <1>4, UpSteps

-----------------------------------------------------------------------------
(* The branches.                                                           *)

SameQueues == \A b \in Branches : chan'[b] = chan[b]

SameDispatcher ==
  dsite' = dsite /\ \A b \in Branches : ToCome(b)' <=> ToCome(b)

SameWork(W) ==
  \A v \in W : \A b \in Branches :
    /\ Works(b, v)' <=> Works(b, v)
    /\ Works(b, v) => job'[v].site = job[v].site

LEMMA WorkersApart ==
  ASSUME TypeInv, TrackerFound, NEW w \in Workers, Work(w)
  PROVE  /\ SameDispatcher /\ SameWork(Workers \ {w})
         /\ ~TakeSite(w) => SameQueues
         /\ ~TakeSite(w) /\ ~Finalize(w) => SameWork(Workers)
<1>0. /\ wpc \in [Workers -> Places] /\ ChanOK(chan)
  BY DEF TypeInv, TypeOK, ChanOK, Places
<1>1. SameDispatcher
  BY WorkFrame DEF SameDispatcher, ToCome
<1>2. SameWork(Workers \ {w})
  BY WorkJobs DEF SameWork, Works, Input
<1>3. ASSUME NEW c \in Tables, SendRow(w, c)
      PROVE  SameQueues /\ SameWork(Workers)
  <2>1. wpc' = wpc /\ wpc[w] = "send" /\ ~TakeSite(w) /\ ~Lookup(w) /\ ~Release(w)
    BY <1>3 DEF SendRow, TakeSite, Lookup, Release, Goto
  <2>2. job'[w].site = job[w].site
    BY <2>1, WorkJobs
  <2>3. SameWork(Workers)
    BY <1>2, <2>1, <2>2 DEF SameWork, Works, Input
  <2>4. job[w].site \in Sites /\ c \in Channels \ Branches
        /\ Branches \subseteq Channels
    BY <2>1, ChannelNames DEF TypeInv, FreePlaces, Tables, Branches
  <2>5. SameQueues
    BY <1>0, <1>3, <2>4, Pushed DEF SendRow, Room, SameQueues
  <2>. QED
    BY <2>3, <2>5
<1>4. ASSUME WorkerEnds(w) \/ Acquire(w) \/ FetchFails(w) \/ FetchSucceeds(w)
             \/ RowsSent(w)
      PROVE  SameQueues /\ SameWork(Workers)
  <2>1. chan' = chan /\ ~TakeSite(w) /\ ~Lookup(w) /\ ~Release(w)
    BY <1>4 DEF WorkerEnds, Acquire, FetchFails, FetchSucceeds, RowsSent,
                TakeSite, Lookup, Release, Goto
  <2>2. job'[w].site = job[w].site
    BY <2>1, WorkJobs
  <2>3. wpc[w] \in OpenAt <=> wpc'[w] \in OpenAt
    BY <1>0, <1>4 DEF WorkerEnds, Acquire, FetchFails, FetchSucceeds, RowsSent,
                      Goto, OpenAt
  <2>. QED
    BY <1>2, <2>1, <2>2, <2>3 DEF SameWork, SameQueues, Works, Input
<1>5. ASSUME CloseSite(w) \/ Release(w) \/ ReturnToken(w)
      PROVE  SameQueues /\ SameWork(Workers)
  <2>1. chan' = chan /\ wpc[w] \notin OpenAt /\ wpc'[w] \notin OpenAt
    BY <1>0, <1>5 DEF CloseSite, Release, ReturnToken, Goto, OpenAt
  <2>. QED
    BY <1>2, <2>1 DEF SameWork, SameQueues, Works, Input
<1>6. ASSUME Finalize(w)
      PROVE  SameQueues
  BY <1>6 DEF Finalize, SameQueues
<1>7. ASSUME Lookup(w)
      PROVE  SameQueues /\ SameWork(Workers)
  <2>1. chan' = chan /\ wpc[w] = "lookup" /\ wpc'[w] = "fetch"
    BY <1>0, <1>7 DEF Lookup, Goto, TrackerFound
  <2>2. job'[w].site = job[w].site
    BY <1>7, <2>1, WorkJobs
  <2>. QED
    BY <1>2, <2>1, <2>2 DEF SameWork, SameQueues, Works, Input, OpenAt
<1>. QED
  BY <1>1, <1>2, <1>3, <1>4, <1>5, <1>6, <1>7 DEF Work, ProcessSite

\* Who moves an open site, and how.
LEMMA OpenSteps ==
  ASSUME TypeInv, TrackerFound, [Next]_vars
  PROVE  \/ Dispatch /\ SameQueues /\ SameWork(Workers)
         \/ DispatchSend /\ SameWork(Workers)
         \/ \E w \in Workers :
              /\ TakeSite(w) \/ Finalize(w)
              /\ SameDispatcher /\ SameWork(Workers \ {w})
              /\ Finalize(w) => SameQueues
         \/ SameDispatcher /\ SameQueues /\ SameWork(Workers)
<1>0. /\ ChanOK(chan) /\ Branches \subseteq Channels
      /\ DOMAIN written = {"sites"} \cup Tables
  BY ChannelNames DEF TypeInv, TypeOK, ChanOK, Branches
<1>1. CASE \E w \in Workers : Work(w)
  <2>1. PICK w \in Workers : Work(w)
    BY <1>1
  <2>2. Finalize(w) => ~TakeSite(w)
    BY DEF TakeSite, Finalize, Goto
  <2>. QED
    BY <2>1, <2>2, WorkersApart
<1>2. ASSUME UNCHANGED <<wpc, job>>
      PROVE  SameWork(Workers)
  BY <1>2 DEF SameWork, Works
<1>3. ASSUME UNCHANGED <<dpc, dsite>>
      PROVE  SameDispatcher
  BY <1>3 DEF SameDispatcher, ToCome
<1>4. CASE Dispatch
  <2>1. UNCHANGED <<wpc, job>> /\ chan' = Pop(chan, "filtered")
        /\ chan["filtered"] # <<>>
    BY <1>4 DEF Dispatch, workVars
  <2>. QED
    BY <1>0, <1>2, <1>4, <2>1, ChannelNames, Popped DEF SameQueues, Branches
<1>5. CASE DispatchSend
  BY <1>2, <1>5 DEF DispatchSend, workVars
<1>6. CASE filterSites
  <2>1. UNCHANGED <<wpc, job, dpc, dsite>>
    BY <1>6 DEF filterSites, workVars, flowVars, dispatchVars
  <2>2. /\ ChanOK(Pop(chan, "raw")) /\ Head(chan["raw"]) \in Sites
        /\ \A d \in Branches : Pop(chan, "raw")[d] = chan[d]
        /\ Pop(chan, "raw")["filtered"] = chan["filtered"]
    BY <1>0, <1>6, ChannelNames, Popped DEF filterSites, Branches
  <2>3. SameQueues
    BY <1>0, <1>6, <2>2, ChannelNames, Pushed
       DEF filterSites, SameQueues, Branches, Room
  <2>. QED
    BY <1>2, <1>3, <2>1, <2>3
<1>7. CASE SendRecord
  <2>1. UNCHANGED <<wpc, job, dpc, dsite>>
    BY <1>7 DEF SendRecord, workVars, flowVars, dispatchVars
  <2>2. SameQueues
    BY <1>0, <1>7, RecordSent, ChannelNames, Pushed
       DEF SendRecord, SameQueues, Branches, Room
  <2>. QED
    BY <1>2, <1>3, <2>1, <2>2
<1>8. ASSUME NEW c \in {"sites"} \cup Tables, Stream(c)
      PROVE  SameDispatcher /\ SameQueues /\ SameWork(Workers)
  <2>1. UNCHANGED <<wpc, job, dpc, dsite>>
    BY <1>8 DEF Stream, workVars, flowVars, dispatchVars
  <2>2. c \in Channels \ Branches
    BY ChannelNames DEF Tables, Branches
  <2>3. SameQueues
    BY <1>0, <1>8, <2>2, Popped DEF Stream, SameQueues
  <2>. QED
    BY <1>2, <1>3, <2>1, <2>3
<1>9. CASE FilterEnds
  BY <1>2, <1>3, <1>9 DEF FilterEnds, SameQueues, workVars
<1>10. CASE DispatchEnds
  BY <1>2, <1>10
     DEF DispatchEnds, SameQueues, SameDispatcher, ToCome, workVars
<1>11. CASE \/ Interrupt \/ FirstPage \/ StartPage \/ NextPage
            \/ SendInterrupted \/ TokenLost \/ TokenBack \/ CollectResults
            \/ UNCHANGED vars
  <2>1. UNCHANGED <<chan, wpc, job, dpc, dsite>>
    BY <1>11 DEF Interrupt, FirstPage, StartPage, NextPage, SendInterrupted,
                 TokenLost, TokenBack, CollectResults, vars, flowVars,
                 dispatchVars, workVars
  <2>. QED
    BY <1>2, <1>3, <2>1 DEF SameQueues
<1>. QED
  BY <1>0, <1>1, <1>4, <1>5, <1>6, <1>7, <1>8, <1>9, <1>10, <1>11
     DEF Next, Enumerate, Distribute, Returned

\* The dispatcher sends to a branch only when it was to.
LEMMA DispatchSent ==
  ASSUME TypeInv, IdleInv, DispatchSend
  PROVE  /\ dsite \in Sites
         /\ \A b \in Branches :
              \/ /\ dpc = b /\ ToCome(b) /\ ~ToCome(b)'
                 /\ chan'[b] = Append(chan[b], dsite)
              \/ /\ dpc # b /\ (ToCome(b)' <=> ToCome(b))
                 /\ ToCome(b) => dsite' = dsite
                 /\ chan'[b] = chan[b]
<1>1. /\ dsite \in Sites /\ dpc \in {"sites", "userSites", "groupSites"}
      /\ dpc \in Channels /\ Len(chan[dpc]) < Cap[dpc] /\ ChanOK(chan)
      /\ chan' = Push(chan, dpc, dsite) /\ dpc' = NextSend
      /\ dsite' = IF NextSend = "recv" THEN NoSite ELSE dsite
  BY ChannelNames DEF DispatchSend, TypeInv, TypeOK, ChanOK, Room
<1>2. \A b \in Branches : IF b = dpc THEN chan'[b] = Append(chan[b], dsite)
                           ELSE chan'[b] = chan[b]
  BY <1>1, Pushed, ChannelNames DEF Branches
<1>3. CASE dpc = "sites"
  BY <1>1, <1>2, <1>3 DEF NextSend, Branches, ToCome
<1>4. CASE dpc = "userSites"
  BY <1>1, <1>2, <1>4 DEF NextSend, Branches, ToCome
<1>5. CASE dpc = "groupSites"
  BY <1>1, <1>2, <1>5 DEF NextSend, Branches, ToCome, IdleInv
<1>. QED
  BY <1>1, <1>3, <1>4, <1>5

LEMMA SiteTaken ==
  ASSUME TypeInv, NEW w \in Workers, TakeSite(w)
  PROVE  /\ Input(w) \in Branches
         /\ chan[Input(w)] \in Seq(Sites) /\ chan[Input(w)] # <<>>
         /\ chan'[Input(w)] = Tail(chan[Input(w)])
         /\ job'[w].site = Head(chan[Input(w)])
         /\ \A b \in Branches \ {Input(w)} : chan'[b] = chan[b]
         /\ \A b \in Branches : ~Works(b, w) /\ (Works(b, w)' <=> b = Input(w))
<1>1. /\ ChanOK(chan) /\ Input(w) \in Branches /\ Branches \subseteq Channels
      /\ chan[Input(w)] # <<>> /\ chan' = Pop(chan, Input(w))
      /\ wpc \in [Workers -> Places]
  BY ChannelNames DEF TakeSite, TypeInv, TypeOK, ChanOK, Branches, Places
<1>2. wpc[w] = "idle" /\ wpc'[w] = "acquire"
  BY <1>1 DEF TakeSite, Goto
<1>3. job'[w].site = Head(chan[Input(w)])
  BY WorkJobs DEF Work
<1>. QED
  BY <1>1, <1>2, <1>3, Popped DEF ChanOK, Works, OpenAt, Input

LEMMA SiteFinalized ==
  ASSUME TypeInv, NEW w \in Workers, Finalize(w)
  PROVE  /\ Input(w) \in Branches /\ job[w].site \in Sites
         /\ wpc[w] = "finalize"
         /\ \A b \in Branches : ~Works(b, w)' /\ (Works(b, w) <=> b = Input(w))
<1>1. /\ wpc \in [Workers -> Places] /\ Input(w) \in Branches
  BY ChannelNames DEF TypeInv, TypeOK, Branches, Places
<1>2. wpc[w] = "finalize" /\ wpc'[w] \in {"close", "release"}
  BY <1>1 DEF Finalize, Goto
<1>. QED
  BY <1>1, <1>2 DEF TypeInv, FreePlaces, Works, OpenAt, Input

EnabledBranch(b) == b = "userSites" \/ ProcessGroups

\* A dispatch opens a site in every branch, a worker that finalizes it closes it
\* in its own, and nothing else opens or closes one.
LEMMA OpenDispatched ==
  ASSUME TypeInv, SameQueues, SameWork(Workers), Dispatch,
         NEW b \in Branches, NEW s \in Sites
  PROVE  Open(b, s)' <=> Open(b, s) \/ (s = dsite' /\ EnabledBranch(b))
<1>1. /\ ~ToCome(b) /\ (ToCome(b)' <=> EnabledBranch(b)) /\ chan'[b] = chan[b]
  BY DEF Dispatch, ToCome, EnabledBranch, Branches, SameQueues
<1>2. \A w \in Workers : (Works(b, w)' <=> Works(b, w))
                         /\ (Works(b, w) => job'[w].site = job[w].site)
  BY DEF SameWork
<1>. QED
  BY <1>1, <1>2 DEF Open

LEMMA OpenFinalized ==
  ASSUME TypeInv, OpenInv, SameQueues, SameDispatcher,
         NEW w \in Workers, Finalize(w), SameWork(Workers \ {w}),
         NEW b \in Branches, NEW s \in Sites
  PROVE  /\ Open(b, s)' <=> Open(b, s) /\ ~(b = Input(w) /\ s = job[w].site)
         /\ Open(Input(w), job[w].site)
<1>1. /\ Works(b, w) <=> b = Input(w)
      /\ ~Works(b, w)' /\ Works(Input(w), w) /\ Input(w) \in Branches
  BY SiteFinalized
<1>2. /\ chan'[b] = chan[b] /\ dsite' = dsite /\ (ToCome(b)' <=> ToCome(b))
      /\ \A v \in Workers \ {w} : (Works(b, v)' <=> Works(b, v))
                                  /\ (Works(b, v) => job'[v].site = job[v].site)
  BY DEF SameQueues, SameDispatcher, SameWork
<1>3. SingleInv(b)
  BY DEF OpenInv
<1>4. Open(Input(w), job[w].site)
  BY <1>1 DEF Open
<1>5. CASE b = Input(w) /\ s = job[w].site
  <2>1. ~(ToCome(b) /\ dsite = s) /\ s \notin Range(chan[b])
        /\ \A v \in Workers \ {w} : ~(Works(b, v) /\ job[v].site = s)
    BY <1>1, <1>3, <1>5 DEF SingleInv
  <2>2. ~Open(b, s)'
    BY <1>1, <1>2, <2>1 DEF Open
  <2>. QED
    BY <1>4, <1>5, <2>2
<1>6. CASE ~(b = Input(w) /\ s = job[w].site)
  <2>1. ~(Works(b, w) /\ job[w].site = s)
    BY <1>1, <1>6
  <2>2. Open(b, s)' <=> Open(b, s)
    BY <1>1, <1>2, <2>1 DEF Open
  <2>. QED
    BY <1>4, <1>6, <2>2
<1>. QED
  BY <1>5, <1>6

LEMMA OpenSent ==
  ASSUME TypeInv, OpenInv, DispatchSend, SameWork(Workers),
         NEW b \in Branches, NEW s \in Sites
  PROVE  Open(b, s)' <=> Open(b, s)
<1>1. \A w \in Workers : (Works(b, w)' <=> Works(b, w))
                         /\ (Works(b, w) => job'[w].site = job[w].site)
  BY DEF SameWork
<1>2. dsite \in Sites /\ chan[b] \in Seq(Sites)
  BY DispatchSent, ChannelNames DEF OpenInv, TypeInv, TypeOK, Branches
<1>3. CASE /\ ToCome(b) /\ ~ToCome(b)' /\ chan'[b] = Append(chan[b], dsite)
  <2>1. Range(chan'[b]) = Range(chan[b]) \cup {dsite}
    BY <1>2, <1>3, AppendInj
  <2>. QED
    BY <1>1, <1>3, <2>1 DEF Open
<1>4. CASE /\ ToCome(b)' <=> ToCome(b)
           /\ ToCome(b) => dsite' = dsite
           /\ chan'[b] = chan[b]
  BY <1>1, <1>4 DEF Open
<1>. QED
  BY <1>3, <1>4, DispatchSent DEF OpenInv

LEMMA OpenTaken ==
  ASSUME TypeInv, OpenInv, SameDispatcher,
         NEW w \in Workers, TakeSite(w), SameWork(Workers \ {w}),
         NEW b \in Branches, NEW s \in Sites
  PROVE  Open(b, s)' <=> Open(b, s)
<1>1. /\ dsite' = dsite /\ (ToCome(b)' <=> ToCome(b))
      /\ \A v \in Workers \ {w} : (Works(b, v)' <=> Works(b, v))
                                  /\ (Works(b, v) => job'[v].site = job[v].site)
  BY DEF SameDispatcher, SameWork
<1>2. /\ chan[Input(w)] \in Seq(Sites) /\ chan[Input(w)] # <<>>
      /\ chan'[Input(w)] = Tail(chan[Input(w)])
      /\ job'[w].site = Head(chan[Input(w)])
      /\ b # Input(w) => chan'[b] = chan[b]
      /\ ~Works(b, w) /\ (Works(b, w)' <=> b = Input(w))
  BY SiteTaken
<1>3. CASE b = Input(w)
  <2>1. Inj(chan[b])
    BY DEF OpenInv, SingleInv
  <2>2. /\ job'[w].site \in Range(chan[b])
        /\ Range(chan'[b]) = Range(chan[b]) \ {job'[w].site}
    BY <1>2, <1>3, <2>1, TailInj
  <2>. QED
    BY <1>1, <1>2, <1>3, <2>2 DEF Open
<1>4. CASE b # Input(w)
  BY <1>1, <1>2, <1>4 DEF Open
<1>. QED
  BY <1>3, <1>4

LEMMA OpenSame ==
  ASSUME SameDispatcher, SameQueues, SameWork(Workers),
         NEW b \in Branches, NEW s \in Sites
  PROVE  Open(b, s)' <=> Open(b, s)
<1>1. /\ chan'[b] = chan[b] /\ dsite' = dsite /\ (ToCome(b)' <=> ToCome(b))
      /\ \A v \in Workers : (Works(b, v)' <=> Works(b, v))
                            /\ (Works(b, v) => job'[v].site = job[v].site)
  BY DEF SameQueues, SameDispatcher, SameWork
<1>. QED
  BY <1>1 DEF Open

LEMMA OpenChange ==
  ASSUME TypeInv, OpenInv, TrackerFound, [Next]_vars,
         NEW b \in Branches, NEW s \in Sites
  PROVE  /\ Dispatch => (Open(b, s)' <=>
                           Open(b, s) \/ (s = dsite' /\ EnabledBranch(b)))
         /\ \A w \in Workers : Finalize(w) =>
              /\ Open(b, s)' <=> Open(b, s) /\ ~(b = Input(w) /\ s = job[w].site)
              /\ Open(Input(w), job[w].site)
         /\ ~Dispatch /\ (\A w \in Workers : ~Finalize(w)) =>
              (Open(b, s)' <=> Open(b, s))
<1>1. CASE Dispatch /\ SameQueues /\ SameWork(Workers)
  <2>1. \A w \in Workers : ~Finalize(w)
    BY <1>1 DEF Dispatch, Finalize, dispatchVars
  <2>. QED
    BY <1>1, <2>1, OpenDispatched
<1>2. CASE DispatchSend /\ SameWork(Workers)
  <2>1. ~Dispatch /\ \A w \in Workers : ~Finalize(w)
    <3>1. chan' # chan
      <4>1. /\ ChanOK(chan) /\ dpc \in Channels /\ dsite \in Sites
            /\ Len(chan[dpc]) < Cap[dpc] /\ chan' = Push(chan, dpc, dsite)
        BY <1>2, ChannelNames DEF DispatchSend, Room, TypeInv, TypeOK, ChanOK
      <4>2. chan'[dpc] = Append(chan[dpc], dsite) /\ chan[dpc] \in Seq(Sites)
        BY <4>1, Pushed DEF ChanOK
      <4>. QED
        BY <4>1, <4>2
    <3>2. dpc # "recv"
      BY <1>2 DEF DispatchSend
    <3>. QED
      BY <3>1, <3>2 DEF Dispatch, Finalize
  <2>. QED
    BY <1>2, <2>1, OpenSent
<1>3. ASSUME NEW w \in Workers, TakeSite(w), SameDispatcher,
             SameWork(Workers \ {w})
      PROVE  Open(b, s)' <=> Open(b, s)
  BY <1>3, OpenTaken
<1>4. ASSUME NEW w \in Workers, Finalize(w), SameDispatcher, SameQueues,
             SameWork(Workers \ {w})
      PROVE  /\ Open(b, s)' <=> Open(b, s) /\ ~(b = Input(w) /\ s = job[w].site)
             /\ Open(Input(w), job[w].site)
  BY <1>4, OpenFinalized
<1>5. CASE SameDispatcher /\ SameQueues /\ SameWork(Workers)
  <2>1. Open(b, s)' <=> Open(b, s)
    BY <1>5, OpenSame
  <2>2. \A w \in Workers : ~Finalize(w)
    BY <1>5, SiteFinalized DEF SameWork
  <2>3. ~Dispatch
    BY <1>5 DEF SameDispatcher, Dispatch, ToCome, Branches
  <2>. QED
    BY <2>1, <2>2, <2>3
<1>6. ASSUME NEW w \in Workers, TakeSite(w)
      PROVE  ~Dispatch /\ \A v \in Workers : ~Finalize(v)
  <2>1. ~Dispatch
    BY <1>6, WorkFrame DEF Work, Dispatch
  <2>2. ASSUME NEW v \in Workers, Finalize(v) PROVE FALSE
    <3>1. chan' = chan
      BY <2>2 DEF Finalize
    <3>2. /\ chan[Input(w)] \in Seq(Sites) /\ chan[Input(w)] # <<>>
          /\ chan'[Input(w)] = Tail(chan[Input(w)])
      BY <1>6, SiteTaken
    <3>3. Len(Tail(chan[Input(w)])) # Len(chan[Input(w)])
      BY <3>2
    <3>. QED
      BY <3>1, <3>2, <3>3
  <2>. QED
    BY <2>1, <2>2
<1>7. ASSUME NEW w \in Workers, Finalize(w)
      PROVE  ~Dispatch /\ \A v \in Workers : Finalize(v) => v = w
  <2>1. ~Dispatch
    BY <1>7, WorkFrame DEF Work, ProcessSite, Dispatch
  <2>2. ASSUME NEW v \in Workers, Finalize(v), v # w PROVE FALSE
    <3>1. wpc[v] = "finalize" /\ wpc'[v] = wpc[v]
      BY <1>7, <2>2, WorkJobs DEF Finalize, Goto, Work, ProcessSite
    <3>2. wpc'[v] # "finalize"
      BY <2>2 DEF Finalize, Goto, TypeInv, TypeOK
    <3>. QED
      BY <3>1, <3>2
  <2>. QED
    BY <2>1, <2>2
<1>. QED
  BY <1>1, <1>2, <1>3, <1>4, <1>5, <1>6, <1>7, OpenSteps

LEMMA IdleKept ==
  ASSUME TypeInv, IdleInv, [Next]_vars
  PROVE  IdleInv'
<1>0. /\ dpc = "groupSites" => ProcessGroups
      /\ dpc \in {"recv", "done"} => dsite = NoSite
      /\ \A w \in Workers : wpc[w] \in FreePlaces => job[w].site = NoSite
      /\ wpc \in [Workers -> Places] /\ job \in [Workers -> Job]
  BY DEF IdleInv, TypeInv, TypeOK, Places
<1>1. /\ dpc' = "groupSites" => ProcessGroups
      /\ dpc' \in {"recv", "done"} => dsite' = NoSite
  <2>1. CASE UNCHANGED <<dpc, dsite>>
    BY <1>0, <2>1
  <2>2. CASE Dispatch \/ DispatchSend \/ DispatchEnds
    BY <1>0, <2>2 DEF Dispatch, DispatchSend, DispatchEnds, NextSend
  <2>3. CASE \E w \in Workers : Work(w)
    BY <2>1, <2>3, WorkFrame
  <2>4. CASE \/ filterSites \/ FilterEnds \/ Interrupt \/ Enumerate
             \/ SendInterrupted \/ TokenLost \/ TokenBack
             \/ (\E c \in DOMAIN written : Stream(c)) \/ CollectResults
             \/ UNCHANGED vars
    BY <2>1, <2>4
       DEF filterSites, FilterEnds, Interrupt, Enumerate, FirstPage, StartPage,
           SendRecord, NextPage, SendInterrupted, TokenLost, TokenBack, Stream,
           CollectResults, vars, flowVars, dispatchVars
  <2>. QED
    BY <2>2, <2>3, <2>4 DEF Next, Distribute, Returned
<1>2. ASSUME NEW v \in Workers, wpc'[v] \in FreePlaces
      PROVE  job'[v].site = NoSite
  <2>1. CASE UNCHANGED <<wpc, job>>
    BY <1>0, <1>2, <2>1
  <2>2. ASSUME NEW w \in Workers, Work(w)
        PROVE  job'[v].site = NoSite
    <3>1. CASE v # w
      BY <1>0, <1>2, <2>2, <3>1, WorkJobs
    <3>2. CASE v = w
      <4>1. CASE Release(w)
        BY <1>0, <3>2, <4>1 DEF Release, NoJob
      <4>2. CASE WorkerEnds(w) \/ ReturnToken(w)
        <5>1. wpc[w] \in FreePlaces /\ job' = job
          BY <4>2 DEF WorkerEnds, ReturnToken, Goto, FreePlaces
        <5>. QED
          BY <1>0, <3>2, <5>1
      <4>3. CASE TakeSite(w) \/ Acquire(w)
        BY <1>0, <1>2, <3>2, <4>3 DEF TakeSite, Acquire, Goto, FreePlaces
      <4>4. CASE \E c \in Tables : SendRow(w, c)
        BY <1>0, <1>2, <3>2, <4>4 DEF SendRow
      <4>5. CASE Lookup(w)
        BY <1>0, <1>2, <3>2, <4>5 DEF Lookup, Goto, FreePlaces
      <4>6. CASE FetchFails(w) \/ FetchSucceeds(w) \/ RowsSent(w)
        BY <1>0, <1>2, <3>2, <4>6
           DEF FetchFails, FetchSucceeds, RowsSent, Goto, FreePlaces
      <4>7. CASE Finalize(w) \/ CloseSite(w)
        BY <1>0, <1>2, <3>2, <4>7 DEF Finalize, CloseSite, Goto, FreePlaces
      <4>. QED
        BY <2>2, <4>1, <4>2, <4>3, <4>4, <4>5, <4>6, <4>7 DEF Work, ProcessSite
    <3>. QED
      BY <3>1, <3>2
  <2>3. CASE \/ Distribute \/ Interrupt \/ Enumerate
             \/ SendInterrupted \/ TokenLost \/ TokenBack
             \/ (\E c \in DOMAIN written : Stream(c)) \/ CollectResults
             \/ UNCHANGED vars
    BY <2>1, <2>3
       DEF Distribute, filterSites, FilterEnds, Dispatch, DispatchSend,
           DispatchEnds, Interrupt, Enumerate, FirstPage, StartPage,
           SendRecord, NextPage, SendInterrupted, TokenLost, TokenBack, Stream,
           CollectResults, vars, workVars
  <2>. QED
    BY <2>2, <2>3 DEF Next, Returned
<1>. QED
  BY <1>1, <1>2 DEF IdleInv

LEMMA SingleKept ==
  ASSUME TypeInv, UpInv, OpenInv, TrackerFound, [Next]_vars, NEW b \in Branches
  PROVE  SingleInv(b)'
<1>0. /\ Inj(chan[b]) /\ chan[b] \in Seq(Sites)
      /\ ToCome(b) => dsite \notin Range(chan[b])
      /\ \A w \in Workers : Works(b, w) =>
           /\ job[w].site \notin Range(chan[b])
           /\ ToCome(b) => dsite # job[w].site
           /\ \A v \in Workers : Works(b, v) /\ job[v].site = job[w].site => v = w
  BY ChannelNames DEF OpenInv, SingleInv, TypeInv, TypeOK, Branches
<1>1. CASE Dispatch /\ SameQueues /\ SameWork(Workers)
  <2>1. chan'[b] = chan[b] /\ dsite' \in Sites \ Known
    <3>1. /\ dsite' = Head(chan["filtered"]) /\ chan["filtered"] # <<>>
          /\ chan["filtered"] \in Seq(Sites) /\ dsite' \in Sites
      BY <1>1, Dispatched, ChannelNames DEF TypeInv, TypeOK
    <3>2. dsite' \in Range(chan["filtered"])
      BY <3>1, TailInj
    <3>. QED
      BY <1>1, <3>1, <3>2 DEF UpInv, SameQueues
  <2>2. ~Open(b, dsite')
    BY <2>1 DEF OpenInv
  <2>3. /\ dsite' \notin Range(chan[b])
        /\ \A w \in Workers : Works(b, w) => job[w].site # dsite'
    BY <2>2 DEF Open
  <2>4. \A w \in Workers : (Works(b, w)' <=> Works(b, w))
                           /\ (Works(b, w) => job'[w].site = job[w].site)
    BY <1>1 DEF SameWork
  <2>. QED
    BY <1>0, <2>1, <2>3, <2>4 DEF SingleInv
<1>2. CASE DispatchSend /\ SameWork(Workers)
  <2>1. \A w \in Workers : (Works(b, w)' <=> Works(b, w))
                           /\ (Works(b, w) => job'[w].site = job[w].site)
    BY <1>2 DEF SameWork
  <2>2. dsite \in Sites
    BY <1>2, DispatchSent DEF OpenInv
  <2>3. CASE /\ ToCome(b) /\ ~ToCome(b)' /\ chan'[b] = Append(chan[b], dsite)
    <3>1. Inj(chan'[b]) /\ Range(chan'[b]) = Range(chan[b]) \cup {dsite}
      BY <1>0, <2>2, <2>3, AppendInj
    <3>. QED
      BY <1>0, <2>1, <2>3, <3>1 DEF SingleInv
  <2>4. CASE /\ ToCome(b)' <=> ToCome(b)
             /\ ToCome(b) => dsite' = dsite
             /\ chan'[b] = chan[b]
    BY <1>0, <2>1, <2>4 DEF SingleInv
  <2>. QED
    BY <1>2, <2>3, <2>4, DispatchSent DEF OpenInv
<1>3. ASSUME NEW w \in Workers, TakeSite(w), SameDispatcher,
             SameWork(Workers \ {w})
      PROVE  SingleInv(b)'
  <2>1. /\ dsite' = dsite /\ (ToCome(b)' <=> ToCome(b))
        /\ \A v \in Workers \ {w} : (Works(b, v)' <=> Works(b, v))
                                    /\ (Works(b, v) => job'[v].site = job[v].site)
    BY <1>3 DEF SameDispatcher, SameWork
  <2>2. /\ chan[Input(w)] # <<>> /\ chan'[Input(w)] = Tail(chan[Input(w)])
        /\ job'[w].site = Head(chan[Input(w)])
        /\ b # Input(w) => chan'[b] = chan[b]
        /\ Works(b, w)' <=> b = Input(w)
    BY <1>3, SiteTaken
  <2>3. CASE b = Input(w)
    <3>1. /\ job'[w].site \in Range(chan[b]) /\ Inj(chan'[b])
          /\ Range(chan'[b]) = Range(chan[b]) \ {job'[w].site}
      BY <1>0, <2>2, <2>3, TailInj
    <3>. QED
      BY <1>0, <2>1, <2>2, <2>3, <3>1 DEF SingleInv
  <2>4. CASE b # Input(w)
    BY <1>0, <2>1, <2>2, <2>4 DEF SingleInv
  <2>. QED
    BY <2>3, <2>4
<1>4. ASSUME NEW w \in Workers, Finalize(w), SameDispatcher, SameQueues,
             SameWork(Workers \ {w})
      PROVE  SingleInv(b)'
  <2>1. /\ dsite' = dsite /\ (ToCome(b)' <=> ToCome(b)) /\ chan'[b] = chan[b]
        /\ \A v \in Workers \ {w} : (Works(b, v)' <=> Works(b, v))
                                    /\ (Works(b, v) => job'[v].site = job[v].site)
        /\ ~Works(b, w)'
    BY <1>4, SiteFinalized DEF SameDispatcher, SameWork, SameQueues
  <2>. QED
    BY <1>0, <2>1 DEF SingleInv
<1>5. CASE SameDispatcher /\ SameQueues /\ SameWork(Workers)
  <2>1. /\ dsite' = dsite /\ (ToCome(b)' <=> ToCome(b)) /\ chan'[b] = chan[b]
        /\ \A v \in Workers : (Works(b, v)' <=> Works(b, v))
                              /\ (Works(b, v) => job'[v].site = job[v].site)
    BY <1>5 DEF SameDispatcher, SameWork, SameQueues
  <2>. QED
    BY <1>0, <2>1 DEF SingleInv
<1>. QED
  BY <1>1, <1>2, <1>3, <1>4, <1>5, OpenSteps

LEMMA OpenKept ==
  ASSUME TypeInv, UpInv, OpenInv, TrackerFound, [Next]_vars
  PROVE  OpenInv'
<1>1. \A b \in Branches : SingleInv(b)'
  BY SingleKept
<1>2. IdleInv'
  BY IdleKept DEF OpenInv
<1>3. ASSUME NEW b \in Branches, NEW s \in Sites, Open(b, s)'
      PROVE  s \in Known' /\ (b = "groupSites" => ProcessGroups)
  <2>1. Known \subseteq Known'
    BY SitesKept, Dispatched
  <2>2. CASE Open(b, s)
    BY <2>1, <2>2 DEF OpenInv
  <2>3. CASE ~Open(b, s)
    <3>1. Dispatch /\ s = dsite' /\ EnabledBranch(b)
      BY <1>3, <2>3, OpenChange
    <3>. QED
      BY <3>1, Dispatched DEF EnabledBranch
  <2>. QED
    BY <2>2, <2>3
<1>. QED
  BY <1>1, <1>2, <1>3 DEF OpenInv

-----------------------------------------------------------------------------
(* The trackers.                                                           *)

LEMMA OneFacts ==
  /\ \A p \in BOOLEAN : One(p) \in {0, 1} /\ (One(p) = 1 <=> p)
BY DEF One

LEMMA OpenBoolean ==
  ASSUME NEW b, NEW s
  PROVE  Open(b, s) \in BOOLEAN
BY DEF Open

\* A branch that is open keeps the tracker of its site in the map.
LEMMA OpenHasTracker ==
  ASSUME TypeInv, OpenInv, TrackInv, NEW b \in Branches, NEW s \in Sites,
         Open(b, s)
  PROVE  \E k \in DOMAIN trackers :
           /\ trackers[k].site = s /\ trackers[k].remaining > 0
           /\ outcomes[s] = k /\ k # 0
<1>1. PICK k \in DOMAIN trackers : trackers[k].site = s
  BY DEF OpenInv, Known
<1>. DEFINE o == One(Open("userSites", s))
            p == One(Open("groupSites", s))
<1>2. o \in {0, 1} /\ p \in {0, 1} /\ (o = 1 \/ p = 1)
  BY OneFacts, OpenBoolean DEF Branches
<1>3. /\ trackers[k].remaining = o + p
      /\ outcomes[s] = IF trackers[k].remaining > 0 \/ Closing(k) THEN k ELSE 0
  BY <1>1 DEF TrackInv, TrackerOK
<1>. HIDE DEF o, p
<1>4. trackers[k].remaining > 0
  BY <1>2, <1>3
<1>. QED
  BY <1>1, <1>3, <1>4, KnownSites

LEMMA FoundAlways ==
  ASSUME TypeInv, OpenInv, TrackInv
  PROVE  TrackerFound
<1>. SUFFICES ASSUME NEW w \in Workers, wpc[w] = "lookup"
              PROVE  outcomes[job[w].site] # 0
  BY DEF TrackerFound
<1>1. Input(w) \in Branches /\ job[w].site \in Sites /\ Open(Input(w), job[w].site)
  BY ChannelNames DEF TypeInv, FreePlaces, Branches, Open, Works, OpenAt
<1>. QED
  BY <1>1, OpenHasTracker

LEMMA RemainingKept ==
  ASSUME TypeInv, [Next]_vars, ~Dispatch, \A w \in Workers : ~Finalize(w),
         NEW k \in DOMAIN trackers
  PROVE  trackers'[k].remaining = trackers[k].remaining
<1>0. k \in 1..Len(trackers)
  BY KnownSites
<1>1. ASSUME NEW w \in Workers, NEW t \in Tracker, wpc[w] \in TrackerPlaces,
             TrackerWritten(job[w].tracker, t),
             t.remaining = trackers[job[w].tracker].remaining
      PROVE  trackers'[k].remaining = trackers[k].remaining
  BY <1>0, <1>1 DEF TrackerWritten
<1>2. ASSUME NEW w \in Workers, FetchFails(w)
      PROVE  trackers'[k].remaining = trackers[k].remaining
  <2>1. wpc[w] \in TrackerPlaces /\ trackers[job[w].tracker] \in Tracker
    BY <1>2, HasTracker DEF FetchFails, Goto, TrackerPlaces
  <2>. QED
    BY <1>1, <1>2, <2>1, FailureWritten DEF Tracker
<1>3. ASSUME NEW w \in Workers, FetchSucceeds(w)
      PROVE  trackers'[k].remaining = trackers[k].remaining
  <2>1. wpc[w] \in TrackerPlaces /\ trackers[job[w].tracker] \in Tracker
    BY <1>3, HasTracker DEF FetchSucceeds, Goto, TrackerPlaces
  <2>. QED
    BY <1>1, <1>3, <2>1, FetchWritten DEF Tracker
<1>4. ASSUME NEW w \in Workers, RowsSent(w)
      PROVE  trackers'[k].remaining = trackers[k].remaining
  <2>1. wpc[w] \in TrackerPlaces /\ trackers[job[w].tracker] \in Tracker
    BY <1>4, HasTracker DEF RowsSent, Goto, TrackerPlaces
  <2>. QED
    BY <1>1, <1>4, <2>1, RowsWrittenDown DEF Tracker
<1>. QED
  BY <1>2, <1>3, <1>4, TrackerSteps

LEMMA RemainingFinalized ==
  ASSUME TypeInv, NEW w \in Workers, Finalize(w)
  PROVE  /\ job[w].tracker \in DOMAIN trackers
         /\ trackers'[job[w].tracker].remaining
              = trackers[job[w].tracker].remaining - 1
         /\ \A k \in DOMAIN trackers : k # job[w].tracker =>
              trackers'[k].remaining = trackers[k].remaining
<1>1. /\ job[w].tracker \in 1..Len(trackers)
      /\ trackers[job[w].tracker] \in Tracker
  BY HasTracker DEF Finalize, Goto, TrackerPlaces
<1>2. TrackerWritten(job[w].tracker,
                     [trackers[job[w].tracker] EXCEPT !.remaining = @ - 1])
  BY FinalizeWritten
<1>. QED
  BY <1>1, <1>2, KnownSites DEF TrackerWritten, Tracker

LEMMA OutcomesSteps ==
  ASSUME TypeInv, [Next]_vars
  PROVE  outcomes' = outcomes \/ Dispatch \/ \E w \in Workers : CloseSite(w)
<1>4. CASE \E w \in Workers : Work(w) /\ ~CloseSite(w)
  BY <1>4
     DEF Work, ProcessSite, TakeSite, WorkerEnds, Acquire, Lookup, FetchFails,
         FetchSucceeds, SendRow, RowsSent, Finalize, Release, ReturnToken,
         flowVars, siteVars
<1>5. CASE Distribute /\ ~Dispatch
  BY <1>5 DEF Distribute, filterSites, FilterEnds, DispatchSend,
              DispatchEnds, flowVars, siteVars
<1>6. CASE \/ Interrupt \/ Enumerate \/ SendInterrupted \/ TokenLost
           \/ TokenBack \/ (\E c \in DOMAIN written : Stream(c))
           \/ CollectResults \/ UNCHANGED vars
  BY <1>6
     DEF Interrupt, Enumerate, FirstPage, StartPage, SendRecord, NextPage,
         SendInterrupted, TokenLost, TokenBack, Stream, CollectResults,
         vars, flowVars, siteVars
<1>. QED
  BY <1>4, <1>5, <1>6 DEF Next, Returned

\* A worker gets to the closing of a site by finalizing it and leaves by
\* closing it.
LEMMA ClosersKept ==
  ASSUME TypeInv, [Next]_vars, NEW v \in Workers, ~Finalize(v), ~CloseSite(v)
  PROVE  /\ wpc'[v] = "close" <=> wpc[v] = "close"
         /\ wpc[v] = "close" => job'[v].tracker = job[v].tracker
<1>0. wpc \in [Workers -> Places]
  BY DEF TypeInv, TypeOK, Places
<1>1. CASE UNCHANGED <<wpc, job>>
  BY <1>1
<1>2. ASSUME NEW w \in Workers, Work(w), v # w
      PROVE  wpc'[v] = wpc[v] /\ job'[v] = job[v]
  BY <1>2, WorkJobs
<1>3. CASE Work(v)
  <2>1. CASE \/ TakeSite(v) \/ WorkerEnds(v) \/ Acquire(v) \/ Lookup(v)
             \/ Release(v) \/ ReturnToken(v)
    BY <1>0, <2>1 DEF TakeSite, WorkerEnds, Acquire, Lookup, Release,
                      ReturnToken, Goto
  <2>2. CASE FetchFails(v) \/ FetchSucceeds(v) \/ RowsSent(v)
    BY <1>0, <2>2 DEF FetchFails, FetchSucceeds, RowsSent, Goto
  <2>3. CASE \E c \in Tables : SendRow(v, c)
    BY <1>0, <2>3 DEF SendRow
  <2>. QED
    BY <1>3, <2>1, <2>2, <2>3 DEF Work, ProcessSite
<1>4. CASE \/ Distribute \/ Interrupt \/ Enumerate
           \/ SendInterrupted \/ TokenLost \/ TokenBack
           \/ (\E c \in DOMAIN written : Stream(c)) \/ CollectResults
           \/ UNCHANGED vars
  BY <1>1, <1>4
     DEF Distribute, filterSites, FilterEnds, Dispatch, DispatchSend,
         DispatchEnds, Interrupt, Enumerate, FirstPage, StartPage,
         SendRecord, NextPage, SendInterrupted, TokenLost, TokenBack, Stream,
         CollectResults, vars, workVars
<1>. QED
  BY <1>2, <1>3, <1>4 DEF Next, Returned

\* One thing at a time.
LEMMA DispatchAlone ==
  ASSUME TypeInv, Dispatch, NEW w \in Workers
  PROVE  ~Finalize(w) /\ ~CloseSite(w)
BY DEF Dispatch, Finalize, CloseSite, dispatchVars

LEMMA WorkAlone ==
  ASSUME TypeInv, NEW v \in Workers, NEW w \in Workers, v # w,
         Finalize(w) \/ CloseSite(w)
  PROVE  ~Finalize(v) /\ ~CloseSite(v)
<1>1. wpc'[v] = wpc[v] /\ wpc \in [Workers -> Places]
  BY WorkJobs DEF Work, ProcessSite, TypeInv, TypeOK, Places
<1>. QED
  BY <1>1 DEF Finalize, CloseSite, Goto

LEMMA JobSiteKept ==
  ASSUME TypeInv, UpInv, OpenInv, TrackInv, [Next]_vars, NEW v \in Workers,
         wpc'[v] \in TrackerPlaces
  PROVE  trackers'[job'[v].tracker].site = job'[v].site
<1>0. /\ wpc \in [Workers -> Places]
      /\ DOMAIN trackers = 1..Len(trackers)
      /\ wpc[v] \in TrackerPlaces => /\ job[v].tracker \in DOMAIN trackers
                                     /\ trackers[job[v].tracker].site = job[v].site
  BY KnownSites DEF TypeInv, TypeOK, Places, TrackInv
<1>1. ASSUME wpc[v] \in TrackerPlaces,
             job'[v].tracker = job[v].tracker, job'[v].site = job[v].site
      PROVE  trackers'[job'[v].tracker].site = job'[v].site
  BY <1>0, <1>1, TrackersKept
<1>2. CASE UNCHANGED <<wpc, job>>
  BY <1>1, <1>2
<1>3. ASSUME NEW w \in Workers, Work(w), v # w
      PROVE  trackers'[job'[v].tracker].site = job'[v].site
  BY <1>1, <1>3, WorkJobs
<1>4. CASE Work(v)
  <2>1. CASE Lookup(v)
    <3>1. /\ wpc[v] = "lookup" /\ job[v].site \in Sites /\ Input(v) \in Branches
          /\ Open(Input(v), job[v].site)
      BY <2>1, ChannelNames
         DEF Lookup, TypeInv, FreePlaces, Branches, Open, Works, OpenAt
    <3>2. PICK k \in DOMAIN trackers :
            trackers[k].site = job[v].site /\ outcomes[job[v].site] = k /\ k # 0
      BY <3>1, OpenHasTracker
    <3>3. wpc'[v] = "fetch"
      BY <1>0, <2>1, <3>2 DEF Lookup, Goto
    <3>4. job'[v].tracker = k /\ job'[v].site = job[v].site
      BY <1>4, <2>1, <3>2, <3>3, WorkJobs
    <3>. QED
      BY <1>0, <3>2, <3>4, TrackersKept
  <2>2. CASE \/ TakeSite(v) \/ WorkerEnds(v) \/ Acquire(v) \/ Release(v)
             \/ ReturnToken(v)
    <3>1. wpc'[v] \in {"acquire", "done", "lookup", "idle", "return"}
      BY <1>0, <2>2
         DEF TakeSite, WorkerEnds, Acquire, Release, ReturnToken, Goto
    <3>. QED
      BY <3>1 DEF TrackerPlaces
  <2>3. CASE \/ FetchFails(v) \/ FetchSucceeds(v) \/ RowsSent(v)
             \/ Finalize(v) \/ CloseSite(v) \/ \E c \in Tables : SendRow(v, c)
    <3>1. wpc[v] \in TrackerPlaces
      BY <2>3 DEF FetchFails, FetchSucceeds, RowsSent, Finalize, CloseSite,
                  SendRow, Goto, TrackerPlaces
    <3>2. ~TakeSite(v) /\ ~Lookup(v) /\ ~Release(v)
      BY <3>1 DEF TakeSite, Lookup, Release, Goto, TrackerPlaces
    <3>. QED
      BY <1>1, <1>4, <3>1, <3>2, WorkJobs
  <2>. QED
    BY <1>4, <2>1, <2>2, <2>3 DEF Work, ProcessSite
<1>5. CASE \/ Distribute \/ Interrupt \/ Enumerate
           \/ SendInterrupted \/ TokenLost \/ TokenBack
           \/ (\E c \in DOMAIN written : Stream(c)) \/ CollectResults
           \/ UNCHANGED vars
  BY <1>2, <1>5
     DEF Distribute, filterSites, FilterEnds, Dispatch, DispatchSend,
         DispatchEnds, Interrupt, Enumerate, FirstPage, StartPage,
         SendRecord, NextPage, SendInterrupted, TokenLost, TokenBack, Stream,
         CollectResults, vars, workVars
<1>. QED
  BY <1>3, <1>4, <1>5 DEF Next, Returned

LEMMA TrackersDispatched ==
  ASSUME Distinct, TypeInv, UpInv, OpenInv, TrackInv, [Next]_vars, Dispatch
  PROVE  /\ \A k \in DOMAIN trackers' : \A s \in Sites :
              trackers'[k].site = s => TrackerOK(k, s)'
         /\ \A s \in Sites \ Known' : outcomes'[s] = 0
<1>. DEFINE n == Len(trackers) + 1
<1>0. /\ DOMAIN trackers' = 1..n /\ DOMAIN trackers = 1..Len(trackers)
      /\ n \in Nat /\ Len(trackers) \in Nat /\ dsite' \in Sites
      /\ trackers'[n] = NewTracker(dsite')
      /\ \A k \in DOMAIN trackers : trackers'[k] = trackers[k]
      /\ Known' = Known \cup {dsite'}
      /\ outcomes \in [Sites -> 0..Len(trackers)]
  BY Dispatched, KnownSites DEF TypeInv, TypeOK
<1>1. outcomes' = [outcomes EXCEPT ![dsite'] = n]
  BY Dispatched DEF Dispatch
<1>2. dsite' \notin Known
  <2>1. /\ dsite' = Head(chan["filtered"]) /\ chan["filtered"] # <<>>
        /\ chan["filtered"] \in Seq(Sites)
    BY Dispatched, ChannelNames DEF TypeInv, TypeOK
  <2>2. dsite' \in Range(chan["filtered"])
    BY <2>1, TailInj
  <2>. QED
    BY <2>2 DEF UpInv
<1>3. /\ \A k : Closing(k)' <=> Closing(k)
      /\ \A k : Closing(k) => k \in 1..Len(trackers)
  <2>1. UNCHANGED <<wpc, job>>
    BY DEF Dispatch, workVars
  <2>2. \A w \in Workers : wpc[w] = "close" => job[w].tracker \in 1..Len(trackers)
    BY DEF TypeInv, TrackerPlaces
  <2>. QED
    BY <2>1, <2>2 DEF Closing
<1>4. \A b \in Branches : \A s \in Sites :
        Open(b, s)' <=> Open(b, s) \/ (s = dsite' /\ EnabledBranch(b))
  BY FoundAlways, OpenChange
<1>5. ASSUME NEW k \in DOMAIN trackers, NEW s \in Sites, trackers[k].site = s
      PROVE  TrackerOK(k, s)' /\ trackers'[k].site = s
  <2>1. s \in Known /\ s # dsite' /\ TrackerOK(k, s)
    BY <1>2, <1>5, KnownSites DEF Known, TrackInv
  <2>2. /\ Open("userSites", s)' <=> Open("userSites", s)
        /\ Open("groupSites", s)' <=> Open("groupSites", s)
    BY <1>4, <2>1 DEF Branches
  <2>3. One(Open("userSites", s))' = One(Open("userSites", s))
        /\ One(Open("groupSites", s))' = One(Open("groupSites", s))
    BY <2>2 DEF One
  <2>4. outcomes'[s] = outcomes[s] /\ trackers'[k] = trackers[k]
    BY <1>0, <1>1, <2>1
  <2>5. Closing(k)' <=> Closing(k)
    BY <1>3
  <2>. QED
    BY <1>5, <2>1, <2>3, <2>4, <2>5 DEF TrackerOK
<1>6. ASSUME NEW k, NEW s, k = n, s = dsite'
      PROVE  TrackerOK(k, s)'
  <2>1. /\ Open("userSites", s)'
        /\ Open("groupSites", s)' <=> ProcessGroups
    BY <1>0, <1>2, <1>4, <1>6 DEF Branches, EnabledBranch, OpenInv
  <2>2. /\ One(Open("userSites", s))' = 1
        /\ One(Open("groupSites", s))' = IF ProcessGroups THEN 1 ELSE 0
    BY <2>1 DEF One
  <2>3. trackers'[k].remaining = IF ProcessGroups THEN 2 ELSE 1
    BY <1>0, <1>6 DEF NewTracker
  <2>4. ~Closing(k)' /\ outcomes'[s] = k
    BY <1>0, <1>1, <1>3, <1>6
  <2>. QED
    BY <2>2, <2>3, <2>4 DEF TrackerOK
<1>7. ASSUME NEW k \in DOMAIN trackers', NEW s \in Sites, trackers'[k].site = s
      PROVE  TrackerOK(k, s)'
  <2>1. CASE k \in DOMAIN trackers
    BY <1>0, <1>5, <1>7, <2>1
  <2>2. CASE k = n
    <3>1. s = dsite'
      BY <1>0, <1>7, <2>2 DEF NewTracker
    <3>. QED
      BY <1>6, <2>2, <3>1
  <2>. QED
    BY <1>0, <2>1, <2>2
<1>8. \A s \in Sites \ Known' : outcomes'[s] = 0
  BY <1>0, <1>1 DEF TrackInv
<1>. QED
  BY <1>7, <1>8

\* Nobody closes a site that somebody has still to finalize.
LEMMA OpenNotClosing ==
  ASSUME TypeInv, OpenInv, TrackInv, NEW b \in Branches, NEW s \in Sites,
         Open(b, s), NEW k \in DOMAIN trackers, trackers[k].site = s
  PROVE  ~Closing(k) /\ trackers[k].remaining > 0 /\ outcomes[s] = k
<1>. DEFINE o == One(Open("userSites", s))
            p == One(Open("groupSites", s))
<1>1. o \in {0, 1} /\ p \in {0, 1} /\ (o = 1 \/ p = 1)
  BY OneFacts, OpenBoolean DEF Branches
<1>2. /\ trackers[k].remaining = o + p
      /\ outcomes[s] = IF trackers[k].remaining > 0 \/ Closing(k) THEN k ELSE 0
      /\ Closing(k) => trackers[k].remaining = 0
  BY DEF TrackInv, TrackerOK
<1>. HIDE DEF o, p
<1>. QED
  BY <1>1, <1>2

LEMMA TrackersFinalized ==
  ASSUME TypeInv, UpInv, OpenInv, TrackInv, [Next]_vars,
         NEW w \in Workers, Finalize(w)
  PROVE  /\ \A k \in DOMAIN trackers : \A s \in Sites :
              trackers[k].site = s => TrackerOK(k, s)'
         /\ outcomes' = outcomes
         /\ \A v \in Workers : wpc[v] = "close" =>
              job[v].tracker # job[w].tracker
<1>. DEFINE n == job[w].tracker
            r == job[w].site
<1>1. /\ n \in DOMAIN trackers /\ trackers[n].site = r /\ r \in Sites
      /\ trackers'[n].remaining = trackers[n].remaining - 1
      /\ \A k \in DOMAIN trackers : k # n =>
           trackers'[k].remaining = trackers[k].remaining
      /\ wpc[w] = "finalize" /\ Input(w) \in Branches
      /\ trackers[n].remaining \in Int
  BY RemainingFinalized, SiteFinalized, KnownSites, TrackerFields
     DEF TrackInv, TrackerPlaces
<1>2. /\ outcomes' = outcomes /\ job' = job
      /\ wpc' = [wpc EXCEPT ![w] = IF trackers[n].remaining = 1 THEN "close"
                                   ELSE "release"]
      /\ wpc \in [Workers -> Places]
  BY DEF Finalize, Goto, TypeInv, TypeOK, Places
<1>3. \A b \in Branches : \A s \in Sites :
        /\ Open(b, s)' <=> Open(b, s) /\ ~(b = Input(w) /\ s = r)
        /\ Open(Input(w), r)
  BY FoundAlways, OpenChange
<1>4. Open(Input(w), r) /\ ~Closing(n) /\ outcomes[r] = n
  <2>1. Open(Input(w), r)
    BY <1>1, <1>3
  <2>. QED
    BY <1>1, <2>1, OpenNotClosing
<1>5. \A v \in Workers : wpc[v] = "close" => job[v].tracker # n
  BY <1>4 DEF Closing
<1>6. \A k : Closing(k)' <=> IF k = n THEN trackers[n].remaining = 1
                             ELSE Closing(k)
  BY <1>1, <1>2, <1>4 DEF Closing
<1>7. ASSUME NEW k, NEW s, k = n, s = r
      PROVE  TrackerOK(k, s)'
  <2>. DEFINE o == One(Open("userSites", s))
              p == One(Open("groupSites", s))
  <2>1. o \in {0, 1} /\ p \in {0, 1} /\ trackers[k].remaining = o + p
    BY <1>1, <1>7, OneFacts, OpenBoolean DEF TrackInv, TrackerOK
  <2>2. o' + p' = o + p - 1 /\ o + p >= 1
    <3>1. CASE Input(w) = "userSites"
      <4>1. o = 1 /\ o' = 0 /\ p' = p
        BY <1>1, <1>3, <1>4, <1>7, <3>1 DEF Branches, One
      <4>. HIDE DEF o, p
      <4>. QED
        BY <2>1, <4>1
    <3>2. CASE Input(w) = "groupSites"
      <4>1. p = 1 /\ p' = 0 /\ o' = o
        BY <1>1, <1>3, <1>4, <1>7, <3>2 DEF Branches, One
      <4>. HIDE DEF o, p
      <4>. QED
        BY <2>1, <4>1
    <3>. QED
      BY <1>1, <3>1, <3>2 DEF Branches
  <2>3. trackers'[k].remaining = o' + p'
    <3>. HIDE DEF o, p
    <3>. QED
      BY <1>1, <1>7, <2>1, <2>2
  <2>5. /\ trackers[k].remaining \in {1, 2}
        /\ trackers'[k].remaining = trackers[k].remaining - 1
    <3>. HIDE DEF o, p
    <3>. QED
      BY <1>1, <1>7, <2>1, <2>2
  <2>6. /\ outcomes'[s] = IF trackers'[k].remaining > 0 \/ Closing(k)' THEN k ELSE 0
        /\ Closing(k)' => trackers'[k].remaining = 0
    <3>1. outcomes'[s] = k
      BY <1>2, <1>4, <1>7
    <3>2. Closing(k)' <=> trackers[k].remaining = 1
      BY <1>6, <1>7
    <3>. QED
      BY <2>5, <3>1, <3>2
  <2>. QED
    BY <2>3, <2>6 DEF TrackerOK
<1>8. ASSUME NEW k \in DOMAIN trackers, NEW s \in Sites, trackers[k].site = s,
             k # n
      PROVE  TrackerOK(k, s)'
  <2>1. s # r
    BY <1>1, <1>8 DEF UpInv
  <2>2. TrackerOK(k, s)
    BY <1>8 DEF TrackInv
  <2>3. /\ Open("userSites", s)' <=> Open("userSites", s)
        /\ Open("groupSites", s)' <=> Open("groupSites", s)
    BY <1>3, <2>1 DEF Branches
  <2>4. One(Open("userSites", s))' = One(Open("userSites", s))
        /\ One(Open("groupSites", s))' = One(Open("groupSites", s))
    BY <2>3 DEF One
  <2>5. /\ Closing(k)' <=> Closing(k)
        /\ trackers'[k].remaining = trackers[k].remaining
        /\ outcomes'[s] = outcomes[s]
    BY <1>1, <1>2, <1>6, <1>8
  <2>. QED
    BY <2>2, <2>4, <2>5 DEF TrackerOK
<1>9. ASSUME NEW k \in DOMAIN trackers, NEW s \in Sites, trackers[k].site = s
      PROVE  TrackerOK(k, s)'
  BY <1>1, <1>7, <1>8, <1>9
<1>. QED
  BY <1>2, <1>5, <1>9

LEMMA TrackersClosed ==
  ASSUME TypeInv, UpInv, OpenInv, TrackInv, [Next]_vars,
         NEW w \in Workers, CloseSite(w)
  PROVE  /\ \A k \in DOMAIN trackers : \A s \in Sites :
              trackers[k].site = s => TrackerOK(k, s)'
         /\ job[w].tracker \in DOMAIN trackers
         /\ trackers[job[w].tracker].site = job[w].site /\ job[w].site \in Sites
         /\ outcomes' = [outcomes EXCEPT ![job[w].site] = 0]
         /\ outcomes[job[w].site] = job[w].tracker
         /\ trackers[job[w].tracker].remaining = 0
<1>. DEFINE n == job[w].tracker
            r == job[w].site
<1>1. /\ n \in DOMAIN trackers /\ trackers[n].site = r /\ r \in Sites
      /\ wpc[w] = "close" /\ wpc \in [Workers -> Places]
      /\ outcomes \in [Sites -> 0..Len(trackers)]
  BY KnownSites
     DEF CloseSite, Goto, TrackInv, TypeInv, TypeOK, TrackerPlaces, Places
<1>2. /\ outcomes' = [outcomes EXCEPT ![r] = 0] /\ job' = job
      /\ wpc' = [wpc EXCEPT ![w] = "release"] /\ trackers' = trackers
  BY <1>1 DEF CloseSite, Goto
<1>3. Closing(n) /\ trackers[n].remaining = 0 /\ outcomes[r] = n
  <2>1. Closing(n)
    BY <1>1 DEF Closing
  <2>. QED
    BY <1>1, <2>1 DEF TrackInv, TrackerOK
<1>4. /\ ~Closing(n)'
      /\ \A k : k # n => (Closing(k)' <=> Closing(k))
  BY <1>1, <1>2 DEF Closing, TrackInv
<1>5. \A b \in Branches : \A s \in Sites : Open(b, s)' <=> Open(b, s)
  <2>1. ~Dispatch /\ \A v \in Workers : ~Finalize(v)
    <3>1. ~Finalize(w)
      BY <1>1 DEF Finalize, Goto
    <3>. QED
      BY <3>1, DispatchAlone, WorkAlone
  <2>. QED
    BY <2>1, FoundAlways, OpenChange
<1>6. ASSUME NEW k \in DOMAIN trackers, NEW s \in Sites, trackers[k].site = s
      PROVE  TrackerOK(k, s)'
  <2>1. TrackerOK(k, s)
    BY <1>6 DEF TrackInv
  <2>2. /\ Open("userSites", s)' <=> Open("userSites", s)
        /\ Open("groupSites", s)' <=> Open("groupSites", s)
    BY <1>5 DEF Branches
  <2>3. One(Open("userSites", s))' = One(Open("userSites", s))
        /\ One(Open("groupSites", s))' = One(Open("groupSites", s))
    BY <2>2 DEF One
  <2>4. k = n <=> s = r
    BY <1>1, <1>6 DEF UpInv
  <2>5. outcomes'[s] = IF k = n THEN 0 ELSE outcomes[s]
    BY <1>1, <1>2, <2>4
  <2>. QED
    BY <1>2, <1>3, <1>4, <2>1, <2>3, <2>5 DEF TrackerOK
<1>. QED
  BY <1>1, <1>2, <1>3, <1>6

LEMMA TrackKept ==
  ASSUME Distinct, TypeInv, UpInv, OpenInv, TrackInv, [Next]_vars
  PROVE  TrackInv'
<1>1. \A v \in Workers : wpc'[v] \in TrackerPlaces =>
        trackers'[job'[v].tracker].site = job'[v].site
  BY JobSiteKept
<1>2. ASSUME NEW v \in Workers, NEW u \in Workers,
             wpc'[v] = "close", wpc'[u] = "close",
             job'[v].tracker = job'[u].tracker
      PROVE  v = u
  <2>0. /\ \A x, y \in Workers :
             wpc[x] = "close" /\ wpc[y] = "close"
               /\ job[x].tracker = job[y].tracker => x = y
    BY DEF TrackInv
  <2>1. CASE \A w \in Workers : ~Finalize(w) /\ ~CloseSite(w)
    BY <1>2, <2>0, <2>1, ClosersKept
  <2>2. ASSUME NEW w \in Workers, CloseSite(w)
        PROVE  v = u
    <3>1. v # w /\ u # w
      BY <1>2, <2>2 DEF CloseSite, Goto, TypeInv, TypeOK
    <3>. QED
      BY <1>2, <2>0, <2>2, <3>1, WorkAlone, ClosersKept
  <2>3. ASSUME NEW w \in Workers, Finalize(w)
        PROVE  v = u
    <3>1. /\ \A x \in Workers \ {w} : wpc'[x] = wpc[x]
          /\ job' = job
          /\ \A x \in Workers : wpc[x] = "close" =>
               job[x].tracker # job[w].tracker
      BY <2>3, TrackersFinalized, WorkJobs DEF Finalize, Work, ProcessSite
    <3>. QED
      BY <1>2, <2>0, <3>1
  <2>. QED
    BY <2>1, <2>2, <2>3
<1>3. CASE Dispatch
  BY <1>1, <1>2, <1>3, TrackersDispatched DEF TrackInv
<1>4. CASE ~Dispatch
  <2>0. /\ DOMAIN trackers' = DOMAIN trackers /\ Known' = Known
        /\ \A k \in DOMAIN trackers : trackers'[k].site = trackers[k].site
    BY <1>4, SitesKept
  <2>1. ASSUME NEW w \in Workers, Finalize(w)
        PROVE  TrackInv'
    <3>1. /\ \A k \in DOMAIN trackers : \A s \in Sites :
               trackers[k].site = s => TrackerOK(k, s)'
          /\ outcomes' = outcomes
      BY <2>1, TrackersFinalized
    <3>. QED
      BY <1>1, <1>2, <2>0, <3>1 DEF TrackInv
  <2>2. ASSUME NEW w \in Workers, CloseSite(w)
        PROVE  TrackInv'
    <3>1. /\ \A k \in DOMAIN trackers : \A s \in Sites :
               trackers[k].site = s => TrackerOK(k, s)'
          /\ outcomes' = [outcomes EXCEPT ![job[w].site] = 0]
      BY <2>2, TrackersClosed
    <3>2. \A s \in Sites \ Known : outcomes'[s] = 0
      BY <3>1 DEF TrackInv, TypeInv, TypeOK
    <3>. QED
      BY <1>1, <1>2, <2>0, <3>1, <3>2 DEF TrackInv
  <2>3. CASE \A w \in Workers : ~Finalize(w) /\ ~CloseSite(w)
    <3>1. outcomes' = outcomes
      BY <1>4, <2>3, OutcomesSteps
    <3>2. \A b \in Branches : \A s \in Sites : Open(b, s)' <=> Open(b, s)
      BY <1>4, <2>3, FoundAlways, OpenChange
    <3>3. \A k : Closing(k)' <=> Closing(k)
      BY <2>3, ClosersKept DEF Closing
    <3>4. ASSUME NEW k \in DOMAIN trackers, NEW s \in Sites, trackers[k].site = s
          PROVE  TrackerOK(k, s)'
      <4>1. TrackerOK(k, s)
        BY <3>4 DEF TrackInv
      <4>2. One(Open("userSites", s))' = One(Open("userSites", s))
            /\ One(Open("groupSites", s))' = One(Open("groupSites", s))
        BY <3>2 DEF One, Branches
      <4>3. trackers'[k].remaining = trackers[k].remaining
        BY <1>4, <2>3, RemainingKept
      <4>. QED
        BY <3>1, <3>3, <4>1, <4>2, <4>3 DEF TrackerOK
    <3>. QED
      BY <1>1, <1>2, <2>0, <3>1, <3>4 DEF TrackInv
  <2>. QED
    BY <2>1, <2>2, <2>3
<1>. QED
  BY <1>3, <1>4

-----------------------------------------------------------------------------
(* The lifetime of the trackers.                                           *)

SiteInv == TypeInv /\ UpInv /\ OpenInv /\ TrackInv

LEMMA SiteInvInit ==
  ASSUME Distinct, Init
  PROVE  SiteInv
<1>1. /\ chan = [c \in Channels |-> <<>>] /\ trackers = <<>> /\ pos = 0
      /\ \A w \in Workers : wpc[w] = "idle" /\ job[w].site = NoSite
      /\ dpc = "recv" /\ dsite = NoSite /\ outcomes = [s \in Sites |-> 0]
  BY DEF Init, NoJob
<1>2. \A c \in Channels : chan[c] = <<>> /\ Range(chan[c]) = {} /\ Inj(chan[c])
  BY <1>1 DEF Range, Inj
<1>3. Known = {}
  BY <1>1 DEF Known
<1>4. UpInv
  BY <1>1, <1>2, <1>3, ChannelNames DEF UpInv
<1>5. \A b \in Branches : /\ ~ToCome(b) /\ Inj(chan[b]) /\ Range(chan[b]) = {}
                          /\ \A w \in Workers : ~Works(b, w)
  BY <1>1, <1>2, ChannelNames DEF ToCome, Works, OpenAt, Branches
<1>6. OpenInv
  BY <1>1, <1>5 DEF OpenInv, IdleInv, SingleInv, Open
<1>7. TrackInv
  BY <1>1, <1>3 DEF TrackInv, TrackerPlaces
<1>. QED
  BY <1>4, <1>6, <1>7, TypeInvInit DEF SiteInv

LEMMA SiteInvNext ==
  ASSUME Distinct, SiteInv, [Next]_vars
  PROVE  SiteInv'
BY TypeInvNext, UpKept, OpenKept, TrackKept, FoundAlways DEF SiteInv

LEMMA SiteInvAlways == Distinct => (Spec => []SiteInv)
<1>. SUFFICES ASSUME Distinct PROVE Spec => []SiteInv
  OBVIOUS
<1>1. Init => SiteInv
  BY SiteInvInit
<1>2. SiteInv /\ [Next]_vars => SiteInv'
  BY SiteInvNext
<1>. QED
  BY <1>1, <1>2, PTL DEF Spec

LEMMA ClosedLastAlways ==
  ASSUME SiteInv
  PROVE  ClosedLast
<1>. SUFFICES ASSUME NEW w \in Workers, wpc[w] = "close"
              PROVE  /\ \A v \in Workers \ {w} :
                          job[v].site = job[w].site => wpc[v] = "release"
                     /\ dsite # job[w].site
                     /\ \A c \in Branches : \A i \in DOMAIN chan[c] :
                          chan[c][i] # job[w].site
  BY DEF ClosedLast, Branches
<1>. DEFINE k == job[w].tracker
            s == job[w].site
<1>1. /\ k \in DOMAIN trackers /\ s \in Sites /\ trackers[k].site = s
      /\ Closing(k) /\ s # NoSite
  BY KnownSites, SharePointPipelineAssumption
     DEF SiteInv, TypeInv, TrackInv, FreePlaces, TrackerPlaces, Closing
<1>2. \A b \in Branches : ~Open(b, s)
  BY <1>1, OpenNotClosing DEF SiteInv
<1>3. ASSUME NEW v \in Workers \ {w}, job[v].site = s
      PROVE  wpc[v] = "release"
  <2>1. wpc[v] \in Places /\ Input(v) \in Branches
    BY ChannelNames DEF SiteInv, TypeInv, TypeOK, Places, Branches
  <2>2. wpc[v] \notin OpenAt
    BY <1>2, <1>3, <2>1 DEF Open, Works
  <2>3. wpc[v] \notin FreePlaces
    BY <1>1, <1>3 DEF SiteInv, OpenInv, IdleInv
  <2>4. wpc[v] # "close"
    <3>1. SUFFICES ASSUME wpc[v] = "close" PROVE FALSE
      OBVIOUS
    <3>2. /\ job[v].tracker \in DOMAIN trackers
          /\ trackers[job[v].tracker].site = s
      BY <1>3, <3>1, KnownSites DEF SiteInv, TypeInv, TrackInv, TrackerPlaces
    <3>3. job[v].tracker = k
      BY <1>1, <3>2 DEF SiteInv, UpInv
    <3>. QED
      BY <3>1, <3>3 DEF SiteInv, TrackInv
  <2>. QED
    BY <2>1, <2>2, <2>3, <2>4 DEF Places, FreePlaces, OpenAt
<1>4. dsite # s
  <2>1. CASE dpc \in {"recv", "done"}
    BY <1>1, <2>1 DEF SiteInv, OpenInv, IdleInv
  <2>2. CASE dpc \in {"sites", "userSites", "groupSites"}
    <3>1. \E b \in Branches : ToCome(b)
      BY <2>2 DEF Branches, ToCome
    <3>. QED
      BY <1>2, <3>1 DEF Open
  <2>. QED
    BY <2>1, <2>2 DEF SiteInv, TypeInv, TypeOK
<1>5. ASSUME NEW c \in Branches, NEW i \in DOMAIN chan[c]
      PROVE  chan[c][i] # s
  <2>1. chan[c][i] \in Range(chan[c])
    BY DEF Range
  <2>. QED
    BY <1>2, <2>1 DEF Open
<1>. QED
  BY <1>3, <1>4, <1>5

\* A tracker lives as long as somebody needs it: for any pools, capacities and
\* pages and any list that names no site twice, no worker misses the tracker of
\* its site, and a site is closed when nobody is working on it and nobody is
\* going to.
THEOREM TrackersLive == Distinct => (Spec => []TrackerLifetime)
<1>. SUFFICES ASSUME Distinct PROVE Spec => []TrackerLifetime
  OBVIOUS
<1>1. SiteInv => TrackerLifetime
  BY FoundAlways, ClosedLastAlways DEF SiteInv, TrackerLifetime
<1>. QED
  BY <1>1, SiteInvAlways, PTL

-----------------------------------------------------------------------------
(* Counting the sites.                                                     *)

OpenTrackers == {k \in DOMAIN trackers : outcomes[trackers[k].site] # 0}

\* Every record gone through is counted where it is, and every site dispatched
\* is open or completed.
FlowInv ==
  /\ counters["dispatched"] = Len(trackers)
  /\ counters["dispatched"] + counters["skipped"] + Cardinality(Rejected)
       + Len(chan["raw"]) + Len(chan["filtered"]) = pos
  /\ counters["succeeded"] + counters["failed"] = counters["completed"]
  /\ counters["completed"] + Cardinality(OpenTrackers) = Len(trackers)

LEMMA FlowTypes ==
  ASSUME TypeInv
  PROVE  /\ counters \in [Counter -> Nat]
         /\ counters["dispatched"] \in Nat /\ counters["skipped"] \in Nat
         /\ counters["completed"] \in Nat /\ counters["succeeded"] \in Nat
         /\ counters["failed"] \in Nat
         /\ Len(chan["raw"]) \in Nat /\ Len(chan["filtered"]) \in Nat
         /\ pos \in Nat /\ Len(trackers) \in Nat
         /\ IsFiniteSet(Rejected) /\ Cardinality(Rejected) \in Nat
         /\ IsFiniteSet(OpenTrackers) /\ Cardinality(OpenTrackers) \in Nat
<1>1. pos \in Nat /\ IsFiniteSet(1..pos) /\ Len(trackers) \in Nat
      /\ IsFiniteSet(1..Len(trackers)) /\ DOMAIN trackers = 1..Len(trackers)
  BY ListingFacts, KnownSites, FS_Interval DEF TypeInv, TypeOK
<1>2. IsFiniteSet(Rejected) /\ IsFiniteSet(OpenTrackers)
  <2>1. Rejected \subseteq 1..pos /\ OpenTrackers \subseteq 1..Len(trackers)
    BY <1>1 DEF Rejected, OpenTrackers
  <2>. QED
    BY <1>1, <2>1, FS_Subset
<1>3. counters \in [Counter -> Nat]
  BY DEF TypeInv, TypeOK
<1>4. chan["raw"] \in Seq(Sites) /\ chan["filtered"] \in Seq(Sites)
  BY ChannelNames DEF TypeInv, TypeOK
<1>. QED
  BY <1>1, <1>2, <1>3, <1>4, CounterNames, FS_CardinalityType, LenProperties

\* The records in front of the dispatcher.
LEMMA FrontMoves ==
  ASSUME TypeInv, [Next]_vars
  PROVE  \/ /\ pos' = pos + 1 /\ Cardinality(Rejected') = Cardinality(Rejected) + 1
            /\ Len(chan'["raw"]) = Len(chan["raw"])
            /\ Len(chan'["filtered"]) = Len(chan["filtered"])
            /\ counters' = counters /\ ~Dispatch
         \/ /\ pos' = pos + 1 /\ Cardinality(Rejected') = Cardinality(Rejected)
            /\ Len(chan'["raw"]) = Len(chan["raw"]) + 1
            /\ Len(chan'["filtered"]) = Len(chan["filtered"])
            /\ counters' = counters /\ ~Dispatch
         \/ /\ pos' = pos /\ Cardinality(Rejected') = Cardinality(Rejected)
            /\ Len(chan'["raw"]) = Len(chan["raw"]) - 1
            /\ Len(chan'["filtered"]) = Len(chan["filtered"])
            /\ counters' = [counters EXCEPT !["skipped"] = @ + 1] /\ ~Dispatch
         \/ /\ pos' = pos /\ Cardinality(Rejected') = Cardinality(Rejected)
            /\ Len(chan'["raw"]) = Len(chan["raw"]) - 1
            /\ Len(chan'["filtered"]) = Len(chan["filtered"]) + 1
            /\ counters' = counters /\ ~Dispatch
         \/ /\ pos' = pos /\ Cardinality(Rejected') = Cardinality(Rejected)
            /\ Len(chan'["raw"]) = Len(chan["raw"])
            /\ Len(chan'["filtered"]) = Len(chan["filtered"]) - 1
            /\ counters' = [counters EXCEPT !["dispatched"] = @ + 1] /\ Dispatch
         \/ /\ pos' = pos /\ Cardinality(Rejected') = Cardinality(Rejected)
            /\ Len(chan'["raw"]) = Len(chan["raw"])
            /\ Len(chan'["filtered"]) = Len(chan["filtered"])
            /\ ~SendRecord /\ ~filterSites /\ ~Dispatch
<1>0. /\ ChanOK(chan) /\ chan["raw"] \in Seq(Sites)
      /\ chan["filtered"] \in Seq(Sites) /\ pos \in Nat
  BY ChannelNames, ListingFacts DEF TypeInv, TypeOK, ChanOK
<1>1. CASE SendRecord
  <2>. DEFINE s == Listing[pos + 1]
  <2>1. s \in Sites /\ pos' = pos + 1 /\ counters' = counters /\ ~Dispatch
    BY <1>0, <1>1, RecordSent DEF SendRecord, Dispatch, flowVars, dispatchVars
  <2>2. CASE s \in Undecodable /\ chan' = chan
    <3>1. Rejected' = Rejected \cup {pos + 1} /\ pos + 1 \notin Rejected
      BY <1>0, <2>1, <2>2 DEF Rejected
    <3>. QED
      BY <2>1, <2>2, <3>1, FlowTypes, FS_AddElement
  <2>3. CASE s \notin Undecodable /\ chan' = Push(chan, "raw", s) /\ Room("raw")
    <3>1. Rejected' = Rejected
      BY <1>0, <2>1, <2>3 DEF Rejected
    <3>2. chan'["raw"] = Append(chan["raw"], s) /\ chan'["filtered"] = chan["filtered"]
      BY <1>0, <2>1, <2>3, ChannelNames, Pushed DEF Room
    <3>3. Len(chan'["raw"]) = Len(chan["raw"]) + 1
      BY <1>0, <2>1, <3>2
    <3>. QED
      BY <2>1, <3>1, <3>2, <3>3
  <2>. QED
    BY <1>1, <2>2, <2>3 DEF SendRecord
<1>2. CASE filterSites
  <2>. DEFINE s == Head(chan["raw"])
  <2>1. /\ pos' = pos /\ chan["raw"] # <<>> /\ ~Dispatch
    BY <1>2 DEF filterSites, enumVars, flowVars, dispatchVars, Dispatch
  <2>2. Rejected' = Rejected
    BY <2>1 DEF Rejected
  <2>3. /\ ChanOK(Pop(chan, "raw")) /\ s \in Sites
        /\ Pop(chan, "raw")["raw"] = Tail(chan["raw"])
        /\ Pop(chan, "raw")["filtered"] = chan["filtered"]
    BY <1>0, <2>1, ChannelNames, Popped
  <2>4. Len(Tail(chan["raw"])) = Len(chan["raw"]) - 1
    BY <1>0, <2>1
  <2>5. CASE chan' = Pop(chan, "raw") /\ counters' = [counters EXCEPT !["skipped"] = @ + 1]
    BY <2>1, <2>2, <2>3, <2>4, <2>5
  <2>6. CASE /\ chan' = Push(Pop(chan, "raw"), "filtered", s) /\ Room("filtered")
             /\ counters' = counters
    <3>1. /\ chan'["raw"] = Tail(chan["raw"])
          /\ chan'["filtered"] = Append(chan["filtered"], s)
      BY <2>3, <2>6, ChannelNames, Pushed DEF Room
    <3>2. Len(chan'["filtered"]) = Len(chan["filtered"]) + 1
      BY <1>0, <2>3, <3>1
    <3>. QED
      BY <2>1, <2>2, <2>4, <2>6, <3>1, <3>2
  <2>. QED
    BY <1>2, <2>5, <2>6 DEF filterSites
<1>3. CASE Dispatch
  <2>1. /\ pos' = pos /\ chan["filtered"] # <<>> /\ chan' = Pop(chan, "filtered")
        /\ counters' = [counters EXCEPT !["dispatched"] = @ + 1]
    BY <1>3 DEF Dispatch, enumVars
  <2>2. chan'["raw"] = chan["raw"] /\ chan'["filtered"] = Tail(chan["filtered"])
    BY <1>0, <2>1, ChannelNames, Popped
  <2>3. Len(Tail(chan["filtered"])) = Len(chan["filtered"]) - 1
    BY <1>0, <2>1
  <2>4. Rejected' = Rejected
    BY <2>1 DEF Rejected
  <2>. QED
    BY <1>3, <2>1, <2>2, <2>3, <2>4
<1>4. CASE /\ pos' = pos /\ ~SendRecord /\ ~filterSites /\ ~Dispatch
           /\ chan'["raw"] = chan["raw"] /\ chan'["filtered"] = chan["filtered"]
  <2>1. Rejected' = Rejected
    BY <1>4 DEF Rejected
  <2>. QED
    BY <1>4, <2>1
<1>. QED
  BY <1>1, <1>2, <1>3, <1>4, UpSteps

\* A site is completed by its closing and nowhere else.
LEMMA FinishMoves ==
  ASSUME TypeInv, TrackerFound, [Next]_vars
  PROVE  /\ (\E w \in Workers : CloseSite(w)) =>
              /\ counters'["completed"] = counters["completed"] + 1
              /\ \/ /\ counters'["succeeded"] = counters["succeeded"] + 1
                    /\ counters'["failed"] = counters["failed"]
                 \/ /\ counters'["succeeded"] = counters["succeeded"]
                    /\ counters'["failed"] = counters["failed"] + 1
         /\ (\A w \in Workers : ~CloseSite(w)) =>
              /\ counters'["completed"] = counters["completed"]
              /\ counters'["succeeded"] = counters["succeeded"]
              /\ counters'["failed"] = counters["failed"]
         /\ ~filterSites /\ ~Dispatch =>
              /\ counters'["dispatched"] = counters["dispatched"]
              /\ counters'["skipped"] = counters["skipped"]
<1>0. counters \in [Counter -> Nat]
  BY DEF TypeInv, TypeOK
<1>1. ASSUME NEW w \in Workers, CloseSite(w)
      PROVE  \E c \in {"succeeded", "failed"} :
               counters' = [counters EXCEPT !["completed"] = @ + 1, ![c] = @ + 1]
  BY <1>1 DEF CloseSite
<1>2. ASSUME NEW w \in Workers, Lookup(w) PROVE counters' = counters
  BY <1>2 DEF Lookup, TrackerFound
<1>3. ASSUME \A w \in Workers : ~CloseSite(w)
      PROVE  \/ counters' = counters \/ StartPage
             \/ filterSites /\ counters' = [counters EXCEPT !["skipped"] = @ + 1]
             \/ Dispatch /\ counters' = [counters EXCEPT !["dispatched"] = @ + 1]
  BY <1>2, <1>3, CounterSteps
<1>4. StartPage => \/ counters' = counters
                   \/ \A d \in Counter : d # "discovered" => counters'[d] = counters[d]
  BY PageCounted
<1>5. CASE \E w \in Workers : CloseSite(w)
  BY <1>0, <1>1, <1>5, CounterMoves, CounterNames
<1>6. CASE \A w \in Workers : ~CloseSite(w)
  BY <1>0, <1>3, <1>4, <1>6, CounterMoves, CounterNames
<1>. QED
  BY <1>5, <1>6

LEMMA OpenTrackersMove ==
  ASSUME Distinct, SiteInv, [Next]_vars
  PROVE  /\ Dispatch => Cardinality(OpenTrackers') = Cardinality(OpenTrackers) + 1
         /\ (\E w \in Workers : CloseSite(w)) =>
              Cardinality(OpenTrackers') = Cardinality(OpenTrackers) - 1
         /\ ~Dispatch /\ (\A w \in Workers : ~CloseSite(w)) =>
              OpenTrackers' = OpenTrackers
<1>0. /\ TypeInv /\ UpInv /\ OpenInv /\ TrackInv
      /\ outcomes \in [Sites -> 0..Len(trackers)]
      /\ \A k \in DOMAIN trackers : trackers[k].site \in Sites
  BY KnownSites DEF SiteInv, TypeInv, TypeOK
<1>1. CASE Dispatch
  <2>. DEFINE n == Len(trackers) + 1
  <2>1. /\ DOMAIN trackers' = 1..n /\ DOMAIN trackers = 1..Len(trackers)
        /\ Len(trackers) \in Nat /\ n # 0
        /\ dsite' \in Sites /\ trackers'[n] = NewTracker(dsite')
        /\ \A k \in DOMAIN trackers : trackers'[k] = trackers[k]
        /\ NewTracker(dsite').site = dsite'
    BY <1>0, <1>1, Dispatched, KnownSites DEF NewTracker
  <2>2. outcomes' = [outcomes EXCEPT ![dsite'] = n]
    BY <1>0, <1>1, Dispatched DEF Dispatch
  <2>3. \A k \in DOMAIN trackers : trackers[k].site # dsite'
    <3>1. UpInv'
      BY <1>0, UpKept
    <3>. QED
      BY <2>1, <3>1 DEF UpInv
  <2>4. OpenTrackers' = OpenTrackers \cup {n} /\ n \notin OpenTrackers
    <3>1. n \in OpenTrackers' /\ n \notin OpenTrackers
      BY <1>0, <2>1, <2>2 DEF OpenTrackers
    <3>2. ASSUME NEW k \in DOMAIN trackers
          PROVE  k \in OpenTrackers' <=> k \in OpenTrackers
      <4>1. outcomes'[trackers'[k].site] = outcomes[trackers[k].site]
        BY <1>0, <2>1, <2>2, <2>3
      <4>. QED
        BY <2>1, <4>1 DEF OpenTrackers
    <3>3. OpenTrackers \subseteq DOMAIN trackers
          /\ OpenTrackers' \subseteq DOMAIN trackers \cup {n}
      BY <2>1 DEF OpenTrackers
    <3>. QED
      BY <3>1, <3>2, <3>3
  <2>5. ~\E w \in Workers : CloseSite(w)
    BY <1>0, <1>1, DispatchAlone
  <2>. QED
    BY <1>0, <1>1, <2>4, <2>5, FlowTypes, FS_AddElement
<1>2. ASSUME NEW w \in Workers, CloseSite(w)
      PROVE  Cardinality(OpenTrackers') = Cardinality(OpenTrackers) - 1
  <2>. DEFINE n == job[w].tracker
              s == job[w].site
  <2>1. /\ n \in DOMAIN trackers /\ trackers[n].site = s /\ s \in Sites
        /\ outcomes' = [outcomes EXCEPT ![s] = 0] /\ outcomes[s] = n
        /\ trackers' = trackers /\ n # 0
    <3>1. trackers' = trackers
      BY <1>2 DEF CloseSite
    <3>2. /\ n \in DOMAIN trackers /\ trackers[n].site = s /\ s \in Sites
          /\ outcomes' = [outcomes EXCEPT ![s] = 0] /\ outcomes[s] = n
      BY <1>0, <1>2, TrackersClosed
    <3>. QED
      BY <1>0, <3>1, <3>2, KnownSites
  <2>2. OpenTrackers' = OpenTrackers \ {n} /\ n \in OpenTrackers
    BY <1>0, <2>1 DEF OpenTrackers, UpInv
  <2>. QED
    BY <1>0, <2>2, FlowTypes, FS_RemoveElement
<1>3. CASE ~Dispatch /\ \A w \in Workers : ~CloseSite(w)
  <2>1. outcomes' = outcomes
    BY <1>0, <1>3, OutcomesSteps
  <2>. QED
    BY <1>0, <1>3, <2>1, SitesKept DEF OpenTrackers
<1>4. ASSUME NEW w \in Workers, CloseSite(w) PROVE ~Dispatch
  BY <1>0, <1>4, DispatchAlone
<1>. QED
  BY <1>1, <1>2, <1>3, <1>4, DispatchAlone

LEMMA FlowNext ==
  ASSUME Distinct, SiteInv, FlowInv, [Next]_vars
  PROVE  FlowInv'
<1>. DEFINE d == counters["dispatched"]
            s == counters["skipped"]
            u == Cardinality(Rejected)
            r == Len(chan["raw"])
            f == Len(chan["filtered"])
            c == counters["completed"]
            y == counters["succeeded"]
            n == counters["failed"]
            o == Cardinality(OpenTrackers)
            t == Len(trackers)
<1>0. TypeInv /\ TypeInv' /\ TrackerFound /\ counters \in [Counter -> Nat]
  BY FlowTypes, TypeInvNext, FoundAlways DEF SiteInv
<1>1. /\ d \in Nat /\ s \in Nat /\ u \in Nat /\ r \in Nat /\ f \in Nat
      /\ c \in Nat /\ y \in Nat /\ n \in Nat /\ o \in Nat /\ t \in Nat
      /\ pos \in Nat
  BY <1>0, FlowTypes
<1>2. /\ d = t /\ d + s + u + r + f = pos /\ y + n = c /\ c + o = t
  BY DEF FlowInv
<1>3. d' = t'
  <2>1. CASE Dispatch
    <3>1. d' = d + 1
      BY <1>0, <2>1, CounterMoves, CounterNames DEF Dispatch
    <3>2. t' = t + 1
      <4>1. /\ DOMAIN trackers' = 1..(t + 1) /\ DOMAIN trackers' = 1..t'
            /\ t' \in Nat
        BY <1>0, <2>1, Dispatched, KnownSites, TrackersKept
      <4>. HIDE DEF t
      <4>. QED
        BY <1>1, <4>1
    <3>. QED
      BY <1>2, <3>1, <3>2
  <2>2. CASE ~Dispatch
    <3>1. t' = t
      BY <1>0, <2>2, SitesKept
    <3>2. d' = d
      <4>1. CASE filterSites
        BY <1>0, <4>1, CounterMoves, CounterNames DEF filterSites
      <4>2. CASE ~filterSites
        BY <1>0, <2>2, <4>2, FinishMoves
      <4>. QED
        BY <4>1, <4>2
    <3>. QED
      BY <1>2, <3>1, <3>2
  <2>. QED
    BY <2>1, <2>2
<1>4. d' + s' + u' + r' + f' = pos'
  <2>1. \/ /\ pos' = pos + 1 /\ u' = u + 1 /\ r' = r /\ f' = f /\ d' = d /\ s' = s
        \/ /\ pos' = pos + 1 /\ u' = u /\ r' = r + 1 /\ f' = f /\ d' = d /\ s' = s
        \/ /\ pos' = pos /\ u' = u /\ r' = r - 1 /\ f' = f /\ d' = d /\ s' = s + 1
        \/ /\ pos' = pos /\ u' = u /\ r' = r - 1 /\ f' = f + 1 /\ d' = d /\ s' = s
        \/ /\ pos' = pos /\ u' = u /\ r' = r /\ f' = f - 1 /\ d' = d + 1 /\ s' = s
        \/ /\ pos' = pos /\ u' = u /\ r' = r /\ f' = f /\ d' = d /\ s' = s
    BY <1>0, FrontMoves, CounterMoves, CounterNames, FinishMoves
  <2>. HIDE DEF d, s, u, r, f
  <2>2. CASE pos' = pos + 1 /\ u' = u + 1 /\ r' = r /\ f' = f /\ d' = d /\ s' = s
    BY <1>1, <1>2, <2>2
  <2>3. CASE pos' = pos + 1 /\ u' = u /\ r' = r + 1 /\ f' = f /\ d' = d /\ s' = s
    BY <1>1, <1>2, <2>3
  <2>4. CASE pos' = pos /\ u' = u /\ r' = r - 1 /\ f' = f /\ d' = d /\ s' = s + 1
    BY <1>1, <1>2, <2>4
  <2>5. CASE pos' = pos /\ u' = u /\ r' = r - 1 /\ f' = f + 1 /\ d' = d /\ s' = s
    BY <1>1, <1>2, <2>5
  <2>6. CASE pos' = pos /\ u' = u /\ r' = r /\ f' = f - 1 /\ d' = d + 1 /\ s' = s
    BY <1>1, <1>2, <2>6
  <2>7. CASE pos' = pos /\ u' = u /\ r' = r /\ f' = f /\ d' = d /\ s' = s
    BY <1>1, <1>2, <2>7
  <2>. QED
    BY <2>1, <2>2, <2>3, <2>4, <2>5, <2>6, <2>7
<1>5. y' + n' = c' /\ c' + o' = t'
  <2>1. CASE \E w \in Workers : CloseSite(w)
    <3>1. /\ c' = c + 1 /\ o' = o - 1
          /\ (y' = y + 1 /\ n' = n) \/ (y' = y /\ n' = n + 1)
      BY <1>0, <2>1, FinishMoves, OpenTrackersMove
    <3>2. t' = t
      BY <1>0, <2>1, DispatchAlone, SitesKept
    <3>. HIDE DEF c, y, n, o, t
    <3>3. CASE y' = y + 1 /\ n' = n
      BY <1>1, <1>2, <3>1, <3>2, <3>3
    <3>4. CASE y' = y /\ n' = n + 1
      BY <1>1, <1>2, <3>1, <3>2, <3>4
    <3>. QED
      BY <3>1, <3>3, <3>4
  <2>2. CASE \A w \in Workers : ~CloseSite(w)
    <3>1. c' = c /\ y' = y /\ n' = n
      BY <1>0, <2>2, FinishMoves
    <3>2. CASE Dispatch
      <4>1. o' = o + 1 /\ t' = t + 1
        <5>1. o' = o + 1
          BY <3>2, OpenTrackersMove
        <5>2. /\ DOMAIN trackers' = 1..(t + 1) /\ DOMAIN trackers' = 1..t'
              /\ t' \in Nat
          BY <1>0, <3>2, Dispatched, KnownSites, TrackersKept
        <5>. HIDE DEF t
        <5>3. t' = t + 1
          BY <1>1, <5>2
        <5>. QED
          BY <5>1, <5>3
      <4>. HIDE DEF c, y, n, o, t
      <4>. QED
        BY <1>1, <1>2, <3>1, <4>1
    <3>3. CASE ~Dispatch
      <4>1. o' = o /\ t' = t
        BY <1>0, <2>2, <3>3, OpenTrackersMove, SitesKept
      <4>. HIDE DEF c, y, n, o, t
      <4>. QED
        BY <1>1, <1>2, <3>1, <4>1
    <3>. QED
      BY <3>2, <3>3
  <2>. QED
    BY <2>1, <2>2
<1>. QED
  BY <1>3, <1>4, <1>5 DEF FlowInv

-----------------------------------------------------------------------------
(* The end of the stages, one after the other.                             *)

EndInv ==
  /\ ~filtering => epc = "done" /\ chan["raw"] = <<>>
  /\ dpc = "done" => ~filtering /\ chan["filtered"] = <<>>
  /\ \A w \in Workers : wpc[w] = "done" => dpc = "done" /\ chan[Input(w)] = <<>>
  /\ returned => StreamsEnded

LEMMA WorkNotDone ==
  ASSUME NEW w \in Workers, Work(w)
  PROVE  wpc[w] # "done"
BY DEF Work, ProcessSite, TakeSite, WorkerEnds, Acquire, Lookup, FetchFails,
       FetchSucceeds, SendRow, RowsSent, Finalize, CloseSite, Release,
       ReturnToken, Goto

\* What has ended stays ended.
LEMMA EndedStays ==
  ASSUME TypeInv, EndInv, [Next]_vars
  PROVE  /\ epc = "done" => epc' = "done"
         /\ ~filtering => ~filtering'
         /\ dpc = "done" => dpc' = "done"
         /\ \A w \in Workers : wpc[w] = "done" => wpc'[w] = "done"
<1>1. CASE \E w \in Workers : Work(w)
  BY <1>1, WorkFrame, WorkNotDone, WorkJobs
<1>2. CASE Distribute
  BY <1>2 DEF Distribute, filterSites, FilterEnds, Dispatch, DispatchSend,
              DispatchEnds, enumVars, workVars, flowVars, dispatchVars
<1>3. CASE \/ Interrupt \/ Enumerate \/ SendInterrupted \/ TokenLost
           \/ TokenBack \/ (\E c \in DOMAIN written : Stream(c))
           \/ CollectResults \/ UNCHANGED vars
  BY <1>3
     DEF Interrupt, Enumerate, FirstPage, StartPage, SendRecord, NextPage,
         SendInterrupted, TokenLost, TokenBack, Stream, CollectResults,
         vars, enumVars, workVars, flowVars, dispatchVars
<1>. QED
  BY <1>1, <1>2, <1>3 DEF Next, Returned

LEMMA EmptyStays ==
  ASSUME TypeInv, EndInv, [Next]_vars
  PROVE  /\ epc = "done" /\ chan["raw"] = <<>> => chan'["raw"] = <<>>
         /\ dpc = "done" => chan'["filtered"] = <<>>
         /\ \A b \in Branches :
              dpc = "done" /\ chan[b] = <<>> => chan'[b] = <<>>
<1>0. ChanOK(chan) /\ Branches \subseteq Channels
  BY ChannelNames DEF TypeInv, TypeOK, ChanOK, Branches
<1>1. ASSUME epc = "done", chan["raw"] = <<>> PROVE chan'["raw"] = <<>>
  <2>1. ~SendRecord /\ ~filterSites
    BY <1>1 DEF SendRecord, filterSites
  <2>2. Dispatch => chan'["raw"] = chan["raw"]
    BY <1>0, Popped, ChannelNames DEF Dispatch
  <2>. QED
    BY <1>1, <2>1, <2>2, UpSteps
<1>2. ASSUME dpc = "done" PROVE chan'["filtered"] = <<>>
  <2>1. epc = "done" /\ chan["raw"] = <<>> /\ chan["filtered"] = <<>>
    BY <1>2 DEF EndInv
  <2>2. ~SendRecord /\ ~filterSites /\ ~Dispatch
    BY <2>1 DEF SendRecord, filterSites, Dispatch
  <2>. QED
    BY <2>1, <2>2, UpSteps
<1>3. ASSUME NEW b \in Branches, dpc = "done", chan[b] = <<>>
      PROVE  chan'[b] = <<>>
  <2>1. ~SendRecord /\ ~filterSites /\ ~Dispatch /\ ~DispatchSend
    BY <1>3 DEF SendRecord, filterSites, Dispatch, DispatchSend, EndInv
  <2>2. ASSUME NEW w \in Workers, TakeSite(w)
        PROVE  chan'[b] = chan[b]
    BY <1>3, <2>2, SiteTaken
  <2>3. ASSUME NEW w \in Workers, NEW c \in Tables, SendRow(w, c)
        PROVE  chan'[b] = chan[b]
    <3>1. c \in Channels \ Branches /\ job[w].site \in Sites
      BY <2>3, ChannelNames DEF Tables, Branches, SendRow, TypeInv, FreePlaces
    <3>. QED
      BY <1>0, <2>3, <3>1, Pushed DEF SendRow, Room
  <2>4. ASSUME NEW c \in {"sites"} \cup Tables, Stream(c)
        PROVE  chan'[b] = chan[b]
    <3>1. c \in Channels \ Branches
      BY ChannelNames DEF Tables, Branches
    <3>. QED
      BY <1>0, <2>4, <3>1, Popped DEF Stream
  <2>. QED
    BY <1>3, <2>1, <2>2, <2>3, <2>4, ChanSteps
<1>. QED
  BY <1>1, <1>2, <1>3

\* Nothing moves once the streams have ended.
LEMMA StreamsStay ==
  ASSUME TypeInv, EndInv, [Next]_vars, StreamsEnded
  PROVE  StreamsEnded'
<1>0. /\ dpc = "done" /\ chan["sites"] = <<>> /\ chan["users"] = <<>>
      /\ \A w \in Workers : wpc[w] = "done"
      /\ ProcessGroups => chan["groups"] = <<>>
      /\ ProcessGroups /\ ProcessGroupMembers => chan["members"] = <<>>
      /\ ChanOK(chan)
  BY DEF StreamsEnded, TypeInv, TypeOK, ChanOK
<1>1. dpc' = "done" /\ \A w \in Workers : wpc'[w] = "done"
  BY <1>0, EndedStays
<1>2. ASSUME NEW c \in {"sites"} \cup Tables, chan[c] = <<>>
      PROVE  chan'[c] = <<>>
  <2>1. ~SendRecord /\ ~filterSites /\ ~Dispatch /\ ~DispatchSend
    BY <1>0 DEF SendRecord, filterSites, Dispatch, DispatchSend, EndInv
  <2>2. \A w \in Workers : ~Work(w)
    BY <1>0, WorkNotDone
  <2>3. \A w \in Workers : ~TakeSite(w) /\ \A d \in Tables : ~SendRow(w, d)
    BY <2>2 DEF Work, ProcessSite
  <2>4. ASSUME NEW d \in {"sites"} \cup Tables, Stream(d)
        PROVE  chan'[c] = <<>>
    <3>1. d # c /\ chan[d] # <<>>
      BY <1>2, <2>4 DEF Stream
    <3>. QED
      BY <1>0, <1>2, <2>4, <3>1, ChannelNames, Popped DEF Stream
  <2>. QED
    BY <1>2, <2>1, <2>3, <2>4, ChanSteps
<1>. QED
  BY <1>0, <1>1, <1>2 DEF StreamsEnded, Tables

LEMMA EndNext ==
  ASSUME TypeInv, EndInv, [Next]_vars
  PROVE  EndInv'
<1>1. ~filtering' => epc' = "done" /\ chan'["raw"] = <<>>
  <2>1. CASE filtering
    <3>1. CASE FilterEnds
      BY <3>1 DEF FilterEnds, enumVars
    <3>2. CASE ~FilterEnds
      <4>1. filtering' = filtering
        BY <3>2, WorkFrame
           DEF Next, Distribute, filterSites, Dispatch, DispatchSend,
               DispatchEnds, Interrupt, Enumerate, FirstPage, StartPage,
               SendRecord, NextPage, SendInterrupted, TokenLost, TokenBack,
               Stream, CollectResults, Returned, vars, flowVars, dispatchVars
      <4>. QED
        BY <2>1, <4>1
    <3>. QED
      BY <3>1, <3>2
  <2>2. CASE ~filtering
    BY <2>2, EndedStays, EmptyStays DEF EndInv
  <2>. QED
    BY <2>1, <2>2
<1>2. dpc' = "done" => ~filtering' /\ chan'["filtered"] = <<>>
  <2>1. CASE dpc = "done"
    BY <2>1, EndedStays, EmptyStays DEF EndInv
  <2>2. CASE dpc # "done" /\ DispatchEnds
    BY <2>2 DEF DispatchEnds
  <2>3. CASE dpc # "done" /\ ~DispatchEnds
    <3>1. CASE DispatchSend
      BY <3>1 DEF DispatchSend, NextSend
    <3>2. CASE ~DispatchSend
      BY <2>3, <3>2, WorkFrame
         DEF Next, Distribute, filterSites, FilterEnds, Dispatch,
             Interrupt, Enumerate, FirstPage, StartPage,
             SendRecord, NextPage, SendInterrupted, TokenLost, TokenBack,
             Stream, CollectResults, Returned, vars, flowVars, dispatchVars
    <3>. QED
      BY <3>1, <3>2
  <2>. QED
    BY <2>1, <2>2, <2>3
<1>3. ASSUME NEW v \in Workers, wpc'[v] = "done"
      PROVE  dpc' = "done" /\ chan'[Input(v)] = <<>>
  <2>0. Input(v) \in Branches /\ wpc \in [Workers -> Places]
    BY ChannelNames DEF Branches, TypeInv, TypeOK, Places
  <2>1. CASE wpc[v] = "done"
    BY <2>0, <2>1, EndedStays, EmptyStays DEF EndInv
  <2>2. CASE wpc[v] # "done" /\ WorkerEnds(v)
    BY <2>2, WorkFrame DEF WorkerEnds, Work, flowVars, dispatchVars
  <2>3. CASE wpc[v] # "done" /\ ~WorkerEnds(v)
    <3>1. wpc'[v] # "done"
      <4>1. CASE wpc' = wpc
        BY <2>3, <4>1
      <4>2. ASSUME NEW w \in Workers, Work(w), w # v
            PROVE  wpc'[v] = wpc[v]
        BY <4>2, WorkJobs
      <4>3. CASE Work(v)
        <5>1. CASE \/ TakeSite(v) \/ Acquire(v) \/ Lookup(v) \/ Release(v)
                   \/ ReturnToken(v)
          BY <2>0, <5>1
             DEF TakeSite, Acquire, Lookup, Release, ReturnToken, Goto
        <5>2. CASE \/ FetchFails(v) \/ FetchSucceeds(v) \/ RowsSent(v)
                   \/ Finalize(v) \/ CloseSite(v)
          BY <2>0, <5>2
             DEF FetchFails, FetchSucceeds, RowsSent, Finalize, CloseSite, Goto
        <5>3. CASE \E c \in Tables : SendRow(v, c)
          BY <2>3, <5>3 DEF SendRow
        <5>. QED
          BY <2>3, <4>3, <5>1, <5>2, <5>3 DEF Work, ProcessSite
      <4>4. CASE \/ Distribute \/ Interrupt \/ Enumerate
                 \/ SendInterrupted \/ TokenLost \/ TokenBack
                 \/ (\E c \in DOMAIN written : Stream(c)) \/ CollectResults
                 \/ UNCHANGED vars
        BY <4>1, <4>4
           DEF Distribute, filterSites, FilterEnds, Dispatch, DispatchSend,
               DispatchEnds, Interrupt, Enumerate, FirstPage, StartPage,
               SendRecord, NextPage, SendInterrupted, TokenLost, TokenBack,
               Stream, CollectResults, vars, workVars
      <4>. QED
        BY <2>3, <4>2, <4>3, <4>4 DEF Next, Returned
    <3>. QED
      BY <1>3, <3>1
  <2>. QED
    BY <2>1, <2>2, <2>3
<1>4. returned' => StreamsEnded'
  <2>1. returned' => returned \/ CollectResults
    <3>1. CASE \E w \in Workers : Work(w)
      BY <3>1, WorkFrame
    <3>2. CASE Distribute
      BY <3>2 DEF Distribute, filterSites, FilterEnds, Dispatch, DispatchSend,
                  DispatchEnds, outVars
    <3>3. CASE \/ Interrupt \/ Enumerate \/ SendInterrupted \/ TokenLost
               \/ TokenBack \/ (\E c \in DOMAIN written : Stream(c))
               \/ UNCHANGED vars
      BY <3>3
         DEF Interrupt, Enumerate, FirstPage, StartPage, SendRecord, NextPage,
             SendInterrupted, TokenLost, TokenBack, Stream, vars, outVars
    <3>. QED
      BY <3>1, <3>2, <3>3 DEF Next, Returned
  <2>2. returned \/ CollectResults => StreamsEnded
    BY DEF EndInv, CollectResults
  <2>. QED
    BY <2>1, <2>2, StreamsStay
<1>. QED
  BY <1>1, <1>2, <1>3, <1>4 DEF EndInv, Input

\* Every pool that is used has a worker.
Staffed == UserWorkers # {} /\ (ProcessGroups => GroupWorkers # {})

LEMMA NothingLeft ==
  ASSUME Staffed, SiteInv, EndInv, StreamsEnded
  PROVE  /\ chan["raw"] = <<>> /\ chan["filtered"] = <<>>
         /\ \A s \in Sites : outcomes[s] = 0
<1>1. /\ dpc = "done" /\ \A w \in Workers : wpc[w] = "done"
      /\ chan["raw"] = <<>> /\ chan["filtered"] = <<>>
      /\ \A w \in Workers : chan[Input(w)] = <<>>
  BY DEF EndInv, StreamsEnded
<1>2. /\ chan["userSites"] = <<>>
      /\ ProcessGroups => chan["groupSites"] = <<>>
  <2>1. PICK u \in UserWorkers : TRUE
    BY DEF Staffed
  <2>2. u \in Workers /\ Input(u) = "userSites"
    BY DEF Workers, Input
  <2>3. ASSUME ProcessGroups PROVE chan["groupSites"] = <<>>
    <3>1. PICK g \in GroupWorkers : TRUE
      BY <2>3 DEF Staffed
    <3>2. g \in Workers /\ Input(g) = "groupSites"
      BY SharePointPipelineAssumption DEF Workers, Input
    <3>. QED
      BY <1>1, <3>2
  <2>. QED
    BY <1>1, <2>2, <2>3
<1>3. ASSUME NEW b \in Branches, NEW s \in Sites PROVE ~Open(b, s)
  <2>1. SUFFICES ASSUME Open(b, s) PROVE FALSE
    OBVIOUS
  <2>2. b = "groupSites" => ProcessGroups
    BY <2>1 DEF SiteInv, OpenInv
  <2>3. chan[b] = <<>>
    BY <1>2, <2>2 DEF Branches
  <2>4. Range(chan[b]) = {} /\ ~ToCome(b) /\ \A w \in Workers : ~Works(b, w)
    BY <1>1, <2>3 DEF Range, ToCome, Works, OpenAt
  <2>. QED
    BY <2>1, <2>4 DEF Open
<1>4. ASSUME NEW s \in Sites PROVE outcomes[s] = 0
  <2>1. CASE s \notin Known
    BY <2>1 DEF SiteInv, TrackInv
  <2>2. CASE s \in Known
    <3>1. PICK k \in DOMAIN trackers : trackers[k].site = s
      BY <2>2 DEF Known
    <3>2. TrackerOK(k, s) /\ ~Closing(k)
      BY <1>1, <3>1 DEF SiteInv, TrackInv, Closing
    <3>3. /\ One(Open("userSites", s)) = 0 /\ One(Open("groupSites", s)) = 0
      BY <1>3 DEF One, Branches
    <3>4. trackers[k].remaining = 0
      BY <3>2, <3>3 DEF TrackerOK
    <3>. QED
      BY <3>2, <3>4 DEF TrackerOK
  <2>. QED
    BY <2>1, <2>2
<1>. QED
  BY <1>1, <1>4

LEMMA EndInit == Init => EndInv
BY DEF Init, EndInv

LEMMA FlowInit ==
  ASSUME Init
  PROVE  FlowInv
<1>1. /\ counters["dispatched"] = 0 /\ counters["skipped"] = 0
      /\ counters["completed"] = 0 /\ counters["succeeded"] = 0
      /\ counters["failed"] = 0 /\ pos = 0 /\ trackers = <<>>
      /\ chan["raw"] = <<>> /\ chan["filtered"] = <<>>
  BY ChannelNames DEF Init
<1>2. Rejected = {} /\ OpenTrackers = {}
  BY <1>1 DEF Rejected, OpenTrackers
<1>3. /\ Cardinality(Rejected) = 0 /\ Cardinality(OpenTrackers) = 0
      /\ Len(trackers) = 0 /\ Len(chan["raw"]) = 0 /\ Len(chan["filtered"]) = 0
  BY <1>1, <1>2, FS_EmptySet
<1>. QED
  BY <1>1, <1>3 DEF FlowInv

LEMMA FlowAlways == Distinct => (Spec => [](SiteInv /\ EndInv /\ FlowInv))
<1>. SUFFICES ASSUME Distinct PROVE Spec => [](SiteInv /\ EndInv /\ FlowInv)
  OBVIOUS
<1>1. SiteInv /\ EndInv /\ [Next]_vars => EndInv'
  BY EndNext DEF SiteInv
<1>2. SiteInv /\ FlowInv /\ [Next]_vars => FlowInv'
  BY FlowNext
<1>3. Init => EndInv /\ FlowInv
  BY EndInit, FlowInit
<1>. QED
  BY <1>1, <1>2, <1>3, SiteInvAlways, PTL DEF Spec

\* Every record gone through is skipped, undecodable or dispatched, and every
\* site dispatched is completed once and leaves no tracker behind, for any
\* pools, pages, capacities and interrupts and any list that names no site
\* twice: without a worker in a pool that is used a site would stay.
THEOREM SitesAccounted == Distinct /\ Staffed => (Spec => []SitesAccountedFor)
<1>. SUFFICES ASSUME Distinct, Staffed PROVE Spec => []SitesAccountedFor
  OBVIOUS
<1>1. SiteInv /\ EndInv /\ FlowInv => SitesAccountedFor
  <2>. SUFFICES ASSUME SiteInv, EndInv, FlowInv, returned
                PROVE  /\ counters["dispatched"] + counters["skipped"]
                            + Cardinality(Rejected) = pos
                       /\ pos <= counters["discovered"]
                       /\ counters["completed"] = counters["dispatched"]
                       /\ counters["succeeded"] + counters["failed"]
                            = counters["completed"]
                       /\ \A s \in Sites : outcomes[s] = 0
    BY DEF SitesAccountedFor, Rejected
  <2>1. /\ chan["raw"] = <<>> /\ chan["filtered"] = <<>>
        /\ \A s \in Sites : outcomes[s] = 0
    BY NothingLeft DEF EndInv
  <2>2. OpenTrackers = {}
    BY <2>1, KnownSites DEF OpenTrackers, SiteInv
  <2>3. /\ Cardinality(OpenTrackers) = 0
        /\ Len(chan["raw"]) = 0 /\ Len(chan["filtered"]) = 0
    BY <2>1, <2>2, FS_EmptySet
  <2>4. TypeInv
    BY DEF SiteInv
  <2>5. counters["completed"] = counters["dispatched"]
    BY <2>3, <2>4, FlowTypes DEF FlowInv
  <2>6. counters["dispatched"] + counters["skipped"] + Cardinality(Rejected) = pos
    <3>. DEFINE d == counters["dispatched"]
                s == counters["skipped"]
                u == Cardinality(Rejected)
    <3>1. d \in Nat /\ s \in Nat /\ u \in Nat /\ d + s + u + 0 + 0 = pos
      BY <2>3, <2>4, FlowTypes DEF FlowInv
    <3>. HIDE DEF d, s, u
    <3>2. d + s + u = pos
      BY <3>1
    <3>. QED
      BY <3>2 DEF d, s, u
  <2>. QED
    BY <2>1, <2>4, <2>5, <2>6 DEF FlowInv, TypeInv, ListInv
<1>. QED
  BY <1>1, FlowAlways, PTL

-----------------------------------------------------------------------------
(* The outcomes.                                                           *)

Closed(k) == outcomes[trackers[k].site] = 0

\* The outcomes recorded are the closed trackers with a failure.
ErrorInv ==
  /\ Len(recorded) = counters["failed"]
  /\ \A i \in DOMAIN recorded : \E k \in DOMAIN trackers :
       recorded[i] = trackers[k] /\ HasFailed(trackers[k]) /\ Closed(k)
  /\ \A k \in DOMAIN trackers : Closed(k) /\ HasFailed(trackers[k]) =>
       trackers[k] \in Range(recorded)

\* Nobody writes a tracker that is no longer in the map.
LEMMA ClosedFrozen ==
  ASSUME Distinct, SiteInv, [Next]_vars, NEW k \in DOMAIN trackers, Closed(k)
  PROVE  k \in DOMAIN trackers' /\ trackers'[k] = trackers[k] /\ Closed(k)'
<1>0. /\ TypeInv /\ UpInv /\ OpenInv /\ TrackInv
      /\ DOMAIN trackers = 1..Len(trackers) /\ k # 0 /\ Len(trackers) \in Nat
      /\ trackers[k].site \in Sites
      /\ outcomes \in [Sites -> 0..Len(trackers)]
  BY KnownSites DEF SiteInv, TypeInv, TypeOK
<1>1. ASSUME NEW w \in Workers, wpc[w] \in {"fetch", "send", "finalize"}
      PROVE  job[w].tracker # k
  <2>1. /\ Input(w) \in Branches /\ job[w].site \in Sites
        /\ job[w].tracker \in DOMAIN trackers
        /\ trackers[job[w].tracker].site = job[w].site
        /\ Open(Input(w), job[w].site)
    BY <1>0, <1>1, ChannelNames
       DEF TypeInv, TrackInv, FreePlaces, TrackerPlaces, Branches, Open, Works,
           OpenAt
  <2>2. outcomes[job[w].site] = job[w].tracker
    BY <1>0, <2>1, OpenNotClosing
  <2>. QED
    BY <1>0, <2>1, <2>2 DEF Closed
<1>2. trackers'[k] = trackers[k] /\ k \in DOMAIN trackers'
  <2>1. CASE Dispatch
    BY <1>0, <2>1, Dispatched
  <2>2. CASE ~Dispatch
    <3>1. k \in DOMAIN trackers'
      BY <1>0, <2>2, SitesKept
    <3>2. ASSUME NEW w \in Workers, FetchFails(w) \/ FetchSucceeds(w)
                                    \/ RowsSent(w) \/ Finalize(w)
          PROVE  trackers'[k] = trackers[k]
      <4>1. job[w].tracker # k
        BY <1>1, <3>2 DEF FetchFails, FetchSucceeds, RowsSent, Finalize, Goto
      <4>2. \/ trackers' = trackers
            \/ \E t \in Tracker : TrackerWritten(job[w].tracker, t)
        BY <1>0, <3>2, FailureWritten, FetchWritten, RowsWrittenDown, FinalizeWritten
      <4>. QED
        BY <1>0, <4>1, <4>2 DEF TrackerWritten
    <3>. QED
      BY <1>0, <2>2, <3>1, <3>2, TrackerSteps
  <2>. QED
    BY <2>1, <2>2
<1>3. outcomes'[trackers[k].site] = 0
  <2>1. CASE Dispatch
    <3>1. /\ outcomes' = [outcomes EXCEPT ![dsite'] = Len(trackers) + 1]
          /\ DOMAIN trackers' = 1..(Len(trackers) + 1)
          /\ trackers'[Len(trackers) + 1].site = dsite'
      BY <1>0, <2>1, Dispatched DEF Dispatch, NewTracker
    <3>2. UpInv'
      BY <1>0, UpKept
    <3>3. trackers[k].site # dsite'
      BY <1>0, <1>2, <3>1, <3>2 DEF UpInv
    <3>. QED
      BY <1>0, <3>1, <3>3 DEF Closed
  <2>2. ASSUME NEW w \in Workers, CloseSite(w)
        PROVE  outcomes'[trackers[k].site] = 0
    BY <1>0, <2>2, TrackersClosed DEF Closed
  <2>. QED
    BY <2>1, <2>2, <1>0, OutcomesSteps DEF Closed
<1>. QED
  BY <1>2, <1>3 DEF Closed

LEMMA RecordedSteps ==
  ASSUME TypeInv, [Next]_vars
  PROVE  recorded' = recorded \/ \E w \in Workers : CloseSite(w)
<1>4. CASE \E w \in Workers : Work(w) /\ ~CloseSite(w)
  BY <1>4
     DEF Work, ProcessSite, TakeSite, WorkerEnds, Acquire, Lookup, FetchFails,
         FetchSucceeds, SendRow, RowsSent, Finalize, Release, ReturnToken,
         flowVars, siteVars
<1>5. CASE Distribute
  BY <1>5 DEF Distribute, filterSites, FilterEnds, Dispatch, DispatchSend,
              DispatchEnds, flowVars, siteVars
<1>6. CASE \/ Interrupt \/ Enumerate \/ SendInterrupted \/ TokenLost
           \/ TokenBack \/ (\E c \in DOMAIN written : Stream(c))
           \/ CollectResults \/ UNCHANGED vars
  BY <1>6
     DEF Interrupt, Enumerate, FirstPage, StartPage, SendRecord, NextPage,
         SendInterrupted, TokenLost, TokenBack, Stream, CollectResults,
         vars, flowVars, siteVars
<1>. QED
  BY <1>4, <1>5, <1>6 DEF Next, Returned

\* A tracker that is closed after a step was so before, or has just been closed.
LEMMA NewlyClosed ==
  ASSUME Distinct, SiteInv, [Next]_vars, NEW k \in DOMAIN trackers', Closed(k)'
  PROVE  \/ k \in DOMAIN trackers /\ Closed(k)
         \/ \E w \in Workers : CloseSite(w) /\ job[w].tracker = k
<1>0. /\ TypeInv /\ UpInv /\ OpenInv /\ TrackInv
      /\ DOMAIN trackers = 1..Len(trackers) /\ Len(trackers) \in Nat
      /\ outcomes \in [Sites -> 0..Len(trackers)]
      /\ \A i \in DOMAIN trackers : trackers[i].site \in Sites
  BY KnownSites DEF SiteInv, TypeInv, TypeOK
<1>1. CASE Dispatch
  <2>1. /\ outcomes' = [outcomes EXCEPT ![dsite'] = Len(trackers) + 1]
        /\ DOMAIN trackers' = 1..(Len(trackers) + 1) /\ dsite' \in Sites
        /\ trackers'[Len(trackers) + 1].site = dsite'
        /\ \A i \in DOMAIN trackers : trackers'[i] = trackers[i]
    BY <1>0, <1>1, Dispatched DEF Dispatch, NewTracker
  <2>2. k # Len(trackers) + 1
    BY <1>0, <2>1 DEF Closed
  <2>3. UpInv'
    BY <1>0, UpKept
  <2>4. k \in DOMAIN trackers /\ trackers[k].site # dsite'
    BY <1>0, <2>1, <2>2, <2>3 DEF UpInv
  <2>. QED
    BY <1>0, <2>1, <2>4 DEF Closed
<1>2. CASE ~Dispatch
  <2>1. DOMAIN trackers' = DOMAIN trackers /\ trackers'[k].site = trackers[k].site
    BY <1>0, <1>2, SitesKept
  <2>2. CASE outcomes' = outcomes
    BY <2>1, <2>2 DEF Closed
  <2>3. ASSUME NEW w \in Workers, CloseSite(w), job[w].tracker # k
        PROVE  Closed(k)
    <3>1. /\ job[w].tracker \in DOMAIN trackers
          /\ trackers[job[w].tracker].site = job[w].site
          /\ outcomes' = [outcomes EXCEPT ![job[w].site] = 0]
      BY <1>0, <2>3, TrackersClosed
    <3>2. trackers[k].site # job[w].site
      BY <1>0, <2>1, <2>3, <3>1 DEF UpInv
    <3>. QED
      BY <1>0, <2>1, <3>1, <3>2 DEF Closed
  <2>. QED
    BY <1>0, <1>2, <2>1, <2>2, <2>3, OutcomesSteps
<1>. QED
  BY <1>1, <1>2

LEMMA ErrorNext ==
  ASSUME Distinct, SiteInv, ErrorInv, [Next]_vars
  PROVE  ErrorInv'
<1>0. /\ TypeInv /\ UpInv /\ OpenInv /\ TrackInv /\ TrackerFound
      /\ recorded \in Seq(Tracker) /\ counters \in [Counter -> Nat]
      /\ \A k \in DOMAIN trackers : trackers[k] \in Tracker
  BY FoundAlways, KnownSites DEF SiteInv, TypeInv, TypeOK
<1>1. \A k \in DOMAIN trackers : Closed(k) =>
        k \in DOMAIN trackers' /\ trackers'[k] = trackers[k] /\ Closed(k)'
  BY ClosedFrozen
<1>2. CASE \A w \in Workers : ~CloseSite(w)
  <2>1. recorded' = recorded /\ counters'["failed"] = counters["failed"]
    BY <1>0, <1>2, RecordedSteps, FinishMoves
  <2>2. \A k \in DOMAIN trackers' : Closed(k)' => k \in DOMAIN trackers /\ Closed(k)
    BY <1>2, NewlyClosed
  <2>. QED
    BY <1>1, <2>1, <2>2 DEF ErrorInv
<1>3. ASSUME NEW w \in Workers, CloseSite(w)
      PROVE  ErrorInv'
  <2>. DEFINE n == job[w].tracker
  <2>1. /\ n \in DOMAIN trackers /\ trackers' = trackers /\ trackers[n] \in Tracker
        /\ Closed(n)'
    <3>1. /\ n \in DOMAIN trackers /\ trackers[n].site = job[w].site
          /\ job[w].site \in Sites
          /\ outcomes' = [outcomes EXCEPT ![job[w].site] = 0]
      BY <1>0, <1>3, TrackersClosed
    <3>2. trackers' = trackers
      BY <1>3 DEF CloseSite
    <3>3. trackers'[job'[w].tracker].site = job[w].site /\ job' = job
      BY <1>3, <3>1, <3>2 DEF CloseSite
    <3>. QED
      BY <1>0, <3>1, <3>2, <3>3 DEF Closed, TypeInv, TypeOK
  <2>2. \A k \in DOMAIN trackers' : Closed(k)' =>
          k = n \/ (k \in DOMAIN trackers /\ Closed(k))
    <3>1. \A v \in Workers : CloseSite(v) => v = w
      BY <1>0, <1>3, WorkAlone
    <3>. QED
      BY <3>1, NewlyClosed
  <2>3. job' = job
    BY <1>3 DEF CloseSite
  <2>4. CASE HasFailed(trackers[n])
    <3>1. /\ recorded' = Append(recorded, trackers[n])
          /\ counters' = [counters EXCEPT !["completed"] = @ + 1, !["failed"] = @ + 1]
      BY <1>3, <2>4 DEF CloseSite, RecordSPOutcome
    <3>2. counters'["failed"] = counters["failed"] + 1
      BY <1>0, <3>1, CounterMoves
    <3>3. Len(recorded') = Len(recorded) + 1
          /\ Range(recorded') = Range(recorded) \cup {trackers[n]}
      BY <1>0, <2>1, <3>1, AppendInj
    <3>4. ASSUME NEW i \in DOMAIN recorded'
          PROVE  \E k \in DOMAIN trackers' : /\ recorded'[i] = trackers'[k]
                                             /\ HasFailed(trackers'[k]) /\ Closed(k)'
      <4>1. recorded'[i] \in Range(recorded')
        BY DEF Range
      <4>2. CASE recorded'[i] = trackers[n]
        BY <2>1, <2>3, <2>4, <4>2
      <4>3. CASE recorded'[i] \in Range(recorded)
        BY <1>1, <2>1, <4>3 DEF ErrorInv, Range
      <4>. QED
        BY <3>3, <4>1, <4>2, <4>3
    <3>5. ASSUME NEW k \in DOMAIN trackers', Closed(k)', HasFailed(trackers'[k])
          PROVE  trackers'[k] \in Range(recorded')
      BY <2>1, <2>2, <3>3, <3>5 DEF ErrorInv
    <3>6. Len(recorded') = counters'["failed"]
      BY <3>2, <3>3 DEF ErrorInv
    <3>. QED
      BY <3>4, <3>5, <3>6 DEF ErrorInv, HasFailed
  <2>5. CASE ~HasFailed(trackers[n])
    <3>1. /\ recorded' = recorded
          /\ counters' = [counters EXCEPT !["completed"] = @ + 1, !["succeeded"] = @ + 1]
      BY <1>3, <2>5 DEF CloseSite
    <3>2. counters'["failed"] = counters["failed"]
      BY <1>0, <3>1, CounterMoves, CounterNames
    <3>. QED
      BY <1>1, <2>1, <2>2, <2>5, <3>1, <3>2 DEF ErrorInv
  <2>. QED
    BY <2>4, <2>5
<1>. QED
  BY <1>2, <1>3

LEMMA ErrorInit == Init => ErrorInv
BY DEF Init, ErrorInv, Range

\* When Process returns the outcomes are exactly the sites with a failure, with
\* everything either worker met, for any pools, pages, capacities and
\* interrupts and any list that names no site twice.
THEOREM FailuresTold == Distinct /\ Staffed => (Spec => []FailuresRecorded)
<1>. SUFFICES ASSUME Distinct, Staffed PROVE Spec => []FailuresRecorded
  OBVIOUS
<1>1. SiteInv /\ EndInv /\ ErrorInv => FailuresRecorded
  <2>. SUFFICES ASSUME SiteInv, EndInv, ErrorInv, returned
                PROVE  /\ Len(recorded) = counters["failed"]
                       /\ {recorded[i] : i \in DOMAIN recorded} =
                            {t \in {trackers[i] : i \in DOMAIN trackers} :
                               HasFailed(t)}
    BY DEF FailuresRecorded, HasFailed
  <2>1. \A k \in DOMAIN trackers : Closed(k)
    BY NothingLeft, KnownSites DEF Closed, SiteInv, EndInv
  <2>. QED
    BY <2>1 DEF ErrorInv, Range
<1>2. SiteInv /\ ErrorInv /\ [Next]_vars => ErrorInv'
  BY ErrorNext
<1>. QED
  BY <1>1, <1>2, ErrorInit, FlowAlways, PTL DEF Spec

-----------------------------------------------------------------------------
(* The rows.                                                               *)

\* Where a site is in a channel, and the rows of a site that have been sent:
\* those with the batch writer and those on their way to it.
On(c, s)     == {i \in DOMAIN chan[c] : chan[c][i] = s}
Passed(c, s) == written[c][s] + Cardinality(On(c, s))

Outputs == {"sites"} \cup Tables

LEMMA OnType ==
  ASSUME TypeInv, NEW c \in Channels, NEW s \in Sites
  PROVE  IsFiniteSet(On(c, s)) /\ Cardinality(On(c, s)) \in Nat
<1>1. Len(chan[c]) \in Int /\ DOMAIN chan[c] = 1..Len(chan[c])
  BY DEF TypeInv, TypeOK
<1>2. IsFiniteSet(1..Len(chan[c])) /\ On(c, s) \subseteq 1..Len(chan[c])
  BY <1>1, FS_Interval DEF On
<1>. QED
  BY <1>2, FS_Subset, FS_CardinalityType

LEMMA OnSent ==
  ASSUME TypeInv, NEW c \in Channels, NEW s \in Sites, NEW x \in Sites,
         chan'[c] = Append(chan[c], x)
  PROVE  Cardinality(On(c, s)') = Cardinality(On(c, s)) + One(s = x)
<1>1. chan[c] \in Seq(Sites)
  BY DEF TypeInv, TypeOK
<1>. DEFINE n == Len(chan[c])
<1>2. /\ n \in Nat /\ DOMAIN chan[c] = 1..n /\ DOMAIN chan'[c] = 1..(n + 1)
      /\ chan'[c][n + 1] = x /\ \A i \in 1..n : chan'[c][i] = chan[c][i]
  BY <1>1
<1>. HIDE DEF n
<1>3. On(c, s)' = On(c, s) \cup (IF s = x THEN {n + 1} ELSE {})
  BY <1>2 DEF On
<1>4. n + 1 \notin On(c, s)
  BY <1>2 DEF On
<1>5. CASE s = x
  BY <1>3, <1>4, <1>5, OnType, FS_AddElement DEF One
<1>6. CASE s # x
  <2>1. On(c, s)' = On(c, s) /\ One(s = x) = 0
    BY <1>3, <1>6 DEF One
  <2>. QED
    BY <2>1, OnType
<1>. QED
  BY <1>5, <1>6

LEMMA OnTaken ==
  ASSUME TypeInv, NEW c \in Channels, NEW s \in Sites,
         chan[c] # <<>>, chan'[c] = Tail(chan[c])
  PROVE  Cardinality(On(c, s)') = Cardinality(On(c, s)) - One(s = Head(chan[c]))
<1>. DEFINE q == chan[c]
            n == Len(chan[c])
<1>1. q \in Seq(Sites) /\ q # <<>> /\ chan'[c] = Tail(q)
  BY DEF TypeInv, TypeOK
<1>2. /\ n \in Nat \ {0} /\ DOMAIN q = 1..n /\ Head(q) = q[1] /\ Head(q) \in Sites
      /\ DOMAIN Tail(q) = 1..(n - 1)
      /\ \A i \in 1..(n - 1) : Tail(q)[i] = q[i + 1]
  BY <1>1
<1>. DEFINE rest  == On(c, s) \ {1}
            moved == On(c, s)'
            shift == [i \in moved |-> i + 1]
<1>4. moved = {i \in 1..(n - 1) : q[i + 1] = s}
  BY <1>1, <1>2 DEF On
<1>5. rest = {i \in 2..n : q[i] = s}
  BY <1>2 DEF On
<1>6. shift \in Bijection(moved, rest)
  <2>1. \A i \in moved : i + 1 \in rest
    BY <1>2, <1>4, <1>5
  <2>2. \A m \in rest : m - 1 \in moved /\ (m - 1) + 1 = m
    BY <1>2, <1>4, <1>5
  <2>3. \A i, j \in moved : i + 1 = j + 1 => i = j
    BY <1>2, <1>4
  <2>. HIDE DEF moved, rest
  <2>4. shift \in [moved -> rest]
    BY <2>1
  <2>5. \A i, j \in moved : shift[i] = shift[j] => i = j
    BY <2>3
  <2>6. \A m \in rest : \E i \in moved : shift[i] = m
    BY <2>2
  <2>. QED
    BY <2>4, <2>5, <2>6, Fun_IsBij
<1>7. IsFiniteSet(rest) /\ Cardinality(rest) = Cardinality(On(c, s)) - One(s = Head(q))
  <2>1. 1 \in On(c, s) <=> s = Head(q)
    BY <1>2 DEF On
  <2>. DEFINE old == On(c, s)
  <2>0. IsFiniteSet(old) /\ Cardinality(old) \in Nat /\ (1 \in old <=> s = Head(q))
    BY <2>1, OnType
  <2>. HIDE DEF old
  <2>2. CASE s = Head(q)
    <3>1. One(s = Head(q)) = 1
      BY <2>2 DEF One
    <3>2. IsFiniteSet(old \ {1}) /\ Cardinality(old \ {1}) = Cardinality(old) - 1
      BY <2>0, <2>2, FS_RemoveElement
    <3>. QED
      BY <3>1, <3>2 DEF old
  <2>3. CASE s # Head(q)
    <3>1. One(s = Head(q)) = 0
      BY <2>3 DEF One
    <3>2. old \ {1} = old /\ Cardinality(old) - 0 = Cardinality(old)
      BY <2>0, <2>3
    <3>. QED
      BY <2>0, <3>1, <3>2 DEF old
  <2>. QED
    BY <2>2, <2>3
<1>8. Cardinality(moved) = Cardinality(rest)
  <2>1. IsFiniteSet(moved)
    <3>1. moved \subseteq 1..(n - 1) /\ n - 1 \in Int /\ 1 \in Int
      BY <1>2, <1>4
    <3>. HIDE DEF moved, n
    <3>. QED
      BY <3>1, FS_Interval, FS_Subset
  <2>. HIDE DEF moved, rest, shift
  <2>. QED
    BY <1>6, <1>7, <2>1, FS_Bijection DEF ExistsBijection
<1>. QED
  BY <1>7, <1>8

LEMMA PassedType ==
  ASSUME TypeInv, NEW c \in Outputs, NEW s \in Sites
  PROVE  /\ written[c][s] \in Nat /\ IsFiniteSet(On(c, s))
         /\ Cardinality(On(c, s)) \in Nat /\ Passed(c, s) \in Nat
<1>1. written[c][s] \in Nat /\ c \in Channels
  BY ChannelNames DEF TypeInv, TypeOK, Outputs
<1>. QED
  BY <1>1, OnType DEF Passed

LEMMA PassedSent ==
  ASSUME TypeInv, NEW c \in Outputs, NEW s \in Sites, NEW x \in Sites,
         chan'[c] = Append(chan[c], x), written' = written
  PROVE  Passed(c, s)' = Passed(c, s) + One(s = x)
<1>1. Cardinality(On(c, s)') = Cardinality(On(c, s)) + One(s = x)
  BY ChannelNames, OnSent DEF Outputs
<1>2. One(s = x) \in Nat
  BY DEF One
<1>. QED
  BY <1>1, <1>2, PassedType DEF Passed

LEMMA PassedStreamed ==
  ASSUME TypeInv, NEW c \in Outputs, NEW s \in Sites, Stream(c)
  PROVE  Passed(c, s)' = Passed(c, s)
<1>. DEFINE d == One(s = Head(chan[c]))
            a == written[c][s]
            b == Cardinality(On(c, s))
<1>1. /\ c \in Channels /\ chan[c] # <<>> /\ chan'[c] = Tail(chan[c])
      /\ Head(chan[c]) \in Sites /\ written \in [Outputs -> [Sites -> Nat]]
      /\ written' = [written EXCEPT ![c][Head(chan[c])] = @ + 1]
  BY ChannelNames, Popped DEF Stream, TypeInv, TypeOK, ChanOK, Outputs
<1>2. written'[c][s] = a + d
  BY <1>1, PassedType DEF One
<1>3. Cardinality(On(c, s)') = b - d
  BY <1>1, OnTaken
<1>4. /\ a \in Nat /\ b \in Nat /\ d \in Int
      /\ Passed(c, s) = a + b /\ Passed(c, s)' = (a + d) + (b - d)
  BY <1>2, <1>3, PassedType DEF Passed, One
<1>. HIDE DEF a, b, d
<1>. QED
  BY <1>4

\* Who sends a row or hands one over.
LEMMA OutputSteps ==
  ASSUME TypeInv, [Next]_vars, NEW c \in Outputs
  PROVE  \/ chan'[c] = chan[c]
         \/ c = "sites" /\ dpc = "sites" /\ DispatchSend
         \/ \E w \in Workers : c \in Tables /\ SendRow(w, c)
         \/ Stream(c)
<1>0. ChanOK(chan) /\ c \in Channels \ {"raw", "filtered", "userSites", "groupSites"}
  BY ChannelNames DEF TypeInv, TypeOK, ChanOK, Outputs, Tables
<1>1. CASE SendRecord /\ chan' = Push(chan, "raw", Listing[pos + 1])
  <2>1. chan' = chan \/ Len(chan["raw"]) < Cap["raw"]
    BY <1>1 DEF SendRecord, Room
  <2>. QED
    BY <1>0, <1>1, <2>1, RecordSent, ChannelNames, Pushed
<1>2. CASE filterSites
  <2>1. /\ ChanOK(Pop(chan, "raw")) /\ Head(chan["raw"]) \in Sites
        /\ Pop(chan, "raw")[c] = chan[c]
        /\ Pop(chan, "raw")["filtered"] = chan["filtered"]
    BY <1>0, <1>2, ChannelNames, Popped DEF filterSites
  <2>. QED
    BY <1>0, <1>2, <2>1, ChannelNames, Pushed DEF filterSites, Room
<1>3. CASE Dispatch
  BY <1>0, <1>3, ChannelNames, Popped DEF Dispatch
<1>4. CASE DispatchSend
  <2>1. dsite \in Sites /\ dpc \in Channels /\ Len(chan[dpc]) < Cap[dpc]
    BY <1>4, ChannelNames DEF DispatchSend, TypeInv, Room
  <2>2. chan'[c] = chan[c] \/ c = dpc
    BY <1>0, <1>4, <2>1, Pushed DEF DispatchSend
  <2>. QED
    BY <1>0, <1>4, <2>2 DEF DispatchSend
<1>5. ASSUME NEW w \in Workers, TakeSite(w)
      PROVE  chan'[c] = chan[c]
  BY <1>0, <1>5, ChannelNames, Popped DEF TakeSite
<1>6. ASSUME NEW w \in Workers, NEW d \in Tables, SendRow(w, d)
      PROVE  chan'[c] = chan[c] \/ c = d
  <2>1. job[w].site \in Sites /\ d \in Channels /\ Len(chan[d]) < Cap[d]
    BY <1>6, ChannelNames DEF SendRow, TypeInv, FreePlaces, Room
  <2>. QED
    BY <1>0, <1>6, <2>1, Pushed DEF SendRow
<1>7. ASSUME NEW d \in {"sites"} \cup Tables, Stream(d)
      PROVE  chan'[c] = chan[c] \/ c = d
  BY <1>0, <1>7, ChannelNames, Popped DEF Stream
<1>. QED
  BY <1>1, <1>2, <1>3, <1>4, <1>5, <1>6, <1>7, ChanSteps

LEMMA WrittenSteps ==
  ASSUME TypeInv, [Next]_vars
  PROVE  written' = written \/ \E d \in Outputs : Stream(d)
<1>1. DOMAIN written = Outputs
  BY DEF TypeInv, TypeOK, Outputs
<1>2. CASE \E w \in Workers : Work(w)
  BY <1>2, WorkFrame
<1>3. CASE Distribute
  BY <1>3 DEF Distribute, filterSites, FilterEnds, Dispatch, DispatchSend,
              DispatchEnds, outVars
<1>4. CASE \/ Interrupt \/ Enumerate \/ SendInterrupted \/ TokenLost
           \/ TokenBack \/ CollectResults \/ UNCHANGED vars
  BY <1>4 DEF Interrupt, Enumerate, FirstPage, StartPage, SendRecord, NextPage,
              SendInterrupted, TokenLost, TokenBack, CollectResults, vars,
              outVars
<1>. QED
  BY <1>1, <1>2, <1>3, <1>4 DEF Next, Returned

\* A stream does nothing but hand over a row.
LEMMA StreamAlone ==
  ASSUME TypeInv, NEW d \in Outputs, Stream(d)
  PROVE  /\ ~DispatchSend /\ \A w \in Workers : \A c \in Tables : ~SendRow(w, c)
         /\ \A c \in Outputs : c # d => chan'[c] = chan[c] /\ written'[c] = written[c]
<1>1. /\ chan[d] # <<>> /\ chan' = Pop(chan, d) /\ ChanOK(chan) /\ d \in Channels
      /\ Outputs \subseteq Channels
      /\ written \in [Outputs -> [Sites -> Nat]]
      /\ written' = [written EXCEPT ![d][Head(chan[d])] = @ + 1]
      /\ UNCHANGED <<flowVars, workVars>>
  BY ChannelNames DEF Stream, TypeInv, TypeOK, ChanOK, Outputs
<1>2. Head(chan[d]) \in Sites /\ written[d][Head(chan[d])] \in Nat
      /\ \A c \in Channels : c # d => chan'[c] = chan[c]
  BY <1>1, Popped
<1>3. written' # written
  BY <1>1, <1>2
<1>4. \A c \in Outputs : c # d => written'[c] = written[c]
  BY <1>1
<1>5. ~DispatchSend /\ \A w \in Workers : \A c \in Tables : ~SendRow(w, c)
  BY <1>3 DEF DispatchSend, SendRow, outVars
<1>. QED
  BY <1>1, <1>2, <1>4, <1>5

LEMMA PassedSteps ==
  ASSUME TypeInv, [Next]_vars, NEW c \in Outputs
  PROVE  \/ \A s \in Sites : Passed(c, s)' = Passed(c, s)
         \/ c = "sites" /\ dpc = "sites" /\ DispatchSend
         \/ \E w \in Workers : c \in Tables /\ SendRow(w, c)
<1>1. CASE Stream(c)
  BY <1>1, PassedStreamed
<1>2. ASSUME chan'[c] = chan[c], written'[c] = written[c]
      PROVE  \A s \in Sites : Passed(c, s)' = Passed(c, s)
  BY <1>2 DEF Passed, On
<1>. QED
  BY <1>1, <1>2, OutputSteps, WrittenSteps, StreamAlone

LEMMA PassedSiteSent ==
  ASSUME TypeInv, DispatchSend, dpc = "sites", NEW s \in Sites
  PROVE  Passed("sites", s)' = Passed("sites", s) + One(s = dsite)
<1>1. /\ ChanOK(chan) /\ dsite \in Sites /\ Len(chan["sites"]) < Cap["sites"]
      /\ chan' = Push(chan, "sites", dsite) /\ written' = written
  BY DEF DispatchSend, TypeInv, TypeOK, ChanOK, Room, outVars
<1>2. chan'["sites"] = Append(chan["sites"], dsite) /\ "sites" \in Outputs
  BY <1>1, ChannelNames, Pushed DEF Outputs
<1>. QED
  BY <1>1, <1>2, PassedSent

LEMMA PassedRowSent ==
  ASSUME TypeInv, NEW w \in Workers, NEW c \in Tables, SendRow(w, c), NEW s \in Sites
  PROVE  Passed(c, s)' = Passed(c, s) + One(s = job[w].site)
<1>1. /\ ChanOK(chan) /\ job[w].site \in Sites /\ Len(chan[c]) < Cap[c]
      /\ chan' = Push(chan, c, job[w].site) /\ written' = written
  BY DEF SendRow, TypeInv, FreePlaces, TypeOK, ChanOK, Room, outVars
<1>2. chan'[c] = Append(chan[c], job[w].site) /\ c \in Outputs
  BY <1>1, ChannelNames, Pushed DEF Outputs
<1>. QED
  BY <1>1, <1>2, PassedSent

LEMMA DispatcherSteps ==
  ASSUME [Next]_vars, TypeInv
  PROVE  \/ Dispatch \/ DispatchSend
         \/ dsite' = dsite /\ (dpc' = "sites" <=> dpc = "sites")
<1>1. CASE \E w \in Workers : Work(w)
  BY <1>1, WorkFrame
<1>2. CASE Distribute
  BY <1>2 DEF Distribute, filterSites, FilterEnds, DispatchEnds, flowVars,
              dispatchVars
<1>3. CASE \/ Interrupt \/ Enumerate \/ SendInterrupted \/ TokenLost
           \/ TokenBack \/ (\E c \in DOMAIN written : Stream(c))
           \/ CollectResults \/ UNCHANGED vars
  BY <1>3
     DEF Interrupt, Enumerate, FirstPage, StartPage, SendRecord, NextPage,
         SendInterrupted, TokenLost, TokenBack, Stream, CollectResults,
         vars, flowVars, dispatchVars
<1>. QED
  BY <1>1, <1>2, <1>3 DEF Next, Returned

\* The row of a site is sent once, by the dispatcher, after its tracker is made.
SiteRowInv ==
  \A s \in Sites :
    Passed("sites", s) = One(s \in Known /\ ~(dpc = "sites" /\ dsite = s))

LEMMA DispatchFresh ==
  ASSUME TypeInv, UpInv, Dispatch
  PROVE  Known' = Known \cup {dsite'} /\ dsite' \in Sites /\ dsite' \notin Known
<1>1. /\ Known' = Known \cup {dsite'} /\ dsite' = Head(chan["filtered"])
      /\ dsite' \in Sites
      /\ chan["filtered"] # <<>> /\ chan["filtered"] \in Seq(Sites)
  BY Dispatched, ChannelNames DEF TypeInv, TypeOK
<1>2. dsite' \in Range(chan["filtered"])
  BY <1>1, TailInj
<1>. QED
  BY <1>1, <1>2 DEF UpInv

LEMMA SiteRowNext ==
  ASSUME Distinct, SiteInv, SiteRowInv, [Next]_vars
  PROVE  SiteRowInv'
<1>0. TypeInv /\ UpInv /\ OpenInv /\ "sites" \in Outputs /\ "sites" \notin Tables
  BY DEF SiteInv, Outputs, Tables
<1>. SUFFICES ASSUME NEW s \in Sites
              PROVE  Passed("sites", s)' =
                       One(s \in Known /\ ~(dpc = "sites" /\ dsite = s))'
  BY DEF SiteRowInv
<1>1. CASE dpc = "sites" /\ DispatchSend
  <2>1. dpc' # "sites"
    BY <1>1 DEF DispatchSend, NextSend
  <2>2. ~Dispatch
    BY <1>1 DEF Dispatch
  <2>3. dsite \in Known
    <3>1. dsite \in Sites /\ Open("userSites", dsite) /\ "userSites" \in Branches
      BY <1>0, <1>1 DEF Open, ToCome, Branches, TypeInv
    <3>. QED
      BY <1>0, <3>1 DEF OpenInv
  <2>4. Known' = Known
    BY <1>0, <2>2, SitesKept
  <2>5. Passed("sites", s)' = Passed("sites", s) + One(s = dsite)
    BY <1>0, <1>1, PassedSiteSent
  <2>6. Passed("sites", s) = One(s \in Known /\ ~(s = dsite))
    BY <1>1 DEF SiteRowInv
  <2>. QED
    BY <2>1, <2>3, <2>4, <2>5, <2>6 DEF One
<1>2. CASE ~(dpc = "sites" /\ DispatchSend)
  <2>1. Passed("sites", s)' = Passed("sites", s)
    BY <1>0, <1>2, PassedSteps
  <2>2. CASE Dispatch
    <3>1. /\ Known' = Known \cup {dsite'} /\ dpc = "recv" /\ dpc' = "sites"
          /\ dsite' \notin Known
      BY <1>0, <2>2, DispatchFresh DEF Dispatch
    <3>2. Passed("sites", s) = One(s \in Known)
      BY <3>1 DEF SiteRowInv
    <3>. QED
      BY <2>1, <3>1, <3>2 DEF One
  <2>3. CASE ~Dispatch
    <3>1. Known' = Known
      BY <1>0, <2>3, SitesKept
    <3>2. dpc' = "sites" /\ dsite' = s <=> dpc = "sites" /\ dsite = s
      <4>1. CASE DispatchSend
        BY <1>2, <4>1 DEF DispatchSend, NextSend
      <4>2. CASE dsite' = dsite /\ (dpc' = "sites" <=> dpc = "sites")
        BY <4>2
      <4>. QED
        BY <1>0, <2>3, <4>1, <4>2, DispatcherSteps
    <3>. QED
      BY <2>1, <3>1, <3>2 DEF SiteRowInv, One
  <2>. QED
    BY <2>2, <2>3
<1>. QED
  BY <1>1, <1>2

-----------------------------------------------------------------------------
(* Users, groups and members.                                              *)

\* The workers that send the rows of a table, and whether any are sent.
Branch(c) == IF c = "users" THEN "userSites" ELSE "groupSites"

Served(w, c) == Input(w) = Branch(c)

Used(c) == \/ c = "users"
           \/ c = "groups" /\ ProcessGroups
           \/ c = "members" /\ ProcessGroups /\ ProcessGroupMembers

UsedInv ==
  \A c \in Tables :
    /\ chan[c] # <<>> => Used(c)
    /\ \A w \in Workers :
         wpc[w] = "send" /\ job[w].left[c] # 0 => Used(c) /\ Served(w, c)

LEMMA JobSteps ==
  ASSUME TypeInv, [Next]_vars
  PROVE  UNCHANGED <<wpc, job>> \/ \E w \in Workers : Work(w)
<1>1. CASE Distribute
  BY <1>1 DEF Distribute, filterSites, FilterEnds, Dispatch, DispatchSend,
              DispatchEnds, workVars
<1>2. CASE \/ Interrupt \/ Enumerate \/ SendInterrupted \/ TokenLost
           \/ TokenBack \/ (\E c \in DOMAIN written : Stream(c))
           \/ CollectResults \/ UNCHANGED vars
  BY <1>2
     DEF Interrupt, Enumerate, FirstPage, StartPage, SendRecord, NextPage,
         SendInterrupted, TokenLost, TokenBack, Stream, CollectResults,
         vars, workVars
<1>. QED
  BY <1>1, <1>2 DEF Next, Returned

\* A worker fetches rows of its own tables only, and only of those in use.
LEMMA RowsFetched ==
  ASSUME TypeInv, NEW w \in Workers, FetchSucceeds(w)
  PROVE  /\ wpc[w] = "fetch" /\ wpc'[w] = "send"
         /\ job'[w].site = job[w].site /\ job'[w].tracker = job[w].tracker
         /\ \A c \in Tables :
              /\ job'[w].left[c] = job'[w].rows[c] /\ job'[w].rows[c] \in Nat
              /\ job'[w].left[c] # 0 => Used(c) /\ Served(w, c)
<1>1. PICK rows \in Fetch :
        /\ job' = [job EXCEPT
             ![w].rows = (IF ProcessGroupMembers THEN rows
                          ELSE [rows EXCEPT !["members"] = 0]),
             ![w].left = (IF ProcessGroupMembers THEN rows
                          ELSE [rows EXCEPT !["members"] = 0])]
        /\ \/ w \in UserWorkers /\ rows["groups"] = 0 /\ rows["members"] = 0
           \/ w \in GroupWorkers /\ rows["users"] = 0
  BY DEF FetchSucceeds, GroupResult
<1>. DEFINE f == IF ProcessGroupMembers THEN rows
                 ELSE [rows EXCEPT !["members"] = 0]
<1>2. /\ f \in [Tables -> 0..MaxRows] /\ MaxRows \in Nat
      /\ f["users"] = rows["users"] /\ f["groups"] = rows["groups"]
      /\ f["members"] # 0 => rows["members"] # 0 /\ ProcessGroupMembers
  BY SharePointPipelineAssumption DEF Fetch, Tables
<1>3. job' = [job EXCEPT ![w].rows = f, ![w].left = f]
  BY <1>1
<1>4. /\ w \in GroupWorkers => ProcessGroups /\ w \notin UserWorkers
  BY SharePointPipelineAssumption
<1>. HIDE DEF f
<1>5. job \in [Workers -> Job] /\ wpc \in [Workers -> Places]
  BY DEF TypeInv, TypeOK, Places
<1>6. /\ job'[w].left = f /\ job'[w].rows = f
      /\ job'[w].site = job[w].site /\ job'[w].tracker = job[w].tracker
  BY <1>3, <1>5 DEF Job
<1>7. wpc[w] = "fetch" /\ wpc'[w] = "send"
  BY <1>5 DEF FetchSucceeds, Goto
<1>8. \A c \in Tables : f[c] # 0 => Used(c) /\ Served(w, c)
  BY <1>1, <1>2, <1>4 DEF Used, Served, Branch, Input, Tables
<1>. QED
  BY <1>2, <1>6, <1>7, <1>8

LEMMA RowSent ==
  ASSUME TypeInv, NEW w \in Workers, NEW c \in Tables, SendRow(w, c)
  PROVE  /\ wpc' = wpc /\ wpc[w] = "send" /\ trackers' = trackers
         /\ job'[w].site = job[w].site /\ job'[w].rows = job[w].rows
         /\ \A v \in Workers : v # w => job'[v] = job[v]
         /\ job[w].left[c] \in Nat /\ job[w].left[c] > 0
         /\ job'[w].left[c] = job[w].left[c] - 1
         /\ \A d \in Tables : d # c => job'[w].left[d] = job[w].left[d]
<1>1. /\ job \in [Workers -> Job] /\ job[w].left \in [Tables -> 0..MaxRows]
      /\ MaxRows \in Nat
  BY SharePointPipelineAssumption DEF TypeInv, TypeOK, Job, Fetch
<1>2. job' = [job EXCEPT ![w].left = [job[w].left EXCEPT ![c] = @ - 1]]
  BY <1>1 DEF SendRow
<1>. DEFINE f == [job[w].left EXCEPT ![c] = @ - 1]
<1>3. /\ f[c] = job[w].left[c] - 1 /\ job[w].left[c] \in Nat
      /\ \A d \in Tables : d # c => f[d] = job[w].left[d]
  BY <1>1
<1>4. job' = [job EXCEPT ![w].left = f]
  BY <1>2
<1>. HIDE DEF f
<1>5. /\ job'[w].left = f /\ job'[w].site = job[w].site
      /\ job'[w].rows = job[w].rows
      /\ \A v \in Workers : v # w => job'[v] = job[v]
  BY <1>1, <1>4 DEF Job
<1>. QED
  BY <1>3, <1>5 DEF SendRow, flowVars, siteVars

\* Whoever is sending came from a fetch or has been sending.
LEMMA SendersMove ==
  ASSUME TypeInv, NEW w \in Workers, Work(w)
  PROVE  \/ FetchSucceeds(w) \/ \E d \in Tables : SendRow(w, d)
         \/ RowsSent(w)
         \/ wpc[w] # "send" /\ wpc'[w] # "send"
<1>1. wpc \in [Workers -> Places]
  BY DEF TypeInv, TypeOK, Places
<1>2. CASE \/ TakeSite(w) \/ WorkerEnds(w) \/ Acquire(w) \/ Lookup(w)
           \/ FetchFails(w) \/ Finalize(w) \/ CloseSite(w) \/ Release(w)
           \/ ReturnToken(w)
  BY <1>1, <1>2 DEF TakeSite, WorkerEnds, Acquire, Lookup, FetchFails, Finalize,
                    CloseSite, Release, ReturnToken, Goto
<1>. QED
  BY <1>2 DEF Work, ProcessSite

LEMMA UsedNext ==
  ASSUME TypeInv, UsedInv, [Next]_vars
  PROVE  UsedInv'
<1>1. ASSUME NEW c \in Tables, chan'[c] # <<>> PROVE Used(c)
  <2>1. c \in Outputs /\ c # "sites"
    BY DEF Outputs, Tables
  <2>2. CASE chan'[c] = chan[c] \/ Stream(c)
    BY <1>1, <2>2 DEF UsedInv, Stream
  <2>3. ASSUME NEW w \in Workers, SendRow(w, c) PROVE Used(c)
    BY <2>3, RowSent DEF UsedInv
  <2>. QED
    BY <2>1, <2>2, <2>3, OutputSteps
<1>2. ASSUME NEW c \in Tables, NEW v \in Workers,
             wpc'[v] = "send", job'[v].left[c] # 0
      PROVE  Used(c) /\ Served(v, c)
  <2>1. CASE wpc'[v] = wpc[v] /\ job'[v] = job[v]
    BY <1>2, <2>1 DEF UsedInv
  <2>2. ASSUME Work(v) PROVE Used(c) /\ Served(v, c)
    <3>1. CASE FetchSucceeds(v)
      BY <1>2, <3>1, RowsFetched
    <3>2. ASSUME NEW d \in Tables, SendRow(v, d) PROVE Used(c) /\ Served(v, c)
      <4>1. wpc[v] = "send" /\ job[v].left[c] # 0
        BY <1>2, <3>2, RowSent
      <4>. QED
        BY <4>1 DEF UsedInv
    <3>3. ~RowsSent(v)
      BY <1>2 DEF RowsSent, Goto, TypeInv, TypeOK
    <3>. QED
      BY <1>2, <2>2, <3>1, <3>2, <3>3, SendersMove
  <2>. QED
    BY <2>1, <2>2, WorkJobs, JobSteps
<1>. QED
  BY <1>1, <1>2 DEF UsedInv, Used, Served, Input

AtSite(p, c, s) ==
  \E w \in Workers : Served(w, c) /\ wpc[w] = p /\ job[w].site = s

\* What the tracker says of a table: nothing before its worker has written it,
\* then the rows that have been sent.
RowOK(c, k, s) ==
  /\ Open(Branch(c), s) /\ ~AtSite("finalize", c, s) => trackers[k].fetched[c] = 0
  /\ ~AtSite("send", c, s) => Passed(c, s) = trackers[k].fetched[c]

RowInv ==
  \A c \in Tables :
    /\ \A w \in Workers : \A s \in Sites :
         Served(w, c) /\ wpc[w] = "send" /\ job[w].site = s =>
           Passed(c, s) + job[w].left[c] = job[w].rows[c]
    /\ \A k \in DOMAIN trackers : \A s \in Sites :
         trackers[k].site = s => RowOK(c, k, s)
    /\ \A s \in Sites \ Known : Passed(c, s) = 0

\* A worker at work has a site in its branch, which is open, known and its own.
LEMMA ServedSite ==
  ASSUME TypeInv, OpenInv, NEW c \in Tables, NEW w \in Workers, Served(w, c),
         wpc[w] \in OpenAt
  PROVE  /\ Branch(c) \in Branches /\ job[w].site \in Sites
         /\ Works(Branch(c), w) /\ Open(Branch(c), job[w].site)
         /\ job[w].site \in Known
         /\ \A v \in Workers :
              Served(v, c) /\ wpc[v] \in OpenAt /\ job[v].site = job[w].site
                => v = w
<1>1. /\ Branch(c) \in Branches /\ job[w].site \in Sites
      /\ \A v \in Workers : Served(v, c) /\ wpc[v] \in OpenAt => Works(Branch(c), v)
  BY DEF Branch, Branches, Served, Works, TypeInv, FreePlaces, OpenAt
<1>2. Works(Branch(c), w) /\ Open(Branch(c), job[w].site)
  BY <1>1 DEF Open
<1>3. job[w].site \in Known /\ SingleInv(Branch(c))
  BY <1>1, <1>2 DEF OpenInv
<1>4. \A v \in Workers :
        Served(v, c) /\ wpc[v] \in OpenAt /\ job[v].site = job[w].site => v = w
  <2>. SUFFICES ASSUME NEW v \in Workers, Served(v, c), wpc[v] \in OpenAt,
                       job[v].site = job[w].site
                PROVE  v = w
    OBVIOUS
  <2>1. Works(Branch(c), v)
    BY <1>1
  <2>. QED
    BY <1>2, <1>3, <2>1 DEF SingleInv
<1>. QED
  BY <1>1, <1>2, <1>3, <1>4

\* A branch that is open after a step, and whose worker is not about to finalize,
\* was so before.
LEMMA OpenUnmarked ==
  ASSUME SiteInv, [Next]_vars, ~Dispatch, NEW c \in Tables, NEW s \in Sites,
         Open(Branch(c), s)', ~AtSite("finalize", c, s)'
  PROVE  Open(Branch(c), s) /\ ~AtSite("finalize", c, s)
<1>0. /\ TypeInv /\ OpenInv /\ TrackerFound /\ Branch(c) \in Branches
      /\ wpc \in [Workers -> Places]
  BY FoundAlways DEF SiteInv, Branch, Branches, TypeInv, TypeOK, Places
<1>1. Open(Branch(c), s)
  BY <1>0, OpenChange
<1>2. ASSUME NEW v \in Workers, Served(v, c), wpc[v] = "finalize", job[v].site = s
      PROVE  FALSE
  <2>1. ~Finalize(v)
    BY <1>0, <1>2, OpenChange DEF Served
  <2>2. ~Work(v)
    BY <1>2, <2>1 DEF Work, ProcessSite, TakeSite, WorkerEnds, Acquire, Lookup,
                      FetchFails, FetchSucceeds, SendRow, RowsSent, CloseSite,
                      Release, ReturnToken, Goto
  <2>3. wpc'[v] = wpc[v] /\ job'[v] = job[v]
    BY <1>0, <2>2, WorkJobs, JobSteps
  <2>. QED
    BY <1>2, <2>3 DEF AtSite, Served, Input
<1>. QED
  BY <1>1, <1>2 DEF AtSite

\* What is noted of a table is written when its rows have been sent.
LEMMA FetchedSteps ==
  ASSUME TypeInv, [Next]_vars, ~Dispatch, NEW c \in Tables, NEW k \in DOMAIN trackers
  PROVE  \/ trackers'[k].fetched[c] = trackers[k].fetched[c]
         \/ \E w \in Workers :
              /\ RowsSent(w) /\ Served(w, c) /\ job[w].tracker = k
              /\ trackers'[k].fetched[c] = job[w].rows[c]
<1>0. /\ DOMAIN trackers = 1..Len(trackers) /\ trackers[k] \in Tracker
  BY KnownSites
<1>1. ASSUME NEW w \in Workers, NEW t \in Tracker,
             TrackerWritten(job[w].tracker, t),
             t.fetched = trackers[job[w].tracker].fetched
      PROVE  trackers'[k].fetched[c] = trackers[k].fetched[c]
  BY <1>0, <1>1 DEF TrackerWritten
<1>2. ASSUME NEW w \in Workers,
             FetchFails(w) \/ FetchSucceeds(w) \/ Finalize(w)
      PROVE  trackers'[k].fetched[c] = trackers[k].fetched[c]
  <2>1. trackers[job[w].tracker] \in Tracker
    BY <1>2, HasTracker DEF FetchFails, FetchSucceeds, Finalize, Goto, TrackerPlaces
  <2>2. \/ trackers' = trackers
        \/ \E t \in Tracker : /\ TrackerWritten(job[w].tracker, t)
                              /\ t.fetched = trackers[job[w].tracker].fetched
    BY <1>2, <2>1, FailureWritten, FetchWritten, FinalizeWritten DEF Tracker
  <2>. QED
    BY <1>1, <2>2
<1>3. ASSUME NEW w \in Workers, RowsSent(w)
      PROVE  \/ trackers'[k].fetched[c] = trackers[k].fetched[c]
             \/ /\ Served(w, c) /\ job[w].tracker = k
                /\ trackers'[k].fetched[c] = job[w].rows[c]
  <2>. DEFINE t == [trackers[job[w].tracker] EXCEPT !.fetched = Told(w)]
  <2>1. TrackerWritten(job[w].tracker, t) /\ t.fetched = Told(w)
    <3>1. trackers[job[w].tracker] \in Tracker
      BY <1>3, HasTracker DEF RowsSent, Goto, TrackerPlaces
    <3>. QED
      BY <1>3, <3>1, RowsWrittenDown DEF Tracker
  <2>. HIDE DEF t
  <2>2. CASE job[w].tracker # k
    BY <1>0, <2>1, <2>2 DEF TrackerWritten
  <2>3. CASE job[w].tracker = k
    <3>1. trackers'[k].fetched = Told(w)
      BY <2>1, <2>3 DEF TrackerWritten
    <3>2. (c = "users") = (w \in UserWorkers) <=> Served(w, c)
      BY DEF Served, Branch, Input
    <3>3. Told(w)[c] = IF Served(w, c) THEN job[w].rows[c] ELSE trackers[k].fetched[c]
      BY <2>3, <3>2 DEF Told
    <3>. QED
      BY <2>3, <3>1, <3>3
  <2>. QED
    BY <2>2, <2>3
<1>. QED
  BY <1>2, <1>3, TrackerSteps

LEMMA RowSenders ==
  ASSUME SiteInv, UsedInv, RowInv, [Next]_vars, NEW c \in Tables,
         NEW v \in Workers, Served(v, c), wpc'[v] = "send",
         NEW s \in Sites, job'[v].site = s
  PROVE  Passed(c, s)' + job'[v].left[c] = job'[v].rows[c]
<1>0. /\ TypeInv /\ UpInv /\ OpenInv /\ TrackInv /\ c \in Outputs
      /\ wpc \in [Workers -> Places]
  BY DEF SiteInv, Outputs, TypeInv, TypeOK, Places
<1>1. ASSUME NEW w \in Workers, SendRow(w, c)
      PROVE  Passed(c, s)' + job'[v].left[c] = job'[v].rows[c]
  <2>1. /\ wpc' = wpc /\ wpc[w] = "send" /\ Served(w, c)
        /\ wpc[v] = "send" /\ Passed(c, s) + job[v].left[c] = job[v].rows[c]
        /\ job[v].site = s
    <3>1. wpc' = wpc /\ wpc[w] = "send" /\ job[w].left[c] # 0
      BY <1>0, <1>1, RowSent
    <3>2. job[v].site = s
      BY <1>0, <1>1, RowSent
    <3>. QED
      BY <1>0, <3>1, <3>2 DEF UsedInv, RowInv, TypeInv
  <2>2. Passed(c, s)' = Passed(c, s) + One(s = job[w].site)
    BY <1>0, <1>1, <2>1, PassedRowSent
  <2>3. Passed(c, s) \in Nat
    BY <1>0, <2>1, PassedType
  <2>4. CASE v = w
    <3>1. /\ Passed(c, s)' = Passed(c, s) + 1
      BY <2>1, <2>2, <2>4 DEF One
    <3>2. /\ job'[v].left[c] = job[v].left[c] - 1 /\ job[v].left[c] \in Nat
          /\ job'[v].rows = job[v].rows
      BY <1>0, <1>1, <2>4, RowSent
    <3>3. (Passed(c, s) + 1) + (job[v].left[c] - 1) = job[v].rows[c]
      BY <2>1, <2>3, <3>2
    <3>. QED
      BY <2>1, <3>1, <3>2, <3>3
  <2>5. CASE v # w
    <3>1. s # job[w].site
      BY <1>0, <2>1, <2>5, ServedSite DEF OpenAt
    <3>2. Passed(c, s)' = Passed(c, s) /\ job'[v] = job[v]
      <4>1. Passed(c, s)' = Passed(c, s) + 0
        BY <2>2, <3>1 DEF One
      <4>. QED
        BY <1>0, <1>1, <2>3, <2>5, <4>1, RowSent
    <3>. QED
      BY <2>1, <3>2
  <2>. QED
    BY <2>4, <2>5
<1>2. ASSUME \A w \in Workers : ~SendRow(w, c)
      PROVE  Passed(c, s)' + job'[v].left[c] = job'[v].rows[c]
  <2>0. \A t \in Sites : Passed(c, t)' = Passed(c, t)
    BY <1>0, <1>2, PassedSteps DEF Tables
  <2>1. CASE wpc'[v] = wpc[v] /\ job'[v] = job[v]
    <3>1. Passed(c, s) + job[v].left[c] = job[v].rows[c]
      BY <1>0, <2>1 DEF RowInv, TypeInv
    <3>. QED
      BY <2>0, <2>1, <3>1
  <2>2. CASE FetchSucceeds(v)
    <3>1. /\ wpc[v] = "fetch" /\ job[v].site = s
          /\ job'[v].left[c] = job'[v].rows[c] /\ job'[v].left[c] \in Nat
      BY <1>0, <2>2, RowsFetched
    <3>2. /\ s \in Known /\ Open(Branch(c), s)
          /\ ~AtSite("send", c, s) /\ ~AtSite("finalize", c, s)
      <4>1. ASSUME NEW u \in Workers, Served(u, c),
                   wpc[u] \in {"send", "finalize"}, job[u].site = s
            PROVE  FALSE
        <5>1. u = v
          BY <1>0, <3>1, <4>1, ServedSite DEF OpenAt
        <5>. QED
          BY <3>1, <4>1, <5>1
      <4>. QED
        BY <1>0, <3>1, <4>1, ServedSite DEF OpenAt, AtSite
    <3>3. PICK k \in DOMAIN trackers : trackers[k].site = s
      BY <3>2 DEF Known
    <3>4. Passed(c, s) = 0
      BY <3>2, <3>3 DEF RowInv, RowOK
    <3>5. Passed(c, s)' = 0
      BY <2>0, <3>2, <3>4
    <3>. QED
      BY <3>1, <3>5
  <2>3. ASSUME NEW d \in Tables, SendRow(v, d)
        PROVE  Passed(c, s)' + job'[v].left[c] = job'[v].rows[c]
    <3>1. /\ wpc[v] = "send" /\ job[v].site = s
          /\ job'[v].left[c] = job[v].left[c] /\ job'[v].rows = job[v].rows
      BY <1>0, <1>2, <2>3, RowSent
    <3>2. Passed(c, s) + job[v].left[c] = job[v].rows[c]
      BY <1>0, <3>1 DEF RowInv, TypeInv
    <3>. QED
      BY <2>0, <3>1, <3>2
  <2>4. ~RowsSent(v)
    BY <1>0 DEF RowsSent, Goto
  <2>. QED
    BY <1>0, <2>1, <2>2, <2>3, <2>4, SendersMove, WorkJobs, JobSteps
<1>. QED
  BY <1>1, <1>2

\* A worker that is sending goes on doing so until its rows are sent.
LEMMA SendingStays ==
  ASSUME TypeInv, [Next]_vars, NEW c \in Tables, NEW s \in Sites,
         AtSite("send", c, s), ~AtSite("send", c, s)'
  PROVE  \E w \in Workers : RowsSent(w) /\ Served(w, c) /\ job[w].site = s
<1>1. PICK w \in Workers : Served(w, c) /\ wpc[w] = "send" /\ job[w].site = s
  BY DEF AtSite
<1>2. ~(wpc'[w] = "send" /\ job'[w].site = s)
  BY <1>1 DEF AtSite, Served, Input
<1>3. Work(w)
  BY <1>1, <1>2, WorkJobs, JobSteps
<1>4. ~FetchSucceeds(w) /\ \A d \in Tables : ~SendRow(w, d)
  BY <1>1, <1>2, RowSent DEF FetchSucceeds, Goto
<1>. QED
  BY <1>1, <1>3, <1>4, SendersMove

LEMMA RowKnown ==
  ASSUME SiteInv, UsedInv, RowInv, [Next]_vars, ~Dispatch, NEW c \in Tables,
         NEW k \in DOMAIN trackers, NEW s \in Sites, trackers[k].site = s
  PROVE  RowOK(c, k, s)'
<1>0. /\ TypeInv /\ UpInv /\ OpenInv /\ TrackInv /\ c \in Outputs
      /\ wpc \in [Workers -> Places] /\ RowOK(c, k, s)
  BY DEF SiteInv, Outputs, TypeInv, TypeOK, Places, RowInv
<1>1. ASSUME NEW w \in Workers, SendRow(w, c)
      PROVE  RowOK(c, k, s)'
  <2>1. /\ wpc' = wpc /\ wpc[w] = "send" /\ Served(w, c) /\ trackers' = trackers
        /\ \A v \in Workers : job'[v].site = job[v].site
    <3>1. wpc' = wpc /\ wpc[w] = "send" /\ job[w].left[c] # 0 /\ trackers' = trackers
          /\ \A v \in Workers : job'[v].site = job[v].site
      BY <1>0, <1>1, RowSent
    <3>. QED
      BY <3>1 DEF UsedInv
  <2>2. \A p : AtSite(p, c, s)' <=> AtSite(p, c, s)
    BY <2>1 DEF AtSite, Served, Input
  <2>3. Open(Branch(c), s)' => Open(Branch(c), s) \/ AtSite("finalize", c, s)'
    BY OpenUnmarked DEF Branch
  <2>4. Passed(c, s)' = Passed(c, s) + One(s = job[w].site) /\ Passed(c, s) \in Nat
    BY <1>0, <1>1, PassedRowSent, PassedType
  <2>5. Passed(c, s)' = Passed(c, s) \/ AtSite("send", c, s)
    <3>1. CASE s = job[w].site
      BY <2>1, <3>1 DEF AtSite
    <3>2. CASE s # job[w].site
      <4>1. Passed(c, s)' = Passed(c, s) + 0
        BY <2>4, <3>2 DEF One
      <4>. QED
        BY <2>4, <4>1
    <3>. QED
      BY <3>1, <3>2
  <2>. QED
    BY <1>0, <2>1, <2>2, <2>3, <2>5 DEF RowOK, Branch
<1>2. ASSUME \A w \in Workers : ~SendRow(w, c),
             NEW w \in Workers, RowsSent(w), Served(w, c), job[w].site = s
      PROVE  RowOK(c, k, s)'
  <2>1. /\ wpc[w] = "send" /\ wpc'[w] = "finalize" /\ job' = job
        /\ job[w].left[c] = 0
    BY <1>0, <1>2 DEF RowsSent, Goto, NoRows
  <2>2. AtSite("finalize", c, s)'
    BY <1>2, <2>1 DEF AtSite, Served, Input
  <2>3. Passed(c, s)' = Passed(c, s) /\ Passed(c, s) \in Nat
    BY <1>0, <1>2, PassedSteps, PassedType DEF Tables
  <2>4. Passed(c, s) = job[w].rows[c]
    <3>1. Passed(c, s) + 0 = job[w].rows[c]
      BY <1>2, <2>1 DEF RowInv
    <3>. QED
      BY <2>3, <3>1
  <2>5. job[w].tracker = k
    <3>1. /\ job[w].tracker \in DOMAIN trackers
          /\ trackers[job[w].tracker].site = job[w].site
      BY <1>0, <2>1, KnownSites DEF TrackInv, TrackerPlaces, TypeInv
    <3>. QED
      BY <1>0, <1>2, <3>1 DEF UpInv
  <2>6. trackers'[k].fetched[c] = job[w].rows[c]
    <3>. DEFINE t == [trackers[k] EXCEPT !.fetched = Told(w)]
    <3>1. trackers[k] \in Tracker /\ TrackerWritten(k, t)
      BY <1>0, <1>2, <2>5, RowsWrittenDown, KnownSites
    <3>2. t.fetched = Told(w)
      BY <3>1 DEF Tracker
    <3>3. Told(w)[c] = job[w].rows[c]
      BY <1>2 DEF Told, Served, Branch, Input
    <3>. HIDE DEF t
    <3>. QED
      BY <3>1, <3>2, <3>3 DEF TrackerWritten
  <2>. QED
    BY <2>2, <2>3, <2>4, <2>6 DEF RowOK
<1>3. ASSUME \A w \in Workers : ~SendRow(w, c),
             \A w \in Workers : ~(RowsSent(w) /\ Served(w, c) /\ job[w].site = s)
      PROVE  RowOK(c, k, s)'
  <2>1. Passed(c, s)' = Passed(c, s)
    BY <1>0, <1>3, PassedSteps DEF Tables
  <2>2. trackers'[k].fetched[c] = trackers[k].fetched[c]
    <3>1. ASSUME NEW w \in Workers, RowsSent(w), job[w].tracker = k
          PROVE  job[w].site = s
      BY <1>0, <3>1 DEF RowsSent, Goto, TrackInv, TrackerPlaces
    <3>. QED
      BY <1>0, <1>3, <3>1, FetchedSteps
  <2>3. ~AtSite("send", c, s)' => ~AtSite("send", c, s)
    BY <1>0, <1>3, SendingStays
  <2>4. Open(Branch(c), s)' /\ ~AtSite("finalize", c, s)' =>
          Open(Branch(c), s) /\ ~AtSite("finalize", c, s)
    BY OpenUnmarked
  <2>. QED
    BY <1>0, <2>1, <2>2, <2>3, <2>4 DEF RowOK, Branch
<1>. QED
  BY <1>1, <1>2, <1>3

LEMMA RowDispatched ==
  ASSUME SiteInv, SiteInv', RowInv, [Next]_vars, Dispatch, NEW c \in Tables,
         NEW k \in DOMAIN trackers', NEW s \in Sites, trackers'[k].site = s
  PROVE  RowOK(c, k, s)'
<1>0. /\ TypeInv /\ UpInv /\ UpInv' /\ OpenInv /\ TrackerFound
      /\ Branch(c) \in Branches /\ c \in Outputs /\ c # "sites"
      /\ DOMAIN trackers = 1..Len(trackers) /\ Len(trackers) \in Nat
  BY FoundAlways, KnownSites DEF SiteInv, Branch, Branches, Outputs, Tables
<1>1. UNCHANGED <<wpc, job>> /\ dpc = "recv" /\ \A w \in Workers : ~SendRow(w, c)
  <2>1. UNCHANGED <<wpc, job>> /\ dpc = "recv"
    BY DEF Dispatch, workVars
  <2>2. ASSUME NEW w \in Workers, SendRow(w, c) PROVE FALSE
    <3>1. job'[w].left[c] = job[w].left[c] - 1 /\ job[w].left[c] \in Nat
      BY <1>0, <2>2, RowSent
    <3>. QED
      BY <2>1, <3>1
  <2>. QED
    BY <2>1, <2>2
<1>2. Passed(c, s)' = Passed(c, s)
  BY <1>0, <1>1, PassedSteps
<1>3. \A p : AtSite(p, c, s)' <=> AtSite(p, c, s)
  BY <1>1 DEF AtSite, Served, Input
<1>4. /\ DOMAIN trackers' = 1..(Len(trackers) + 1)
      /\ trackers'[Len(trackers) + 1] = NewTracker(dsite')
      /\ \A i \in DOMAIN trackers : trackers'[i] = trackers[i]
      /\ dsite' \notin Known
  BY <1>0, Dispatched, DispatchFresh
<1>5. CASE k = Len(trackers) + 1
  <2>1. s \notin Known /\ trackers'[k].fetched[c] = 0
    BY <1>4, <1>5 DEF NewTracker, NoRows
  <2>2. Passed(c, s) = 0
    BY <2>1 DEF RowInv
  <2>. QED
    BY <1>2, <2>1, <2>2 DEF RowOK
<1>6. CASE k # Len(trackers) + 1
  <2>1. k \in DOMAIN trackers /\ trackers'[k] = trackers[k] /\ trackers[k].site = s
    BY <1>0, <1>4, <1>6
  <2>2. s \in Known
    BY <2>1 DEF Known
  <2>3. Open(Branch(c), s)' <=> Open(Branch(c), s)
    <3>1. s # dsite'
      BY <1>4, <2>2
    <3>. QED
      BY <1>0, <3>1, OpenChange
  <2>4. RowOK(c, k, s)
    BY <2>1 DEF RowInv
  <2>. QED
    BY <1>2, <1>3, <2>1, <2>3, <2>4 DEF RowOK, Branch
<1>. QED
  BY <1>5, <1>6

LEMMA RowNext ==
  ASSUME Distinct, SiteInv, UsedInv, RowInv, [Next]_vars
  PROVE  RowInv'
<1>0. /\ TypeInv /\ UpInv /\ OpenInv /\ SiteInv'
      /\ DOMAIN trackers = 1..Len(trackers)
  BY SiteInvNext, KnownSites DEF SiteInv
<1>1. ASSUME NEW c \in Tables, NEW w \in Workers, NEW s \in Sites,
             Served(w, c), wpc'[w] = "send", job'[w].site = s
      PROVE  Passed(c, s)' + job'[w].left[c] = job'[w].rows[c]
  BY <1>1, RowSenders
<1>2. ASSUME NEW c \in Tables, NEW k \in DOMAIN trackers', NEW s \in Sites,
             trackers'[k].site = s
      PROVE  RowOK(c, k, s)'
  <2>1. CASE Dispatch
    BY <1>0, <1>2, <2>1, RowDispatched
  <2>2. CASE ~Dispatch
    <3>1. k \in DOMAIN trackers /\ trackers[k].site = s
      BY <1>0, <1>2, <2>2, SitesKept
    <3>. QED
      BY <2>2, <3>1, RowKnown
  <2>. QED
    BY <2>1, <2>2
<1>3. ASSUME NEW c \in Tables, NEW s \in Sites, s \notin Known'
      PROVE  Passed(c, s)' = 0
  <2>1. s \notin Known
    BY <1>0, <1>3, SitesKept, Dispatched
  <2>2. Passed(c, s) = 0 /\ c \in Outputs /\ c # "sites"
    BY <2>1 DEF RowInv, Outputs, Tables
  <2>3. ASSUME NEW w \in Workers, SendRow(w, c)
        PROVE  Passed(c, s)' = 0
    <3>1. wpc[w] = "send" /\ Served(w, c)
      BY <1>0, <2>3, RowSent DEF UsedInv
    <3>2. s # job[w].site
      BY <1>0, <2>1, <3>1, ServedSite DEF OpenAt
    <3>3. Passed(c, s)' = 0 + 0
      BY <1>0, <2>2, <2>3, <3>2, PassedRowSent DEF One
    <3>. QED
      BY <3>3
  <2>. QED
    BY <1>0, <2>2, <2>3, PassedSteps
<1>. QED
  BY <1>1, <1>2, <1>3 DEF RowInv, Served, Input

LEMMA RowsInit ==
  ASSUME Init
  PROVE  SiteRowInv /\ UsedInv /\ RowInv
<1>1. /\ \A c \in Channels : chan[c] = <<>>
      /\ \A c \in Outputs : \A s \in Sites : written[c][s] = 0
      /\ \A w \in Workers : wpc[w] = "idle"
      /\ trackers = <<>>
  BY DEF Init, Outputs
<1>2. Known = {} /\ DOMAIN trackers = {}
  BY <1>1 DEF Known
<1>3. \A c \in Outputs : \A s \in Sites : Passed(c, s) = 0
  <2>. SUFFICES ASSUME NEW c \in Outputs, NEW s \in Sites PROVE Passed(c, s) = 0
    OBVIOUS
  <2>1. On(c, s) = {}
    BY <1>1, ChannelNames DEF On, Outputs
  <2>2. Cardinality(On(c, s)) = 0
    BY <2>1, FS_EmptySet
  <2>. QED
    BY <1>1, <2>2 DEF Passed
<1>4. SiteRowInv
  BY <1>2, <1>3 DEF SiteRowInv, One, Outputs
<1>5. UsedInv
  BY <1>1, ChannelNames DEF UsedInv
<1>6. RowInv
  BY <1>1, <1>2, <1>3 DEF RowInv, Outputs
<1>. QED
  BY <1>4, <1>5, <1>6

\* When Process returns the batch writer has been given the row of every
\* dispatched site once and every row fetched for it, for any pools, pages,
\* capacities and interrupts and any list that names no site twice.
THEOREM RowsHandedOver == Distinct => (Spec => []RowsWritten)
<1>. SUFFICES ASSUME Distinct PROVE Spec => []RowsWritten
  OBVIOUS
<1>1. SiteInv /\ EndInv /\ SiteRowInv /\ UsedInv /\ RowInv => RowsWritten
  <2>. SUFFICES ASSUME SiteInv, EndInv, SiteRowInv, UsedInv, RowInv, returned,
                       NEW k \in DOMAIN trackers
                PROVE  /\ written["sites"][trackers[k].site] = 1
                       /\ \A c \in Tables :
                            written[c][trackers[k].site] = trackers[k].fetched[c]
    BY DEF RowsWritten
  <2>1. /\ TypeInv /\ trackers[k].site \in Sites /\ trackers[k].site \in Known
        /\ dpc = "done" /\ chan["sites"] = <<>> /\ \A w \in Workers : wpc[w] = "done"
    BY KnownSites DEF SiteInv, EndInv, StreamsEnded, Known
  <2>. DEFINE s == trackers[k].site
  <2>2. \A c \in Outputs : chan[c] = <<>>
    <3>1. \A c \in Tables : Used(c) => chan[c] = <<>>
      BY DEF EndInv, StreamsEnded, Used
    <3>. QED
      BY <2>1, <3>1 DEF UsedInv, Outputs
  <2>3. ASSUME NEW c \in Outputs PROVE Passed(c, s) = written[c][s]
    <3>1. On(c, s) = {}
      BY <2>2 DEF On
    <3>2. Cardinality(On(c, s)) = 0
      BY <3>1, FS_EmptySet
    <3>3. Passed(c, s) = written[c][s] + 0 /\ written[c][s] \in Nat
      BY <2>1, <3>2, PassedType DEF Passed
    <3>. QED
      BY <3>3
  <2>4. written["sites"][s] = 1
    <3>1. Passed("sites", s) = 1 /\ "sites" \in Outputs
      BY <2>1 DEF SiteRowInv, One, Outputs
    <3>. QED
      BY <2>3, <3>1
  <2>5. ASSUME NEW c \in Tables PROVE written[c][s] = trackers[k].fetched[c]
    <3>1. ~AtSite("send", c, s) /\ c \in Outputs
      BY <2>1 DEF AtSite, Outputs
    <3>2. Passed(c, s) = trackers[k].fetched[c]
      BY <2>1, <3>1 DEF RowInv, RowOK
    <3>. QED
      BY <2>3, <3>1, <3>2
  <2>. QED
    BY <2>4, <2>5
<1>2. SiteInv /\ SiteRowInv /\ [Next]_vars => SiteRowInv'
  BY SiteRowNext
<1>3. SiteInv /\ UsedInv /\ [Next]_vars => UsedInv'
  BY UsedNext DEF SiteInv
<1>4. SiteInv /\ UsedInv /\ RowInv /\ [Next]_vars => RowInv'
  BY RowNext
<1>. QED
  BY <1>1, <1>2, <1>3, <1>4, RowsInit, FlowAlways, PTL DEF Spec

-----------------------------------------------------------------------------
(* The processor as main sees it.                                          *)

\* The site records taken and neither skipped nor completed.
OpenSites == pos - Cardinality(Rejected) - counters["skipped"]
               - counters["completed"]

LEMMA OpenCount ==
  ASSUME TypeInv, FlowInv
  PROVE  OpenSites = Len(chan["raw"]) + Len(chan["filtered"])
                       + Cardinality(OpenTrackers)
<1>. DEFINE d == counters["dispatched"]
            s == counters["skipped"]
            u == Cardinality(Rejected)
            r == Len(chan["raw"])
            f == Len(chan["filtered"])
            c == counters["completed"]
            o == Cardinality(OpenTrackers)
            t == Len(trackers)
<1>1. /\ d \in Nat /\ s \in Nat /\ u \in Nat /\ r \in Nat /\ f \in Nat
      /\ c \in Nat /\ o \in Nat /\ t \in Nat /\ pos \in Nat
  BY FlowTypes
<1>2. d = t /\ d + s + u + r + f = pos /\ c + o = t
  BY DEF FlowInv
<1>3. OpenSites = pos - u - s - c
  BY DEF OpenSites
<1>. HIDE DEF d, s, u, r, f, c, o, t
<1>4. OpenSites = r + f + o
  BY <1>1, <1>2, <1>3
<1>. QED
  BY <1>4 DEF r, f, o

LEMMA OpenMoves ==
  ASSUME TypeInv
  PROVE  /\ /\ pos' = pos + 1 /\ Cardinality(Rejected') = Cardinality(Rejected)
            /\ counters' = counters
            => OpenSites' = OpenSites + 1
         /\ /\ pos' = pos + 1 /\ Cardinality(Rejected') = Cardinality(Rejected) + 1
            /\ counters' = counters
            => OpenSites' = OpenSites
         /\ /\ pos' = pos /\ counters'["completed"] = counters["completed"]
            /\ counters'["skipped"] = counters["skipped"] + 1
            => OpenSites' = OpenSites - 1
         /\ /\ pos' = pos /\ counters'["skipped"] = counters["skipped"]
            /\ counters'["completed"] = counters["completed"] + 1
            => OpenSites' = OpenSites - 1
         /\ OpenSites \in Int
<1>. DEFINE s == counters["skipped"]
            u == Cardinality(Rejected)
            y == counters["completed"]
            v == Cardinality(Rejected')
            t == counters'["skipped"]
            z == counters'["completed"]
<1>1. s \in Nat /\ u \in Nat /\ y \in Nat /\ pos \in Nat
  BY FlowTypes
<1>2. OpenSites = pos - u - s - y /\ OpenSites' = pos' - v - t - z
  BY DEF OpenSites
<1>3. pos' = pos => v = u
  BY DEF Rejected
<1>4. counters' = counters => t = s /\ z = y
  OBVIOUS
<1>. HIDE DEF s, u, y, v, t, z
<1>5. pos' = pos + 1 /\ v = u /\ t = s /\ z = y => OpenSites' = OpenSites + 1
  BY <1>1, <1>2
<1>6. pos' = pos + 1 /\ v = u + 1 /\ t = s /\ z = y => OpenSites' = OpenSites
  BY <1>1, <1>2
<1>7. pos' = pos /\ v = u /\ t = s + 1 /\ z = y => OpenSites' = OpenSites - 1
  BY <1>1, <1>2
<1>8. pos' = pos /\ v = u /\ t = s /\ z = y + 1 => OpenSites' = OpenSites - 1
  BY <1>1, <1>2
<1>9. OpenSites \in Int
  BY <1>1, <1>2
<1>. QED
  BY <1>3, <1>4, <1>5, <1>6, <1>7, <1>8, <1>9 DEF s, u, y, v, t, z

LEMMA NothingRuns ==
  ASSUME Staffed, SiteInv, EndInv, UsedInv, StreamsEnded
  PROVE  /\ epc = "done" /\ chan["raw"] = <<>> /\ chan["filtered"] = <<>>
         /\ \A w \in Workers : wpc[w] = "done"
         /\ \A c \in Outputs : chan[c] = <<>>
         /\ OpenTrackers = {}
<1>1. /\ dpc = "done" /\ chan["sites"] = <<>> /\ epc = "done"
      /\ \A w \in Workers : wpc[w] = "done"
  BY DEF StreamsEnded, EndInv
<1>2. \A c \in Tables : Used(c) => chan[c] = <<>>
  BY DEF StreamsEnded, Used
<1>3. \A c \in Outputs : chan[c] = <<>>
  BY <1>1, <1>2 DEF UsedInv, Outputs
<1>4. /\ chan["raw"] = <<>> /\ chan["filtered"] = <<>>
      /\ \A s \in Sites : outcomes[s] = 0
  BY NothingLeft
<1>5. OpenTrackers = {}
  BY <1>4, KnownSites DEF OpenTrackers, SiteInv
<1>. QED
  BY <1>1, <1>3, <1>4, <1>5

\* Every other step leaves alone all that main sees.
LEMMA UnseenSteps ==
  ASSUME TypeInv, TrackerFound, [Next]_vars, ~SendRecord, ~filterSites,
         ~CollectResults, \A w \in Workers : ~CloseSite(w),
         \A c \in Outputs : ~Stream(c)
  PROVE  /\ UNCHANGED <<pos, written, returned>>
         /\ counters'["completed"] = counters["completed"]
         /\ counters'["succeeded"] = counters["succeeded"]
         /\ counters'["failed"] = counters["failed"]
         /\ counters'["skipped"] = counters["skipped"]
<1>1. DOMAIN written = Outputs /\ counters \in [Counter -> Nat]
  BY DEF TypeInv, TypeOK, Outputs
<1>2. UNCHANGED <<pos, written, returned>>
  <2>1. CASE \E w \in Workers : Work(w)
    BY <2>1, WorkFrame
  <2>2. CASE Distribute
    BY <2>2 DEF Distribute, FilterEnds, Dispatch, DispatchSend, DispatchEnds,
                enumVars, outVars
  <2>3. CASE \/ Interrupt \/ FirstPage \/ StartPage \/ NextPage
             \/ SendInterrupted \/ TokenLost \/ TokenBack \/ UNCHANGED vars
    BY <2>3 DEF Interrupt, FirstPage, StartPage, NextPage, SendInterrupted,
                TokenLost, TokenBack, vars, enumVars, outVars
  <2>. QED
    BY <1>1, <2>1, <2>2, <2>3 DEF Next, Enumerate, Returned
<1>3. /\ counters'["completed"] = counters["completed"]
      /\ counters'["succeeded"] = counters["succeeded"]
      /\ counters'["failed"] = counters["failed"]
  BY FinishMoves
<1>4. counters'["skipped"] = counters["skipped"]
  <2>1. CASE Dispatch
    BY <1>1, <2>1, CounterMoves, CounterNames DEF Dispatch
  <2>2. CASE ~Dispatch
    BY <2>2, FinishMoves
  <2>. QED
    BY <2>1, <2>2
<1>. QED
  BY <1>2, <1>3, <1>4

LEMMA ProcessorStep ==
  ASSUME Distinct, Staffed, SiteInv, EndInv, FlowInv, UsedInv, [Next]_vars
  PROVE  [SP!Next]_(SP!spVars)
<1>0. /\ TypeInv /\ TypeInv' /\ TrackerFound /\ counters \in [Counter -> Nat]
      /\ OpenSites = Len(chan["raw"]) + Len(chan["filtered"])
                       + Cardinality(OpenTrackers)
      /\ Len(chan["raw"]) \in Nat /\ Len(chan["filtered"]) \in Nat
      /\ Cardinality(OpenTrackers) \in Nat /\ Cardinality(Rejected) \in Nat
      /\ counters["completed"] \in Nat /\ counters["skipped"] \in Nat
      /\ pos \in Nat
  BY OpenCount, FlowTypes, FoundAlways, TypeInvNext DEF SiteInv
<1>1. CASE SendRecord
  <2>1. ~returned
    BY <1>1, NothingRuns DEF SendRecord, EndInv
  <2>2. /\ pos' = pos + 1 /\ counters' = counters
        /\ UNCHANGED <<written, returned>>
    BY <1>1 DEF SendRecord, outVars
  <2>3. \/ Cardinality(Rejected') = Cardinality(Rejected)
        \/ Cardinality(Rejected') = Cardinality(Rejected) + 1
    BY <1>0, FrontMoves
  <2>4. CASE Cardinality(Rejected') = Cardinality(Rejected)
    <3>1. OpenSites' = OpenSites + 1
      BY <1>0, <2>2, <2>4, OpenMoves
    <3>2. SP!Take
      BY <2>2, <3>1 DEF SP!Take, OpenSites
    <3>. QED
      BY <2>1, <3>2 DEF SP!Next
  <2>5. CASE Cardinality(Rejected') = Cardinality(Rejected) + 1
    <3>1. OpenSites' = OpenSites
      BY <1>0, <2>2, <2>5, OpenMoves
    <3>. QED
      BY <2>2, <3>1 DEF SP!spVars, OpenSites
  <2>. QED
    BY <2>3, <2>4, <2>5
<1>2. CASE filterSites
  <2>1. /\ ~returned /\ chan["raw"] # <<>>
    BY <1>2, NothingRuns DEF filterSites, EndInv
  <2>2. UNCHANGED <<pos, written, returned>>
    BY <1>2 DEF filterSites, enumVars, outVars
  <2>3. Rejected' = Rejected
    BY <2>2 DEF Rejected
  <2>4. CASE counters' = counters
    <3>1. OpenSites' = OpenSites
      BY <2>2, <2>3, <2>4 DEF OpenSites
    <3>. QED
      BY <2>2, <2>4, <3>1 DEF SP!spVars, OpenSites
  <2>5. CASE counters' = [counters EXCEPT !["skipped"] = @ + 1]
    <3>1. /\ counters'["skipped"] = counters["skipped"] + 1
          /\ counters'["completed"] = counters["completed"]
          /\ counters'["succeeded"] = counters["succeeded"]
          /\ counters'["failed"] = counters["failed"]
      BY <1>0, <2>5, CounterMoves, CounterNames
    <3>2. OpenSites' = OpenSites - 1
      BY <1>0, <2>2, <3>1, OpenMoves
    <3>. DEFINE r == Len(chan["raw"])
                f == Len(chan["filtered"])
                o == Cardinality(OpenTrackers)
    <3>3. r # 0
      BY <1>0, <2>1, ChannelNames DEF TypeInv, TypeOK
    <3>4. OpenSites = r + f + o /\ r \in Nat /\ f \in Nat /\ o \in Nat
      BY <1>0
    <3>. HIDE DEF r, f, o
    <3>5. OpenSites > 0
      BY <3>3, <3>4
    <3>6. SP!PassOver
      BY <2>2, <3>1, <3>2, <3>5 DEF SP!PassOver, OpenSites
    <3>. QED
      BY <2>1, <3>6 DEF SP!Next
  <2>. QED
    BY <1>2, <2>4, <2>5 DEF filterSites
<1>3. ASSUME NEW w \in Workers, CloseSite(w)
      PROVE  SP!Next
  <2>1. ~returned
    BY <1>3, NothingRuns DEF CloseSite, Goto, EndInv
  <2>2. UNCHANGED <<pos, written, returned>>
    BY <1>3 DEF CloseSite, enumVars, outVars
  <2>3. \E c \in {"succeeded", "failed"} :
          counters' = [counters EXCEPT !["completed"] = @ + 1, ![c] = @ + 1]
    BY <1>3 DEF CloseSite
  <2>4. /\ counters'["completed"] = counters["completed"] + 1
        /\ \/ /\ counters'["succeeded"] = counters["succeeded"] + 1
              /\ counters'["failed"] = counters["failed"]
           \/ /\ counters'["failed"] = counters["failed"] + 1
              /\ counters'["succeeded"] = counters["succeeded"]
        /\ counters'["skipped"] = counters["skipped"]
    BY <1>0, <2>3, CounterMoves, CounterNames
  <2>5. OpenSites' = OpenSites - 1
    BY <1>0, <2>2, <2>4, OpenMoves
  <2>6. OpenSites > 0
    <3>. DEFINE r == Len(chan["raw"])
                f == Len(chan["filtered"])
                o == Cardinality(OpenTrackers)
    <3>1. job[w].tracker \in OpenTrackers
      <4>1. /\ job[w].tracker \in DOMAIN trackers /\ job[w].site \in Sites
            /\ trackers[job[w].tracker].site = job[w].site
            /\ outcomes[job[w].site] = job[w].tracker
        BY <1>3, TrackersClosed DEF SiteInv
      <4>. QED
        BY <1>0, <4>1, KnownSites DEF OpenTrackers
    <3>2. o # 0
      BY <1>0, <3>1, FlowTypes, FS_EmptySet
    <3>3. OpenSites = r + f + o /\ r \in Nat /\ f \in Nat /\ o \in Nat
      BY <1>0
    <3>. HIDE DEF r, f, o
    <3>. QED
      BY <3>2, <3>3
  <2>7. SP!Complete
    BY <2>2, <2>4, <2>5, <2>6 DEF SP!Complete, OpenSites
  <2>. QED
    BY <2>1, <2>7 DEF SP!Next
<1>4. ASSUME NEW c \in Outputs, Stream(c)
      PROVE  SP!Next
  <2>1. ~returned
    BY <1>4, NothingRuns DEF Stream, EndInv
  <2>2. Head(chan[c]) \in Sites
    BY <1>0, <1>4, ChannelNames, Popped DEF Stream, TypeInv, TypeOK, ChanOK, Outputs
  <2>3. Rejected' = Rejected
    BY <1>4 DEF Stream, enumVars, Rejected
  <2>4. SP!HandOver(c, Head(chan[c]))
    BY <1>4, <2>3 DEF SP!HandOver, Stream, enumVars
  <2>. QED
    BY <2>1, <2>2, <2>4 DEF SP!Next, Outputs
<1>5. CASE CollectResults
  <2>1. StreamsEnded /\ ~returned /\ returned' = TRUE
        /\ UNCHANGED <<pos, counters, written>>
    BY <1>5 DEF CollectResults, enumVars
  <2>2. Rejected' = Rejected
    BY <2>1 DEF Rejected
  <2>3. OpenSites = 0
    <3>1. OpenTrackers = {} /\ Len(chan["raw"]) = 0 /\ Len(chan["filtered"]) = 0
      BY <2>1, NothingRuns
    <3>. QED
      BY <1>0, <3>1, FS_EmptySet
  <2>4. SP!Return
    BY <2>1, <2>2, <2>3 DEF SP!Return, OpenSites
  <2>. QED
    BY <2>1, <2>4 DEF SP!Next
<1>6. CASE /\ ~SendRecord /\ ~filterSites /\ ~CollectResults
           /\ (\A w \in Workers : ~CloseSite(w)) /\ (\A c \in Outputs : ~Stream(c))
  <2>1. /\ UNCHANGED <<pos, written, returned>>
        /\ counters'["completed"] = counters["completed"]
        /\ counters'["succeeded"] = counters["succeeded"]
        /\ counters'["failed"] = counters["failed"]
        /\ counters'["skipped"] = counters["skipped"]
    BY <1>0, <1>6, UnseenSteps
  <2>2. Rejected' = Rejected
    BY <2>1 DEF Rejected
  <2>3. OpenSites' = OpenSites
    BY <2>1, <2>2 DEF OpenSites
  <2>. QED
    BY <2>1, <2>3 DEF SP!spVars, OpenSites
<1>. QED
  BY <1>1, <1>2, <1>3, <1>4, <1>5, <1>6

\* A Process of the SharePoint processor does what main relies on: every site
\* record is passed over or completed once, whichever worker is last, it returns
\* when none is open, and neither counts a site nor gives the batch writer a row
\* after that.
THEOREM ProcessorImplemented ==
  Distinct /\ Staffed => (Spec => ImplementsSiteProcessor)
<1>. SUFFICES ASSUME Distinct, Staffed PROVE Spec => ImplementsSiteProcessor
  OBVIOUS
<1>1. Init => SP!Init
  <2>. SUFFICES ASSUME Init PROVE SP!Init
    OBVIOUS
  <2>1. /\ counters["completed"] = 0 /\ counters["succeeded"] = 0
        /\ counters["failed"] = 0 /\ counters["skipped"] = 0
    BY DEF Init
  <2>2. /\ pos = 0 /\ returned = FALSE
        /\ written = [c \in {"sites"} \cup Tables |-> [s \in Sites |-> 0]]
    BY DEF Init
  <2>3. Rejected = {}
    BY <2>2 DEF Rejected
  <2>4. pos - Cardinality(Rejected) - counters["skipped"]
          - counters["completed"] = 0
    BY <2>1, <2>2, <2>3, FS_EmptySet
  <2>. QED
    BY <2>1, <2>2, <2>4 DEF SP!Init
<1>2. SiteInv /\ UsedInv /\ [Next]_vars => UsedInv'
  BY UsedNext DEF SiteInv
<1>3. SiteInv /\ EndInv /\ FlowInv /\ UsedInv /\ [Next]_vars
        => [SP!Next]_(SP!spVars)
  BY ProcessorStep
<1>. QED
  BY <1>1, <1>2, <1>3, RowsInit, FlowAlways, PTL
     DEF Spec, ImplementsSiteProcessor, SP!Spec

-----------------------------------------------------------------------------
(* The goroutines of Process do not hold one another up: until it returns   *)
(* there is one whose next step nothing stops, unless one of them waits for  *)
(* somebody else.  The guards are those of the actions, for ENABLED is       *)
(* beyond the provers.                                                       *)

EnumeratorCanMove ==
  \/ epc = "page"
  \/ epc = "send" /\ pos = PageEnd /\ pos = Len(Listing)
  \/ /\ epc = "send" /\ pos < PageEnd
     /\ Listing[pos + 1] \in Undecodable \/ interrupted \/ Room("raw")

FilterCanMove ==
  \/ chan["raw"] # <<>> /\ (Head(chan["raw"]) \in Skipped \/ Room("filtered"))
  \/ filtering /\ epc = "done" /\ chan["raw"] = <<>>

DispatcherCanMove ==
  \/ dpc = "recv" /\ (chan["filtered"] # <<>> \/ ~filtering)
  \/ dpc \in {"sites", "userSites", "groupSites"} /\ Room(dpc)

WorkerCanMove(w) ==
  \/ wpc[w] = "idle" /\ (chan[Input(w)] # <<>> \/ dpc = "done")
  \/ wpc[w] = "acquire" /\ tokens > 0
  \/ wpc[w] = "send" /\ job[w].left = NoRows
  \/ wpc[w] = "send" /\ \E c \in Tables :
       /\ job[w].left[c] > 0
       /\ c = "members" => job[w].left["groups"] = 0
       /\ Room(c)
  \/ wpc[w] \in {"lookup", "fetch", "finalize", "close", "release"}
  \/ wpc[w] = "return" /\ tokens < Cardinality(Workers)

SomeoneCanMove ==
  \/ EnumeratorCanMove \/ FilterCanMove \/ DispatcherCanMove
  \/ \E w \in Workers : WorkerCanMove(w)
  \/ \E c \in Outputs : chan[c] # <<>>
  \/ StreamsEnded

\* A worker waits for a token when none is left: only the scaler can help it.
AwaitingToken == NoTokenLeft /\ \E w \in Workers : wpc[w] = "acquire"

NeverStuck ==
  \/ returned
  \/ SomeoneCanMove
  \/ AwaitingPage
  \/ AwaitingToken
  \/ \E w \in Workers : ReturnBlocked(w)

\* A worker with rows to send has one it may send next.
LEMMA NextRow ==
  ASSUME TypeInv, NEW w \in Workers, job[w].left # NoRows
  PROVE  \E c \in Tables : /\ job[w].left[c] > 0
                           /\ c = "members" => job[w].left["groups"] = 0
<1>. DEFINE left == job[w].left
<1>1. left \in [Tables -> Nat]
  BY SharePointPipelineAssumption DEF TypeInv, TypeOK, Job, Fetch
<1>2. PICK c \in Tables : left[c] # 0
  BY <1>1 DEF NoRows
<1>3. "groups" \in Tables
  BY DEF Tables
<1>. QED
  BY <1>1, <1>2, <1>3

\* The dispatcher waits for the workers of a branch only, and they for tokens
\* and streams only, so the stages cannot block one another in a circle, for any
\* capacities, pools and pages, if every pool that is used has a worker.  What
\* can stop them all before Process returns comes from outside: a page that is
\* not answered, a scaler that has taken every token, or a semaphore the scaler
\* has filled under a worker's Release.
THEOREM NobodyStuck == Staffed => (Spec => []NeverStuck)
<1>. SUFFICES ASSUME Staffed PROVE Spec => []NeverStuck
  OBVIOUS
<1>1. TypeInv /\ IdleInv /\ EndInv => NeverStuck
  <2>. SUFFICES ASSUME TypeInv, IdleInv, EndInv, ~SomeoneCanMove, ~AwaitingPage,
                       ~AwaitingToken, \A w \in Workers : ~ReturnBlocked(w)
                PROVE  FALSE
    BY DEF NeverStuck
  <2>0. /\ chan \in [Channels -> Seq(Sites)] /\ Cap \in [Channels -> Nat \ {0}]
        /\ wpc \in [Workers -> Places] /\ tokens \in 0..Cardinality(Workers)
        /\ Cardinality(Workers) \in Nat
        /\ epc \in {"first", "page", "send", "done"}
        /\ dpc \in {"recv", "sites", "userSites", "groupSites", "done"}
    BY SharePointPipelineAssumption, WorkersCount DEF TypeInv, TypeOK, Places
  <2>1. \A c \in Channels : chan[c] = <<>> => Room(c)
    BY <2>0 DEF Room
  <2>2. \A c \in Outputs : Room(c)
    BY <2>1, ChannelNames DEF SomeoneCanMove, Outputs
  <2>3. \A w \in Workers : wpc[w] \in {"idle", "acquire", "done"}
    <3>1. \A w \in Workers : wpc[w] # "send"
      BY <2>2, NextRow DEF SomeoneCanMove, WorkerCanMove, Outputs
    <3>2. \A w \in Workers : wpc[w] # "return"
      <4>1. SUFFICES ASSUME NEW w \in Workers, wpc[w] = "return" PROVE FALSE
        OBVIOUS
      <4>2. tokens < Cardinality(Workers)
        BY <2>0, <4>1 DEF ReturnBlocked
      <4>. QED
        BY <4>1, <4>2 DEF SomeoneCanMove, WorkerCanMove
    <3>. QED
      BY <2>0, <3>1, <3>2 DEF SomeoneCanMove, WorkerCanMove, Places
  <2>4. \A w \in Workers : wpc[w] # "acquire"
    <3>1. SUFFICES ASSUME NEW w \in Workers, wpc[w] = "acquire" PROVE FALSE
      OBVIOUS
    <3>2. tokens = 0
      BY <2>0, <3>1 DEF SomeoneCanMove, WorkerCanMove
    <3>3. InUse = {}
      BY <2>3 DEF InUse
    <3>. QED
      BY <3>1, <3>2, <3>3 DEF AwaitingToken, NoTokenLeft
  <2>5. dpc # "done"
    <3>1. dpc = "done" => \A w \in Workers : wpc[w] = "done"
      BY <2>3, <2>4 DEF SomeoneCanMove, WorkerCanMove
    <3>. QED
      BY <3>1 DEF SomeoneCanMove, StreamsEnded, Outputs, Tables
  <2>6. \A w \in Workers : chan[Input(w)] = <<>>
    BY <2>3, <2>4, <2>5 DEF SomeoneCanMove, WorkerCanMove, EndInv
  <2>7. dpc # "userSites"
    <3>1. PICK w \in UserWorkers : TRUE
      BY DEF Staffed
    <3>2. w \in Workers /\ Input(w) = "userSites"
      BY DEF Workers, Input
    <3>3. Room("userSites")
      BY <2>1, <2>6, <3>2, ChannelNames
    <3>. QED
      BY <3>3 DEF SomeoneCanMove, DispatcherCanMove
  <2>8. dpc # "groupSites"
    <3>1. SUFFICES ASSUME dpc = "groupSites" PROVE FALSE
      OBVIOUS
    <3>2. PICK w \in GroupWorkers : TRUE
      BY <3>1 DEF Staffed, IdleInv
    <3>3. w \in Workers /\ Input(w) = "groupSites"
      BY SharePointPipelineAssumption DEF Workers, Input
    <3>4. Room("groupSites")
      BY <2>1, <2>6, <3>3, ChannelNames
    <3>. QED
      BY <3>1, <3>4 DEF SomeoneCanMove, DispatcherCanMove
  <2>9. dpc = "recv" /\ chan["filtered"] = <<>> /\ filtering
    <3>1. dpc # "sites"
      BY <2>2 DEF SomeoneCanMove, DispatcherCanMove, Outputs
    <3>. QED
      BY <2>0, <2>5, <2>7, <2>8, <3>1 DEF SomeoneCanMove, DispatcherCanMove
  <2>10. chan["raw"] = <<>> /\ epc # "done"
    BY <2>1, <2>9, ChannelNames DEF SomeoneCanMove, FilterCanMove
  <2>11. epc = "send" /\ ~Room("raw")
    <3>1. epc = "send"
      BY <2>0, <2>10 DEF SomeoneCanMove, EnumeratorCanMove, AwaitingPage
    <3>2. /\ pos <= PageEnd /\ pos \in Nat /\ PageEnd \in Nat
          /\ pos <= Len(Listing) /\ Len(Listing) \in Nat
      BY <3>1, ListingFacts, PageEndType DEF ListInv, TypeInv, TypeOK
    <3>. QED
      BY <3>1, <3>2 DEF SomeoneCanMove, EnumeratorCanMove, AwaitingPage
  <2>. QED
    BY <2>1, <2>10, <2>11, ChannelNames
<1>2. Init => TypeInv /\ IdleInv /\ EndInv
  BY TypeInvInit, EndInit DEF Init, IdleInv, NoJob
<1>3. TypeInv /\ IdleInv /\ [Next]_vars => IdleInv'
  BY IdleKept
<1>4. TypeInv /\ EndInv /\ [Next]_vars => EndInv'
  BY EndNext
<1>. QED
  BY <1>1, <1>2, <1>3, <1>4, TypeInvNext, PTL DEF Spec

-----------------------------------------------------------------------------
(* The way of a record to the table of the sites, where it may be one of    *)
(* several that name the same site: nothing here needs Distinct.            *)

LEMMA ListedType ==
  ASSUME TypeInv, NEW s \in Sites
  PROVE  IsFiniteSet(Listed(s)) /\ Cardinality(Listed(s)) \in Nat
<1>1. pos \in Int
  BY ListingFacts DEF TypeInv, TypeOK
<1>2. IsFiniteSet(1..pos) /\ Listed(s) \subseteq 1..pos
  BY <1>1, FS_Interval DEF Listed
<1>. QED
  BY <1>2, FS_Subset, FS_CardinalityType

LEMMA ListedMore ==
  ASSUME TypeInv, SendRecord, NEW s \in Sites
  PROVE  Cardinality(Listed(s)') = Cardinality(Listed(s)) + One(s = Listing[pos + 1])
<1>1. pos' = pos + 1 /\ pos \in Nat
  BY ListingFacts DEF SendRecord, TypeInv, TypeOK
<1>2. Listed(s)' = Listed(s) \cup (IF s = Listing[pos + 1] THEN {pos + 1} ELSE {})
  BY <1>1 DEF Listed
<1>3. pos + 1 \notin Listed(s)
  BY <1>1 DEF Listed
<1>4. CASE s = Listing[pos + 1]
  BY <1>2, <1>3, <1>4, ListedType, FS_AddElement DEF One
<1>5. CASE s # Listing[pos + 1]
  <2>1. Listed(s)' = Listed(s) /\ One(s = Listing[pos + 1]) = 0
    BY <1>2, <1>5 DEF One
  <2>. QED
    BY <2>1, ListedType
<1>. QED
  BY <1>4, <1>5

\* The site the dispatcher holds and whose row it has not sent.
Held(s) == One(dpc = "sites" /\ dsite = s)

\* Every record that is a site the filter keeps is in one place between the
\* list and the table, as often as it is listed, and no other gets past it.
RouteInv ==
  \A s \in Sites :
    /\ s \notin Undecodable \cup Skipped =>
         Passed("sites", s) + Held(s) + Cardinality(On("filtered", s))
           + Cardinality(On("raw", s)) = Cardinality(Listed(s))
    /\ s \in Undecodable => Cardinality(On("raw", s)) = 0
    /\ s \in Undecodable \cup Skipped =>
         Passed("sites", s) + Held(s) + Cardinality(On("filtered", s)) = 0

LEMMA PosSteps ==
  ASSUME TypeInv, [Next]_vars
  PROVE  pos' = pos \/ SendRecord
<1>1. CASE Enumerate \/ SendInterrupted
  BY <1>1 DEF Enumerate, FirstPage, StartPage, NextPage, SendInterrupted
<1>. QED
  BY <1>1, ListOthers

\* The two channels in front of the dispatcher.
LEMMA RouteChannels ==
  ASSUME TypeInv, [Next]_vars
  PROVE  /\ chan'["raw"] = chan["raw"] \/ SendRecord \/ filterSites
         /\ chan'["filtered"] = chan["filtered"] \/ filterSites \/ Dispatch
<1>0. ChanOK(chan) /\ "raw" \notin Tables /\ "filtered" \notin Tables
  BY DEF TypeInv, TypeOK, ChanOK, Tables
<1>1. CASE SendRecord /\ chan' = Push(chan, "raw", Listing[pos + 1])
  <2>1. chan' = chan \/ Len(chan["raw"]) < Cap["raw"]
    BY <1>1 DEF SendRecord, Room
  <2>. QED
    BY <1>0, <1>1, <2>1, RecordSent, ChannelNames, Pushed
<1>2. CASE Dispatch
  BY <1>0, <1>2, ChannelNames, Popped DEF Dispatch
<1>3. CASE DispatchSend
  <2>1. /\ dsite \in Sites /\ dpc \in Channels /\ Len(chan[dpc]) < Cap[dpc]
        /\ dpc \notin {"raw", "filtered"}
    BY <1>3, ChannelNames DEF DispatchSend, TypeInv, Room
  <2>. QED
    BY <1>0, <1>3, <2>1, ChannelNames, Pushed DEF DispatchSend
<1>4. ASSUME NEW w \in Workers, TakeSite(w)
      PROVE  chan'["raw"] = chan["raw"] /\ chan'["filtered"] = chan["filtered"]
  BY <1>0, <1>4, ChannelNames, Popped DEF TakeSite
<1>5. ASSUME NEW w \in Workers, NEW d \in Tables, SendRow(w, d)
      PROVE  chan'["raw"] = chan["raw"] /\ chan'["filtered"] = chan["filtered"]
  <2>1. job[w].site \in Sites /\ d \in Channels /\ Len(chan[d]) < Cap[d]
    BY <1>5, ChannelNames DEF SendRow, TypeInv, FreePlaces, Room
  <2>. QED
    BY <1>0, <1>5, <2>1, ChannelNames, Pushed DEF SendRow
<1>6. ASSUME NEW d \in {"sites"} \cup Tables, Stream(d)
      PROVE  chan'["raw"] = chan["raw"] /\ chan'["filtered"] = chan["filtered"]
  <2>1. d \in Channels /\ d \notin {"raw", "filtered"}
    BY <1>0, ChannelNames
  <2>. QED
    BY <1>0, <1>6, <2>1, ChannelNames, Popped DEF Stream
<1>. QED
  BY <1>1, <1>2, <1>3, <1>4, <1>5, <1>6, ChanSteps

LEMMA RouteTypes ==
  ASSUME TypeInv, NEW s \in Sites
  PROVE  /\ Passed("sites", s) \in Nat /\ Held(s) \in Nat
         /\ Cardinality(On("filtered", s)) \in Nat
         /\ Cardinality(On("raw", s)) \in Nat /\ Cardinality(Listed(s)) \in Nat
<1>1. Held(s) \in Nat
  BY DEF Held, One
<1>. QED
  BY <1>1, ChannelNames, OnType, PassedType, ListedType DEF Outputs

LEMMA RouteSend ==
  ASSUME TypeInv, RouteInv, [Next]_vars, SendRecord
  PROVE  RouteInv'
<1>. DEFINE x == Listing[pos + 1]
<1>1. /\ x \in Sites /\ UNCHANGED <<dpc, dsite, written>>
      /\ pos' # pos
  BY RecordSent, ListingFacts
     DEF SendRecord, flowVars, dispatchVars, outVars, TypeInv, TypeOK
<1>2. ~DispatchSend /\ ~Dispatch /\ ~filterSites /\ \A w \in Workers : ~Work(w)
  BY <1>1, WorkFrame DEF DispatchSend, Dispatch, filterSites, enumVars
<1>3. \/ x \in Undecodable /\ chan' = chan
      \/ /\ x \notin Undecodable
         /\ chan'["raw"] = Append(chan["raw"], x)
         /\ \A c \in Channels : c # "raw" => chan'[c] = chan[c]
  <2>1. CASE x \in Undecodable /\ chan' = chan
    BY <2>1
  <2>2. CASE x \notin Undecodable /\ Room("raw") /\ chan' = Push(chan, "raw", x)
    <3>1. ChanOK(chan) /\ Len(chan["raw"]) < Cap["raw"]
      BY <2>2 DEF Room, TypeInv, TypeOK, ChanOK
    <3>. HIDE DEF x
    <3>. QED
      BY <1>1, <2>2, <3>1, ChannelNames, Pushed
  <2>. QED
    BY <2>1, <2>2 DEF SendRecord
<1>. SUFFICES ASSUME NEW s \in Sites
     PROVE  /\ s \notin Undecodable \cup Skipped =>
                 (Passed("sites", s) + Held(s) + Cardinality(On("filtered", s))
                   + Cardinality(On("raw", s)))' = Cardinality(Listed(s)')
            /\ s \in Undecodable => Cardinality(On("raw", s)') = 0
            /\ s \in Undecodable \cup Skipped =>
                 (Passed("sites", s) + Held(s) + Cardinality(On("filtered", s)))' = 0
  BY DEF RouteInv
<1>4. /\ Held(s)' = Held(s) /\ On("filtered", s)' = On("filtered", s)
      /\ Passed("sites", s)' = Passed("sites", s)
  BY <1>1, <1>3, ChannelNames DEF Held, On, Passed
<1>5. Cardinality(Listed(s)') = Cardinality(Listed(s)) + One(s = x)
  BY ListedMore
<1>6. Cardinality(On("raw", s)')
        = Cardinality(On("raw", s)) + One(s = x /\ x \notin Undecodable)
  <2>1. CASE x \in Undecodable /\ chan' = chan
    <3>1. On("raw", s)' = On("raw", s)
      BY <2>1 DEF On
    <3>2. One(s = x /\ x \notin Undecodable) = 0
      BY <2>1 DEF One
    <3>. QED
      BY <3>1, <3>2, RouteTypes
  <2>2. CASE x \notin Undecodable /\ chan'["raw"] = Append(chan["raw"], x)
    <3>1. Cardinality(On("raw", s)') = Cardinality(On("raw", s)) + One(s = x)
      BY <1>1, <2>2, ChannelNames, OnSent
    <3>. QED
      BY <2>2, <3>1
  <2>. QED
    BY <1>3, <2>1, <2>2
<1>. DEFINE p == Passed("sites", s) + Held(s) + Cardinality(On("filtered", s))
            r == Cardinality(On("raw", s))
            l == Cardinality(Listed(s))
<1>7. /\ p \in Nat /\ r \in Nat /\ l \in Nat /\ p' = p
  BY <1>4, RouteTypes
<1>8. /\ s \notin Undecodable \cup Skipped => p + r = l
      /\ s \in Undecodable => r = 0 /\ (s \in Undecodable \cup Skipped => p = 0)
      /\ s \in Undecodable \cup Skipped => p = 0
  BY DEF RouteInv
<1>9. r' = r + One(s = x /\ x \notin Undecodable) /\ l' = l + One(s = x)
  BY <1>5, <1>6
<1>. HIDE DEF p, r, l, x
<1>10. s \notin Undecodable \cup Skipped => p' + r' = l'
  BY <1>7, <1>8, <1>9 DEF One
<1>11. s \in Undecodable => r' = 0
  BY <1>7, <1>8, <1>9 DEF One
<1>. QED
  BY <1>7, <1>8, <1>10, <1>11 DEF p, r, l

\* A site leaves the raw channel for the filtered one, or is passed over.
LEMMA RouteFilter ==
  ASSUME TypeInv, RouteInv, [Next]_vars, filterSites
  PROVE  RouteInv'
<1>. DEFINE h == Head(chan["raw"])
<1>1. /\ UNCHANGED <<dpc, dsite, written, pos>> /\ chan["raw"] # <<>>
      /\ ChanOK(chan) /\ h \in Sites /\ chan["raw"] \in Seq(Sites)
  BY ChannelNames, Popped
     DEF filterSites, enumVars, flowVars, dispatchVars, outVars, TypeInv, TypeOK,
         ChanOK
<1>2. /\ chan'["raw"] = Tail(chan["raw"]) /\ chan'["sites"] = chan["sites"]
      /\ \/ h \in Skipped /\ chan'["filtered"] = chan["filtered"]
         \/ h \notin Skipped /\ chan'["filtered"] = Append(chan["filtered"], h)
  <2>. DEFINE ch == Pop(chan, "raw")
  <2>1. /\ ChanOK(ch) /\ ch["raw"] = Tail(chan["raw"])
        /\ ch["sites"] = chan["sites"] /\ ch["filtered"] = chan["filtered"]
    BY <1>1, ChannelNames, Popped
  <2>2. CASE h \in Skipped /\ chan' = ch
    BY <2>1, <2>2
  <2>3. CASE h \notin Skipped /\ Room("filtered") /\ chan' = Push(ch, "filtered", h)
    <3>1. Len(ch["filtered"]) < Cap["filtered"]
      BY <2>1, <2>3 DEF Room
    <3>. HIDE DEF h, ch
    <3>. QED
      BY <1>1, <2>1, <2>3, <3>1, ChannelNames, Pushed
  <2>. QED
    BY <2>2, <2>3 DEF filterSites
<1>. SUFFICES ASSUME NEW s \in Sites
     PROVE  /\ s \notin Undecodable \cup Skipped =>
                 (Passed("sites", s) + Held(s) + Cardinality(On("filtered", s))
                   + Cardinality(On("raw", s)))' = Cardinality(Listed(s)')
            /\ s \in Undecodable => Cardinality(On("raw", s)') = 0
            /\ s \in Undecodable \cup Skipped =>
                 (Passed("sites", s) + Held(s) + Cardinality(On("filtered", s)))' = 0
  BY DEF RouteInv
<1>3. /\ Held(s)' = Held(s) /\ Passed("sites", s)' = Passed("sites", s)
      /\ Listed(s)' = Listed(s)
  BY <1>1, <1>2 DEF Held, On, Passed, Listed
<1>4. Cardinality(On("raw", s)') = Cardinality(On("raw", s)) - One(s = h)
  BY <1>1, <1>2, ChannelNames, OnTaken
<1>5. Cardinality(On("filtered", s)')
        = Cardinality(On("filtered", s)) + One(s = h /\ h \notin Skipped)
  <2>1. CASE h \in Skipped /\ chan'["filtered"] = chan["filtered"]
    <3>1. On("filtered", s)' = On("filtered", s)
      BY <2>1 DEF On
    <3>2. One(s = h /\ h \notin Skipped) = 0
      BY <2>1 DEF One
    <3>. QED
      BY <3>1, <3>2, RouteTypes
  <2>2. CASE h \notin Skipped /\ chan'["filtered"] = Append(chan["filtered"], h)
    <3>1. Cardinality(On("filtered", s)') = Cardinality(On("filtered", s)) + One(s = h)
      BY <1>1, <2>2, ChannelNames, OnSent
    <3>. QED
      BY <2>2, <3>1
  <2>. QED
    BY <1>2, <2>1, <2>2
<1>6. s = h => Cardinality(On("raw", s)) # 0
  <2>1. s = h => 1 \in On("raw", s)
    BY <1>1 DEF On
  <2>. QED
    BY <2>1, ChannelNames, OnType, FS_EmptySet
<1>. DEFINE p == Passed("sites", s) + Held(s)
            f == Cardinality(On("filtered", s))
            r == Cardinality(On("raw", s))
            l == Cardinality(Listed(s))
<1>7. /\ p \in Nat /\ f \in Nat /\ r \in Nat /\ l \in Nat /\ p' = p /\ l' = l
  BY <1>3, RouteTypes
<1>8. /\ s \notin Undecodable \cup Skipped => p + f + r = l
      /\ s \in Undecodable => r = 0
      /\ s \in Undecodable \cup Skipped => p + f = 0
  BY DEF RouteInv
<1>9. r' = r - One(s = h) /\ f' = f + One(s = h /\ h \notin Skipped)
      /\ (s = h => r # 0)
  BY <1>4, <1>5, <1>6
<1>. HIDE DEF p, f, r, l, h
<1>10. s \notin Undecodable \cup Skipped => p' + f' + r' = l'
  BY <1>7, <1>8, <1>9 DEF One
<1>11. s \in Undecodable => r' = 0
  BY <1>7, <1>8, <1>9 DEF One
<1>12. s \in Undecodable \cup Skipped => p' + f' = 0
  BY <1>7, <1>8, <1>9 DEF One
<1>. QED
  BY <1>10, <1>11, <1>12 DEF p, f, r, l

\* The dispatcher takes a site, and later sends its row.
LEMMA RouteDispatch ==
  ASSUME TypeInv, RouteInv, [Next]_vars, Dispatch \/ DispatchSend
  PROVE  RouteInv'
<1>1. /\ pos' = pos /\ ~SendRecord /\ ~filterSites
      /\ chan'["raw"] = chan["raw"]
  <2>1. pos' = pos /\ ~filterSites
    BY DEF Dispatch, DispatchSend, NextSend, filterSites, enumVars, flowVars,
           dispatchVars
  <2>2. ~SendRecord
    BY <2>1, ListingFacts DEF SendRecord, TypeInv, TypeOK
  <2>. QED
    BY <2>1, <2>2, RouteChannels
<1>. SUFFICES ASSUME NEW s \in Sites
              PROVE  (Passed("sites", s) + Held(s) + Cardinality(On("filtered", s)))'
                       = Passed("sites", s) + Held(s) + Cardinality(On("filtered", s))
  <2>1. \A s \in Sites : On("raw", s)' = On("raw", s) /\ Listed(s)' = Listed(s)
    BY <1>1 DEF On, Listed
  <2>. QED
    BY <2>1 DEF RouteInv
<1>. DEFINE p == Passed("sites", s)
            d == Held(s)
            f == Cardinality(On("filtered", s))
<1>2. p \in Nat /\ d \in Nat /\ f \in Nat
  BY RouteTypes
<1>3. CASE Dispatch
  <2>1. /\ chan["filtered"] # <<>> /\ dsite' = Head(chan["filtered"])
        /\ chan'["filtered"] = Tail(chan["filtered"]) /\ dpc = "recv" /\ dpc' = "sites"
    BY <1>3, ChannelNames, Popped DEF Dispatch, TypeInv, TypeOK, ChanOK
  <2>2. f' = f - One(s = dsite')
    BY <2>1, ChannelNames, OnTaken
  <2>3. d' = One(s = dsite') /\ d = 0
    BY <2>1 DEF Held, One
  <2>4. p' = p
    BY <2>1, PassedSteps DEF Outputs, Tables
  <2>5. One(s = dsite') \in Nat
    BY DEF One
  <2>. HIDE DEF p, d, f
  <2>6. p' + d' + f' = p + d + f
    BY <1>2, <2>2, <2>3, <2>4, <2>5
  <2>. QED
    BY <2>6 DEF p, d, f
<1>4. CASE DispatchSend
  <2>1. f' = f
    <3>1. ~Dispatch
      BY <1>4 DEF Dispatch, DispatchSend
    <3>2. chan'["filtered"] = chan["filtered"]
      BY <1>1, <3>1, RouteChannels
    <3>. QED
      BY <3>2 DEF On
  <2>2. CASE dpc = "sites"
    <3>1. p' = p + One(s = dsite)
      BY <1>4, <2>2, PassedSiteSent
    <3>2. d = One(s = dsite) /\ d' = 0
      BY <1>4, <2>2 DEF DispatchSend, NextSend, Held, One
    <3>. HIDE DEF p, d, f
    <3>3. p' + d' + f' = p + d + f
      BY <1>2, <2>1, <3>1, <3>2
    <3>. QED
      BY <3>3 DEF p, d, f
  <2>3. CASE dpc # "sites"
    <3>1. p' = p
      BY <2>3, PassedSteps DEF Outputs, Tables
    <3>2. d = 0 /\ d' = 0
      BY <1>4, <2>3 DEF DispatchSend, NextSend, Held, One
    <3>. QED
      BY <2>1, <3>1, <3>2
  <2>. QED
    BY <2>2, <2>3
<1>. QED
  BY <1>3, <1>4

LEMMA RouteNext == TypeInv /\ RouteInv /\ [Next]_vars => RouteInv'
<1>. SUFFICES ASSUME TypeInv, RouteInv, [Next]_vars PROVE RouteInv'
  OBVIOUS
<1>1. CASE ~SendRecord /\ ~filterSites /\ ~Dispatch /\ ~DispatchSend
  <2>1. /\ pos' = pos /\ chan'["raw"] = chan["raw"]
        /\ chan'["filtered"] = chan["filtered"]
    BY <1>1, PosSteps, RouteChannels
  <2>2. \A s \in Sites : Passed("sites", s)' = Passed("sites", s)
    BY <1>1, PassedSteps DEF Outputs, Tables
  <2>3. \A s \in Sites : /\ Held(s)' = Held(s) /\ On("raw", s)' = On("raw", s)
                         /\ On("filtered", s)' = On("filtered", s)
                         /\ Listed(s)' = Listed(s)
    BY <1>1, <2>1, DispatcherSteps DEF Held, On, Listed, One
  <2>. QED
    BY <2>2, <2>3 DEF RouteInv
<1>. QED
  BY <1>1, RouteSend, RouteFilter, RouteDispatch

LEMMA RouteInit == Init => RouteInv
<1>. SUFFICES ASSUME Init, NEW s \in Sites
     PROVE  /\ Passed("sites", s) = 0 /\ Held(s) = 0 /\ Listed(s) = {}
            /\ On("raw", s) = {} /\ On("filtered", s) = {}
  <2>1. Cardinality({}) = 0 /\ 0 + 0 + 0 = 0 /\ 0 + 0 + 0 + 0 = 0
    BY FS_EmptySet
  <2>. QED
    BY <2>1, Zenon DEF RouteInv
<1>1. /\ \A c \in Channels : chan[c] = <<>>
      /\ pos = 0 /\ dpc = "recv" /\ written["sites"][s] = 0
  BY DEF Init
<1>2. \A c \in Channels : On(c, s) = {}
  BY <1>1 DEF On
<1>3. Listed(s) = {} /\ Held(s) = 0
  BY <1>1 DEF Listed, Held, One
<1>4. Passed("sites", s) = 0 + 0
  BY <1>1, <1>2, ChannelNames, FS_EmptySet, Zenon DEF Passed
<1>. QED
  BY <1>2, <1>3, <1>4, ChannelNames

\* When Process returns, every site record kept by the filter has been given to
\* the batch writer as often as the list named it, and no other record has been,
\* for any list, pools and capacities and however the enumeration ended.  So a
\* site listed twice is given twice; the database then stores it once or, with
\* the plain INSERT of a recreated database, refuses the batch of the second.
THEOREM SiteRowsGiven == Spec => []SiteRowsWritten
<1>1. TypeInv /\ EndInv /\ RouteInv => SiteRowsWritten
  <2>. SUFFICES ASSUME TypeInv, EndInv, RouteInv, returned, NEW s \in Sites
       PROVE  written["sites"][s] = IF s \in Undecodable \cup Skipped THEN 0
                                    ELSE Cardinality(Listed(s))
    BY DEF SiteRowsWritten
  <2>1. /\ chan["sites"] = <<>> /\ chan["filtered"] = <<>> /\ chan["raw"] = <<>>
        /\ dpc = "done"
    BY DEF EndInv, StreamsEnded
  <2>2. On("sites", s) = {} /\ On("filtered", s) = {} /\ On("raw", s) = {}
    BY <2>1 DEF On
  <2>3. Held(s) = 0 /\ written["sites"][s] \in Nat /\ Cardinality(Listed(s)) \in Nat
    BY <2>1, PassedType, ListedType DEF Held, One, Outputs
  <2>4. Passed("sites", s) = written["sites"][s] + 0
    BY <2>2, FS_EmptySet DEF Passed
  <2>5. Cardinality(On("filtered", s)) = 0 /\ Cardinality(On("raw", s)) = 0
    BY <2>2, FS_EmptySet
  <2>. QED
    BY <2>3, <2>4, <2>5 DEF RouteInv
<1>2. TypeInv /\ EndInv /\ [Next]_vars => EndInv'
  BY EndNext
<1>. QED
  BY <1>1, <1>2, TypeInvInit, TypeInvNext, EndInit, RouteInit, RouteNext, PTL
     DEF Spec
=============================================================================
