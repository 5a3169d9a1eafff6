---------------------------- MODULE HostPageProofs ----------------------------
(***************************************************************************)
(* What the page may rely on, for any number of callers and sessions: the  *)
(* logger, the icon caches, the order in which the dialog's fetches end,   *)
(* the settings.  It rests on the invariant of HostApiProofs, above all on *)
(* the channel being first come first served and empty without a page.     *)
(***************************************************************************)
EXTENDS HostApiProofs

-----------------------------------------------------------------------------
(* The inductive invariant.                                                *)

\* A fetch by the dialog that was begun is one of the entries made.
Begun == \A d \in Dialog : at[d] # "idle" => Asks(d)

\* What was read in this session is in the cache, and without a page there is
\* no cache.
CacheKnown ==
    /\ cache \in Caches
    /\ page # "running" => \A k \in Keys : cache[k] = NULL
    /\ \A g \in Fetches : at[g] = "done" => cache[IconOf(g)] # NULL

\* The dialog's messages are in the order of its entries.
InOrder ==
    /\ \A i, j \in 1..Len(requests) :
        {requests[i].task, requests[j].task} \subseteq Dialog /\ i < j
            => requests[i].task < requests[j].task
    /\ \A i, j \in 1..Len(replies) :
        {replies[i].task, replies[j].task} \subseteq Dialog /\ i < j
            => replies[i].task < replies[j].task
    /\ \A i \in 1..Len(replies), j \in 1..Len(requests) :
        {replies[i].task, requests[j].task} \subseteq Dialog
            => replies[i].task < requests[j].task

UnderWay ==
    {requests[i].task : i \in 1..Len(requests)} \union {replies[i].task : i \in 1..Len(replies)}

\* The entry shown was fetched before those under way, unless it was a hit.
ShownInOrder ==
    /\ image \in Dialog \union {NULL}
    /\ image \in Dialog => image <= entered
    /\ image \in Dialog /\ at[image] # "hit" => \A d \in UnderWay \intersect Dialog : image < d

Page == Begun /\ CacheKnown /\ CacheTells /\ InOrder /\ ShownInOrder

-----------------------------------------------------------------------------
(* Steps.                                                                  *)

USE DEF page_, isolate, channel, items, host

\* What the answer at the head does to the page.
LEMMA TakeShape ==
    ASSUME Types, IsolateStep
    PROVE  LET t == Head(replies).task
               v == Head(replies).value
           IN  /\ t \in Tasks
               /\ \/ /\ at' = [at EXCEPT ![t] = "failed"] /\ UNCHANGED <<cache, image>>
                     /\ t \in Fetches => v \in {NULL, ERROR}
                  \/ t \notin Fetches /\ at' = [at EXCEPT ![t] = "done"] /\ UNCHANGED <<cache, image>>
                  \/ /\ t \in Fetches /\ at' = [at EXCEPT ![t] = "done"] /\ v # ERROR
                     /\ cache' = [cache EXCEPT ![IconOf(t)] =
                                    IF v = NULL \/ memory[v] = FREE THEN GARBLED ELSE memory[v].icon]
                     /\ image' = IF t \in Dialog THEN t ELSE image
<1>1. PICK t \in Tasks :
        FromRaw(t) \/ ReadBitmap(t) \/ ReadNoBitmap(t) \/ GotSetting(t) \/ Throws(t)
    BY DEF IsolateStep
<1>2. CASE FromRaw(t)
    BY <1>2, TasksAssumption DEF FromRaw, Resume, Ends
<1>3. CASE ReadBitmap(t)
    BY <1>3 DEF ReadBitmap, Resume, Encode, Ends
<1>4. CASE ReadNoBitmap(t)
    BY <1>4 DEF ReadNoBitmap, Resume, Encode, Ends
<1>5. CASE GotSetting(t)
    BY <1>5, TasksAssumption DEF GotSetting, Resume, Ends
<1>6. CASE Throws(t)
    BY <1>6 DEF Throws, Ends
<1> QED
    BY <1>1, <1>2, <1>3, <1>4, <1>5, <1>6

LEMMA BegunStep ==
    ASSUME Types, OnlyRunning, Kinds, Referenced, Begun, Next
    PROVE  Begun'
<1> SUFFICES ASSUME NEW d \in Dialog, at'[d] # "idle"
             PROVE  d <= entered' /\ asked'[d] \in Keys
    BY DEF Begun, Asks
<1>0. d \in Tasks /\ d \in Fetches /\ d \notin Keys /\ d \notin Loads /\ d \notin Clients
    BY TasksAssumption DEF Tasks, Fetches
<1>1. CASE UNCHANGED <<at, asked, entered>>
    BY <1>1 DEF Begun, Asks
<1>2. CASE Close
    BY <1>0, <1>2 DEF Close
<1>3. ASSUME NEW t \in Tasks \ {d}, NEW what, NEW name, Call(t, what, name), UNCHANGED <<asked, entered>>
      PROVE  d <= entered' /\ asked'[d] \in Keys
    BY <1>0, <1>3 DEF Call, Begun, Asks, Types
<1>4. ASSUME NEW k \in Keys, Watch(k) PROVE d <= entered' /\ asked'[d] \in Keys
  <2>1. at'[d] = at[d] /\ UNCHANGED <<asked, entered>>
      BY <1>0, <1>4 DEF Watch, GetIconPngData, Call, Types
  <2> QED
      BY <2>1 DEF Begun, Asks
<1>5. ASSUME NEW k \in Large, EnterIndex(k) PROVE d <= entered' /\ asked'[d] \in Keys
  <2>1. /\ entered' = entered + 1 /\ entered \in Nat /\ asked'[entered + 1] = k /\ k \in Keys
        /\ GetIconPngData(entered + 1, k)
        /\ Asks(d) => d <= entered' /\ asked'[d] \in Keys
      BY <1>0, <1>5, EnterFacts DEF Types
  <2>2. CASE d = entered + 1
      BY <2>1, <2>2
  <2>3. CASE d # entered + 1
    <3>1. at'[d] = at[d]
        BY <1>0, <2>1, <2>3 DEF GetIconPngData, Call, Types
    <3> QED
        BY <2>1, <3>1 DEF Begun
  <2> QED
      BY <2>2, <2>3
<1>6. CASE HostStep
    BY <1>1, <1>6, HostShape
<1>7. CASE IsolateStep
  <2>1. /\ replies # <<>> /\ UNCHANGED <<asked, entered>>
        /\ Head(replies) = replies[1] /\ 1 \in 1..Len(replies)
      BY <1>7, IsolateShape, TakeFacts
  <2>2. Asks(Head(replies).task)
      BY <2>1 DEF Kinds
  <2>3. at'[d] = at[d] \/ d = Head(replies).task
      BY <1>0, <1>7, TakeShape DEF Types
  <2> QED
      BY <2>1, <2>2, <2>3 DEF Begun, Asks
<1>8. CASE Refresh \/ UseSettings
  <2>1. CASE \E l \in Loads : Load(l)
      BY <1>0, <1>3, <2>1 DEF Load, Tasks
  <2>2. CASE \E c \in Clients : \E what, name : UseSetting(c, what, name)
      BY <1>0, <1>3, <2>2 DEF UseSetting, Tasks
  <2> QED
      BY <1>1, <1>8, <2>1, <2>2 DEF Refresh, UseSettings, ProcessStarts, ProcessExits, EditSetting
<1> QED
    BY <1>1, <1>2, <1>4, <1>5, <1>6, <1>7, <1>8
       DEF Next, PageStep, Open, FindPackageConfig, OpenLogFile, Icons

\* The page comes to run, and ends, by main's steps alone.
LEMMA PageStays ==
    ASSUME Types, Referenced, Next, ~Close
    PROVE  /\ page' # "running" => page # "running"
           /\ session' # session => page # "running"
<1>1. CASE PageStep
    BY <1>1 DEF PageStep, Open, FindPackageConfig, OpenLogFile
<1>2. CASE HostStep
    BY <1>2, HostShape
<1>3. CASE IsolateStep
    BY <1>3, IsolateShape
<1>4. CASE Refresh \/ Icons \/ UseSettings
    BY <1>4 DEF Refresh, Load, ProcessStarts, ProcessExits, Icons, Watch, EnterIndex,
                UseSettings, UseSetting, EditSetting
<1> QED
    BY <1>1, <1>2, <1>3, <1>4 DEF Next

\* Calls and the host's steps make no fetch done, and change no fetch's icon.
LEMMA DoneStays ==
    ASSUME Types, Referenced, Next, ~Close, ~IsolateStep
    PROVE  /\ cache' = cache
           /\ \A g \in Fetches : at'[g] = "done" => at[g] = "done" /\ IconOf(g)' = IconOf(g)
<1>0. Fetches \subseteq Tasks /\ Dialog \subseteq Fetches
    BY DEF Tasks, Fetches
<1>1. CASE UNCHANGED <<at, asked, cache>>
    BY <1>1 DEF IconOf
<1>2. ASSUME NEW t \in Tasks, NEW what, NEW name, Call(t, what, name), UNCHANGED <<asked, cache>>
      PROVE  /\ cache' = cache
             /\ \A g \in Fetches : at'[g] = "done" => at[g] = "done" /\ IconOf(g)' = IconOf(g)
    BY <1>0, <1>2 DEF Call, Types, IconOf
<1>3. ASSUME NEW k \in Keys, Watch(k)
      PROVE  /\ cache' = cache
             /\ \A g \in Fetches : at'[g] = "done" => at[g] = "done" /\ IconOf(g)' = IconOf(g)
    BY <1>0, <1>3 DEF Watch, GetIconPngData, Call, Types, IconOf
<1>4. ASSUME NEW k \in Large, EnterIndex(k)
      PROVE  /\ cache' = cache
             /\ \A g \in Fetches : at'[g] = "done" => at[g] = "done" /\ IconOf(g)' = IconOf(g)
  <2> DEFINE d == entered + 1
  <2>1. /\ GetIconPngData(d, k) /\ cache' = cache /\ asked' = [asked EXCEPT ![d] = k]
      BY <1>4 DEF EnterIndex
  <2>2. d \in Tasks
      BY <1>0, <1>4, EnterFacts
  <2> HIDE DEF d
  <2>3. at'[d] # "done" /\ \A t \in Tasks \ {d} : at'[t] = at[t]
      BY <2>1, <2>2 DEF GetIconPngData, Call, Types
  <2> QED
      BY <1>0, <2>1, <2>3 DEF IconOf, Types
<1>5. CASE HostStep
    BY <1>1, <1>5, HostShape
<1>6. CASE Refresh
  <2>1. CASE \E l \in Loads : Load(l)
      BY <1>2, <2>1 DEF Load, Tasks
  <2> QED
      BY <1>1, <1>6, <2>1 DEF Refresh, ProcessStarts, ProcessExits
<1>7. CASE UseSettings
  <2>1. CASE \E c \in Clients : \E what, name : UseSetting(c, what, name)
      BY <1>2, <2>1 DEF UseSetting, Tasks
  <2> QED
      BY <1>1, <1>7, <2>1 DEF UseSettings, EditSetting
<1> QED
    BY <1>1, <1>3, <1>4, <1>5, <1>6, <1>7
       DEF Next, PageStep, Open, FindPackageConfig, OpenLogFile, Icons

LEMMA CacheStep ==
    ASSUME IInv, Begun, CacheKnown, CacheTells, Next
    PROVE  CacheKnown' /\ CacheTells'
<1> USE DEF IInv
<1>1. unmade \subseteq unmade'
    BY UnmadeStays
<1>2. CASE Close
  <2>1. cache' = [k \in Keys |-> NULL] /\ at' = [t \in Tasks |-> "idle"]
      BY <1>2 DEF Close
  <2>2. Fetches \subseteq Tasks
      BY DEF Tasks
  <2> QED
      BY <2>1, <2>2 DEF CacheKnown, CacheTells, Caches
<1>3. CASE ~Close /\ ~IsolateStep
  <2>1. /\ cache' = cache
        /\ \A g \in Fetches : at'[g] = "done" => at[g] = "done" /\ IconOf(g)' = IconOf(g)
      BY <1>3, DoneStays
  <2>2. /\ page' # "running" => page # "running"
        /\ session' # session => page # "running"
      BY <1>3, PageStays
  <2>3. CacheKnown'
      BY <2>1, <2>2 DEF CacheKnown
  <2>4. CacheTells'
    <3>1. CASE session' = session
        BY <1>1, <2>1, <3>1 DEF CacheTells
    <3>2. CASE session' # session
        BY <2>1, <2>2, <3>2 DEF CacheTells, CacheKnown
    <3> QED
        BY <3>1, <3>2
  <2> QED
      BY <2>3, <2>4
<1>4. CASE IsolateStep
  <2> DEFINE t == Head(replies).task
             v == Head(replies).value
             picture == IF v = NULL \/ memory[v] = FREE THEN GARBLED ELSE memory[v].icon
  <2>1. /\ t \in Tasks
        /\ \/ at' = [at EXCEPT ![t] = "failed"] /\ UNCHANGED cache
           \/ t \notin Fetches /\ at' = [at EXCEPT ![t] = "done"] /\ UNCHANGED cache
           \/ /\ t \in Fetches /\ at' = [at EXCEPT ![t] = "done"] /\ v # ERROR
              /\ cache' = [cache EXCEPT ![IconOf(t)] = picture]
      BY <1>4, TakeShape
  <2>2. /\ UNCHANGED <<page, asked, session, memory>> /\ Head(replies) = replies[1]
        /\ 1 \in 1..Len(replies) /\ replies # <<>>
      BY <1>4, IsolateShape, TakeFacts
  <2>3. t \in Fetches => Asks(t) /\ IconOf(t) \in Keys
      BY <2>2, IconOfFetch DEF Kinds
  <2>4. t \in Fetches /\ v # ERROR =>
            /\ v = NULL /\ Bitmap(IconOf(t), session) \in unmade /\ picture = GARBLED
            \/ picture = IconOf(t)
    <3> SUFFICES ASSUME t \in Fetches, v # ERROR
                 PROVE  \/ v = NULL /\ Bitmap(IconOf(t), session) \in unmade /\ picture = GARBLED
                        \/ picture = IconOf(t)
        OBVIOUS
    <3>1. \/ v \in Handles /\ memory[v] = Bitmap(IconOf(t), session)
          \/ v = NULL /\ Bitmap(IconOf(t), session) \in unmade
        BY <2>2 DEF Drawn
    <3>2. CASE v \in Handles /\ memory[v] = Bitmap(IconOf(t), session)
      <4>1. v # NULL
          BY <3>2, PlacesAssumption DEF Places
      <4>2. session \in 1..MaxSessions
          BY <2>2, BoundsAssumption DEF OnlyRunning, Types
      <4>3. memory[v] # FREE
          BY <2>3, <3>2, <4>2, MarksAssumption DEF Objects
      <4>4. memory[v].icon = IconOf(t)
          BY <3>2 DEF Bitmap
      <4> QED
          BY <4>1, <4>3, <4>4
    <3> QED
        BY <3>1, <3>2
  <2> HIDE DEF t, v, picture
  <2>5. \A g \in Fetches : IconOf(g)' = IconOf(g)
      BY <2>2 DEF IconOf
  <2>6. NULL \notin Keys /\ GARBLED # NULL /\ Fetches \subseteq Tasks
      BY KeysAssumption, MarksAssumption DEF Tasks
  <2>7. page' = "running"
      BY <2>2 DEF OnlyRunning
  <2>8. CacheKnown'
    <3>1. CASE UNCHANGED cache /\ \A g \in Fetches : at'[g] = "done" => at[g] = "done"
      <4>1. \A g \in Fetches : cache'[IconOf(g)'] = cache[IconOf(g)]
          BY <2>5, <3>1
      <4> QED
          BY <2>5, <2>7, <3>1, <4>1 DEF CacheKnown
    <3>2. CASE /\ t \in Fetches /\ at' = [at EXCEPT ![t] = "done"]
               /\ v # ERROR /\ cache' = [cache EXCEPT ![IconOf(t)] = picture]
      <4>1. IconOf(t) \in Keys /\ picture \in Keys \union {GARBLED} /\ picture # NULL
          BY <2>3, <2>4, <2>6, <3>2
      <4>2. cache' \in Caches
          BY <3>2, <4>1 DEF CacheKnown, Caches
      <4>3. ASSUME NEW g \in Fetches, at'[g] = "done" PROVE cache'[IconOf(g)'] # NULL
        <5>1. IconOf(g)' = IconOf(g)
            BY <2>5
        <5>2. CASE IconOf(g) = IconOf(t)
            BY <3>2, <4>1, <5>1, <5>2 DEF CacheKnown, Caches
        <5>3. CASE IconOf(g) # IconOf(t)
          <6>1. at[g] = "done"
              BY <2>6, <3>2, <4>3, <5>3 DEF Types
          <6>2. cache'[IconOf(g)] = cache[IconOf(g)]
              BY <3>2, <4>1, <5>3 DEF CacheKnown, Caches
          <6> QED
              BY <5>1, <6>1, <6>2 DEF CacheKnown
        <5> QED
            BY <5>2, <5>3
      <4> QED
          BY <2>7, <4>2, <4>3 DEF CacheKnown
    <3> QED
        BY <2>1, <2>6, <3>1, <3>2 DEF Types
  <2>9. CacheTells'
      BY <1>1, <2>1, <2>2, <2>3, <2>4 DEF CacheKnown, CacheTells, Caches
  <2> QED
      BY <2>8, <2>9
<1> QED
    BY <1>2, <1>3, <1>4

-----------------------------------------------------------------------------
(* The order of the dialog's entries.                                      *)

LEMMA DialogTasks ==
    /\ Dialog \subseteq Fetches /\ Dialog \subseteq Tasks
    /\ \A d \in Dialog : d \in Int /\ d \notin Keys /\ d \notin Loads /\ d \notin Clients
BY TasksAssumption DEF Dialog, Fetches, Tasks

\* What is under way was entered.
LEMMA UnderWayEntered ==
    ASSUME Types, Kinds
    PROVE  \A d \in UnderWay \intersect Dialog : d <= entered
BY Messages DEF Kinds, Asks, UnderWay

LEMMA OrderCalled ==
    ASSUME Types, InOrder, NEW t \in Tasks, NEW what \in Methods, NEW name \in Names \union {NULL},
           Call(t, what, name),
           t \in Dialog => \A d \in UnderWay \intersect Dialog : d < t
    PROVE  InOrder' /\ UnderWay' \subseteq UnderWay \union {t}
<1>1. /\ Len(requests') = Len(requests) + 1 /\ Len(requests) \in Nat
      /\ requests'[Len(requests) + 1].task = t
      /\ \A i \in 1..Len(requests) : requests'[i] = requests[i]
      /\ replies' = replies
    BY CallTypes, Messages DEF Call
<1>2. \A i \in 1..Len(requests') : i \in 1..Len(requests) \/ i = Len(requests) + 1
    BY <1>1
<1>3. \A i \in 1..Len(requests) : requests[i].task \in UnderWay
    BY DEF UnderWay
<1>4. \A i \in 1..Len(replies) : replies[i].task \in UnderWay
    BY DEF UnderWay
<1>5. UnderWay' \subseteq UnderWay \union {t}
    BY <1>1, <1>2, <1>3, <1>4 DEF UnderWay
<1>6. ASSUME NEW i \in 1..Len(requests'), NEW j \in 1..Len(requests'), i < j,
             {requests'[i].task, requests'[j].task} \subseteq Dialog
      PROVE  requests'[i].task < requests'[j].task
  <2>1. i \in 1..Len(requests) /\ requests'[i] = requests[i]
      BY <1>1, <1>2, <1>6
  <2>2. CASE j \in 1..Len(requests)
      BY <1>1, <1>6, <2>1, <2>2 DEF InOrder
  <2>3. CASE j = Len(requests) + 1
      BY <1>1, <1>3, <1>6, <2>1, <2>3
  <2> QED
      BY <1>2, <2>2, <2>3
<1>7. ASSUME NEW i \in 1..Len(replies), NEW j \in 1..Len(requests'),
             {replies[i].task, requests'[j].task} \subseteq Dialog
      PROVE  replies[i].task < requests'[j].task
  <2>1. CASE j \in 1..Len(requests)
      BY <1>1, <1>7, <2>1 DEF InOrder
  <2>2. CASE j = Len(requests) + 1
      BY <1>1, <1>4, <1>7, <2>2
  <2> QED
      BY <1>2, <2>1, <2>2
<1> QED
    BY <1>1, <1>5, <1>6, <1>7 DEF InOrder

\* The host moves the task at the head of the requests to the end of the replies.
LEMMA AnswerTasks ==
    ASSUME Types, NEW what, NEW value \in Values, Answer(what, value)
    PROVE  /\ 1 \in 1..Len(requests)
           /\ \A i \in 1..Len(requests') : i + 1 \in 1..Len(requests) /\ requests'[i] = requests[i + 1]
           /\ Len(replies') = Len(replies) + 1 /\ Len(replies) \in Nat
           /\ replies'[Len(replies) + 1].task = requests[1].task
           /\ \A i \in 1..Len(replies) : replies'[i] = replies[i]
<1>1. replies'[Len(replies) + 1] = [task |-> requests[1].task, value |-> value]
    BY AnswerFacts
<1>2. replies'[Len(replies) + 1].task = requests[1].task
    BY <1>1
<1>3. Len(replies) \in Nat
    BY Messages
<1> QED
    BY <1>2, <1>3, AnswerFacts

LEMMA OrderAnswered ==
    ASSUME Types, InOrder, NEW what, NEW value \in Values, Answer(what, value)
    PROVE  InOrder' /\ UnderWay' \subseteq UnderWay
<1>1. /\ 1 \in 1..Len(requests)
      /\ \A i \in 1..Len(requests') : i + 1 \in 1..Len(requests) /\ requests'[i] = requests[i + 1]
      /\ Len(replies') = Len(replies) + 1 /\ Len(replies) \in Nat
      /\ replies'[Len(replies) + 1].task = requests[1].task
      /\ \A i \in 1..Len(replies) : replies'[i] = replies[i]
    BY AnswerTasks
<1>2. \A i \in 1..Len(replies') : i \in 1..Len(replies) \/ i = Len(replies) + 1
    BY <1>1
<1>3. UnderWay' \subseteq UnderWay
  <2>1. \A i \in 1..Len(requests') : requests'[i].task \in UnderWay
      BY <1>1 DEF UnderWay
  <2>2. \A i \in 1..Len(replies) : replies'[i].task \in UnderWay
      BY <1>1 DEF UnderWay
  <2>3. requests[1].task \in UnderWay
      BY <1>1 DEF UnderWay
  <2>4. \A i \in 1..Len(replies') : replies'[i].task \in UnderWay
      BY <1>1, <1>2, <2>2, <2>3
  <2> QED
      BY <2>1, <2>4 DEF UnderWay
<1>4. ASSUME NEW i \in 1..Len(requests'), NEW j \in 1..Len(requests'), i < j,
             {requests'[i].task, requests'[j].task} \subseteq Dialog
      PROVE  requests'[i].task < requests'[j].task
  <2>1. /\ i + 1 \in 1..Len(requests) /\ requests'[i] = requests[i + 1]
        /\ j + 1 \in 1..Len(requests) /\ requests'[j] = requests[j + 1]
      BY <1>1
  <2>2. i + 1 < j + 1
      BY <1>4
  <2> QED
      BY <1>4, <2>1, <2>2 DEF InOrder
<1>5. ASSUME NEW i \in 1..Len(replies'), NEW j \in 1..Len(replies'), i < j,
             {replies'[i].task, replies'[j].task} \subseteq Dialog
      PROVE  replies'[i].task < replies'[j].task
  <2>1. i \in 1..Len(replies) /\ replies'[i] = replies[i]
      BY <1>1, <1>2, <1>5
  <2>2. CASE j \in 1..Len(replies)
      BY <1>1, <1>5, <2>1, <2>2 DEF InOrder
  <2>3. CASE j = Len(replies) + 1
      BY <1>1, <1>5, <2>1, <2>3 DEF InOrder
  <2> QED
      BY <1>2, <2>2, <2>3
<1>6. ASSUME NEW i \in 1..Len(replies'), NEW j \in 1..Len(requests'),
             {replies'[i].task, requests'[j].task} \subseteq Dialog
      PROVE  replies'[i].task < requests'[j].task
  <2>1. j + 1 \in 1..Len(requests) /\ requests'[j] = requests[j + 1] /\ 1 < j + 1
      BY <1>1
  <2>2. CASE i \in 1..Len(replies)
    <3>1. replies'[i].task = replies[i].task /\ requests'[j].task = requests[j + 1].task
        BY <1>1, <2>1, <2>2
    <3> QED
        BY <1>6, <2>1, <2>2, <3>1 DEF InOrder
  <2>3. CASE i = Len(replies) + 1
      BY <1>1, <1>6, <2>1, <2>3 DEF InOrder
  <2> QED
      BY <1>2, <2>2, <2>3
<1> QED
    BY <1>3, <1>4, <1>5, <1>6 DEF InOrder

\* The answer taken is of an entry before all that are still under way.
LEMMA OrderTaken ==
    ASSUME Types, InOrder, replies # <<>>, replies' = Tail(replies), UNCHANGED requests
    PROVE  /\ InOrder' /\ UnderWay' \subseteq UnderWay
           /\ Head(replies).task \in UnderWay
           /\ Head(replies).task \in Dialog =>
                \A d \in UnderWay' \intersect Dialog : Head(replies).task < d
<1>1. /\ Head(replies) = replies[1] /\ 1 \in 1..Len(replies)
      /\ \A i \in 1..Len(replies') : i + 1 \in 1..Len(replies) /\ replies'[i] = replies[i + 1]
                                     /\ 1 < i + 1
    BY TakeFacts
<1>2. UnderWay' \subseteq UnderWay /\ Head(replies).task \in UnderWay
    BY <1>1 DEF UnderWay
<1>3. ASSUME Head(replies).task \in Dialog, NEW d \in UnderWay' \intersect Dialog
      PROVE  Head(replies).task < d
  <2>1. CASE \E i \in 1..Len(requests) : d = requests[i].task
      BY <1>1, <1>3, <2>1 DEF InOrder
  <2>2. CASE \E i \in 1..Len(replies') : d = replies'[i].task
      BY <1>1, <1>3, <2>2 DEF InOrder
  <2> QED
      BY <2>1, <2>2 DEF UnderWay
<1>4. InOrder'
  <2>1. ASSUME NEW i \in 1..Len(replies'), NEW j \in 1..Len(replies'), i < j,
               {replies'[i].task, replies'[j].task} \subseteq Dialog
        PROVE  replies'[i].task < replies'[j].task
      BY <1>1, <2>1 DEF InOrder
  <2>2. ASSUME NEW i \in 1..Len(replies'), NEW j \in 1..Len(requests),
               {replies'[i].task, requests[j].task} \subseteq Dialog
        PROVE  replies'[i].task < requests[j].task
      BY <1>1, <2>2 DEF InOrder
  <2> QED
      BY <2>1, <2>2 DEF InOrder
<1> QED
    BY <1>2, <1>3, <1>4

\* A call by any task but a new entry.
LEMMA ShownCalled ==
    ASSUME Types, InOrder, ShownInOrder, NEW t \in Tasks \ Dialog, NEW what \in Methods,
           NEW name \in Names \union {NULL}, Call(t, what, name), UNCHANGED <<entered, image>>
    PROVE  InOrder' /\ ShownInOrder'
<1>1. InOrder' /\ UnderWay' \intersect Dialog \subseteq UnderWay
    BY OrderCalled
<1>2. \A d \in Dialog : at'[d] = at[d]
    BY DialogTasks DEF Call, Types
<1> QED
    BY <1>1, <1>2 DEF ShownInOrder

LEMMA ShownEntered ==
    ASSUME Types, Kinds, InOrder, ShownInOrder, NEW k \in Large, EnterIndex(k)
    PROVE  InOrder' /\ ShownInOrder'
<1> DEFINE e == entered + 1
<1>1. /\ entered \in Nat /\ e \in Dialog /\ e \in Tasks /\ e \in Fetches /\ entered' = e
      /\ e > entered
    BY EnterFacts, DialogTasks DEF Types
<1>2. /\ GetIconPngData(e, k) /\ image' = IF cache[k] # NULL THEN e ELSE image
      /\ "icon" \in Methods
    BY DEF EnterIndex, Methods
<1>3. \A d \in UnderWay \intersect Dialog : d < e
    BY <1>1, UnderWayEntered, DialogTasks
<1>4. image \in Dialog => image <= e
    BY <1>1, DialogTasks DEF ShownInOrder
<1>5. image \in Dialog => image < e
    BY <1>1, DialogTasks DEF ShownInOrder
<1> HIDE DEF e
<1>6. CASE cache[k] # NULL
  <2>1. UNCHANGED <<requests, replies>> /\ at' = [at EXCEPT ![e] = "hit"] /\ image' = e
      BY <1>2, <1>6 DEF GetIconPngData
  <2>2. InOrder' /\ at'[image'] = "hit"
      BY <1>1, <2>1 DEF InOrder, Types
  <2> QED
      BY <1>1, <2>1, <2>2, DialogTasks DEF ShownInOrder
<1>7. CASE cache[k] = NULL
  <2>1. Call(e, "icon", NULL) /\ image' = image
      BY <1>2, <1>7 DEF GetIconPngData
  <2>2. InOrder' /\ UnderWay' \subseteq UnderWay \union {e}
      BY <1>1, <1>2, <1>3, <2>1, OrderCalled
  <2>3. image \in Dialog => at'[image] = at[image]
      BY <1>1, <1>5, <2>1, DialogTasks DEF Call, Types
  <2> QED
      BY <1>1, <1>4, <1>5, <2>1, <2>2, <2>3 DEF ShownInOrder
<1> QED
    BY <1>6, <1>7

\* What the isolate shows next, and whether it goes back.
LEMMA ShownTaken ==
    ASSUME Types, Kinds, InOrder, ShownInOrder, IsolateStep
    PROVE  /\ InOrder' /\ ShownInOrder'
           /\ {image, image'} \subseteq Dialog /\ image' < image => at[image] = "hit"
<1> DEFINE t == Head(replies).task
<1>1. /\ replies # <<>> /\ replies' = Tail(replies) /\ UNCHANGED <<requests, entered>>
    BY IsolateShape
<1>2. /\ InOrder' /\ UnderWay' \subseteq UnderWay /\ t \in UnderWay
      /\ t \in Dialog => \A d \in UnderWay' \intersect Dialog : t < d
    BY <1>1, OrderTaken
<1>3. /\ t \in Tasks /\ \A u \in Tasks \ {t} : at'[u] = at[u]
      /\ image' # image => t \in Dialog /\ image' = t
  <2>1. /\ t \in Tasks
        /\ at' = [at EXCEPT ![t] = "failed"] \/ at' = [at EXCEPT ![t] = "done"]
        /\ image' # image => t \in Dialog /\ image' = t
      BY TakeShape
  <2> HIDE DEF t
  <2> QED
      BY <2>1 DEF Types
<1>4. t \in Dialog => t <= entered
    BY <1>2, UnderWayEntered
<1> HIDE DEF t
<1>5. CASE image' = image
  <2>1. image \in Dialog /\ image # t => at'[image] = at[image]
      BY <1>3, DialogTasks
  <2>2. ~ (image \in Dialog /\ image < image)
      BY DialogTasks
  <2> QED
      BY <1>1, <1>2, <1>5, <2>1, <2>2 DEF ShownInOrder
<1>6. CASE t \in Dialog /\ image' = t
  <2>1. image \in Dialog /\ at[image] # "hit" => image < t
      BY <1>2, <1>6 DEF ShownInOrder
  <2>2. ~ (image \in Dialog /\ image < t /\ t < image)
      BY <1>6, DialogTasks
  <2> QED
      BY <1>1, <1>2, <1>4, <1>6, <2>1, <2>2 DEF ShownInOrder
<1> QED
    BY <1>3, <1>5, <1>6

LEMMA ShownStep ==
    ASSUME IInv, InOrder, ShownInOrder, Next
    PROVE  /\ InOrder' /\ ShownInOrder'
           /\ {image, image'} \subseteq Dialog /\ image' < image => at[image] = "hit"
<1> USE DEF IInv
<1>1. image \in Dialog => ~ (image < image)
    BY DialogTasks
<1>2. ASSUME UNCHANGED <<requests, replies, at, entered, image>>
      PROVE  InOrder' /\ ShownInOrder'
    BY <1>2 DEF InOrder, ShownInOrder, UnderWay
<1>3. CASE Close
  <2>1. /\ Len(requests') = 0 /\ Len(replies') = 0 /\ image' = NULL
      BY <1>3 DEF Close
  <2>2. UnderWay' = {} /\ InOrder'
      BY <2>1 DEF UnderWay, InOrder
  <2> QED
      BY <2>1, <2>2, KeysAssumption DEF ShownInOrder
<1>4. CASE Open \/ FindPackageConfig \/ OpenLogFile
    BY <1>1, <1>2, <1>4 DEF Open, FindPackageConfig, OpenLogFile
<1>5. CASE Refresh
  <2>1. ASSUME NEW l \in Loads, Load(l) PROVE InOrder' /\ ShownInOrder' /\ image' = image
    <3>1. l \in Tasks \ Dialog /\ "items" \in Methods
        BY DialogTasks DEF Tasks, Methods
    <3> QED
        BY <2>1, <3>1, ShownCalled DEF Load
  <2> QED
      BY <1>1, <1>2, <1>5, <2>1 DEF Refresh, ProcessStarts, ProcessExits
<1>6. CASE Icons
  <2>1. ASSUME NEW k \in Keys, Watch(k) PROVE InOrder' /\ ShownInOrder' /\ image' = image
    <3>1. k \in Tasks \ Dialog /\ "icon" \in Methods
        BY DialogTasks DEF Tasks, Fetches, Methods
    <3>2. CASE Call(k, "icon", NULL)
        BY <2>1, <3>1, <3>2, ShownCalled DEF Watch
    <3>3. CASE at' = [at EXCEPT ![k] = "hit"] /\ UNCHANGED channel
      <4>1. \A d \in Dialog : at'[d] = at[d]
          BY <3>1, <3>3, DialogTasks DEF Types
      <4>2. UNCHANGED <<requests, replies, entered, image>>
          BY <2>1, <3>3 DEF Watch
      <4> QED
          BY <4>1, <4>2 DEF InOrder, ShownInOrder, UnderWay
    <3> QED
        BY <2>1, <3>2, <3>3 DEF Watch, GetIconPngData
  <2>2. ASSUME NEW k \in Large, EnterIndex(k)
        PROVE  InOrder' /\ ShownInOrder' /\ ~ ({image, image'} \subseteq Dialog /\ image' < image)
    <3>1. InOrder' /\ ShownInOrder'
        BY <2>2, ShownEntered
    <3>2. image' = image \/ image' = entered + 1
        BY <2>2 DEF EnterIndex
    <3>3. ~ (image \in Dialog /\ entered + 1 < image)
        BY DialogTasks DEF ShownInOrder, Types
    <3> QED
        BY <1>1, <3>1, <3>2, <3>3
  <2> QED
      BY <1>1, <1>6, <2>1, <2>2 DEF Icons
<1>7. CASE UseSettings
  <2>1. ASSUME NEW c \in Clients, NEW name \in Names,
               NEW what \in {"getString", "getInteger", "addString", "addInteger"},
               UseSetting(c, what, name)
        PROVE  InOrder' /\ ShownInOrder' /\ image' = image
    <3>1. c \in Tasks \ Dialog /\ what \in Methods
        BY DialogTasks DEF Tasks, Methods
    <3> QED
        BY <2>1, <3>1, ShownCalled DEF UseSetting
  <2> QED
      BY <1>1, <1>2, <1>7, <2>1 DEF UseSettings, EditSetting
<1>8. CASE HostStep
  <2>1. PICK what \in Methods, value \in Values :
            Answer(what, value) /\ UNCHANGED <<at, entered, image>>
      BY <1>8, HostShape
  <2>2. InOrder' /\ UnderWay' \subseteq UnderWay
      BY <2>1, OrderAnswered
  <2> QED
      BY <1>1, <2>1, <2>2 DEF ShownInOrder
<1>9. CASE IsolateStep
    BY <1>9, ShownTaken
<1> QED
    BY <1>3, <1>4, <1>5, <1>6, <1>7, <1>8, <1>9 DEF Next, PageStep

-----------------------------------------------------------------------------
(* The theorems about the page.                                            *)

LEMMA InitPage == Init => Page
<1> SUFFICES ASSUME Init PROVE Page
    OBVIOUS
<1>1. Len(requests) = 0 /\ Len(replies) = 0
    BY DEF Init
<1>2. Fetches \subseteq Tasks /\ Dialog \subseteq Tasks
    BY DialogTasks DEF Tasks
<1>3. Begun /\ CacheKnown /\ CacheTells
    BY <1>2 DEF Init, Begun, CacheKnown, CacheTells, Caches
<1>4. InOrder
    BY <1>1 DEF InOrder
<1>5. ShownInOrder
    BY KeysAssumption DEF Init, ShownInOrder
<1> QED
    BY <1>3, <1>4, <1>5 DEF Page

LEMMA NextPage == IInv /\ Page /\ [Next]_vars => Page'
<1> SUFFICES ASSUME IInv, Page, [Next]_vars PROVE Page'
    OBVIOUS
<1> USE DEF Page
<1>1. CASE Next
  <2>1. Begun'
      BY <1>1, BegunStep DEF IInv
  <2>2. CacheKnown' /\ CacheTells'
      BY <1>1, CacheStep
  <2>3. InOrder' /\ ShownInOrder'
      BY <1>1, ShownStep
  <2> QED
      BY <2>1, <2>2, <2>3
<1>2. CASE UNCHANGED vars
  <2>1. UNCHANGED <<page, session, at, asked, entered, cache, image, requests, replies, unmade>>
      BY <1>2 DEF vars
  <2>2. UNCHANGED UnderWay /\ \A g \in Fetches : IconOf(g)' = IconOf(g)
      BY <2>1 DEF UnderWay, IconOf
  <2> QED
      BY <2>1, <2>2 DEF Begun, Asks, CacheKnown, CacheTells, InOrder, ShownInOrder
<1> QED
    BY <1>1, <1>2

\* logger.dart:89 and main.dart:29: every call of the page is made, and ends,
\* with the logger initialised.
THEOREM LoggerIsReady == Spec => []LoggerReady
<1>1. IInv => LoggerReady
    BY DEF IInv, OnlyRunning, LoggerReady, InFlight
<1> QED
    BY InitInv, NextInv, <1>1, PTL DEF Spec

\* icon.dart:29: what the caches of the page hold is the icon's picture, or else
\* PhIconToBitmap failed for that icon in this session, whatever it failed for.
THEOREM CachesTell == Spec => []CacheTells
<1>1. Page => CacheTells
    BY DEF Page
<1> QED
    BY InitInv, NextInv, InitPage, NextPage, <1>1, PTL DEF Spec

\* settings_ui.dart:101-107: the dialog's fetches end in the order of its
\* entries, so that only a cache hit lets an earlier entry replace a later one.
THEOREM GoesBackPastAHit == Spec => GoesBackOnlyPastAHit
<1> DEFINE Back == {image, image'} \subseteq Dialog /\ image' < image => at[image] = "hit"
<1>1. ASSUME IInv, Page, [Next]_vars PROVE [Back]_vars
    BY <1>1, ShownStep DEF Page
<1> QED
    BY InitInv, NextInv, InitPage, NextPage, <1>1, PTL DEF Spec, GoesBackOnlyPastAHit

\* icon.dart:30-32: a picture in the cache is in every fetch's way to the host.
LEMMA NoSecondFetch ==
    ASSUME Types, Referenced, CacheKnown, Next, NEW f \in Fetches, NEW g \in Fetches,
           at[f] = "idle", at'[f] = "waiting", at[g] = "done"
    PROVE  IconOf(g) # IconOf(f)'
<1>1. f \in Tasks /\ f \notin Loads /\ f \notin Clients
    BY TasksAssumption DEF Tasks
<1>2. ~ UNCHANGED at
    OBVIOUS
<1>3. ASSUME NEW t \in Tasks \ {f}, NEW how, at' = [at EXCEPT ![t] = how] PROVE FALSE
    BY <1>1, <1>3 DEF Types
<1>4. CASE Open \/ FindPackageConfig \/ OpenLogFile
    BY <1>2, <1>4 DEF Open, FindPackageConfig, OpenLogFile
<1>5. CASE Close
    BY <1>1, <1>5 DEF Close
<1>6. CASE Refresh
  <2>1. \A l \in Loads : ~ Load(l)
      BY <1>1, <1>3 DEF Load, Call, Tasks
  <2> QED
      BY <1>2, <1>6, <2>1 DEF Refresh, ProcessStarts, ProcessExits
<1>7. CASE UseSettings
  <2>1. \A c \in Clients : \A what, name : ~ UseSetting(c, what, name)
      BY <1>1, <1>3 DEF UseSetting, Call, Tasks
  <2> QED
      BY <1>2, <1>7, <2>1 DEF UseSettings, EditSetting
<1>8. CASE HostStep
    BY <1>2, <1>8, HostShape
<1>9. CASE IsolateStep
  <2>1. PICK t \in Tasks, how \in {"done", "failed"} : at' = [at EXCEPT ![t] = how]
      BY <1>9, IsolateShape
  <2> QED
      BY <1>1, <2>1 DEF Types
<1>10. ASSUME NEW k \in Keys, Watch(k) PROVE IconOf(g) # IconOf(f)'
  <2>1. k \in Tasks /\ k \notin Dialog
      BY DialogTasks DEF Tasks, Fetches
  <2>2. at' = [at EXCEPT ![k] = "hit"] \/ (at' = [at EXCEPT ![k] = "waiting"] /\ cache[k] = NULL)
      BY <1>10 DEF Watch, GetIconPngData, Call
  <2>3. f = k
      BY <1>3, <2>1, <2>2
  <2>4. cache[k] = NULL
      BY <2>1, <2>2, <2>3 DEF Types
  <2> QED
      BY <2>1, <2>3, <2>4 DEF CacheKnown, IconOf
<1>11. ASSUME NEW k \in Large, EnterIndex(k) PROVE IconOf(g) # IconOf(f)'
  <2> DEFINE e == entered + 1
  <2>1. e \in Tasks /\ e \in Dialog /\ asked'[e] = k /\ GetIconPngData(e, k)
      BY <1>11, EnterFacts, DialogTasks
  <2> HIDE DEF e
  <2>2. at' = [at EXCEPT ![e] = "hit"] \/ (at' = [at EXCEPT ![e] = "waiting"] /\ cache[k] = NULL)
      BY <2>1 DEF GetIconPngData, Call
  <2>3. f = e
      BY <1>3, <2>1, <2>2
  <2>4. cache[k] = NULL
      BY <2>1, <2>2, <2>3 DEF Types
  <2> QED
      BY <2>1, <2>3, <2>4 DEF CacheKnown, IconOf
<1> QED
    BY <1>4, <1>5, <1>6, <1>7, <1>8, <1>9, <1>10, <1>11 DEF Next, PageStep, Icons

\* icon.dart:30-32: a tile and the dialog ask the host for an icon once at most,
\* after it has been read.
THEOREM FetchedOnce == Spec => NeverFetchedAgain
<1> DEFINE Once ==
        \A f, g \in Fetches :
            at[f] = "idle" /\ at'[f] = "waiting" /\ at[g] = "done" => IconOf(g) # IconOf(f)'
<1>1. ASSUME IInv, Page, [Next]_vars PROVE [Once]_vars
    BY <1>1, NoSecondFetch DEF IInv, Page
<1> QED
    BY InitInv, NextInv, InitPage, NextPage, <1>1, PTL DEF Spec, NeverFetchedAgain

-----------------------------------------------------------------------------
(* The settings.                                                           *)

\* Exactly the declared names have a text.
DeclaredOnly ==
    \A name \in Names : StringSetting(name) \in IF name \in Declared THEN Texts ELSE {ERROR}

\* A key made for adding is nobody's, and a name has one key.
LEMMA KeysDiffer ==
    ASSUME NEW n \in Names, NEW m \in Names
    PROVE  Key(n) # AddedKey(m) /\ (Key(n) = Key(m) => n = m)
<1>1. Length[n] \in Nat /\ Length[m] \in Nat
    BY LengthAssumption
<1>2. Key(n).name = n /\ Key(n).length = 2 * Length[n] /\ Key(m).name = m
    BY DEF Key
<1>3. AddedKey(m).name = m /\ AddedKey(m).length = 2 * 2 * (Length[m] + 1)
    BY DEF AddedKey
<1>4. n = m => 2 * Length[n] # 2 * 2 * (Length[m] + 1)
    BY <1>1
<1> QED
    BY <1>2, <1>3, <1>4

LEMMA DeclaredStep ==
    ASSUME Types, DeclaredOnly, Next
    PROVE  DeclaredOnly'
<1> SUFFICES ASSUME NEW n \in Names, settings' # settings
             PROVE  settings'[<<Key(n), "string">>] \in IF n \in Declared THEN Texts ELSE {ERROR}
    BY DEF DeclaredOnly, StringSetting
<1>1. settings[<<Key(n), "string">>] \in IF n \in Declared THEN Texts ELSE {ERROR}
    BY DEF DeclaredOnly, StringSetting
<1>2. settings \in [Slots -> SettingValues] /\ <<Key(n), "string">> \in Slots
    BY SettingsTypes DEF Types
<1>3. ASSUME NEW name \in Names, NEW type, NEW value, AddSetting(type, name, value)
      PROVE  settings'[<<Key(n), "string">>] = settings[<<Key(n), "string">>]
  <2>1. <<Key(n), "string">> # <<AddedKey(name), type>>
      BY KeysDiffer
  <2> QED
      BY <1>2, <1>3, <2>1 DEF AddSetting
<1>4. ASSUME NEW name \in Names, NEW text \in Texts, Edit(name, "string", text)
      PROVE  settings'[<<Key(n), "string">>] \in IF n \in Declared THEN Texts ELSE {ERROR}
  <2>1. settings[<<Key(name), "string">>] # ERROR
      BY <1>4 DEF Edit
  <2>2. name \in Declared
      BY <2>1 DEF DeclaredOnly, StringSetting
  <2>3. settings'[<<Key(n), "string">>] = IF n = name THEN text ELSE settings[<<Key(n), "string">>]
      BY <1>2, <1>4, KeysDiffer DEF Edit
  <2> QED
      BY <1>1, <2>2, <2>3
<1>5. ASSUME NEW name \in Names, Edit(name, "integer", 1)
      PROVE  settings'[<<Key(n), "string">>] = settings[<<Key(n), "string">>]
    BY <1>2, <1>5 DEF Edit
<1>6. CASE HostStep
    BY <1>1, <1>3, <1>6
       DEF HostStep, EnumProcessItems, NoImageListIcon, GetIconInfoFails, GetImageListIcon,
           PhIconToBitmapFails, ReadSetting, AddStringSetting, AddIntegerSetting
<1>7. CASE UseSettings
    BY <1>1, <1>4, <1>5, <1>7 DEF UseSettings, UseSetting, EditSetting
<1>8. CASE IsolateStep
    BY <1>8, IsolateShape
<1> QED
    BY <1>6, <1>7, <1>8
       DEF Next, PageStep, Open, FindPackageConfig, OpenLogFile, Close, Refresh, Load,
           ProcessStarts, ProcessExits, Icons, Watch, EnterIndex

\* utils.cpp:133-168, api.cpp:27-73: whatever is added and edited, the declared
\* string settings are read back as they are, and no other name has one.
THEOREM SettingsAreRead == Spec => []SettingsRead
<1>1. Init => DeclaredOnly
  <2> SUFFICES ASSUME Init, NEW n \in Names
               PROVE  settings[<<Key(n), "string">>] \in IF n \in Declared THEN Texts ELSE {ERROR}
      BY DEF DeclaredOnly, StringSetting
  <2>1. PICK f \in [Declared -> {t \in Texts : t.units = t.bytes /\ t.units > 0}] :
            settings = [s \in Slots |->
                IF \E m \in Declared : s = <<Key(m), "string">> THEN f[s[1].name]
                ELSE IF \E m \in Numbers : s = <<Key(m), "integer">> THEN 0
                ELSE ERROR]
      BY DEF Init, SettingsInit
  <2>2. <<Key(n), "string">> \in Slots /\ Key(n).name = n
      BY SettingsTypes DEF Key
  <2>3. (\E m \in Declared : <<Key(n), "string">> = <<Key(m), "string">>) <=> n \in Declared
      BY KeysDiffer, NamesAssumption
  <2> QED
      BY <2>1, <2>2, <2>3
<1>2. IInv /\ DeclaredOnly /\ [Next]_vars => DeclaredOnly'
    BY DeclaredStep DEF IInv, vars, DeclaredOnly, StringSetting
<1>3. DeclaredOnly => SettingsRead
  <2> SUFFICES ASSUME DeclaredOnly, NEW name \in Names
               PROVE  IF name \in Declared
                        THEN StringSetting(name).bytes = StringSetting(name).units
                                /\ StringSetting(name).units > 0
                             => GetStringSetting(name) = StringSetting(name)
                        ELSE GetStringSetting(name) = ERROR
      BY DEF SettingsRead
  <2>1. CASE name \in Declared
    <3>1. StringSetting(name) \in Texts /\ StringSetting(name) # ERROR
        BY <2>1, TextsAssumption DEF DeclaredOnly
    <3>2. StringSetting(name).units \in Nat
        BY <3>1, TextsAssumption
    <3> QED
        BY <2>1, <3>1, <3>2 DEF GetStringSetting, toStdString
  <2>2. CASE name \notin Declared
      BY <2>2 DEF DeclaredOnly, GetStringSetting
  <2> QED
      BY <2>1, <2>2
<1> QED
    BY InitInv, NextInv, <1>1, <1>2, <1>3, PTL DEF Spec
=============================================================================
