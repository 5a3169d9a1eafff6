---------------------------- MODULE HostCallsProofs ----------------------------
(***************************************************************************)
(* One message for each call under way: with it the types, the discipline  *)
(* of the channel, and where an HICON can be lost.                         *)
(***************************************************************************)
EXTENDS HostPageProofs

USE DEF page_, isolate, channel, items, host

-----------------------------------------------------------------------------
(* The inductive invariant.                                                *)

\* No two messages are of one task, and the tasks they are of are those that wait.
OneMessage ==
    /\ \A i, j \in 1..Len(requests) : requests[i].task = requests[j].task => i = j
    /\ \A i, j \in 1..Len(replies) : replies[i].task = replies[j].task => i = j
    /\ \A i \in 1..Len(replies), j \in 1..Len(requests) : replies[i].task # requests[j].task
    /\ \A t \in Tasks : InFlight(t) <=> t \in UnderWay

\* An HICON lost is of this session or of one before, and of none that has not
\* reached runApp.
LostSoFar ==
    /\ icons \subseteq {Bitmap(k, s) : k \in Keys, s \in 1..MaxSessions}
    /\ \A b \in icons : b.session <= session
    /\ page \in Started \union {"failed"} => \A b \in icons : b.session # session

\* The dialog asks for large icons.
LargeOnly == asked \in [Dialog -> Large \union {NULL}]

Calls == OneMessage /\ LostSoFar /\ LargeOnly /\ IconLostOnlyByFailure

-----------------------------------------------------------------------------
(* One message per task.                                                   *)

LEMMA OneCalled ==
    ASSUME Types, OneMessage, NEW t \in Tasks, NEW what \in Methods, NEW name \in Names \union {NULL},
           Call(t, what, name)
    PROVE  OneMessage'
<1>1. /\ Len(requests') = Len(requests) + 1 /\ Len(requests) \in Nat
      /\ requests'[Len(requests) + 1].task = t
      /\ \A i \in 1..Len(requests) : requests'[i] = requests[i]
      /\ replies' = replies
    BY CallTypes, Messages DEF Call
<1>2. \A i \in 1..Len(requests') : i \in 1..Len(requests) \/ i = Len(requests) + 1
    BY <1>1
<1>3. t \notin UnderWay /\ at' = [at EXCEPT ![t] = "waiting"]
    BY DEF Call, OneMessage, InFlight
<1>4. \A i \in 1..Len(requests) : requests[i].task # t
    BY <1>3 DEF UnderWay
<1>5. \A i \in 1..Len(replies) : replies[i].task # t
    BY <1>3 DEF UnderWay
<1>6. UnderWay' = UnderWay \union {t}
  <2>1. UnderWay' \subseteq UnderWay \union {t}
      BY <1>1, <1>2 DEF UnderWay
  <2>2. UnderWay \union {t} \subseteq UnderWay'
    <3>1. Len(requests) + 1 \in 1..Len(requests') /\ 1..Len(requests) \subseteq 1..Len(requests')
        BY <1>1
    <3> QED
        BY <1>1, <3>1 DEF UnderWay
  <2> QED
      BY <2>1, <2>2
<1>7. \A u \in Tasks : InFlight(u)' <=> u \in UnderWay'
    BY <1>3, <1>6 DEF OneMessage, InFlight, Types
<1>8. ASSUME NEW i \in 1..Len(requests'), NEW j \in 1..Len(requests'),
             requests'[i].task = requests'[j].task
      PROVE  i = j
    BY <1>1, <1>2, <1>4, <1>8 DEF OneMessage
<1>9. ASSUME NEW i \in 1..Len(replies), NEW j \in 1..Len(requests')
      PROVE  replies[i].task # requests'[j].task
    BY <1>1, <1>2, <1>5 DEF OneMessage
<1> QED
    BY <1>1, <1>7, <1>8, <1>9 DEF OneMessage

LEMMA OneAnswered ==
    ASSUME Types, OneMessage, NEW what, NEW value \in Values, Answer(what, value)
    PROVE  OneMessage'
<1>1. /\ 1 \in 1..Len(requests)
      /\ \A i \in 1..Len(requests') : i + 1 \in 1..Len(requests) /\ requests'[i] = requests[i + 1]
      /\ Len(replies') = Len(replies) + 1 /\ Len(replies) \in Nat
      /\ replies'[Len(replies) + 1].task = requests[1].task
      /\ \A i \in 1..Len(replies) : replies'[i] = replies[i]
    BY AnswerTasks
<1>2. \A i \in 1..Len(replies') : i \in 1..Len(replies) \/ i = Len(replies) + 1
    BY <1>1
<1>3. \A j \in 1..Len(requests) : j = 1 \/ (j - 1 \in 1..Len(requests') /\ requests'[j - 1] = requests[j])
  <2>1. requests # <<>> /\ requests' = Tail(requests)
      BY DEF Answer
  <2>2. Len(requests') = Len(requests) - 1 /\ Len(requests) \in Nat
      BY <2>1, Messages, TailFacts
  <2> QED
      BY <1>1, <2>2
<1>4. UnderWay' = UnderWay
  <2>1. \A i \in 1..Len(requests') : requests'[i].task \in UnderWay
      BY <1>1 DEF UnderWay
  <2>2. \A i \in 1..Len(replies) : replies'[i].task \in UnderWay
      BY <1>1 DEF UnderWay
  <2>3. requests[1].task \in UnderWay
      BY <1>1 DEF UnderWay
  <2>4. \A i \in 1..Len(replies') : replies'[i].task \in UnderWay
      BY <1>1, <1>2, <2>2, <2>3
  <2>5. Len(replies) + 1 \in 1..Len(replies') /\ 1..Len(replies) \subseteq 1..Len(replies')
      BY <1>1
  <2>6. \A i \in 1..Len(replies) : replies[i].task \in UnderWay'
      BY <1>1, <2>5 DEF UnderWay
  <2>7. requests[1].task \in UnderWay'
      BY <1>1, <2>5 DEF UnderWay
  <2>8. \A j \in 1..Len(requests) : requests[j].task \in UnderWay'
    <3> SUFFICES ASSUME NEW j \in 1..Len(requests) PROVE requests[j].task \in UnderWay'
        OBVIOUS
    <3>1. CASE j = 1
        BY <2>7, <3>1
    <3>2. CASE j - 1 \in 1..Len(requests') /\ requests'[j - 1] = requests[j]
        BY <3>2 DEF UnderWay
    <3> QED
        BY <1>3, <3>1, <3>2
  <2>9. UnderWay' \subseteq UnderWay
      BY <2>1, <2>4 DEF UnderWay
  <2>10. UnderWay \subseteq UnderWay'
      BY <2>6, <2>8 DEF UnderWay
  <2> QED
      BY <2>9, <2>10
<1>5. ASSUME NEW i \in 1..Len(requests'), NEW j \in 1..Len(requests'),
             requests'[i].task = requests'[j].task
      PROVE  i = j
  <2>1. /\ i + 1 \in 1..Len(requests) /\ requests'[i] = requests[i + 1]
        /\ j + 1 \in 1..Len(requests) /\ requests'[j] = requests[j + 1]
      BY <1>1
  <2>2. i + 1 = j + 1
      BY <1>5, <2>1 DEF OneMessage
  <2> QED
      BY <2>2
<1>6. ASSUME NEW i \in 1..Len(replies'), NEW j \in 1..Len(replies'),
             replies'[i].task = replies'[j].task
      PROVE  i = j
  <2>1. \A k \in 1..Len(replies) : replies'[k].task = replies[k].task
                                     /\ replies'[k].task # requests[1].task
      BY <1>1 DEF OneMessage
  <2>2. CASE i \in 1..Len(replies)
    <3>1. j \in 1..Len(replies)
        BY <1>1, <1>2, <1>6, <2>1, <2>2
    <3> QED
        BY <1>6, <2>1, <2>2, <3>1 DEF OneMessage
  <2>3. CASE i = Len(replies) + 1
      BY <1>1, <1>2, <1>6, <2>1, <2>3
  <2> QED
      BY <1>2, <2>2, <2>3
<1>7. ASSUME NEW i \in 1..Len(replies'), NEW j \in 1..Len(requests')
      PROVE  replies'[i].task # requests'[j].task
  <2>1. j + 1 \in 1..Len(requests) /\ requests'[j] = requests[j + 1] /\ j + 1 # 1
      BY <1>1
  <2> QED
      BY <1>1, <1>2, <2>1 DEF OneMessage
<1> QED
    BY <1>4, <1>5, <1>6, <1>7 DEF OneMessage, InFlight, Answer

LEMMA OneTaken ==
    ASSUME Types, OneMessage, IsolateStep
    PROVE  /\ OneMessage'
           /\ InFlight(Head(replies).task)
           /\ \A i \in 1..Len(replies) : i = 1 \/ (i - 1 \in 1..Len(replies')
                                                  /\ replies'[i - 1] = replies[i])
<1> DEFINE t == Head(replies).task
<1>1. /\ replies # <<>> /\ replies' = Tail(replies) /\ requests' = requests
      /\ Head(replies) = replies[1] /\ 1 \in 1..Len(replies)
      /\ \A i \in 1..Len(replies') : i + 1 \in 1..Len(replies) /\ replies'[i] = replies[i + 1]
    BY IsolateShape, TakeFacts
<1>2. \A i \in 1..Len(replies) : i = 1 \/ (i - 1 \in 1..Len(replies') /\ replies'[i - 1] = replies[i])
  <2>1. Len(replies') = Len(replies) - 1 /\ Len(replies) \in Nat
      BY <1>1, Messages, TailFacts
  <2> QED
      BY <1>1, <2>1
<1>3. t \in Tasks /\ t \in UnderWay
    BY <1>1, Messages DEF UnderWay
<1>4. at' = [at EXCEPT ![t] = "failed"] \/ at' = [at EXCEPT ![t] = "done"]
    BY TakeShape
<1>5. UnderWay' = UnderWay \ {t}
  <2>1. \A i \in 1..Len(requests) : requests[i].task # t
      BY <1>1 DEF OneMessage
  <2>2. \A i \in 1..Len(replies') : replies'[i].task \in UnderWay /\ replies'[i].task # t
    <3> SUFFICES ASSUME NEW i \in 1..Len(replies')
                 PROVE  replies'[i].task \in UnderWay /\ replies'[i].task # t
        OBVIOUS
    <3>1. i + 1 \in 1..Len(replies) /\ replies'[i] = replies[i + 1] /\ i + 1 # 1
        BY <1>1
    <3> QED
        BY <1>1, <3>1 DEF OneMessage, UnderWay
  <2>3. UnderWay' \subseteq UnderWay \ {t}
      BY <1>1, <2>1, <2>2 DEF UnderWay
  <2>4. \A i \in 1..Len(replies) : replies[i].task \in UnderWay' \union {t}
    <3> SUFFICES ASSUME NEW i \in 1..Len(replies) PROVE replies[i].task \in UnderWay' \union {t}
        OBVIOUS
    <3>1. CASE i = 1
        BY <1>1, <3>1
    <3>2. CASE i - 1 \in 1..Len(replies') /\ replies'[i - 1] = replies[i]
        BY <3>2 DEF UnderWay
    <3> QED
        BY <1>2, <3>1, <3>2
  <2>5. \A i \in 1..Len(requests) : requests[i].task \in UnderWay'
      BY <1>1 DEF UnderWay
  <2>6. UnderWay \subseteq UnderWay' \union {t}
      BY <2>4, <2>5 DEF UnderWay
  <2>7. t \notin UnderWay'
      BY <2>3
  <2> QED
      BY <2>3, <2>6, <2>7
<1>6. InFlight(t)
    BY <1>3 DEF OneMessage
<1> HIDE DEF t
<1>7. \A u \in Tasks : InFlight(u)' <=> u \in UnderWay'
    BY <1>3, <1>4, <1>5 DEF OneMessage, InFlight, Types
<1>8. ASSUME NEW i \in 1..Len(replies'), NEW j \in 1..Len(replies'),
             replies'[i].task = replies'[j].task
      PROVE  i = j
  <2>1. i + 1 = j + 1
      BY <1>1, <1>8 DEF OneMessage
  <2> QED
      BY <2>1
<1>9. \A i \in 1..Len(replies'), j \in 1..Len(requests') : replies'[i].task # requests'[j].task
    BY <1>1 DEF OneMessage
<1>10. OneMessage'
    BY <1>1, <1>7, <1>8, <1>9 DEF OneMessage
<1> QED
    BY <1>2, <1>6, <1>10 DEF t

\* A hit in the cache puts nothing under way.
LEMMA OneHit ==
    ASSUME Types, OneMessage, NEW f \in Tasks, at[f] = "idle",
           at' = [at EXCEPT ![f] = "hit"], UNCHANGED channel
    PROVE  OneMessage'
<1>1. UnderWay' = UnderWay
    BY DEF UnderWay
<1>2. \A t \in Tasks : InFlight(t)' <=> InFlight(t)
    BY DEF InFlight, Types
<1> QED
    BY <1>1, <1>2 DEF OneMessage

LEMMA OneStep ==
    ASSUME IInv, Begun, OneMessage, Next
    PROVE  OneMessage'
<1> USE DEF IInv
<1>1. ASSUME UNCHANGED <<requests, replies, at>> PROVE OneMessage'
  <2>1. UnderWay' = UnderWay
      BY <1>1 DEF UnderWay
  <2> QED
      BY <1>1, <2>1 DEF OneMessage, InFlight
<1>2. CASE Close
  <2>1. Len(requests') = 0 /\ Len(replies') = 0 /\ at' = [t \in Tasks |-> "idle"]
      BY <1>2 DEF Close
  <2>2. UnderWay' = {}
      BY <2>1 DEF UnderWay
  <2> QED
      BY <2>1, <2>2 DEF OneMessage, InFlight
<1>3. ASSUME NEW l \in Loads, Load(l) PROVE OneMessage'
  <2>1. l \in Tasks /\ "items" \in Methods
      BY DEF Tasks, Methods
  <2> QED
      BY <1>3, <2>1, OneCalled DEF Load
<1>4. ASSUME NEW k \in Keys, Watch(k) PROVE OneMessage'
  <2>1. k \in Tasks /\ "icon" \in Methods
      BY DEF Tasks, Fetches, Methods
  <2> QED
      BY <1>4, <2>1, OneCalled, OneHit DEF Watch, GetIconPngData
<1>5. ASSUME NEW k \in Large, EnterIndex(k) PROVE OneMessage'
  <2> DEFINE e == entered + 1
  <2>1. e \in Tasks /\ e \in Dialog /\ GetIconPngData(e, k) /\ "icon" \in Methods
      BY <1>5, EnterFacts, DialogTasks DEF Methods
  <2>2. at[e] = "idle"
      BY <2>1 DEF Begun, Asks, Types
  <2> HIDE DEF e
  <2> QED
      BY <2>1, <2>2, OneCalled, OneHit DEF GetIconPngData
<1>6. ASSUME NEW c \in Clients, NEW name \in Names,
             NEW what \in {"getString", "getInteger", "addString", "addInteger"},
             UseSetting(c, what, name)
      PROVE  OneMessage'
  <2>1. c \in Tasks /\ what \in Methods
      BY DEF Tasks, Methods
  <2> QED
      BY <1>6, <2>1, OneCalled DEF UseSetting
<1>7. CASE HostStep
    BY <1>7, HostShape, OneAnswered
<1>8. CASE IsolateStep
    BY <1>8, OneTaken
<1> QED
    BY <1>1, <1>2, <1>3, <1>4, <1>5, <1>6, <1>7, <1>8
       DEF Next, PageStep, Open, FindPackageConfig, OpenLogFile, Refresh, ProcessStarts,
           ProcessExits, Icons, UseSettings, EditSetting

LEMMA LargeStep ==
    ASSUME Types, Referenced, LargeOnly, Next
    PROVE  LargeOnly'
<1>1. CASE UNCHANGED asked
    BY <1>1 DEF LargeOnly
<1>2. ASSUME NEW k \in Large, EnterIndex(k) PROVE LargeOnly'
    BY <1>2 DEF EnterIndex, LargeOnly
<1>3. CASE Close
    BY <1>3 DEF Close, LargeOnly
<1>4. CASE HostStep
    BY <1>1, <1>4, HostShape
<1>5. CASE IsolateStep
    BY <1>1, <1>5, IsolateShape
<1> QED
    BY <1>1, <1>2, <1>3, <1>4, <1>5
       DEF Next, PageStep, Open, FindPackageConfig, OpenLogFile, Refresh, Load, ProcessStarts,
           ProcessExits, Icons, Watch, UseSettings, UseSetting, EditSetting

-----------------------------------------------------------------------------
(* The icons lost.                                                         *)

\* Only a failing fetch loses an HICON, the one it was asked for.
LEMMA IconsShape ==
    ASSUME Types, Referenced, Next, icons' # icons
    PROVE  Answer("icon", ERROR) /\ icons' = icons \union {Bitmap(Requested, session)}
<1>1. CASE HostStep
    BY <1>1 DEF HostStep, EnumProcessItems, NoImageListIcon, GetIconInfoFails, GetImageListIcon,
                PhIconToBitmapFails, ReadSetting, AddStringSetting, AddIntegerSetting
<1>2. CASE IsolateStep
    BY <1>2, IsolateShape
<1> QED
    BY <1>1, <1>2
       DEF Next, PageStep, Open, FindPackageConfig, OpenLogFile, Close, Refresh, Load,
           ProcessStarts, ProcessExits, Icons, Watch, EnterIndex, UseSettings, UseSetting,
           EditSetting

LEMMA LostStep ==
    ASSUME IInv, LostSoFar, Next
    PROVE  LostSoFar'
<1> USE DEF IInv
<1>1. \A k, s : Bitmap(k, s).session = s
    BY DEF Bitmap
<1>2. CASE icons' # icons
  <2>1. Answer("icon", ERROR) /\ icons' = icons \union {Bitmap(Requested, session)}
      BY <1>2, IconsShape
  <2>2. Requested \in Keys /\ session \in 1..MaxSessions
    <3>1. ERROR \in Values
        BY DEF Values, SettingValues
    <3> QED
        BY <2>1, <3>1, RequestedFacts
  <2>3. requests # <<>> /\ UNCHANGED <<page, session>>
      BY <2>1 DEF Answer
  <2>4. page' \notin Started \union {"failed"}
      BY <2>3 DEF OnlyRunning, Started
  <2> QED
      BY <1>1, <2>1, <2>2, <2>3, <2>4 DEF LostSoFar
<1>3. CASE icons' = icons
  <2>1. \A b \in icons : b.session \in Int
      BY <1>1, BoundsAssumption DEF LostSoFar
  <2>2. CASE Open
      BY <1>3, <2>1, <2>2 DEF Open, LostSoFar, Types
  <2>3. CASE FindPackageConfig
      BY <1>3, <2>3 DEF FindPackageConfig, LostSoFar, Started
  <2>4. CASE OpenLogFile
      BY <1>3, <2>4 DEF OpenLogFile, LostSoFar, Started
  <2>5. CASE Close
      BY <1>3, <2>5 DEF Close, LostSoFar, Started
  <2>6. CASE UNCHANGED <<page, session>>
      BY <1>3, <2>6 DEF LostSoFar
  <2>7. CASE HostStep
      BY <2>6, <2>7, HostShape
  <2>8. CASE IsolateStep
      BY <2>6, <2>8, IsolateShape
  <2> QED
      BY <2>2, <2>3, <2>4, <2>5, <2>6, <2>7, <2>8
         DEF Next, PageStep, Refresh, Load, ProcessStarts, ProcessExits, Icons, Watch,
             EnterIndex, UseSettings, UseSetting, EditSetting
<1> QED
    BY <1>2, <1>3

\* A fetch that failed, or is about to.
Fails(f) ==
    \/ at[f] = "failed"
    \/ \E i \in 1..Len(replies) : replies[i].task = f /\ replies[i].value = ERROR

\* A failed fetch stays so, and so does its icon.
LEMMA FailsStays ==
    ASSUME IInv, Begun, OneMessage, Next, ~Close, NEW f \in Fetches, Fails(f)
    PROVE  Fails(f)' /\ IconOf(f)' = IconOf(f)
<1> USE DEF IInv
<1>1. f \in Tasks /\ at[f] # "idle"
  <2>1. f \in Tasks
      BY DEF Tasks
  <2>2. f \in UnderWay => at[f] = "waiting"
      BY <2>1 DEF OneMessage, InFlight
  <2> QED
      BY <2>1, <2>2 DEF Fails, UnderWay
<1>2. ASSUME UNCHANGED <<replies, at, asked>> PROVE Fails(f)' /\ IconOf(f)' = IconOf(f)
    BY <1>2 DEF Fails, IconOf
<1>3. ASSUME NEW t \in Tasks, at[t] = "idle", NEW how, at' = [at EXCEPT ![t] = how],
             UNCHANGED <<replies, asked>>
      PROVE  Fails(f)' /\ IconOf(f)' = IconOf(f)
  <2>1. at'[f] = at[f]
      BY <1>1, <1>3 DEF Types
  <2> QED
      BY <1>3, <2>1 DEF Fails, IconOf
<1>4. ASSUME NEW k \in Large, EnterIndex(k) PROVE Fails(f)' /\ IconOf(f)' = IconOf(f)
  <2> DEFINE e == entered + 1
  <2>1. /\ e \in Tasks /\ e \in Dialog /\ asked' = [asked EXCEPT ![e] = k] /\ GetIconPngData(e, k)
      BY <1>4, EnterFacts, DialogTasks DEF EnterIndex
  <2>2. at[e] = "idle"
      BY <2>1 DEF Begun, Asks, Types
  <2> HIDE DEF e
  <2>3. f # e /\ replies' = replies /\ at'[f] = at[f]
      BY <1>1, <2>1, <2>2 DEF GetIconPngData, Call, Types
  <2>4. f \in Dialog => asked'[f] = asked[f]
      BY <2>1, <2>3 DEF Types
  <2> QED
      BY <2>3, <2>4 DEF Fails, IconOf
<1>5. CASE HostStep
  <2>1. PICK what \in Methods, value \in Values :
            Answer(what, value) /\ UNCHANGED <<at, asked>>
      BY <1>5, HostShape
  <2>2. 1..Len(replies) \subseteq 1..Len(replies') /\ \A i \in 1..Len(replies) : replies'[i] = replies[i]
      BY <2>1, AnswerTasks
  <2> QED
      BY <2>1, <2>2 DEF Fails, IconOf
<1>6. CASE IsolateStep
  <2> DEFINE t == Head(replies).task
  <2>1. /\ UNCHANGED asked /\ t = replies[1].task /\ 1 \in 1..Len(replies)
        /\ InFlight(t)
        /\ \A i \in 1..Len(replies) : i = 1 \/ (i - 1 \in 1..Len(replies')
                                               /\ replies'[i - 1] = replies[i])
      BY <1>6, IsolateShape, TakeFacts, OneTaken
  <2>2. /\ t \in Tasks
        /\ at' = [at EXCEPT ![t] = "failed"] \/ at' = [at EXCEPT ![t] = "done"]
        /\ t \in Fetches /\ replies[1].value = ERROR => at' = [at EXCEPT ![t] = "failed"]
      BY <1>6, <2>1, TakeShape, IsolateShape, TakeFacts
  <2> HIDE DEF t
  <2>3. CASE at[f] = "failed"
    <3>1. at'[f] = "failed"
        BY <1>1, <2>1, <2>2, <2>3 DEF Types, InFlight
    <3> QED
        BY <2>1, <3>1 DEF Fails, IconOf
  <2>4. ASSUME NEW i \in 1..Len(replies), replies[i].task = f, replies[i].value = ERROR
        PROVE  Fails(f)' /\ IconOf(f)' = IconOf(f)
    <3>1. CASE i = 1
      <4>1. at'[f] = "failed"
          BY <1>1, <2>1, <2>2, <2>4, <3>1 DEF Types
      <4> QED
          BY <2>1, <4>1 DEF Fails, IconOf
    <3>2. CASE i - 1 \in 1..Len(replies') /\ replies'[i - 1] = replies[i]
        BY <2>1, <2>4, <3>2 DEF Fails, IconOf
    <3> QED
        BY <2>1, <3>1, <3>2
  <2> QED
      BY <2>3, <2>4 DEF Fails
<1>7. CASE Refresh
    BY <1>2, <1>3, <1>7 DEF Refresh, Load, Call, Tasks, ProcessStarts, ProcessExits
<1>8. ASSUME NEW k \in Keys, Watch(k) PROVE Fails(f)' /\ IconOf(f)' = IconOf(f)
    BY <1>3, <1>8 DEF Watch, GetIconPngData, Call, Tasks, Fetches
<1>9. CASE UseSettings
    BY <1>2, <1>3, <1>9 DEF UseSettings, UseSetting, Call, Tasks, EditSetting
<1> QED
    BY <1>2, <1>4, <1>5, <1>6, <1>7, <1>8, <1>9
       DEF Next, PageStep, Open, FindPackageConfig, OpenLogFile, Icons

LEMMA LostByFailure ==
    ASSUME IInv, Begun, OneMessage, LostSoFar, IconLostOnlyByFailure, Next
    PROVE  IconLostOnlyByFailure'
<1> USE DEF IInv
<1>1. DOMAIN replies = 1..Len(replies) /\ DOMAIN replies' = 1..Len(replies')
  <2>1. Types'
      BY TypesPage, TypesCalls, TypesHost, TypesIsolate DEF Next
  <2> QED
      BY <2>1 DEF Types
<1>2. IconLostOnlyByFailure <=>
        \A k \in Keys : Bitmap(k, session) \in icons /\ page = "running" =>
            \E f \in Fetches : IconOf(f) = k /\ Fails(f)
    BY <1>1 DEF IconLostOnlyByFailure, Fails
<1>3. IconLostOnlyByFailure' <=>
        \A k \in Keys : Bitmap(k, session') \in icons' /\ page' = "running" =>
            \E f \in Fetches : IconOf(f)' = k /\ Fails(f)'
    BY <1>1 DEF IconLostOnlyByFailure, Fails
<1>4. SUFFICES ASSUME NEW k \in Keys, Bitmap(k, session') \in icons', page' = "running"
               PROVE  \E f \in Fetches : IconOf(f)' = k /\ Fails(f)'
    BY <1>3
<1>5. CASE icons' # icons /\ Bitmap(k, session') \notin icons
  <2>1. Answer("icon", ERROR) /\ icons' = icons \union {Bitmap(Requested, session)}
      BY <1>5, IconsShape
  <2>2. ERROR \in Values
      BY DEF Values, SettingValues
  <2>3. requests[1].task \in Fetches /\ Requested = IconOf(requests[1].task)
      BY <2>1, <2>2, RequestedFacts
  <2>4. Bitmap(k, session') = Bitmap(Requested, session)
      BY <1>4, <1>5, <2>1
  <2>5. k = Requested
      BY <2>4 DEF Bitmap
  <2>6. UNCHANGED asked
      BY <2>1 DEF Answer
  <2>7. \A f \in Fetches : IconOf(f)' = IconOf(f)
      BY <2>6 DEF IconOf
  <2>8. /\ Len(replies) + 1 \in 1..Len(replies')
        /\ replies'[Len(replies) + 1] = [task |-> requests[1].task, value |-> ERROR]
      BY <2>1, <2>2, AnswerFacts, Messages
  <2>9. \A f \in Fetches : f = requests[1].task => Fails(f)'
      BY <2>8 DEF Fails
  <2> QED
      BY <2>3, <2>5, <2>7, <2>9
<1>6. CASE Bitmap(k, session') \in icons
  <2>1. Bitmap(k, session').session = session'
      BY DEF Bitmap
  <2>2. session' <= session
      BY <1>6, <2>1 DEF LostSoFar
  <2>3. ~ Open
      BY <2>2, BoundsAssumption DEF Open, Types
  <2>4. ~ Close
      BY <1>4 DEF Close
  <2>5. ~ FindPackageConfig
      BY <1>4 DEF FindPackageConfig
  <2>6. ~ OpenLogFile
    <3>1. ASSUME OpenLogFile PROVE FALSE
      <4>1. page = "file" /\ session' = session
          BY <3>1 DEF OpenLogFile
      <4> QED
          BY <1>6, <2>1, <4>1 DEF LostSoFar, Started
    <3> QED
        BY <3>1
  <2>7. UNCHANGED <<page, session>>
    <3>1. CASE HostStep
        BY <3>1, HostShape
    <3>2. CASE IsolateStep
        BY <3>2, IsolateShape
    <3> QED
        BY <2>3, <2>4, <2>5, <2>6, <3>1, <3>2
           DEF Next, PageStep, Refresh, Load, ProcessStarts, ProcessExits, Icons, Watch,
               EnterIndex, UseSettings, UseSetting, EditSetting
  <2>8. PICK f \in Fetches : IconOf(f) = k /\ Fails(f)
      BY <1>2, <1>4, <1>6, <2>7
  <2>9. IconOf(f)' = IconOf(f) /\ Fails(f)'
      BY <2>4, <2>8, FailsStays
  <2> QED
      BY <2>8, <2>9
<1> QED
    BY <1>4, <1>5, <1>6

-----------------------------------------------------------------------------
(* The theorems.                                                           *)

LEMMA InitCalls == Init => Calls
<1> SUFFICES ASSUME Init PROVE Calls
    OBVIOUS
<1>1. Len(requests) = 0 /\ Len(replies) = 0
    BY DEF Init
<1>2. UnderWay = {}
    BY <1>1 DEF UnderWay
<1>3. OneMessage
    BY <1>1, <1>2 DEF Init, OneMessage, InFlight
<1>4. LostSoFar /\ LargeOnly /\ IconLostOnlyByFailure
    BY DEF Init, LostSoFar, LargeOnly, IconLostOnlyByFailure
<1> QED
    BY <1>3, <1>4 DEF Calls

LEMMA NextCalls == IInv /\ Page /\ Calls /\ [Next]_vars => Calls'
<1> SUFFICES ASSUME IInv, Page, Calls, [Next]_vars PROVE Calls'
    OBVIOUS
<1> USE DEF Calls
<1>1. CASE Next
  <2>1. OneMessage'
      BY <1>1, OneStep DEF Page
  <2>2. LostSoFar' /\ IconLostOnlyByFailure'
      BY <1>1, LostStep, LostByFailure DEF Page
  <2>3. LargeOnly'
      BY <1>1, LargeStep DEF IInv
  <2> QED
      BY <2>1, <2>2, <2>3
<1>2. CASE UNCHANGED vars
  <2>1. UNCHANGED <<page, at, asked, icons, session, requests, replies>>
      BY <1>2 DEF vars
  <2>2. UNCHANGED UnderWay
      BY <2>1 DEF UnderWay
  <2> QED
      BY <2>1, <2>2 DEF OneMessage, InFlight, LostSoFar, LargeOnly, IconLostOnlyByFailure, IconOf
<1> QED
    BY <1>1, <1>2

\* A set of at most one element counts one or nothing.
LEMMA OneElement ==
    ASSUME NEW S, \A x, y \in S : x = y
    PROVE  Cardinality(S) = IF S = {} THEN 0 ELSE 1
<1>1. CASE S = {}
    BY <1>1, FS_EmptySet
<1>2. CASE S # {}
  <2>1. PICK x \in S : S = {x}
      BY <1>2
  <2> QED
      BY <2>1, FS_Singleton
<1> QED
    BY <1>1, <1>2

\* Each call that waits has exactly one message under way (messages.g.cpp, and
\* the messenger's reply of each BasicMessageChannel.send), and the variables
\* have their types.
THEOREM TypesHold == Spec => []TypeOK
<1>1. ASSUME IInv, Page, Calls PROVE TypeOK
  <2> USE <1>1 DEF IInv, Page, Calls
  <2>1. ASSUME NEW t \in Tasks
        PROVE  LET mine == {i \in DOMAIN requests : requests[i].task = t}
                   answers == {i \in DOMAIN replies : replies[i].task = t}
               IN  Cardinality(mine) + Cardinality(answers) = IF InFlight(t) THEN 1 ELSE 0
    <3> DEFINE mine == {i \in DOMAIN requests : requests[i].task = t}
               answers == {i \in DOMAIN replies : replies[i].task = t}
    <3>1. DOMAIN requests = 1..Len(requests) /\ DOMAIN replies = 1..Len(replies)
        BY DEF Types
    <3>2. Cardinality(mine) = IF mine = {} THEN 0 ELSE 1
        BY <3>1, OneElement DEF OneMessage
    <3>3. Cardinality(answers) = IF answers = {} THEN 0 ELSE 1
        BY <3>1, OneElement DEF OneMessage
    <3>4. mine = {} \/ answers = {}
        BY <3>1 DEF OneMessage
    <3>5. InFlight(t) <=> ~ (mine = {} /\ answers = {})
        BY <3>1 DEF OneMessage, UnderWay
    <3> HIDE DEF mine, answers
    <3>6. Cardinality(mine) + Cardinality(answers) = IF InFlight(t) THEN 1 ELSE 0
        BY <3>2, <3>3, <3>4, <3>5
    <3> QED
        BY <3>6 DEF mine, answers
  <2>2. icons \subseteq Objects
      BY DEF LostSoFar, Objects
  <2>3. page # "running" => requests = <<>> /\ replies = <<>> /\ ~inited
      BY DEF OnlyRunning
  <2>4. cache \in Caches /\ image \in Dialog \union {NULL} /\ asked \in [Dialog -> Large \union {NULL}]
      BY DEF CacheKnown, ShownInOrder, LargeOnly
  <2> QED
      BY <2>1, <2>2, <2>3, <2>4 DEF TypeOK, Types
<1> QED
    BY InitInv, NextInv, InitPage, NextPage, InitCalls, NextCalls, <1>1, PTL DEF Spec

\* api.cpp:131-150: in a session an HICON is lost only together with a fetch that
\* failed, of the same icon.
THEOREM LostOnlyByFailure == Spec => []IconLostOnlyByFailure
<1>1. Calls => IconLostOnlyByFailure
    BY DEF Calls
<1> QED
    BY InitInv, NextInv, InitPage, NextPage, InitCalls, NextCalls, <1>1, PTL DEF Spec
=============================================================================
