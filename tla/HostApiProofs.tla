---------------------------- MODULE HostApiProofs ----------------------------
(***************************************************************************)
(* HostApi implements HostObjects, and the caches tell the truth, for any  *)
(* number of callers, sessions, processes, addresses and handles.  The     *)
(* argument: the host's handlers answer in the order of the requests and   *)
(* each answer is of its request's kind; an address under way has a        *)
(* reference that nobody gives back, a handle under way is of a bitmap     *)
(* that nobody deletes; and the channel is empty whenever a new session,   *)
(* or a new entry in the dialog, changes what its messages mean.           *)
(***************************************************************************)
EXTENDS HostApi, SequenceFacts, FiniteSetTheorems, TLAPS

-----------------------------------------------------------------------------
(* The inductive invariant.                                                *)

Methods == {"items", "icon", "getString", "getInteger", "addString", "addInteger"}
SettingValues == Texts \union Int \union {ERROR}
Items == SUBSET (Addresses \X Objects)
Values == SettingValues \union {GARBLED, NULL, TRUE} \union Handles \union Items
Requests == [task : Tasks, what : Methods, name : Names \union {NULL}]
Replies == [task : Tasks, value : Values]

Types ==
    /\ page \in {"closed", "running", "failed"} \union Started
    /\ inited \in BOOLEAN
    /\ at \in [Tasks -> {"idle", "waiting", "hit", "done", "failed"}]
    /\ asked \in [Dialog -> Keys \union {NULL}]
    /\ entered \in Nat
    /\ requests \in Seq(Requests)
    /\ replies \in Seq(Replies)
    /\ session \in 0..MaxSessions
    /\ memory \in [Places -> Objects \union {FREE}]
    /\ refs \in [Addresses -> Nat]
    /\ listed \subseteq Addresses
    /\ settings \in [Slots -> SettingValues]
    /\ unmade \subseteq Objects

\* A page that does not run has no calls.
OnlyRunning ==
    /\ page = "running" <=> inited
    /\ page # "running" => /\ requests = <<>> /\ replies = <<>>
                           /\ \A t \in Tasks : at[t] = "idle"
    /\ page # "closed" => session > 0

\* A fetch by the dialog under way knows the icon it was asked for.
Asks(t) == t \in Dialog => t <= entered /\ asked[t] \in Keys

\* A message is of its task's kind.
Kinds ==
    /\ \A i \in 1..Len(requests) :
        LET m == requests[i]
        IN  /\ m.what = "items" <=> m.task \in Loads
            /\ m.what = "icon" <=> m.task \in Fetches
            /\ Asks(m.task)
    /\ \A i \in 1..Len(replies) :
        /\ replies[i].task \in Loads => replies[i].value \in Items
        /\ Asks(replies[i].task)

\* An address under way has a reference, and a process listed has its item.
Referenced ==
    /\ \A a \in listed : memory[a] # FREE
    /\ \A i \in 1..Len(replies) :
        replies[i].task \in Loads => \A s \in replies[i].value : refs[s[1]] > 0

\* A handle under way is of the bitmap asked for; the handle 0 was answered since
\* that bitmap was not made.
Drawn ==
    \A i \in 1..Len(replies) :
        LET m == replies[i]
        IN  m.task \in Fetches =>
                /\ m.value \in Handles \union {NULL, ERROR}
                /\ m.value \in Handles => memory[m.value] = Bitmap(IconOf(m.task), session)
                /\ m.value = NULL => Bitmap(IconOf(m.task), session) \in unmade

IInv == Types /\ OnlyRunning /\ Kinds /\ Referenced /\ Drawn

-----------------------------------------------------------------------------
(* Settings and objects.                                                   *)

LEMMA SettingsTypes ==
    /\ SettingsInit => settings \in [Slots -> SettingValues]
    /\ \A name \in Names, type \in {"string", "integer"} :
        <<Key(name), type>> \in Slots /\ <<AddedKey(name), type>> \in Slots
<1>1. \A name \in Names, type \in {"string", "integer"} :
        <<Key(name), type>> \in Slots /\ <<AddedKey(name), type>> \in Slots
    BY DEF Slots
<1>2. ASSUME SettingsInit PROVE settings \in [Slots -> SettingValues]
  <2>1. PICK f \in [Declared -> {t \in Texts : t.units = t.bytes /\ t.units > 0}] :
            settings = [s \in Slots |->
                IF \E n \in Declared : s = <<Key(n), "string">> THEN f[s[1].name]
                ELSE IF \E n \in Numbers : s = <<Key(n), "integer">> THEN 0
                ELSE ERROR]
      BY <1>2 DEF SettingsInit
  <2>2. ASSUME NEW s \in Slots, NEW n \in Declared, s = <<Key(n), "string">>
        PROVE  f[s[1].name] \in Texts
    <3>1. s[1].name = n
        BY <2>2 DEF Key
    <3> QED
        BY <3>1
  <2>3. \A s \in Slots :
            (IF \E n \in Declared : s = <<Key(n), "string">> THEN f[s[1].name]
             ELSE IF \E n \in Numbers : s = <<Key(n), "integer">> THEN 0
             ELSE ERROR) \in SettingValues
      BY <2>2 DEF SettingValues
  <2> QED
      BY <2>1, <2>3
<1> QED
    BY <1>1, <1>2

LEMMA ReadTypes ==
    ASSUME Types, NEW name \in Names
    PROVE  GetStringSetting(name) \in Values /\ GetIntegerSetting(name) \in Values
<1>1. StringSetting(name) \in SettingValues /\ IntegerSetting(name) \in SettingValues
    BY SettingsTypes DEF StringSetting, IntegerSetting, Types
<1>2. ASSUME NEW v \in SettingValues PROVE toStdString(v) \in Values
    BY <1>2 DEF toStdString, Values
<1>3. SettingValues \subseteq Values
    BY DEF Values
<1>4. ERROR \in SettingValues /\ 0 \in SettingValues
    BY DEF SettingValues
<1> QED
    BY <1>1, <1>2, <1>3, <1>4 DEF GetStringSetting, GetIntegerSetting

LEMMA PlaceOfFree ==
    ASSUME NEW S, S = Addresses \/ S = Handles, FreeIn(S) # {}
    PROVE  Place[FreeIn(S)] \in S /\ memory[Place[FreeIn(S)]] = FREE
<1>1. FreeIn(S) \subseteq S
    BY DEF FreeIn
<1>2. FreeIn(S) \in ((SUBSET Addresses) \union (SUBSET Handles)) \ {{}}
    BY <1>1
<1>3. Place[FreeIn(S)] \in FreeIn(S)
    BY ONLY <1>2, PlaceAssumption
<1> QED
    BY <1>3 DEF FreeIn

LEMMA PlaceOfBitmap ==
    ASSUME Cardinality(FreeHandles) > 2
    PROVE  NewBitmap \in Handles /\ memory[NewBitmap] = FREE
<1>1. FreeHandles # {}
    BY FS_EmptySet
<1> QED
    BY <1>1, PlaceOfFree DEF NewBitmap, FreeHandles

\* The icon of a fetch under way.
LEMMA IconOfFetch ==
    ASSUME Types, NEW f \in Fetches, Asks(f)
    PROVE  IconOf(f) \in Keys
BY DEF Asks, IconOf, Fetches

\* The messages, one by one.
LEMMA Messages ==
    ASSUME Types
    PROVE  /\ requests \in Seq(Requests) /\ replies \in Seq(Replies)
           /\ Len(requests) \in Nat /\ Len(replies) \in Nat
           /\ \A i \in 1..Len(requests) : requests[i] \in Requests /\ requests[i].task \in Tasks
           /\ \A i \in 1..Len(replies) : replies[i] \in Replies /\ replies[i].task \in Tasks
<1>1. requests \in Seq(Requests) /\ replies \in Seq(Replies)
    BY DEF Types
<1>2. \A m \in Requests : m.task \in Tasks
    BY DEF Requests
<1>3. \A m \in Replies : m.task \in Tasks
    BY DEF Replies
<1> QED
    BY <1>1, <1>2, <1>3, ElementFacts

LEMMA InitInv == Init => IInv
<1> SUFFICES ASSUME Init PROVE IInv
    OBVIOUS
<1>1. settings \in [Slots -> SettingValues]
    BY SettingsTypes DEF Init
<1>2. 0 \in Nat /\ 0 \in 0..MaxSessions
    BY BoundsAssumption
<1>3. Types
  <2>1. requests \in Seq(Requests) /\ replies \in Seq(Replies)
      BY DEF Init
  <2> QED
      BY <1>1, <1>2, <2>1 DEF Init, Types
<1>4. Len(requests) = 0 /\ Len(replies) = 0
    BY DEF Init
<1>5. OnlyRunning /\ Kinds /\ Referenced /\ Drawn
    BY <1>4 DEF Init, OnlyRunning, Kinds, Referenced, Drawn
<1> QED
    BY <1>3, <1>5 DEF IInv

-----------------------------------------------------------------------------
(* Types.                                                                  *)

USE DEF page_, isolate, channel, items, host

LEMMA CallTypes ==
    ASSUME Types, NEW t \in Tasks, NEW what \in Methods, NEW name \in Names \union {NULL},
           Call(t, what, name)
    PROVE  /\ at' \in [Tasks -> {"idle", "waiting", "hit", "done", "failed"}]
           /\ requests' \in Seq(Requests) /\ replies' \in Seq(Replies)
           /\ Len(requests') = Len(requests) + 1
           /\ requests'[Len(requests) + 1] = [task |-> t, what |-> what, name |-> name]
           /\ \A i \in 1..Len(requests) : requests'[i] = requests[i]
<1> DEFINE m == [task |-> t, what |-> what, name |-> name]
<1>1. m \in Requests
    BY DEF Requests
<1>2. requests' = Append(requests, m) /\ replies' = replies
    BY DEF Call
<1>3. at' \in [Tasks -> {"idle", "waiting", "hit", "done", "failed"}]
    BY DEF Call, Types
<1> HIDE DEF m
<1>4. replies' \in Seq(Replies) /\ requests \in Seq(Requests)
    BY <1>2, Messages
<1>5. /\ requests' \in Seq(Requests) /\ Len(requests') = Len(requests) + 1
      /\ requests'[Len(requests) + 1] = m
      /\ \A i \in 1..Len(requests) : requests'[i] = requests[i]
    BY <1>1, <1>2, <1>4, AppendFacts
<1> QED
    BY <1>3, <1>4, <1>5 DEF m

LEMMA AnswerFacts ==
    ASSUME Types, NEW what, NEW value \in Values, Answer(what, value)
    PROVE  /\ requests # <<>> /\ Head(requests) = requests[1] /\ 1 \in 1..Len(requests)
           /\ requests[1].what = what /\ requests[1].task \in Tasks
           /\ requests' \in Seq(Requests) /\ replies' \in Seq(Replies)
           /\ \A i \in 1..Len(requests') : i + 1 \in 1..Len(requests) /\ requests'[i] = requests[i + 1]
           /\ Len(replies') = Len(replies) + 1
           /\ replies'[Len(replies) + 1] = [task |-> requests[1].task, value |-> value]
           /\ \A i \in 1..Len(replies) : replies'[i] = replies[i]
<1>1. /\ requests # <<>> /\ Head(requests).what = what /\ requests' = Tail(requests)
      /\ replies' = Append(replies, [task |-> Head(requests).task, value |-> value])
    BY DEF Answer
<1>2. /\ requests' \in Seq(Requests) /\ Head(requests) = requests[1] /\ Len(requests) \in Nat \ {0}
      /\ \A i \in 1..Len(requests') : i + 1 \in 1..Len(requests) /\ requests'[i] = requests[i + 1]
    BY <1>1, Messages, TailFacts
<1>3. 1 \in 1..Len(requests)
    BY <1>2
<1>4. requests[1].task \in Tasks
    BY <1>3, Messages
<1> DEFINE m == [task |-> requests[1].task, value |-> value]
<1>5. m \in Replies
    BY <1>4 DEF Replies
<1>6. replies' = Append(replies, m) /\ replies \in Seq(Replies)
    BY <1>1, <1>2, Messages
<1> HIDE DEF m
<1>7. /\ replies' \in Seq(Replies) /\ Len(replies') = Len(replies) + 1
      /\ replies'[Len(replies) + 1] = m
      /\ \A i \in 1..Len(replies) : replies'[i] = replies[i]
    BY <1>5, <1>6, AppendFacts
<1> QED
    BY <1>1, <1>2, <1>3, <1>4, <1>7 DEF m

LEMMA TakeFacts ==
    ASSUME Types, replies # <<>>, replies' = Tail(replies)
    PROVE  /\ replies' \in Seq(Replies) /\ Head(replies) = replies[1] /\ 1 \in 1..Len(replies)
           /\ \A i \in 1..Len(replies') : i + 1 \in 1..Len(replies) /\ replies'[i] = replies[i + 1]
<1>1. /\ replies' \in Seq(Replies) /\ Head(replies) = replies[1] /\ Len(replies) \in Nat \ {0}
      /\ \A i \in 1..Len(replies') : i + 1 \in 1..Len(replies) /\ replies'[i] = replies[i + 1]
    BY Messages, TailFacts
<1> QED
    BY <1>1

LEMMA TypesPage == Types /\ PageStep => Types'
<1> SUFFICES ASSUME Types, PageStep PROVE Types'
    OBVIOUS
<1> USE DEF Started
<1>1. CASE Open
    BY <1>1, BoundsAssumption DEF Open, Types
<1>2. CASE FindPackageConfig
    BY <1>2 DEF FindPackageConfig, Types
<1>3. CASE OpenLogFile
    BY <1>3 DEF OpenLogFile, Types
<1>4. CASE Close
  <2>1. replies' \in Seq(Replies) /\ requests' \in Seq(Requests)
      BY <1>4 DEF Close
  <2> QED
      BY <1>4, <2>1 DEF Close, Types
<1> QED
    BY <1>1, <1>2, <1>3, <1>4 DEF PageStep

\* A call of getIconPngData.
LEMMA FetchTypes ==
    ASSUME Types, NEW f \in Fetches, NEW k \in Keys, GetIconPngData(f, k)
    PROVE  /\ at' \in [Tasks -> {"idle", "waiting", "hit", "done", "failed"}]
           /\ requests' \in Seq(Requests) /\ replies' \in Seq(Replies)
<1>1. f \in Tasks /\ "icon" \in Methods
    BY DEF Tasks, Methods
<1>2. CASE Call(f, "icon", NULL)
    BY <1>1, <1>2, CallTypes
<1>3. CASE at' = [at EXCEPT ![f] = "hit"] /\ UNCHANGED channel
    BY <1>1, <1>3 DEF Types
<1> QED
    BY <1>2, <1>3 DEF GetIconPngData

LEMMA TypesCalls == Types /\ (Refresh \/ Icons \/ UseSettings) => Types'
<1> SUFFICES ASSUME Types, Refresh \/ Icons \/ UseSettings PROVE Types'
    OBVIOUS
<1>1. ASSUME NEW l \in Loads, Load(l) PROVE Types'
  <2>1. l \in Tasks /\ "items" \in Methods /\ Call(l, "items", NULL)
      BY <1>1 DEF Load, Tasks, Methods
  <2> QED
      BY <1>1, <2>1, CallTypes DEF Load, Types
<1>2. ASSUME NEW p \in Processes, ProcessStarts(p) PROVE Types'
  <2>1. Place[FreeIn(Addresses)] \in Addresses
      BY <1>2, PlaceOfFree DEF ProcessStarts
  <2> QED
      BY <1>2, <2>1 DEF ProcessStarts, Types, Places, Objects
<1>3. ASSUME NEW a \in Addresses, ProcessExits(a) PROVE Types'
    BY <1>3 DEF ProcessExits, Types, Places
<1>4. ASSUME NEW k \in Keys, Watch(k) PROVE Types'
  <2>1. k \in Fetches
      BY DEF Fetches
  <2> QED
      BY <1>4, <2>1, FetchTypes DEF Watch, Types
<1>5. ASSUME NEW k \in Large, EnterIndex(k) PROVE Types'
  <2> DEFINE d == entered + 1
  <2>1. d \in Dialog /\ d \in Fetches /\ k \in Keys
      BY <1>5, TasksAssumption, KeysAssumption DEF EnterIndex, Types, Dialog, Fetches
  <2>2. GetIconPngData(d, k) /\ entered' = d /\ asked' = [asked EXCEPT ![d] = k]
        /\ UNCHANGED <<page, inited, session, memory, refs, listed, unmade, settings>>
      BY <1>5 DEF EnterIndex
  <2> HIDE DEF d
  <2>3. asked' \in [Dialog -> Keys \union {NULL}]
      BY <2>1, <2>2 DEF Types
  <2>4. entered' \in Nat
      BY <2>1, <2>2 DEF Dialog
  <2> QED
      BY <2>1, <2>2, <2>3, <2>4, FetchTypes DEF Types
<1>6. ASSUME NEW c \in Clients, NEW name \in Names,
             NEW what \in {"getString", "getInteger", "addString", "addInteger"},
             UseSetting(c, what, name)
      PROVE  Types'
  <2>1. c \in Tasks /\ what \in Methods
      BY DEF Tasks, Methods
  <2> QED
      BY <1>6, <2>1, CallTypes DEF UseSetting, Types
<1>7. ASSUME NEW name \in Names, NEW type \in {"string", "integer"}, NEW value \in SettingValues,
             EditSetting(name, type, value)
      PROVE  Types'
    BY <1>7, SettingsTypes DEF EditSetting, Edit, Types
<1>8. Texts \subseteq SettingValues /\ 1 \in SettingValues
    BY DEF SettingValues
<1> QED
    BY <1>1, <1>2, <1>3, <1>4, <1>5, <1>6, <1>7, <1>8 DEF Refresh, Icons, UseSettings

\* What the host answers: the kinds of the request and of the answer, and what
\* the answer does to memory and references.
LEMMA HostShape ==
    ASSUME Types, Referenced, HostStep
    PROVE  \E what \in Methods, value \in Values :
            /\ Answer(what, value)
            /\ UNCHANGED <<page, inited, at, asked, entered, cache, image, session, listed>>
            /\ settings' \in [Slots -> SettingValues]
            /\ \/ UNCHANGED unmade
               \/ what = "icon" /\ unmade' = unmade \union {Bitmap(Requested, session)}
            /\ \/ /\ what = "items" /\ value = {<<a, memory[a]>> : a \in listed}
                  /\ refs' = [a \in Addresses |-> IF a \in listed THEN refs[a] + 1 ELSE refs[a]]
                  /\ UNCHANGED memory
               \/ /\ what = "icon" /\ value = ERROR
                  /\ UNCHANGED <<refs, memory>>
               \/ /\ what = "icon" /\ value = NULL /\ Bitmap(Requested, session) \in unmade'
                  /\ UNCHANGED <<refs, memory>>
               \/ /\ what = "icon" /\ value = NewBitmap /\ Cardinality(FreeHandles) > 2
                  /\ memory' = [memory EXCEPT ![NewBitmap] = Bitmap(Requested, session)]
                  /\ UNCHANGED refs
               \/ /\ what \notin {"items", "icon"}
                  /\ UNCHANGED <<refs, memory>>
<1> USE DEF Methods
<1>1. settings \in [Slots -> SettingValues]
    BY DEF Types
<1>2. ERROR \in Values /\ NULL \in Values /\ TRUE \in Values /\ Handles \subseteq Values
    BY DEF Values, SettingValues
<1>3. CASE EnumProcessItems
  <2> DEFINE value == {<<a, memory[a]>> : a \in listed}
  <2>1. value \in Values
    <3>1. value \in Items
        BY DEF Referenced, Types, Places, Items
    <3> QED
        BY <3>1 DEF Values
  <2> QED
      BY <1>1, <1>3, <2>1 DEF EnumProcessItems, Answer
<1>4. CASE NoImageListIcon
    BY <1>1, <1>2, <1>4 DEF NoImageListIcon, Answer
<1>5. CASE GetIconInfoFails
    BY <1>1, <1>2, <1>5 DEF GetIconInfoFails, Answer
<1>6. CASE PhIconToBitmapFails
    BY <1>1, <1>2, <1>6 DEF PhIconToBitmapFails, Answer
<1>7. CASE GetImageListIcon
  <2>1. NewBitmap \in Values
      BY <1>2, <1>7, PlaceOfBitmap DEF GetImageListIcon
  <2> QED
      BY <1>1, <1>7, <2>1 DEF GetImageListIcon, Answer
<1>8. ASSUME NEW name \in Names, ReadSetting(name) PROVE
        \E what \in Methods \ {"items", "icon"}, value \in Values :
            /\ Answer(what, value)
            /\ UNCHANGED <<page, inited, at, asked, entered, cache, image, session, listed,
                           settings, refs, memory, unmade>>
    BY <1>8, ReadTypes DEF ReadSetting, Answer
<1>9. ASSUME NEW name \in Names, NEW type \in {"string", "integer"}, NEW value \in SettingValues,
             AddSetting(type, name, value)
      PROVE  settings' \in [Slots -> SettingValues]
    BY <1>1, <1>9, SettingsTypes DEF AddSetting
<1>10. ASSUME NEW name \in Names, NEW text \in Texts, AddStringSetting(name, text) PROVE
        \E what \in Methods \ {"items", "icon"}, value \in Values :
            /\ Answer(what, value)
            /\ settings' \in [Slots -> SettingValues]
            /\ UNCHANGED <<page, inited, at, asked, entered, cache, image, session, listed,
                           refs, memory, unmade>>
  <2>1. text \in SettingValues
      BY DEF SettingValues
  <2> QED
      BY <1>2, <1>9, <1>10, <2>1 DEF AddStringSetting, Answer
<1>11. ASSUME NEW name \in Names, AddIntegerSetting(name) PROVE
        \E what \in Methods \ {"items", "icon"}, value \in Values :
            /\ Answer(what, value)
            /\ settings' \in [Slots -> SettingValues]
            /\ UNCHANGED <<page, inited, at, asked, entered, cache, image, session, listed,
                           refs, memory, unmade>>
  <2>1. 0 \in SettingValues
      BY DEF SettingValues
  <2> QED
      BY <1>2, <1>9, <1>11, <2>1 DEF AddIntegerSetting, Answer
<1> QED
    BY <1>1, <1>3, <1>4, <1>5, <1>6, <1>7, <1>8, <1>10, <1>11 DEF HostStep

\* The request for an icon is of a fetch, in a session, and for an icon.
LEMMA RequestedFacts ==
    ASSUME Types, OnlyRunning, Kinds, NEW value \in Values, Answer("icon", value)
    PROVE  /\ requests[1].task \in Fetches /\ Asks(requests[1].task)
           /\ Requested = IconOf(requests[1].task) /\ Requested \in Keys
           /\ session \in 1..MaxSessions
<1>1. /\ requests # <<>> /\ Head(requests) = requests[1] /\ 1 \in 1..Len(requests)
      /\ requests[1].what = "icon"
    BY AnswerFacts
<1>2. requests[1].task \in Fetches /\ Asks(requests[1].task)
    BY <1>1 DEF Kinds
<1>3. Requested = IconOf(requests[1].task)
    BY <1>1 DEF Requested
<1>4. session \in 1..MaxSessions
    BY <1>1, BoundsAssumption DEF OnlyRunning, Types
<1> QED
    BY <1>2, <1>3, <1>4, IconOfFetch

LEMMA TypesHost == Types /\ OnlyRunning /\ Referenced /\ Kinds /\ HostStep => Types'
<1> SUFFICES ASSUME Types, OnlyRunning, Referenced, Kinds, HostStep PROVE Types'
    OBVIOUS
<1>1. PICK what \in Methods, value \in Values :
        /\ Answer(what, value)
        /\ UNCHANGED <<page, inited, at, asked, entered, session, listed>>
        /\ settings' \in [Slots -> SettingValues]
        /\ \/ UNCHANGED unmade
           \/ what = "icon" /\ unmade' = unmade \union {Bitmap(Requested, session)}
        /\ \/ /\ refs' = [a \in Addresses |-> IF a \in listed THEN refs[a] + 1 ELSE refs[a]]
              /\ UNCHANGED memory
           \/ UNCHANGED <<refs, memory>>
           \/ /\ what = "icon" /\ Cardinality(FreeHandles) > 2
              /\ memory' = [memory EXCEPT ![NewBitmap] = Bitmap(Requested, session)]
              /\ UNCHANGED refs
    BY HostShape
<1>2. requests' \in Seq(Requests) /\ replies' \in Seq(Replies)
    BY <1>1, AnswerFacts
<1>3. refs' \in [Addresses -> Nat]
    BY <1>1 DEF Types
<1>4. what = "icon" => Bitmap(Requested, session) \in Objects
  <2> SUFFICES ASSUME what = "icon" PROVE Bitmap(Requested, session) \in Objects
      OBVIOUS
  <2>1. Requested \in Keys /\ session \in 1..MaxSessions
      BY <1>1, RequestedFacts
  <2> QED
      BY <2>1 DEF Objects
<1>5. memory' \in [Places -> Objects \union {FREE}]
    BY <1>1, <1>4, PlaceOfBitmap DEF Types, Places
<1>6. unmade' \subseteq Objects
    BY <1>1, <1>4 DEF Types
<1> QED
    BY <1>1, <1>2, <1>3, <1>5, <1>6 DEF Types


\* What the isolate does with the answer at the head.
LEMMA IsolateShape ==
    ASSUME Types, IsolateStep
    PROVE  /\ replies # <<>> /\ replies' = Tail(replies)
           /\ UNCHANGED <<page, inited, asked, entered, requests, session, host>>
           /\ \E t \in Tasks, how \in {"done", "failed"} : at' = [at EXCEPT ![t] = how]
<1>1. PICK t \in Tasks :
        FromRaw(t) \/ ReadBitmap(t) \/ ReadNoBitmap(t) \/ GotSetting(t) \/ Throws(t)
    BY DEF IsolateStep
<1>2. /\ replies # <<>> /\ replies' = Tail(replies)
      /\ UNCHANGED <<page, inited, asked, entered, requests, session, host>>
    BY <1>1 DEF FromRaw, ReadBitmap, ReadNoBitmap, GotSetting, Throws, Resume
<1>3. at' = [at EXCEPT ![t] = "done"] \/ at' = [at EXCEPT ![t] = "failed"]
    BY <1>1 DEF FromRaw, ReadBitmap, ReadNoBitmap, GotSetting, Throws, Encode, Ends
<1> QED
    BY <1>2, <1>3

LEMMA TypesIsolate == Types /\ IsolateStep => Types'
<1> SUFFICES ASSUME Types, IsolateStep PROVE Types'
    OBVIOUS
<1>1. at' \in [Tasks -> {"idle", "waiting", "hit", "done", "failed"}]
    BY IsolateShape DEF Types
<1>2. replies' \in Seq(Replies)
    BY IsolateShape, TakeFacts
<1>3. UNCHANGED <<page, inited, asked, entered, requests, session, host>>
    BY IsolateShape
<1> QED
    BY <1>1, <1>2, <1>3 DEF Types

-----------------------------------------------------------------------------
(* A page that does not run has no calls.                                  *)

LEMMA OnlyRunningStep ==
    ASSUME Types, Referenced, OnlyRunning, Next
    PROVE  OnlyRunning'
<1> USE DEF OnlyRunning
<1>1. CASE Open
    BY <1>1 DEF Open, Types
<1>2. CASE FindPackageConfig
    BY <1>2 DEF FindPackageConfig
<1>3. CASE OpenLogFile
    BY <1>3 DEF OpenLogFile
<1>4. CASE Close
    BY <1>4 DEF Close
<1>5. CASE Refresh
    BY <1>5 DEF Refresh, Load, ProcessStarts, ProcessExits
<1>6. CASE Icons
    BY <1>6 DEF Icons, Watch, EnterIndex
<1>7. CASE UseSettings
    BY <1>7 DEF UseSettings, UseSetting, EditSetting
<1>8. CASE HostStep
  <2>1. requests # <<>> /\ UNCHANGED <<page, inited, session>>
      BY <1>8, HostShape DEF Answer
  <2> QED
      BY <2>1
<1>9. CASE IsolateStep
    BY <1>9, IsolateShape
<1> QED
    BY <1>1, <1>2, <1>3, <1>4, <1>5, <1>6, <1>7, <1>8, <1>9 DEF Next, PageStep

-----------------------------------------------------------------------------
(* The kinds of the messages.                                              *)

\* A new entry in the dialog changes nothing for the fetches under way.
LEMMA EnterFacts ==
    ASSUME Types, NEW k \in Large, EnterIndex(k)
    PROVE  /\ entered + 1 \in Dialog /\ asked'[entered + 1] = k /\ k \in Keys
           /\ entered' = entered + 1 /\ UNCHANGED session
           /\ GetIconPngData(entered + 1, k)
           /\ \A t \in Tasks : Asks(t) => /\ t \in Dialog => t <= entered' /\ asked'[t] \in Keys
                                          /\ t \in Dialog => asked'[t] = asked[t]
<1>1. /\ entered \in Nat /\ entered < Entries /\ entered' = entered + 1 /\ UNCHANGED session
      /\ asked' = [asked EXCEPT ![entered + 1] = k] /\ GetIconPngData(entered + 1, k)
    BY DEF EnterIndex, Types
<1>2. entered + 1 \in Dialog /\ k \in Keys
    BY <1>1, TasksAssumption, KeysAssumption DEF Dialog
<1>3. \A t \in Dialog : t <= entered => t # entered + 1 /\ t <= entered'
    BY <1>1 DEF Dialog
<1> QED
    BY <1>1, <1>2, <1>3 DEF Types, Asks

\* The page's calls leave the answers alone, and what they are for; a request
\* they add is of their task's kind.
LEMMA CallShape ==
    ASSUME Types, NEW t \in Tasks, NEW what \in Methods, NEW name \in Names \union {NULL},
           Call(t, what, name),
           what = "items" <=> t \in Loads, what = "icon" <=> t \in Fetches,
           t \in Dialog => t <= entered' /\ asked'[t] \in Keys,
           \A u \in Tasks : Asks(u) => (u \in Dialog => u <= entered' /\ asked'[u] \in Keys),
           Kinds
    PROVE  Kinds'
<1>1. /\ Len(requests') = Len(requests) + 1 /\ Len(requests) \in Nat
      /\ requests'[Len(requests) + 1] = [task |-> t, what |-> what, name |-> name]
      /\ \A i \in 1..Len(requests) : requests'[i] = requests[i]
    BY CallTypes, Messages
<1>2. replies' = replies
    BY DEF Call
<1>3. \A i \in 1..Len(requests') :
        LET m == requests'[i]
        IN  /\ m.what = "items" <=> m.task \in Loads
            /\ m.what = "icon" <=> m.task \in Fetches
            /\ m.task \in Dialog => m.task <= entered' /\ asked'[m.task] \in Keys
  <2> SUFFICES ASSUME NEW i \in 1..Len(requests')
               PROVE  LET m == requests'[i]
                      IN  /\ m.what = "items" <=> m.task \in Loads
                          /\ m.what = "icon" <=> m.task \in Fetches
                          /\ m.task \in Dialog => m.task <= entered' /\ asked'[m.task] \in Keys
      OBVIOUS
  <2>1. CASE i = Len(requests) + 1
      BY <1>1, <2>1
  <2>2. CASE i \in 1..Len(requests)
    <3>1. requests'[i] = requests[i] /\ requests[i].task \in Tasks /\ Asks(requests[i].task)
        BY <1>1, <2>2, Messages DEF Kinds
    <3> QED
        BY <2>2, <3>1 DEF Kinds
  <2> QED
      BY <1>1, <2>1, <2>2
<1>4. \A i \in 1..Len(replies') :
        /\ replies'[i].task \in Loads => replies'[i].value \in Items
        /\ replies'[i].task \in Dialog =>
              replies'[i].task <= entered' /\ asked'[replies'[i].task] \in Keys
    BY <1>2, Messages DEF Kinds
<1> QED
    BY <1>3, <1>4 DEF Kinds, Asks

LEMMA KindsStep ==
    ASSUME Types, OnlyRunning, Referenced, Kinds, Next
    PROVE  Kinds'
<1>1. ASSUME UNCHANGED <<requests, replies, asked, entered>> PROVE Kinds'
    BY <1>1 DEF Kinds, Asks
<1>2. CASE Close
  <2>1. Len(requests') = 0 /\ Len(replies') = 0
      BY <1>2 DEF Close
  <2> QED
      BY <2>1 DEF Kinds
<1>3. ASSUME NEW l \in Loads, Load(l) PROVE Kinds'
  <2>1. /\ l \in Tasks /\ "items" \in Methods /\ l \notin Fetches /\ l \notin Dialog
        /\ Call(l, "items", NULL) /\ UNCHANGED <<asked, entered>>
      BY <1>3, TasksAssumption DEF Load, Tasks, Methods, Fetches
  <2> QED
      BY <2>1, CallShape DEF Asks
<1>4. ASSUME NEW k \in Keys, Watch(k) PROVE Kinds'
  <2>1. /\ k \in Tasks /\ "icon" \in Methods /\ k \in Fetches /\ k \notin Loads /\ k \notin Dialog
        /\ UNCHANGED <<asked, entered>> /\ GetIconPngData(k, k)
      BY <1>4, TasksAssumption DEF Watch, Tasks, Methods, Fetches
  <2>2. CASE Call(k, "icon", NULL)
      BY <2>1, <2>2, CallShape DEF Asks
  <2>3. CASE UNCHANGED channel
      BY <1>1, <2>1, <2>3
  <2> QED
      BY <2>1, <2>2, <2>3 DEF GetIconPngData
<1>5. ASSUME NEW k \in Large, EnterIndex(k) PROVE Kinds'
  <2> DEFINE d == entered + 1
  <2>1. /\ d \in Dialog /\ asked'[d] = k /\ k \in Keys /\ entered' = d /\ GetIconPngData(d, k)
        /\ d <= d
        /\ \A t \in Tasks : Asks(t) => (t \in Dialog => t <= entered' /\ asked'[t] \in Keys)
      BY <1>5, EnterFacts DEF Types
  <2> HIDE DEF d
  <2>2. d \in Tasks /\ d \in Fetches /\ d \notin Loads /\ "icon" \in Methods
      BY <2>1, TasksAssumption DEF Tasks, Fetches, Methods
  <2>3. CASE Call(d, "icon", NULL)
      BY <2>1, <2>2, <2>3, CallShape
  <2>4. CASE UNCHANGED channel
    <3>1. \A i \in 1..Len(requests) : requests[i].task \in Tasks /\ Asks(requests[i].task)
        BY Messages DEF Kinds
    <3>2. \A i \in 1..Len(replies) : replies[i].task \in Tasks /\ Asks(replies[i].task)
        BY Messages DEF Kinds
    <3> QED
        BY <2>1, <2>4, <3>1, <3>2 DEF Kinds, Asks
  <2> QED
      BY <2>1, <2>3, <2>4 DEF GetIconPngData
<1>6. ASSUME NEW c \in Clients, NEW name \in Names,
             NEW what \in {"getString", "getInteger", "addString", "addInteger"},
             UseSetting(c, what, name)
      PROVE  Kinds'
  <2>1. /\ c \in Tasks /\ c \notin Loads /\ c \notin Fetches /\ c \notin Dialog
        /\ what \in Methods /\ what \notin {"items", "icon"}
        /\ Call(c, what, name) /\ UNCHANGED <<asked, entered>>
      BY <1>6, TasksAssumption DEF UseSetting, Tasks, Methods, Fetches
  <2> QED
      BY <2>1, CallShape DEF Asks
<1>7. CASE HostStep
  <2>1. PICK what \in Methods, value \in Values :
            /\ Answer(what, value)
            /\ UNCHANGED <<asked, entered>>
            /\ what = "items" => value = {<<a, memory[a]>> : a \in listed}
      BY <1>7, HostShape
  <2>2. /\ requests[1].what = what /\ 1 \in 1..Len(requests)
        /\ \A i \in 1..Len(requests') : i + 1 \in 1..Len(requests) /\ requests'[i] = requests[i + 1]
        /\ Len(replies') = Len(replies) + 1
        /\ replies'[Len(replies) + 1] = [task |-> requests[1].task, value |-> value]
        /\ \A i \in 1..Len(replies) : replies'[i] = replies[i]
      BY <2>1, AnswerFacts
  <2>3. what = "items" => value \in Items
      BY <2>1 DEF Referenced, Types, Places, Items
  <2>4. /\ requests[1].task \in Loads => value \in Items
        /\ Asks(requests[1].task)
      BY <2>2, <2>3 DEF Kinds
  <2>5. \A i \in 1..Len(requests') :
            LET m == requests'[i]
            IN  /\ m.what = "items" <=> m.task \in Loads
                /\ m.what = "icon" <=> m.task \in Fetches
                /\ m.task \in Dialog => m.task <= entered' /\ asked'[m.task] \in Keys
      BY <2>1, <2>2 DEF Kinds, Asks
  <2>6. \A i \in 1..Len(replies') :
            /\ replies'[i].task \in Loads => replies'[i].value \in Items
            /\ replies'[i].task \in Dialog =>
                  replies'[i].task <= entered' /\ asked'[replies'[i].task] \in Keys
      BY <2>1, <2>2, <2>4, Messages DEF Kinds, Asks
  <2> QED
      BY <2>5, <2>6 DEF Kinds, Asks
<1>8. CASE IsolateStep
  <2>1. /\ \A i \in 1..Len(replies') : i + 1 \in 1..Len(replies) /\ replies'[i] = replies[i + 1]
        /\ UNCHANGED <<requests, asked, entered>>
      BY <1>8, IsolateShape, TakeFacts
  <2> QED
      BY <2>1 DEF Kinds, Asks
<1>9. CASE \/ Open \/ FindPackageConfig \/ OpenLogFile
           \/ \E p \in Processes : ProcessStarts(p)
           \/ \E a \in Addresses : ProcessExits(a)
           \/ \E name \in Names : \E type, value : EditSetting(name, type, value)
    BY <1>1, <1>9 DEF Open, FindPackageConfig, OpenLogFile, ProcessStarts, ProcessExits, EditSetting
<1> QED
    BY <1>2, <1>3, <1>4, <1>5, <1>6, <1>7, <1>8, <1>9
       DEF Next, PageStep, Refresh, Icons, UseSettings

-----------------------------------------------------------------------------
(* References and bitmaps.                                                 *)

\* Nothing but the host's process provider and its handlers touches memory.
LEMMA MemoryStays ==
    ASSUME Types, Next,
           ~ \E p \in Processes : ProcessStarts(p),
           ~ \E a \in Addresses : ProcessExits(a),
           ~ HostStep
    PROVE  UNCHANGED <<memory, refs, listed>>
<1>1. CASE PageStep
    BY <1>1 DEF PageStep, Open, FindPackageConfig, OpenLogFile, Close
<1>2. CASE Refresh \/ Icons \/ UseSettings
    BY <1>2 DEF Refresh, Icons, UseSettings, Load, Watch, EnterIndex, UseSetting, EditSetting
<1>3. CASE IsolateStep
    BY <1>3, IsolateShape
<1> QED
    BY <1>1, <1>2, <1>3 DEF Next

\* Only handlers add replies.
LEMMA RepliesShrink ==
    ASSUME Types, Next, ~HostStep
    PROVE  /\ Len(replies') \in Nat
           /\ \A i \in 1..Len(replies') : \E j \in 1..Len(replies) : replies'[i] = replies[j]
<1>1. CASE UNCHANGED replies
    BY <1>1, Messages
<1>2. CASE replies' = <<>>
    BY <1>2
<1>3. CASE IsolateStep
  <2>1. /\ replies' \in Seq(Replies)
        /\ \A i \in 1..Len(replies') : i + 1 \in 1..Len(replies) /\ replies'[i] = replies[i + 1]
      BY <1>3, IsolateShape, TakeFacts
  <2> QED
      BY <2>1
<1>4. CASE PageStep \/ Refresh \/ Icons \/ UseSettings
    BY <1>1, <1>2, <1>4 DEF PageStep, Open, FindPackageConfig, OpenLogFile, Close, Refresh, Icons,
        UseSettings, Load, ProcessStarts, ProcessExits, Watch, EnterIndex, GetIconPngData, Call,
        UseSetting, EditSetting
<1> QED
    BY <1>3, <1>4 DEF Next

LEMMA ReferencedStep ==
    ASSUME Types, OnlyRunning, Kinds, Referenced, Next
    PROVE  Referenced'
<1>1. ASSUME NEW i \in 1..Len(replies), replies[i].task \in Loads, NEW s \in replies[i].value
      PROVE  s[1] \in Addresses /\ refs[s[1]] > 0
    BY <1>1 DEF Kinds, Items, Referenced
<1>2. CASE HostStep
  <2>1. PICK what \in Methods, value \in Values :
            /\ Answer(what, value)
            /\ UNCHANGED listed
            /\ \/ /\ what = "items" /\ value = {<<a, memory[a]>> : a \in listed}
                  /\ refs' = [a \in Addresses |-> IF a \in listed THEN refs[a] + 1 ELSE refs[a]]
                  /\ UNCHANGED memory
               \/ what # "items" /\ UNCHANGED <<refs, memory>>
               \/ /\ what = "icon" /\ Cardinality(FreeHandles) > 2
                  /\ memory' = [memory EXCEPT ![NewBitmap] = Bitmap(Requested, session)]
                  /\ UNCHANGED refs
      BY <1>2, HostShape
  <2>2. /\ requests[1].what = what /\ 1 \in 1..Len(requests)
        /\ Len(replies') = Len(replies) + 1 /\ Len(replies) \in Nat
        /\ replies'[Len(replies) + 1] = [task |-> requests[1].task, value |-> value]
        /\ \A i \in 1..Len(replies) : replies'[i] = replies[i]
      BY <2>1, AnswerFacts, Messages
  <2>3. \A a \in listed' : memory'[a] # FREE
    <3>1. Cardinality(FreeHandles) > 2 => \A a \in listed : a # NewBitmap
        BY PlaceOfBitmap, PlacesAssumption DEF Types
    <3> QED
        BY <2>1, <3>1 DEF Referenced, Types, Places
  <2>4. \A a \in Addresses : refs[a] > 0 => refs'[a] > 0
      BY <2>1 DEF Types
  <2>5. requests[1].task \in Loads => \A s \in value : refs'[s[1]] > 0
    <3> SUFFICES ASSUME requests[1].task \in Loads, NEW s \in value PROVE refs'[s[1]] > 0
        OBVIOUS
    <3>1. what = "items"
        BY <2>2 DEF Kinds
    <3>2. s[1] \in listed
        BY <2>1, <3>1
    <3> QED
        BY <2>1, <3>1, <3>2 DEF Types
  <2>6. \A i \in 1..Len(replies') :
            replies'[i].task \in Loads => \A s \in replies'[i].value : refs'[s[1]] > 0
    <3> SUFFICES ASSUME NEW i \in 1..Len(replies'), replies'[i].task \in Loads
                 PROVE  \A s \in replies'[i].value : refs'[s[1]] > 0
        OBVIOUS
    <3>1. CASE i \in 1..Len(replies)
        BY <1>1, <2>2, <2>4, <3>1
    <3>2. CASE i = Len(replies) + 1
        BY <2>2, <2>5, <3>2
    <3> QED
        BY <2>2, <3>1, <3>2
  <2> QED
      BY <2>3, <2>6 DEF Referenced
<1>3. CASE ~HostStep
  <2>1. \A i \in 1..Len(replies') : \E j \in 1..Len(replies) : replies'[i] = replies[j]
      BY <1>3, RepliesShrink
  <2>2. refs' = refs
      BY <1>3, MemoryStays DEF ProcessStarts, ProcessExits
  <2>3. \A i \in 1..Len(replies') :
            replies'[i].task \in Loads => \A s \in replies'[i].value : refs'[s[1]] > 0
      BY <1>1, <2>1, <2>2
  <2>4. ASSUME NEW p \in Processes, ProcessStarts(p)
        PROVE  \A a \in listed' : memory'[a] # FREE
    <3> DEFINE a == Place[FreeIn(Addresses)]
    <3>1. p # FREE
        BY MarksAssumption DEF Objects
    <3>2. memory' = [memory EXCEPT ![a] = p] /\ listed' = listed \union {a} /\ a \in Places
        BY <2>4, PlaceOfFree DEF ProcessStarts, Places
    <3> HIDE DEF a
    <3> QED
        BY <3>1, <3>2 DEF Referenced, Types, Places
  <2>5. ASSUME NEW a \in Addresses, ProcessExits(a)
        PROVE  \A b \in listed' : memory'[b] # FREE
      BY <2>5 DEF ProcessExits, Referenced, Types, Places
  <2>6. \A a \in listed' : memory'[a] # FREE
      BY <1>3, <2>4, <2>5, MemoryStays DEF Referenced
  <2> QED
      BY <2>3, <2>6 DEF Referenced
<1> QED
    BY <1>2, <1>3

\* What the processes do, they do elsewhere than at the handles.
LEMMA HandlesStay ==
    ASSUME Types, Next, ~HostStep
    PROVE  \A h \in Handles : memory'[h] = memory[h]
<1>1. ASSUME NEW p \in Processes, ProcessStarts(p)
      PROVE  \A h \in Handles : memory'[h] = memory[h]
  <2>1. Place[FreeIn(Addresses)] \in Addresses
      BY <1>1, PlaceOfFree DEF ProcessStarts
  <2> QED
      BY <1>1, <2>1, PlacesAssumption DEF ProcessStarts, Types, Places
<1>2. ASSUME NEW a \in Addresses, ProcessExits(a)
      PROVE  \A h \in Handles : memory'[h] = memory[h]
    BY <1>2, PlacesAssumption DEF ProcessExits, Types, Places
<1> QED
    BY <1>1, <1>2, MemoryStays

\* A failure to make a bitmap is not forgotten.
LEMMA UnmadeStays ==
    ASSUME Types, Referenced, Next
    PROVE  unmade \subseteq unmade'
<1>1. CASE HostStep
    BY <1>1, HostShape
<1>2. CASE IsolateStep
    BY <1>2, IsolateShape
<1>3. CASE PageStep
    BY <1>3 DEF PageStep, Open, FindPackageConfig, OpenLogFile, Close
<1>4. CASE Refresh \/ Icons \/ UseSettings
    BY <1>4 DEF Refresh, Load, ProcessStarts, ProcessExits, Icons, Watch, EnterIndex,
                UseSettings, UseSetting, EditSetting
<1> QED
    BY <1>1, <1>2, <1>3, <1>4 DEF Next

\* A fetch under way is for the same icon, in the same session, as before.
LEMMA MeaningStays ==
    ASSUME Types, OnlyRunning, Referenced, Next, Len(replies') > 0, replies # <<>> \/ HostStep
    PROVE  /\ UNCHANGED session
           /\ \A f \in Fetches : Asks(f) => IconOf(f)' = IconOf(f)
<1>1. CASE HostStep
    BY <1>1, HostShape DEF IconOf
<1>2. CASE IsolateStep
    BY <1>2, IsolateShape DEF IconOf
<1>3. CASE replies # <<>> /\ (PageStep \/ Refresh \/ Icons \/ UseSettings)
  <2>1. page = "running"
      BY <1>3 DEF OnlyRunning
  <2>2. ~Open /\ ~FindPackageConfig /\ ~OpenLogFile /\ ~Close
      BY <2>1 DEF Open, FindPackageConfig, OpenLogFile, Close
  <2>3. CASE UNCHANGED <<asked, session>>
      BY <2>3 DEF IconOf
  <2>4. ASSUME NEW k \in Large, EnterIndex(k)
        PROVE  UNCHANGED session /\ \A f \in Fetches : Asks(f) => IconOf(f)' = IconOf(f)
    <3>1. Fetches \subseteq Tasks
        BY DEF Tasks
    <3> QED
        BY <2>4, <3>1, EnterFacts DEF IconOf
  <2> QED
      BY <1>3, <2>2, <2>3, <2>4 DEF PageStep, Refresh, Icons, UseSettings, Load, ProcessStarts,
          ProcessExits, Watch, UseSetting, EditSetting
<1> QED
    BY <1>1, <1>2, <1>3 DEF Next

LEMMA DrawnStep ==
    ASSUME Types, OnlyRunning, Kinds, Referenced, Drawn, Next
    PROVE  Drawn'
<1> SUFFICES ASSUME NEW i \in 1..Len(replies'), NEW f \in Fetches, NEW v,
                    replies'[i].task = f, replies'[i].value = v
             PROVE  /\ v \in Handles \union {NULL, ERROR}
                    /\ v \in Handles => memory'[v] = Bitmap(IconOf(f)', session')
                    /\ v = NULL => Bitmap(IconOf(f)', session') \in unmade'
    BY DEF Drawn, IconOf, Bitmap
<1>1. unmade \subseteq unmade'
    BY UnmadeStays
\* An answer that was under way before.
<1>2. ASSUME NEW j \in 1..Len(replies), replies[j].task = f, replies[j].value = v
      PROVE  /\ v \in Handles \union {NULL, ERROR}
             /\ v \in Handles => memory'[v] = Bitmap(IconOf(f)', session')
             /\ v = NULL => Bitmap(IconOf(f)', session') \in unmade'
  <2>1. /\ Asks(f)
        /\ v \in Handles \union {NULL, ERROR}
        /\ v \in Handles => memory[v] = Bitmap(IconOf(f), session)
        /\ v = NULL => Bitmap(IconOf(f), session) \in unmade
      BY <1>2 DEF Kinds, Drawn
  <2>2. replies # <<>> /\ Len(replies') > 0
      BY <1>2, Messages
  <2>3. IconOf(f)' = IconOf(f) /\ session' = session
      BY <2>1, <2>2, MeaningStays
  <2>4. Bitmap(IconOf(f), session) # FREE
    <3>1. session \in 1..MaxSessions
        BY <2>2, BoundsAssumption DEF OnlyRunning, Types
    <3>2. IconOf(f) \in Keys
        BY <2>1, IconOfFetch
    <3> QED
        BY <3>1, <3>2, MarksAssumption DEF Objects
  <2>5. v \in Handles => memory'[v] = memory[v]
    <3>1. CASE HostStep
      <4>1. \/ UNCHANGED memory
            \/ /\ Cardinality(FreeHandles) > 2
               /\ memory' = [memory EXCEPT ![NewBitmap] = Bitmap(Requested, session)]
          BY <3>1, HostShape
      <4>2. Cardinality(FreeHandles) > 2 /\ v \in Handles => v # NewBitmap
          BY <2>1, <2>4, PlaceOfBitmap
      <4> QED
          BY <4>1, <4>2 DEF Types, Places
    <3>2. CASE ~HostStep
        BY <3>2, HandlesStay
    <3> QED
        BY <3>1, <3>2
  <2> QED
      BY <1>1, <2>1, <2>3, <2>5
<1>3. CASE ~HostStep
  <2>1. \E j \in 1..Len(replies) : replies'[i] = replies[j]
      BY <1>3, RepliesShrink
  <2> QED
      BY <1>2, <2>1
<1>4. CASE HostStep
  <2>1. PICK what \in Methods, value \in Values :
            /\ Answer(what, value)
            /\ UNCHANGED <<asked, session>>
            /\ \/ what # "icon"
               \/ value = ERROR
               \/ value = NULL /\ Bitmap(Requested, session) \in unmade'
               \/ /\ value = NewBitmap /\ Cardinality(FreeHandles) > 2
                  /\ memory' = [memory EXCEPT ![NewBitmap] = Bitmap(Requested, session)]
      BY <1>4, HostShape
  <2>2. /\ requests[1].what = what /\ 1 \in 1..Len(requests)
        /\ Len(replies') = Len(replies) + 1 /\ Len(replies) \in Nat
        /\ replies'[Len(replies) + 1] = [task |-> requests[1].task, value |-> value]
        /\ \A j \in 1..Len(replies) : replies'[j] = replies[j]
      BY <2>1, AnswerFacts, Messages
  <2>3. CASE i \in 1..Len(replies)
      BY <1>2, <2>2, <2>3
  <2>4. CASE i = Len(replies) + 1
    <3>1. f = requests[1].task /\ v = value
        BY <2>2, <2>4
    <3>2. what = "icon"
        BY <2>2, <3>1 DEF Kinds
    <3>3. Requested = IconOf(f)
        BY <2>1, <3>1, <3>2, RequestedFacts
    <3>4. IconOf(f)' = IconOf(f)
        BY <2>1 DEF IconOf
    <3>5. CASE v = ERROR
        BY <3>5, MarksAssumption
    <3>6. CASE v = NULL /\ Bitmap(Requested, session) \in unmade'
        BY <2>1, <3>3, <3>4, <3>6, PlacesAssumption DEF Places
    <3>7. CASE /\ v = NewBitmap /\ Cardinality(FreeHandles) > 2
               /\ memory' = [memory EXCEPT ![NewBitmap] = Bitmap(Requested, session)]
      <4>1. v \in Handles /\ v # NULL
          BY <3>7, PlaceOfBitmap, PlacesAssumption DEF Places
      <4> QED
          BY <2>1, <3>3, <3>4, <3>7, <4>1 DEF Types, Places
    <3> QED
        BY <2>1, <3>1, <3>2, <3>5, <3>6, <3>7
  <2> QED
      BY <2>2, <2>3, <2>4
<1> QED
    BY <1>3, <1>4

LEMMA NextInv == IInv /\ [Next]_vars => IInv'
<1> SUFFICES ASSUME IInv, [Next]_vars PROVE IInv'
    OBVIOUS
<1> USE DEF IInv
<1>1. CASE Next
  <2>1. Types'
      BY <1>1, TypesPage, TypesCalls, TypesHost, TypesIsolate DEF Next
  <2> QED
      BY <1>1, <2>1, OnlyRunningStep, KindsStep, ReferencedStep, DrawnStep
<1>2. CASE UNCHANGED vars
    BY <1>2 DEF vars, Types, OnlyRunning, Kinds, Asks, Referenced, Drawn, IconOf
<1> QED
    BY <1>1, <1>2

-----------------------------------------------------------------------------
(* The refinement.                                                         *)

Sent == SentItems \union SentBitmaps

\* Message m carries the pair s of a place and an object.
Carries(m, s) ==
    \/ m.task \in Loads /\ s \in m.value
    \/ m.task \in Fetches /\ m.value \in Handles /\ s = <<m.value, Bitmap(IconOf(m.task), session)>>

LEMMA SentNow ==
    ASSUME Types
    PROVE  \A s : s \in Sent <=> \E i \in 1..Len(replies) : Carries(replies[i], s)
<1>1. DOMAIN replies = 1..Len(replies)
    BY Messages
<1> QED
    BY <1>1 DEF Sent, SentItems, SentBitmaps, Carries

LEMMA SentNext ==
    ASSUME Types'
    PROVE  \A s : s \in Sent' <=> \E i \in 1..Len(replies') : Carries(replies[i], s)'
<1>1. DOMAIN replies' = 1..Len(replies')
  <2>1. replies' \in Seq(Replies)
      BY DEF Types
  <2> QED
      BY <2>1
<1> QED
    BY <1>1 DEF Sent, SentItems, SentBitmaps, Carries

\* What is carried has the address of a referenced item, or a handle.
LEMMA SentPlaces ==
    ASSUME IInv, NEW s \in Sent
    PROVE  \/ s[1] \in Addresses /\ refs[s[1]] > 0
           \/ s[1] \in Handles
<1> USE DEF IInv
<1>1. PICK i \in 1..Len(replies) : Carries(replies[i], s)
    BY SentNow
<1> QED
    BY <1>1 DEF Carries, Kinds, Items, Referenced

\* Nothing but a handler hands out addresses.
LEMMA SentShrinks ==
    ASSUME IInv, IInv', Next, ~HostStep
    PROVE  Sent' \subseteq Sent
<1> USE DEF IInv
<1> SUFFICES ASSUME NEW s \in Sent' PROVE s \in Sent
    OBVIOUS
<1>1. PICK i \in 1..Len(replies') : Carries(replies[i], s)'
    BY SentNext
<1>2. PICK j \in 1..Len(replies) : replies'[i] = replies[j]
    BY RepliesShrink
<1>3. replies # <<>> /\ Len(replies') > 0 /\ Asks(replies[j].task)
    BY <1>2, Messages, RepliesShrink DEF Kinds
<1>4. UNCHANGED session /\ \A f \in Fetches : Asks(f) => IconOf(f)' = IconOf(f)
    BY <1>3, MeaningStays
<1>5. Carries(replies[j], s)
  <2>1. CASE replies'[i].task \in Loads /\ s \in replies'[i].value
      BY <1>2, <2>1 DEF Carries
  <2>2. ASSUME NEW f \in Fetches, f = replies'[i].task, replies'[i].value \in Handles,
               s = <<replies'[i].value, Bitmap(IconOf(f)', session')>>
        PROVE  Carries(replies[j], s)
      BY <1>2, <1>3, <1>4, <2>2 DEF Carries
  <2> QED
      BY <1>1, <2>1, <2>2 DEF Carries, IconOf, Bitmap
<1> QED
    BY <1>5, SentNow

\* A handler hands out what its answer carries, and nothing is lost.
LEMMA SentGrows ==
    ASSUME IInv, IInv', HostStep, NEW what \in Methods, NEW value \in Values, Answer(what, value),
           UNCHANGED <<asked, session>>
    PROVE  \A s : s \in Sent' <=>
                \/ s \in Sent
                \/ Carries([task |-> requests[1].task, value |-> value], s)
<1> USE DEF IInv
<1>1. /\ Len(replies') = Len(replies) + 1 /\ Len(replies) \in Nat
      /\ replies'[Len(replies) + 1] = [task |-> requests[1].task, value |-> value]
      /\ \A i \in 1..Len(replies) : replies'[i] = replies[i]
    BY AnswerFacts, Messages
<1>2. \A s : s \in Sent' <=> \E i \in 1..Len(replies') : Carries(replies'[i], s)
    BY SentNext DEF Carries, IconOf
<1>3. \A s : s \in Sent <=> \E i \in 1..Len(replies) : Carries(replies[i], s)
    BY SentNow
<1> QED
    BY <1>1, <1>2, <1>3

LEMMA RefinesInit == Init => Abstract!Init
BY DEF Init, Abstract!Init, SentItems, SentBitmaps

\* Every step is a step of HostObjects, or none: a process that starts is
\* created; one that exits is freed unless its item is referenced; the addresses
\* of an enumeration are sent; a bitmap is created and its handle sent at once.
LEMMA RefinesNext ==
    ASSUME IInv, IInv', [Next]_vars
    PROVE  Abstract!Next \/ UNCHANGED <<memory, Sent>>
<1> USE DEF IInv
<1>1. CASE UNCHANGED vars
    BY <1>1 DEF vars, Sent, SentItems, SentBitmaps, IconOf
<1>2. ASSUME Next, ~HostStep, UNCHANGED memory PROVE Abstract!Next
    BY <1>2, SentShrinks DEF Abstract!Next, Abstract!Receive, Sent
<1>3. ASSUME NEW p \in Processes, ProcessStarts(p) PROVE Abstract!Next
  <2> DEFINE a == Place[FreeIn(Addresses)]
  <2>1. a \in Places /\ memory[a] = FREE /\ memory' = [memory EXCEPT ![a] = p] /\ p \in Objects
      BY <1>3, PlaceOfFree DEF ProcessStarts, Places, Objects
  <2>2. Sent' = Sent
      BY <1>3 DEF ProcessStarts, Sent, SentItems, SentBitmaps, IconOf
  <2> HIDE DEF a
  <2>3. Abstract!Create(a, p)
      BY <2>1, <2>2 DEF Abstract!Create, Sent
  <2> QED
      BY <2>1, <2>3 DEF Abstract!Next
<1>4. ASSUME NEW a \in Addresses, ProcessExits(a) PROVE Abstract!Next
  <2>1. Sent' = Sent
      BY <1>4 DEF ProcessExits, Sent, SentItems, SentBitmaps, IconOf
  <2>2. a \in Places /\ memory[a] # FREE
      BY <1>4 DEF ProcessExits, Referenced, Places
  <2>3. CASE refs[a] = 0
    <3>1. \A s \in Sent : s[1] # a
        BY <2>3, SentPlaces, PlacesAssumption
    <3>2. Abstract!Free(a)
        BY <1>4, <2>1, <2>2, <2>3, <3>1 DEF ProcessExits, Abstract!Free, Sent
    <3> QED
        BY <2>2, <3>2 DEF Abstract!Next
  <2>4. CASE refs[a] # 0
      BY <1>4, <2>1, <2>4 DEF ProcessExits, Abstract!Next, Abstract!Receive, Sent
  <2> QED
      BY <2>3, <2>4
<1>5. ASSUME HostStep PROVE Abstract!Next
  <2>1. PICK what \in Methods, value \in Values :
            /\ Answer(what, value)
            /\ UNCHANGED <<asked, session, listed>>
            /\ \/ what = "items" /\ value = {<<a, memory[a]>> : a \in listed} /\ UNCHANGED memory
               \/ what = "icon" /\ value = ERROR /\ UNCHANGED memory
               \/ what = "icon" /\ value = NULL /\ UNCHANGED memory
               \/ /\ what = "icon" /\ value = NewBitmap /\ Cardinality(FreeHandles) > 2
                  /\ memory' = [memory EXCEPT ![NewBitmap] = Bitmap(Requested, session)]
               \/ what \notin {"items", "icon"} /\ UNCHANGED memory
      BY <1>5, HostShape
  <2> DEFINE m == [task |-> requests[1].task, value |-> value]
  <2>2. \A s : s \in Sent' <=> s \in Sent \/ Carries(m, s)
      BY <1>5, <2>1, SentGrows
  <2>3. /\ what = "items" <=> m.task \in Loads
        /\ what = "icon" <=> m.task \in Fetches
    <3>1. requests[1].what = what /\ 1 \in 1..Len(requests)
        BY <2>1, AnswerFacts
    <3>2. m.task = requests[1].task
        OBVIOUS
    <3> HIDE DEF m
    <3> QED
        BY <3>1, <3>2 DEF Kinds
  <2>4. m.value = value
      OBVIOUS
  <2> HIDE DEF m
  <2>5. CASE what = "items" /\ value = {<<a, memory[a]>> : a \in listed} /\ UNCHANGED memory
    <3>1. \A s \in Sent' \ Sent : s[1] \in Places /\ s[2] = memory[s[1]] /\ s[2] # FREE
      <4> SUFFICES ASSUME NEW s \in Sent' \ Sent
                   PROVE  s[1] \in Places /\ s[2] = memory[s[1]] /\ s[2] # FREE
          OBVIOUS
      <4>1. m.task \in Loads /\ m.task \notin Fetches
          BY <2>3, <2>5
      <4>2. s \in value
          BY <2>2, <2>4, <4>1 DEF Carries
      <4>3. PICK a \in listed : s = <<a, memory[a]>>
          BY <2>5, <4>2
      <4> QED
          BY <4>3 DEF Referenced, Types, Places
    <3> QED
        BY <2>2, <2>5, <3>1 DEF Abstract!Next, Abstract!Send, Sent
  <2>6. CASE what # "items" /\ value \notin Handles /\ UNCHANGED memory
    <3>1. Sent' = Sent
        BY <2>2, <2>3, <2>4, <2>6 DEF Carries
    <3> QED
        BY <2>6, <3>1 DEF Abstract!Next, Abstract!Receive, Sent
  <2>7. CASE what \notin {"items", "icon"} /\ UNCHANGED memory
    <3>1. Sent' = Sent
        BY <2>2, <2>3, <2>7 DEF Carries
    <3> QED
        BY <2>7, <3>1 DEF Abstract!Next, Abstract!Receive, Sent
  <2>8. CASE /\ what = "icon" /\ value = NewBitmap /\ Cardinality(FreeHandles) > 2
             /\ memory' = [memory EXCEPT ![NewBitmap] = Bitmap(Requested, session)]
    <3> DEFINE o == Bitmap(Requested, session)
    <3>1. NewBitmap \in Handles /\ NewBitmap \in Places /\ memory[NewBitmap] = FREE
        BY <2>8, PlaceOfBitmap DEF Places
    <3>2. /\ Requested = IconOf(m.task) /\ Requested \in Keys /\ session \in 1..MaxSessions
        BY <2>1, <2>8, RequestedFacts DEF m
    <3>3. o \in Objects
        BY <3>2 DEF Objects
    <3>4. \A s : Carries(m, s) <=> s = <<NewBitmap, o>>
        BY <2>3, <2>4, <2>8, <3>1, <3>2 DEF Carries
    <3>5. Sent' = Sent \union {<<NewBitmap, o>>}
        BY <2>2, <3>4
    <3> HIDE DEF o
    <3>6. Abstract!Create(NewBitmap, o)
        BY <2>8, <3>1, <3>5 DEF Abstract!Create, Sent, o
    <3> QED
        BY <3>1, <3>3, <3>6 DEF Abstract!Next
  <2>9. ERROR \notin Handles /\ NULL \notin Handles
      BY MarksAssumption, PlacesAssumption DEF Places
  <2> QED
      BY <2>1, <2>5, <2>6, <2>7, <2>8, <2>9
<1> QED
    BY <1>1, <1>2, <1>3, <1>4, <1>5, MemoryStays

\* api.cpp:80-95, 147-151: no process item and no bitmap is freed while its
\* address is on its way to the isolate, however many refreshes and fetches are
\* under way and whatever processes do meanwhile.
THEOREM Refines == Spec => ImplementsHostObjects
<1>1. IInv /\ IInv' /\ [Next]_vars => [Abstract!Next]_(Abstract!vars)
    BY RefinesNext DEF Abstract!vars, Sent
<1> QED
    BY <1>1, InitInv, NextInv, RefinesInit, PTL DEF Spec, ImplementsHostObjects, Abstract!Spec

\* Whoever reads through an address or a handle finds the object it was handed
\* out for: proc_items.dart:381-394 copies the process that was listed, and
\* icon.dart:37-57 the bitmap that was made.
THEOREM AddressesHold == Spec => []Abstract!AddressesTell
<1> DEFINE Tells == Abstract!AddressesTell /\ \A s \in Sent : s[1] \in Places /\ s[2] # FREE
<1>1. Init => Tells
    BY DEF Init, Abstract!AddressesTell, Sent, SentItems, SentBitmaps
<1>2. ASSUME IInv, IInv', Tells, [Next]_vars PROVE Tells'
  <2>1. memory \in [Places -> Objects \union {FREE}]
      BY <1>2 DEF IInv, Types
  <2>2. Abstract!Next \/ UNCHANGED <<memory, Sent>>
      BY <1>2, RefinesNext
  <2>3. ASSUME NEW p \in Places, Abstract!Free(p) PROVE Tells'
      BY <1>2, <2>1, <2>3 DEF Abstract!Free, Abstract!AddressesTell, Sent
  <2>4. ASSUME NEW p \in Places, NEW o \in Objects, Abstract!Create(p, o) PROVE Tells'
    <3>1. o # FREE
        BY MarksAssumption
    <3>2. Sent' = Sent \/ Sent' = Sent \union {<<p, o>>}
        BY <2>4 DEF Abstract!Create, Sent
    <3>3. memory[p] = FREE /\ memory' = [memory EXCEPT ![p] = o]
        BY <2>4 DEF Abstract!Create
    <3>4. \A s \in Sent : memory'[s[1]] = memory[s[1]]
        BY <1>2, <2>1, <3>3 DEF Abstract!AddressesTell, Sent
    <3> QED
        BY <1>2, <2>1, <3>1, <3>2, <3>3, <3>4 DEF Abstract!AddressesTell, Sent
  <2>5. CASE Abstract!Send
      BY <1>2, <2>5 DEF Abstract!Send, Abstract!AddressesTell, Sent
  <2>6. CASE Abstract!Receive
      BY <1>2, <2>6 DEF Abstract!Receive, Abstract!AddressesTell, Sent
  <2>7. CASE UNCHANGED <<memory, Sent>>
      BY <1>2, <2>7 DEF Abstract!AddressesTell, Sent
  <2> QED
      BY <2>2, <2>3, <2>4, <2>5, <2>6, <2>7 DEF Abstract!Next
<1> QED
    BY <1>1, <1>2, InitInv, NextInv, PTL DEF Spec
=============================================================================
