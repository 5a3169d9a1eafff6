--------------------------- MODULE ProcessesProofs ---------------------------
(***************************************************************************)
(* Safety of Processes for any number of calls, files and choices.  The    *)
(* argument: a call that is suspended has exactly one message under way    *)
(* (Channel), so that the reply it resumes with is the answer to what it   *)
(* waits for; and what an answer carries, or what the buffer holds by      *)
(* then, is no older than the call (Fresh).                                *)
(***************************************************************************)
EXTENDS Processes, SequenceFacts, TLAPS

-----------------------------------------------------------------------------
(* The inductive invariant.                                                *)

Times == 0..MaxClock
Items == {NoItems} \union {CsvItems(f) : f \in Csvs} \union {PhItems(n) : n \in Times}
Statistics == {NULL, TORN} \union Times
Infos ==
    [processItems : Items, itemsType : {NULL, "csv", "ph"}, statistics : Statistics,
     ptrSystemBasicInformation : BOOLEAN, briefInfo : {NULL} \union Csvs,
     choice : [Choices -> BOOLEAN]]
Ends == {"idle", "done", "failed"}
CallRecords ==
    [kind : Kinds \union {"update", NULL}, at : Suspended \union Ends, since : Times,
     self : Infos, items : Items, statistics : Statistics]

Types ==
    /\ state \in Infos
    /\ call \in [Calls -> CallRecords]
    /\ requests \in Seq([call : Calls, what : Suspended])
    /\ replies \in Seq([call : Calls, value : {NULL, TRUE} \union Times])
    /\ clock \in Times
    /\ buffer \in {NULL} \union Times
    /\ writing \in BOOLEAN

\* A message under way is of a suspended call, which has no other; a request is
\* for what the call waits for.
Channel ==
    /\ \A i \in 1..Len(requests) : requests[i].what = call[requests[i].call].at
    /\ \A i \in 1..Len(replies) : InFlight(replies[i].call)
    /\ \A i, j \in 1..Len(requests) : requests[i].call = requests[j].call => i = j
    /\ \A i, j \in 1..Len(replies) : replies[i].call = replies[j].call => i = j
    /\ \A i \in 1..Len(requests), j \in 1..Len(replies) : requests[i].call # replies[j].call

\* No message is lost.
Awaited ==
    \A c \in Calls :
        InFlight(c) => \/ \E i \in 1..Len(requests) : requests[i].call = c
                       \/ \E i \in 1..Len(replies) : replies[i].call = c

\* The host writes the buffer for the request at the head.
WritesForHead == writing => requests # <<>> /\ Head(requests).what = "statistics"

\* What a call waits for, by its method.
Methods ==
    \A c \in Calls :
        /\ InFlight(c) => call[c].kind \in Kinds \union {"update"} /\ call[c].since <= clock
        /\ call[c].at = "statistics" => call[c].kind # "updateCurrentProcesses"
        /\ call[c].at = "items" => call[c].kind # "updateSystemStatistics"
        /\ call[c].at = "basic" => call[c].kind = "update"

\* The buffer was filled after the call was made.
Filled(c) == buffer # NULL /\ call[c].since <= buffer

\* What a call will go on with is no older than the call.
Fresh ==
    /\ buffer # NULL => buffer <= clock
    /\ \A c \in Calls : call[c].kind = "update" /\ call[c].at \in {"items", "basic"} => Filled(c)
    /\ \A c \in Calls :
        call[c].at = "basic" =>
            /\ call[c].items.from = "ph" /\ call[c].items.id \in (call[c].since)..MaxClock
            /\ call[c].statistics \in {TORN} \union (call[c].since)..MaxClock
    /\ \A i \in 1..Len(replies) :
        LET c == replies[i].call
        IN  replies[i].value # NULL =>
                /\ call[c].at = "statistics" => Filled(c)
                /\ call[c].at = "items" => replies[i].value \in (call[c].since)..clock

IInv == Types /\ Channel /\ Awaited /\ WritesForHead /\ Methods /\ Fresh

-----------------------------------------------------------------------------
(* The initial values.                                                     *)

LEMMA Constants == NoItems \in Items /\ InitialState \in Infos /\ NoCall \in CallRecords
<1>1. NoItems \in Items
    BY DEF Items
<1>2. InitialState \in Infos
    BY <1>1, DefaultAssumption DEF InitialState, Infos, Statistics
<1>3. 0 \in Times
    BY BoundAssumption DEF Times
<1> QED
    BY <1>1, <1>2, <1>3 DEF NoCall, CallRecords, Ends, Statistics

-----------------------------------------------------------------------------
(* The initial states.                                                     *)

LEMMA InitInv == Init => IInv
<1> SUFFICES ASSUME Init PROVE IInv
    OBVIOUS
<1>1. call \in [Calls -> CallRecords]
    BY Constants DEF Init, NoCall, CallRecords, Suspended
<1>2. requests \in Seq([call : Calls, what : Suspended]) /\ replies = <<>>
    BY BootAssumption DEF Init, Request, Suspended
<1>3. 0 \in Times
    BY BoundAssumption DEF Times
<1>4. state \in Infos /\ clock = 0 /\ buffer = NULL /\ writing = FALSE
    BY Constants DEF Init
<1>5. Len(requests) = 1 /\ requests[1] = Request(Boot, "statistics") /\ Len(replies) = 0
    BY DEF Init
<1>6. /\ call[Boot].at = "statistics" /\ call[Boot].kind = "update" /\ call[Boot].since = 0
      /\ \A c \in Calls \ {Boot} : call[c].at = "idle"
    BY BootAssumption DEF Init, NoCall
<1>7. Types
  <2>1. replies \in Seq([call : Calls, value : {NULL, TRUE} \union Times])
      BY <1>2
  <2>2. clock \in Times /\ buffer \in {NULL} \union Times /\ writing \in BOOLEAN
      BY <1>3, <1>4
  <2> QED
      BY <1>1, <1>2, <1>4, <2>1, <2>2 DEF Types
<1>8. Channel
    BY <1>5, <1>6 DEF Channel, Request
<1>9. Awaited
  <2>1. 1 \in 1..Len(requests) /\ requests[1].call = Boot
      BY <1>5 DEF Request
  <2> QED
      BY <1>6, <2>1 DEF Awaited, InFlight, Suspended
<1>10. WritesForHead
    BY <1>4 DEF WritesForHead
<1>11. Methods
  <2>1. call[Boot].kind \in Kinds \union {"update"} /\ call[Boot].since <= clock
      BY <1>4, <1>6
  <2> QED
      BY <1>6, <2>1 DEF Methods, InFlight, Suspended
<1>12. Fresh
    BY <1>4, <1>5, <1>6, BootAssumption DEF Fresh
<1> QED
    BY <1>7, <1>8, <1>9, <1>10, <1>11, <1>12 DEF IInv

-----------------------------------------------------------------------------
(* Types.                                                                  *)

LEMMA TypesUser == Types /\ UserStep => Types'
<1> SUFFICES ASSUME Types, UserStep PROVE Types'
    OBVIOUS
<1> USE DEF Types, host
<1>1. ASSUME NEW c \in Calls, NEW kind \in Kinds, Begin(c, kind) PROVE Types'
  <2> DEFINE what == IF kind = "updateCurrentProcesses" THEN "items" ELSE "statistics"
             record == [NoCall EXCEPT !.kind = kind, !.at = what, !.since = clock, !.self = state]
  <2>1. what \in Suspended
      BY DEF Suspended
  <2>2. record \in CallRecords
      BY <2>1, Constants DEF CallRecords, NoCall
  <2>3. call' = [call EXCEPT ![c] = record] /\ requests' = Append(requests, Request(c, what))
        /\ UNCHANGED <<state, replies, clock, buffer, writing>>
      BY <1>1 DEF Begin
  <2>4. Request(c, what) \in [call : Calls, what : Suspended]
      BY <2>1 DEF Request
  <2> HIDE DEF what, record
  <2>5. requests' \in Seq([call : Calls, what : Suspended])
      BY <2>3, <2>4, AppendFacts
  <2> QED
      BY <2>2, <2>3, <2>5
<1>2. ASSUME NEW f \in Csvs, OpenCsv(f) PROVE Types'
  <2>1. CsvItems(f) \in Items
      BY DEF Items
  <2>2. state' \in Infos
      BY <1>2, <2>1 DEF OpenCsv, Infos, Statistics
  <2> QED
      BY <1>2, <2>2 DEF OpenCsv
<1>3. ASSUME NEW k \in Choices, NEW value \in BOOLEAN, Choose(k, value) PROVE Types'
  <2>1. state' \in Infos
      BY <1>3 DEF Choose, Infos
  <2> QED
      BY <1>3, <2>1 DEF Choose
<1> QED
    BY <1>1, <1>2, <1>3 DEF UserStep

\* What an answer does to the channel.
LEMMA AnswerTypes ==
    ASSUME Types, NEW what, NEW value \in {NULL, TRUE} \union Times, Answer(what, value)
    PROVE  /\ requests' \in Seq([call : Calls, what : Suspended])
           /\ replies' \in Seq([call : Calls, value : {NULL, TRUE} \union Times])
<1> USE DEF Types, Answer
<1>1. Head(requests) \in [call : Calls, what : Suspended]
    BY TailFacts
<1>2. [call |-> Head(requests).call, value |-> value]
        \in [call : Calls, value : {NULL, TRUE} \union Times]
    BY <1>1
<1>3. requests' \in Seq([call : Calls, what : Suspended])
    BY TailFacts
<1>4. replies' \in Seq([call : Calls, value : {NULL, TRUE} \union Times])
    BY <1>2, AppendFacts
<1> QED
    BY <1>3, <1>4

LEMMA TypesHost == Types /\ (Tick \/ HostStep) => Types'
<1> SUFFICES ASSUME Types, Tick \/ HostStep PROVE Types'
    OBVIOUS
<1>1. CASE Tick
    BY <1>1, BoundAssumption DEF Tick, Types, Times
<1>2. CASE BeginSystemStatistics
    BY <1>2 DEF BeginSystemStatistics, Types
<1>3. CASE GetSystemStatistics
    BY <1>3, AnswerTypes DEF GetSystemStatistics, Types
<1>4. CASE EnumProcessItems
  <2>1. clock \in {NULL, TRUE} \union Times /\ Answer("items", clock)
      BY <1>4 DEF EnumProcessItems, Types
  <2> QED
      BY <1>4, <2>1, AnswerTypes DEF EnumProcessItems, Types, host
<1>5. CASE GetSystemBasicInformation
    BY <1>5, AnswerTypes DEF GetSystemBasicInformation, Types, host
<1>6. CASE AnswerError
  <2>1. PICK what \in Suspended : Answer(what, NULL)
      BY <1>6 DEF AnswerError
  <2> QED
      BY <1>6, <2>1, AnswerTypes DEF AnswerError, Types, host
<1> QED
    BY <1>1, <1>2, <1>3, <1>4, <1>5, <1>6 DEF HostStep

\* The reply at the head is taken.
LEMMA ReplyTypes ==
    ASSUME Types, replies # <<>>, replies' = Tail(replies)
    PROVE  /\ replies' \in Seq([call : Calls, value : {NULL, TRUE} \union Times])
           /\ Head(replies).value \in {NULL, TRUE} \union Times
<1> DEFINE S == [call : Calls, value : {NULL, TRUE} \union Times]
<1>1. replies \in Seq(S)
    BY DEF Types
<1>2. replies' \in Seq(S) /\ Head(replies) \in S
    BY <1>1, TailFacts
<1> QED
    BY <1>2

\* Only the host answers a request for items, and with a moment.
LEMMA TypesIsolate ==
    ASSUME Types, Channel, Methods, Fresh, IsolateStep
    PROVE  Types'
<1> USE DEF host
<1>1. PICK c \in Calls :
        \/ UpdateGotStatistics(c) \/ UpdateGotItems(c) \/ UpdateGotItemsLast(c)
        \/ UpdateGotBasicInformation(c) \/ CurrentProcessesGotItems(c)
        \/ SystemStatisticsGot(c) \/ CallFails(c)
    BY DEF IsolateStep
<1>2. /\ replies # <<>> /\ replies' = Tail(replies) /\ UNCHANGED <<clock, buffer, writing>>
      /\ Head(replies).call = c
    BY <1>1 DEF UpdateGotStatistics, UpdateGotItems, UpdateGotItemsLast,
                UpdateGotBasicInformation, CurrentProcessesGotItems, SystemStatisticsGot,
                CallFails, Resume
<1> DEFINE value == Head(replies).value
<1>3. /\ replies' \in Seq([call : Calls, value : {NULL, TRUE} \union Times])
      /\ value \in {NULL, TRUE} \union Times
    BY <1>2, ReplyTypes
<1>4. call[c] \in CallRecords /\ ReadBuffer \in Statistics
    BY DEF Types, ReadBuffer, Statistics
<1>5. value # NULL /\ call[c].at = "items" => PhItems(value) \in Items
  <2>1. Len(replies) \in Nat \ {0} /\ Head(replies) = replies[1]
      BY <1>2, TailFacts DEF Types
  <2>2. value # NULL /\ call[c].at = "items" => value \in (call[c].since)..clock
      BY <1>2, <2>1 DEF Fresh
  <2>3. (call[c].since)..clock \subseteq Times
      BY <1>4, BoundAssumption DEF CallRecords, Times, Types
  <2> QED
      BY <2>2, <2>3 DEF Items
<1> HIDE DEF value
<1>6. ASSUME NEW x \in CallRecords, call' = [call EXCEPT ![c] = x]
      PROVE  call' \in [Calls -> CallRecords]
    BY <1>6 DEF Types
<1>7. ASSUME NEW how \in Ends, Finish(c, how)
      PROVE  call' \in [Calls -> CallRecords]
  <2>1. [NoCall EXCEPT !.at = how] \in CallRecords
      BY Constants DEF CallRecords
  <2> QED
      BY <1>7, <2>1, <1>6 DEF Finish
<1>8. ASSUME NEW what \in Suspended, requests' = Append(requests, Request(c, what))
      PROVE  requests' \in Seq([call : Calls, what : Suspended])
  <2>1. Request(c, what) \in [call : Calls, what : Suspended]
      BY DEF Request
  <2> QED
      BY <1>8, <2>1, AppendFacts DEF Types
<1>9. ASSUME NEW self \in Infos, NEW i \in Items, NEW s \in Statistics, Commit(self, i, s)
      PROVE  state' \in Infos
    BY <1>9 DEF Commit, Infos
<1>10. {"items", "basic"} \subseteq Suspended /\ {"done", "failed"} \subseteq Ends
    BY DEF Suspended, Ends
<1>11. CASE UpdateGotStatistics(c)
  <2>1. [call[c] EXCEPT !.at = "items", !.self = state] \in CallRecords
      BY <1>4, <1>10 DEF CallRecords, Types
  <2>2. call' = [call EXCEPT ![c] = [call[c] EXCEPT !.at = "items", !.self = state]]
      BY <1>11 DEF UpdateGotStatistics, Types
  <2>3. requests' = Append(requests, Request(c, "items")) /\ UNCHANGED state
      BY <1>11 DEF UpdateGotStatistics
  <2> QED
      BY <1>2, <1>3, <1>6, <1>8, <1>10, <2>1, <2>2, <2>3 DEF Types
<1>12. CASE UpdateGotItems(c)
  <2>1. PhItems(value) \in Items
      BY <1>12, <1>5 DEF UpdateGotItems, Resume, value
  <2>2. [call[c] EXCEPT !.at = "basic", !.items = PhItems(value), !.statistics = ReadBuffer]
            \in CallRecords
      BY <1>4, <1>10, <2>1 DEF CallRecords
  <2>3. call' = [call EXCEPT ![c] = [call[c] EXCEPT !.at = "basic", !.items = PhItems(value),
                                                    !.statistics = ReadBuffer]]
      BY <1>12 DEF UpdateGotItems, Types, value
  <2>4. requests' = Append(requests, Request(c, "basic")) /\ UNCHANGED state
      BY <1>12 DEF UpdateGotItems
  <2> QED
      BY <1>2, <1>3, <1>6, <1>8, <1>10, <2>2, <2>3, <2>4 DEF Types
<1>13. CASE UpdateGotItemsLast(c)
  <2>1. PhItems(value) \in Items
      BY <1>13, <1>5 DEF UpdateGotItemsLast, Resume, value
  <2>2. call[c].self \in Infos
      BY <1>4 DEF CallRecords
  <2>3. state' \in Infos
      BY <1>13, <1>4, <1>9, <2>1, <2>2 DEF UpdateGotItemsLast, value
  <2> QED
      BY <1>13, <1>2, <1>3, <1>7, <1>10, <2>3 DEF UpdateGotItemsLast, Types
<1>14. CASE UpdateGotBasicInformation(c)
  <2>1. call[c].self \in Infos /\ call[c].items \in Items /\ call[c].statistics \in Statistics
      BY <1>4 DEF CallRecords
  <2>2. state' \in Infos
      BY <1>14, <1>9, <2>1 DEF UpdateGotBasicInformation
  <2> QED
      BY <1>14, <1>2, <1>3, <1>7, <1>10, <2>2 DEF UpdateGotBasicInformation, Types
<1>15. CASE CurrentProcessesGotItems(c)
  <2>1. PhItems(value) \in Items /\ call[c].self \in Infos
      BY <1>15, <1>4, <1>5 DEF CurrentProcessesGotItems, Resume, CallRecords, value
  <2>2. state' \in Infos
      BY <1>15, <2>1 DEF CurrentProcessesGotItems, Infos, value
  <2> QED
      BY <1>15, <1>2, <1>3, <1>7, <1>10, <2>2 DEF CurrentProcessesGotItems, Types
<1>16. CASE SystemStatisticsGot(c)
  <2>1. state' \in Infos
      BY <1>16, <1>4 DEF SystemStatisticsGot, Infos, Types
  <2> QED
      BY <1>16, <1>2, <1>3, <1>7, <1>10, <2>1 DEF SystemStatisticsGot, Types
<1>17. CASE CallFails(c)
    BY <1>17, <1>2, <1>3, <1>7, <1>10 DEF CallFails, Types
<1> QED
    BY <1>1, <1>11, <1>12, <1>13, <1>14, <1>15, <1>16, <1>17

-----------------------------------------------------------------------------
(* The channel.                                                            *)

\* Every message names a call, and every request what a call can wait for.
LEMMA Messages ==
    ASSUME Types
    PROVE  /\ requests \in Seq([call : Calls, what : Suspended])
           /\ replies \in Seq([call : Calls, value : {NULL, TRUE} \union Times])
           /\ Len(requests) \in Nat /\ Len(replies) \in Nat
           /\ \A i \in 1..Len(requests) : requests[i].call \in Calls /\ requests[i].what \in Suspended
           /\ \A i \in 1..Len(replies) : replies[i].call \in Calls
<1>1. /\ requests \in Seq([call : Calls, what : Suspended])
      /\ replies \in Seq([call : Calls, value : {NULL, TRUE} \union Times])
    BY DEF Types
<1>2. ASSUME NEW i \in 1..Len(requests)
      PROVE  requests[i].call \in Calls /\ requests[i].what \in Suspended
  <2>1. requests[i] \in [call : Calls, what : Suspended]
      BY <1>1, ElementFacts
  <2> QED
      BY <2>1
<1>3. ASSUME NEW i \in 1..Len(replies) PROVE replies[i].call \in Calls
  <2>1. replies[i] \in [call : Calls, value : {NULL, TRUE} \union Times]
      BY <1>1, ElementFacts
  <2> QED
      BY <2>1
<1> QED
    BY <1>1, <1>2, <1>3

\* A call that is not suspended sends a request.
LEMMA SendChannel ==
    ASSUME Types, Channel, Awaited, NEW c \in Calls, ~InFlight(c), NEW what \in Suspended,
           NEW r, call' = [call EXCEPT ![c] = r], r.at = what,
           requests' = Append(requests, Request(c, what)), UNCHANGED replies
    PROVE  Channel' /\ Awaited'
<1>1. Request(c, what) \in [call : Calls, what : Suspended]
    BY DEF Request
<1>2. /\ Len(requests') = Len(requests) + 1 /\ requests'[Len(requests) + 1] = Request(c, what)
      /\ \A i \in 1..Len(requests) : requests'[i] = requests[i]
    BY <1>1, Messages, AppendFacts
<1>3. call'[c].at = what /\ \A d \in Calls \ {c} : call'[d] = call[d]
    BY DEF Types
<1>4. /\ \A i \in 1..Len(requests) : requests[i].call # c
      /\ \A i \in 1..Len(replies) : replies[i].call # c
    BY Messages DEF Channel, InFlight
<1>5. Request(c, what).call = c /\ Request(c, what).what = what
    BY DEF Request
<1>6. Channel'
    BY <1>2, <1>3, <1>4, <1>5, Messages DEF Channel, InFlight
<1>7. Awaited'
  <2>1. ASSUME NEW d \in Calls, InFlight(d)'
        PROVE  \/ \E i \in 1..Len(requests') : requests'[i].call = d
               \/ \E i \in 1..Len(replies') : replies'[i].call = d
    <3>1. CASE d = c
        BY <3>1, <1>2, <1>5, Messages
    <3>2. CASE d # c
      <4>1. InFlight(d)
          BY <3>2, <2>1, <1>3 DEF InFlight
      <4> QED
          BY <4>1, <1>2, Messages DEF Awaited
    <3> QED
        BY <3>1, <3>2
  <2> QED
      BY <2>1 DEF Awaited
<1> QED
    BY <1>6, <1>7

\* The host moves the request at the head to the end of the replies.
LEMMA AnswerChannel ==
    ASSUME Types, Channel, Awaited, NEW what, NEW value \in {NULL, TRUE} \union Times,
           Answer(what, value), UNCHANGED call
    PROVE  /\ Channel' /\ Awaited'
           /\ Len(replies') = Len(replies) + 1
           /\ replies'[Len(replies) + 1] = [call |-> Head(requests).call, value |-> value]
           /\ \A i \in 1..Len(replies) : replies'[i] = replies[i]
<1> DEFINE reply == [call |-> Head(requests).call, value |-> value]
<1>1. requests # <<>> /\ requests' = Tail(requests) /\ replies' = Append(replies, reply)
    BY DEF Answer
<1>2. /\ Len(requests) \in Nat \ {0} /\ Len(requests') = Len(requests) - 1
      /\ Head(requests) = requests[1]
      /\ \A i \in 1..Len(requests') : i + 1 \in 1..Len(requests) /\ requests'[i] = requests[i + 1]
      /\ \A i \in 1..Len(requests) :
            i = 1 \/ (i - 1 \in 1..Len(requests') /\ requests'[i - 1] = requests[i])
    BY <1>1, Messages, TailFacts
<1>3. reply \in [call : Calls, value : {NULL, TRUE} \union Times]
  <2>1. 1 \in 1..Len(requests)
      BY <1>2
  <2> QED
      BY <1>2, <2>1, Messages
<1>4. /\ Len(replies') = Len(replies) + 1 /\ replies'[Len(replies) + 1] = reply
      /\ \A i \in 1..Len(replies) : replies'[i] = replies[i]
    BY <1>1, <1>3, Messages, AppendFacts
<1>5. reply.call = requests[1].call
    BY <1>2
<1> HIDE DEF reply
<1>6. Channel'
  <2>1. \A i \in 1..Len(requests') : requests'[i].what = call'[requests'[i].call].at
      BY <1>2 DEF Channel
  <2>2. ASSUME NEW i \in 1..Len(replies') PROVE call'[replies'[i].call].at \in Suspended
    <3>1. CASE i \in 1..Len(replies)
        BY <1>4, <3>1 DEF Channel, InFlight
    <3>2. CASE i = Len(replies) + 1
      <4>1. 1 \in 1..Len(requests)
          BY <1>2
      <4>2. requests[1].what = call[requests[1].call].at /\ requests[1].what \in Suspended
          BY <4>1, Messages DEF Channel
      <4> QED
          BY <1>4, <1>5, <3>2, <4>2
    <3> QED
        BY <1>4, <3>1, <3>2, Messages
  <2>3. \A i, j \in 1..Len(requests') : requests'[i].call = requests'[j].call => i = j
      BY <1>2, Messages DEF Channel
  <2>4. \A i, j \in 1..Len(replies') : replies'[i].call = replies'[j].call => i = j
    <3>1. Len(replies) \in Nat /\ 1 \in 1..Len(requests)
        BY <1>2, Messages
    <3>2. \A i \in 1..Len(replies) : replies'[i].call = replies[i].call
                                     /\ replies'[i].call # requests[1].call
        BY <1>4, <3>1 DEF Channel
    <3>3. ASSUME NEW i \in 1..Len(replies'), NEW j \in 1..Len(replies'),
                 replies'[i].call = replies'[j].call
          PROVE  i = j
      <4>1. CASE i \in 1..Len(replies)
        <5>1. j \in 1..Len(replies)
            BY <1>4, <1>5, <3>1, <3>2, <3>3, <4>1
        <5> QED
            BY <3>2, <3>3, <4>1, <5>1 DEF Channel
      <4>2. CASE i = Len(replies) + 1
          BY <1>4, <1>5, <3>1, <3>2, <3>3, <4>2
      <4> QED
          BY <1>4, <3>1, <4>1, <4>2
    <3> QED
        BY <3>3
  <2>5. ASSUME NEW i \in 1..Len(requests'), NEW j \in 1..Len(replies')
        PROVE  requests'[i].call # replies'[j].call
    <3>1. i + 1 \in 1..Len(requests) /\ requests'[i] = requests[i + 1] /\ 1 \in 1..Len(requests)
        BY <1>2, Messages
    <3>2. CASE j \in 1..Len(replies)
        BY <1>4, <3>1, <3>2 DEF Channel
    <3>3. CASE j = Len(replies) + 1
      <4>1. i + 1 # 1
          BY Messages
      <4> QED
          BY <1>4, <1>5, <3>1, <3>3, <4>1 DEF Channel
    <3> QED
        BY <1>4, <3>2, <3>3, Messages
  <2> QED
      BY <2>1, <2>2, <2>3, <2>4, <2>5 DEF Channel, InFlight
<1>7. Awaited'
  <2>1. ASSUME NEW d \in Calls, InFlight(d)'
        PROVE  \/ \E i \in 1..Len(requests') : requests'[i].call = d
               \/ \E i \in 1..Len(replies') : replies'[i].call = d
    <3>1. InFlight(d)
        BY <2>1 DEF InFlight
    <3>2. ASSUME NEW i \in 1..Len(replies), replies[i].call = d
          PROVE  \E j \in 1..Len(replies') : replies'[j].call = d
        BY <3>2, <1>4, Messages
    <3>3. ASSUME NEW i \in 1..Len(requests), requests[i].call = d, i # 1
          PROVE  \E j \in 1..Len(requests') : requests'[j].call = d
        BY <3>3, <1>2
    <3>4. ASSUME requests[1].call = d
          PROVE  \E j \in 1..Len(replies') : replies'[j].call = d
        BY <3>4, <1>4, <1>5, Messages
    <3> QED
        BY <3>1, <3>2, <3>3, <3>4 DEF Awaited
  <2> QED
      BY <2>1 DEF Awaited
<1> QED
    BY <1>4, <1>6, <1>7 DEF reply

\* The isolate takes the reply at the head, and its call either ends or asks
\* for the next thing.
LEMMA TakeChannel ==
    ASSUME Types, Channel, Awaited, NEW c \in Calls, NEW r, call' = [call EXCEPT ![c] = r],
           replies # <<>>, Head(replies).call = c, replies' = Tail(replies),
           \/ r.at \in Ends /\ requests' = requests
           \/ r.at \in Suspended /\ requests' = Append(requests, Request(c, r.at))
    PROVE  /\ Channel' /\ Awaited'
           /\ Len(replies') = Len(replies) - 1
           /\ \A i \in 1..Len(replies') :
                /\ i + 1 \in 1..Len(replies) /\ replies'[i] = replies[i + 1]
                /\ replies[i + 1].call # c
<1>1. /\ Len(replies) \in Nat \ {0} /\ Len(replies') = Len(replies) - 1
      /\ Head(replies) = replies[1]
      /\ \A i \in 1..Len(replies') : i + 1 \in 1..Len(replies) /\ replies'[i] = replies[i + 1]
      /\ \A i \in 1..Len(replies) :
            i = 1 \/ (i - 1 \in 1..Len(replies') /\ replies'[i - 1] = replies[i])
    BY Messages, TailFacts
<1>2. 1 \in 1..Len(replies) /\ replies[1].call = c
    BY <1>1
<1>3. \A i \in 1..Len(replies') : replies[i + 1].call # c
    BY <1>1, <1>2 DEF Channel
<1>4. \A i \in 1..Len(requests) : requests[i].call # c
    BY <1>2 DEF Channel
<1>5. call'[c].at = r.at /\ \A d \in Calls \ {c} : call'[d] = call[d]
    BY DEF Types
<1>6. \A i \in 1..Len(replies') : InFlight(replies'[i].call) /\ replies'[i].call \in Calls \ {c}
    BY <1>1, <1>3, Messages DEF Channel
<1>7. \A i, j \in 1..Len(replies') : replies'[i].call = replies'[j].call => i = j
    BY <1>1, Messages DEF Channel
<1>8. \A i \in 1..Len(replies') : call'[replies'[i].call].at \in Suspended
    BY <1>5, <1>6 DEF InFlight
<1>9. ASSUME NEW d \in Calls \ {c}, InFlight(d)'
      PROVE  \/ \E i \in 1..Len(requests) : requests[i].call = d
             \/ \E i \in 1..Len(replies') : replies'[i].call = d
  <2>1. InFlight(d)
      BY <1>5, <1>9 DEF InFlight
  <2>2. ASSUME NEW i \in 1..Len(replies), replies[i].call = d
        PROVE  \E j \in 1..Len(replies') : replies'[j].call = d
      BY <2>2, <1>1, <1>2
  <2> QED
      BY <2>1, <2>2 DEF Awaited
<1>10. CASE r.at \in Ends /\ requests' = requests
  <2>1. r.at \notin Suspended
      BY <1>10 DEF Ends, Suspended
  <2>2. Channel'
      BY <1>1, <1>4, <1>5, <1>6, <1>7, <1>8, <1>10, Messages DEF Channel, InFlight
  <2>3. Awaited'
      BY <1>5, <1>9, <1>10, <2>1 DEF Awaited, InFlight
  <2> QED
      BY <1>1, <1>3, <2>2, <2>3
<1>11. CASE r.at \in Suspended /\ requests' = Append(requests, Request(c, r.at))
  <2>1. Request(c, r.at) \in [call : Calls, what : Suspended]
      BY <1>11 DEF Request
  <2>2. /\ Len(requests') = Len(requests) + 1
        /\ requests'[Len(requests) + 1].call = c /\ requests'[Len(requests) + 1].what = r.at
        /\ \A i \in 1..Len(requests) : requests'[i] = requests[i]
      BY <1>11, <2>1, Messages, AppendFacts DEF Request
  <2>9. \A i \in 1..Len(requests') :
            \/ i = Len(requests) + 1
            \/ i \in 1..Len(requests) /\ requests'[i] = requests[i] /\ requests'[i].call # c
      BY <1>4, <2>2, Messages
  <2>3. \A i \in 1..Len(requests') : requests'[i].what = call'[requests'[i].call].at
      BY <1>4, <1>5, <2>2, Messages DEF Channel
  <2>4. \A i, j \in 1..Len(requests') : requests'[i].call = requests'[j].call => i = j
      BY <2>2, <2>9 DEF Channel
  <2>5. \A i \in 1..Len(requests'), j \in 1..Len(replies') : requests'[i].call # replies'[j].call
    <3>1. ASSUME NEW i \in 1..Len(requests), NEW j \in 1..Len(replies')
          PROVE  requests[i].call # replies'[j].call
        BY <1>1 DEF Channel
    <3> QED
        BY <1>6, <2>2, <2>9, <3>1
  <2>6. Channel'
      BY <1>7, <1>8, <2>3, <2>4, <2>5 DEF Channel, InFlight
  <2>7. \A d \in Calls \ {c} : (\E i \in 1..Len(requests) : requests[i].call = d)
                                => \E i \in 1..Len(requests') : requests'[i].call = d
      BY <2>2, Messages
  <2>8. Awaited'
      BY <1>9, <2>2, <2>7, Messages DEF Awaited
  <2> QED
      BY <1>1, <1>3, <2>6, <2>8
<1> QED
    BY <1>10, <1>11

\* What a step of the isolate does to the call it resumes.
Goes(c, r) ==
    \/ /\ r.at \in Ends
       /\ requests' = requests
    \/ /\ call[c].kind = "update" /\ call[c].at = "statistics" /\ Head(replies).value # NULL
       /\ r = [call[c] EXCEPT !.at = "items", !.self = state]
       /\ requests' = Append(requests, Request(c, "items"))
    \/ /\ call[c].kind = "update" /\ call[c].at = "items" /\ Head(replies).value # NULL
       /\ r = [call[c] EXCEPT !.at = "basic", !.items = PhItems(Head(replies).value),
                              !.statistics = ReadBuffer]
       /\ requests' = Append(requests, Request(c, "basic"))

LEMMA IsolateShape ==
    ASSUME Types, IsolateStep
    PROVE  /\ UNCHANGED <<clock, buffer, writing>>
           /\ \E c \in Calls : \E r :
                /\ replies # <<>> /\ Head(replies).call = c /\ replies' = Tail(replies)
                /\ call' = [call EXCEPT ![c] = r]
                /\ Goes(c, r)
<1>1. PICK c \in Calls :
        \/ UpdateGotStatistics(c) \/ UpdateGotItems(c) \/ UpdateGotItemsLast(c)
        \/ UpdateGotBasicInformation(c) \/ CurrentProcessesGotItems(c)
        \/ SystemStatisticsGot(c) \/ CallFails(c)
    BY DEF IsolateStep
<1>2. /\ replies # <<>> /\ Head(replies).call = c /\ replies' = Tail(replies)
      /\ UNCHANGED <<clock, buffer, writing>>
    BY <1>1 DEF UpdateGotStatistics, UpdateGotItems, UpdateGotItemsLast,
                UpdateGotBasicInformation, CurrentProcessesGotItems, SystemStatisticsGot,
                CallFails, Resume, host
<1>3. ASSUME NEW how \in Ends, Finish(c, how), UNCHANGED requests
      PROVE  \E r : call' = [call EXCEPT ![c] = r] /\ Goes(c, r)
  <2>1. [NoCall EXCEPT !.at = how].at = how
      BY DEF NoCall
  <2> QED
      BY <1>3, <2>1 DEF Finish, Goes
<1>4. CASE UpdateGotStatistics(c)
  <2> DEFINE r == [call[c] EXCEPT !.at = "items", !.self = state]
  <2>1. call' = [call EXCEPT ![c] = r]
      BY <1>4 DEF UpdateGotStatistics, Types
  <2>2. Goes(c, r)
      BY <1>4 DEF UpdateGotStatistics, Resume, Goes
  <2> QED
      BY <1>2, <2>1, <2>2
<1>5. CASE UpdateGotItems(c)
  <2> DEFINE r == [call[c] EXCEPT !.at = "basic", !.items = PhItems(Head(replies).value),
                                  !.statistics = ReadBuffer]
  <2>1. call' = [call EXCEPT ![c] = r]
      BY <1>5 DEF UpdateGotItems, Types
  <2>2. Goes(c, r)
      BY <1>5 DEF UpdateGotItems, Resume, Goes
  <2> QED
      BY <1>2, <2>1, <2>2
<1>6. CASE \/ UpdateGotItemsLast(c) \/ UpdateGotBasicInformation(c)
           \/ CurrentProcessesGotItems(c) \/ SystemStatisticsGot(c)
    BY <1>2, <1>3, <1>6 DEF UpdateGotItemsLast, UpdateGotBasicInformation,
            CurrentProcessesGotItems, SystemStatisticsGot, Ends
<1>7. CASE CallFails(c)
    BY <1>2, <1>3, <1>7 DEF CallFails, Ends
<1> QED
    BY <1>1, <1>2, <1>4, <1>5, <1>6, <1>7

LEMMA ChannelStep ==
    ASSUME Types, Channel, Awaited, Methods, Fresh, Next
    PROVE  Channel' /\ Awaited'
<1> USE DEF host
<1>1. CASE UserStep
  <2>1. ASSUME NEW c \in Calls, NEW kind \in Kinds, Begin(c, kind) PROVE Channel' /\ Awaited'
    <3> DEFINE what == IF kind = "updateCurrentProcesses" THEN "items" ELSE "statistics"
               r == [NoCall EXCEPT !.kind = kind, !.at = what, !.since = clock, !.self = state]
    <3>1. what \in Suspended /\ r.at = what
        BY DEF Suspended, NoCall
    <3>2. /\ call' = [call EXCEPT ![c] = r] /\ requests' = Append(requests, Request(c, what))
          /\ UNCHANGED replies /\ call[c].at = "idle"
        BY <2>1 DEF Begin
    <3>3. ~InFlight(c)
        BY <3>2 DEF InFlight, Suspended
    <3> HIDE DEF what, r
    <3> QED
        BY <3>1, <3>2, <3>3, SendChannel
  <2>2. ASSUME NEW f \in Csvs, OpenCsv(f) PROVE Channel' /\ Awaited'
      BY <2>2 DEF OpenCsv, Channel, Awaited, InFlight
  <2>3. ASSUME NEW k \in Choices, NEW value \in BOOLEAN, Choose(k, value)
        PROVE  Channel' /\ Awaited'
      BY <2>3 DEF Choose, Channel, Awaited, InFlight
  <2> QED
      BY <1>1, <2>1, <2>2, <2>3 DEF UserStep
<1>2. CASE Tick
    BY <1>2 DEF Tick, Channel, Awaited, InFlight
<1>3. CASE HostStep
  <2>1. CASE BeginSystemStatistics
      BY <2>1 DEF BeginSystemStatistics, Channel, Awaited, InFlight
  <2>2. ASSUME NEW what, NEW value \in {NULL, TRUE} \union Times, Answer(what, value),
               UNCHANGED call
        PROVE  Channel' /\ Awaited'
      BY <2>2, AnswerChannel
  <2>3. clock \in Times
      BY DEF Types
  <2> QED
      BY <1>3, <2>1, <2>2, <2>3 DEF HostStep, GetSystemStatistics, EnumProcessItems,
                                     GetSystemBasicInformation, AnswerError
<1>4. CASE IsolateStep
  <2>1. PICK c, r :
            /\ c \in Calls
            /\ replies # <<>> /\ Head(replies).call = c /\ replies' = Tail(replies)
            /\ call' = [call EXCEPT ![c] = r]
            /\ Goes(c, r)
      BY <1>4, IsolateShape
  <2>2. call[c] \in CallRecords
      BY <2>1 DEF Types
  <2>3. \/ r.at \in Ends /\ requests' = requests
        \/ r.at \in Suspended /\ requests' = Append(requests, Request(c, r.at))
      BY <2>1, <2>2 DEF Goes, CallRecords, Suspended
  <2> QED
      BY <2>1, <2>3, TakeChannel
<1> QED
    BY <1>1, <1>2, <1>3, <1>4 DEF Next

-----------------------------------------------------------------------------
(* The buffer, the methods and what they hold.                             *)

LEMMA HeadStays ==
    ASSUME Types, requests # <<>>, NEW c \in Calls, NEW what \in Suspended,
           requests' = Append(requests, Request(c, what))
    PROVE  requests' # <<>> /\ Head(requests') = Head(requests)
<1>1. Request(c, what) \in [call : Calls, what : Suspended]
    BY DEF Request
<1> QED
    BY <1>1, Messages

LEMMA WritesStep ==
    ASSUME Types, WritesForHead, Next
    PROVE  WritesForHead'
<1> USE DEF host
<1>1. ASSUME NEW c \in Calls, NEW kind \in Kinds, Begin(c, kind) PROVE WritesForHead'
  <2>1. PICK what \in Suspended : requests' = Append(requests, Request(c, what))
      BY <1>1 DEF Begin, Suspended
  <2> QED
      BY <1>1, <2>1, HeadStays DEF Begin, WritesForHead
<1>2. CASE \/ Tick \/ BeginSystemStatistics
           \/ \E f \in Csvs : OpenCsv(f)
           \/ \E k \in Choices, value \in BOOLEAN : Choose(k, value)
    BY <1>2 DEF Tick, BeginSystemStatistics, OpenCsv, Choose, WritesForHead
<1>3. CASE \/ GetSystemStatistics \/ EnumProcessItems
           \/ GetSystemBasicInformation \/ AnswerError
    BY <1>3 DEF GetSystemStatistics, EnumProcessItems, GetSystemBasicInformation, AnswerError,
                Answer, WritesForHead
<1>4. CASE IsolateStep
  <2>1. UNCHANGED writing
      BY <1>4, IsolateShape
  <2>2. PICK c, r : c \in Calls /\ Goes(c, r)
      BY <1>4, IsolateShape
  <2>3. \/ requests' = requests
        \/ \E what \in Suspended : requests' = Append(requests, Request(c, what))
      BY <2>2 DEF Goes, Suspended
  <2> QED
      BY <2>1, <2>3, HeadStays DEF WritesForHead
<1> QED
    BY <1>1, <1>2, <1>3, <1>4 DEF Next, UserStep, HostStep

LEMMA MethodsStep ==
    ASSUME Types, Methods, Next
    PROVE  Methods'
<1> USE DEF host
<1>1. ASSUME UNCHANGED call, clock' \in {clock, clock + 1} PROVE Methods'
    BY <1>1 DEF Types, Times, Methods, InFlight, CallRecords
<1>2. ASSUME NEW c \in Calls, NEW r, call' = [call EXCEPT ![c] = r], UNCHANGED clock,
             r.at \in Suspended => r.kind \in Kinds \union {"update"} /\ r.since <= clock,
             r.at = "statistics" => r.kind # "updateCurrentProcesses",
             r.at = "items" => r.kind # "updateSystemStatistics",
             r.at = "basic" => r.kind = "update"
      PROVE  Methods'
    BY <1>2 DEF Types, Methods, InFlight
<1>3. ASSUME NEW c \in Calls, NEW kind \in Kinds, Begin(c, kind) PROVE Methods'
  <2> DEFINE what == IF kind = "updateCurrentProcesses" THEN "items" ELSE "statistics"
             r == [NoCall EXCEPT !.kind = kind, !.at = what, !.since = clock, !.self = state]
  <2>1. r.kind = kind /\ r.at = what /\ r.since = clock
      BY DEF NoCall
  <2>2. call' = [call EXCEPT ![c] = r] /\ UNCHANGED clock
      BY <1>3 DEF Begin
  <2>3. clock <= clock
      BY DEF Types, Times
  <2> HIDE DEF r
  <2> QED
      BY <1>2, <2>1, <2>2, <2>3
<1>4. CASE IsolateStep
  <2>1. UNCHANGED clock
      BY <1>4, IsolateShape
  <2>2. PICK c, r : c \in Calls /\ call' = [call EXCEPT ![c] = r] /\ Goes(c, r)
      BY <1>4, IsolateShape
  <2>3. call[c] \in CallRecords /\ (call[c].at \in Suspended => call[c].since <= clock)
      BY <2>2 DEF Types, Methods, InFlight
  <2>4. CASE r.at \in Ends
      BY <1>2, <2>1, <2>2, <2>4 DEF Ends, Suspended
  <2>5. CASE /\ call[c].kind = "update" /\ call[c].at \in {"statistics", "items"}
             /\ r.kind = "update" /\ r.at \in {"items", "basic"} /\ r.since = call[c].since
      BY <1>2, <2>1, <2>2, <2>3, <2>5 DEF Suspended
  <2> QED
      BY <2>2, <2>3, <2>4, <2>5 DEF Goes, CallRecords
<1> QED
    BY <1>1, <1>3, <1>4 DEF Next, UserStep, HostStep, OpenCsv, Choose, Tick,
        BeginSystemStatistics, GetSystemStatistics, EnumProcessItems,
        GetSystemBasicInformation, AnswerError

\* The clock may go on, and the buffer be filled again, without making a call's
\* share older.
LEMMA FreshLater ==
    ASSUME Types, Methods, Fresh, UNCHANGED <<call, replies>>,
           clock' \in Times, clock <= clock', buffer' = buffer
    PROVE  Fresh'
BY DEF Types, Times, CallRecords, Fresh, Filled, Methods

LEMMA FreshUser ==
    ASSUME Types, Channel, Fresh, UserStep
    PROVE  Fresh'
<1> USE DEF host
<1>1. ASSUME NEW c \in Calls, NEW kind \in Kinds, Begin(c, kind) PROVE Fresh'
  <2> DEFINE what == IF kind = "updateCurrentProcesses" THEN "items" ELSE "statistics"
             r == [NoCall EXCEPT !.kind = kind, !.at = what, !.since = clock, !.self = state]
  <2>1. r.kind = kind /\ r.at = what
      BY DEF NoCall
  <2>2. call' = [call EXCEPT ![c] = r] /\ UNCHANGED <<replies, clock, buffer>>
        /\ call[c].at = "idle"
      BY <1>1 DEF Begin
  <2> HIDE DEF r
  <2>3. \A i \in 1..Len(replies) : replies[i].call # c
      BY <2>2 DEF Channel, InFlight, Suspended
  <2>4. call'[c] = r /\ \A d \in Calls \ {c} : call'[d] = call[d]
      BY <2>2 DEF Types
  <2>5. ~(r.kind = "update" /\ r.at \in {"items", "basic"}) /\ r.at # "basic"
      BY <2>1
  <2> HIDE DEF what
  <2> QED
      BY <2>2, <2>3, <2>4, <2>5, Messages DEF Fresh, Filled
<1>2. CASE \/ \E f \in Csvs : OpenCsv(f)
           \/ \E k \in Choices, value \in BOOLEAN : Choose(k, value)
    BY <1>2 DEF OpenCsv, Choose, Fresh, Filled
<1> QED
    BY <1>1, <1>2 DEF UserStep

LEMMA FreshHost ==
    ASSUME Types, Channel, Awaited, WritesForHead, Methods, Fresh, Tick \/ HostStep
    PROVE  Fresh'
<1> USE DEF host
<1>1. CASE Tick
    BY <1>1, FreshLater, BoundAssumption DEF Tick, Types, Times
<1>2. CASE BeginSystemStatistics
    BY <1>2 DEF BeginSystemStatistics, Fresh, Filled
\* An answer to the call at the head.
<1> DEFINE c == Head(requests).call
<1>3. ASSUME NEW what, NEW value \in {NULL, TRUE} \union Times, Answer(what, value),
             UNCHANGED <<call, clock>>,
             buffer' \in {buffer, clock},
             value # NULL /\ what = "statistics" => buffer' = clock,
             value # NULL /\ what = "items" => value = clock
      PROVE  Fresh'
  <2>1. /\ Len(replies') = Len(replies) + 1
        /\ replies'[Len(replies) + 1] = [call |-> c, value |-> value]
        /\ \A i \in 1..Len(replies) : replies'[i] = replies[i]
      BY <1>3, AnswerChannel
  <2>2. c \in Calls /\ call[c].at = what
    <3>1. requests # <<>> /\ Head(requests).what = what
        BY <1>3 DEF Answer
    <3>2. 1 \in 1..Len(requests) /\ Head(requests) = requests[1]
        BY <3>1, Messages, TailFacts
    <3> QED
        BY <3>1, <3>2, Messages DEF Channel
  <2> HIDE DEF c
  <2>3. clock \in Nat /\ clock <= MaxClock /\ buffer' \in {NULL} \union 0..clock
        /\ (buffer # NULL => buffer' # NULL /\ buffer <= buffer')
      BY <1>3, NullAssumption, BoundAssumption DEF Types, Times, Fresh
  <2> DEFINE Full(d) == buffer' # NULL /\ call[d].since <= buffer'
  <2>4. \A d \in Calls : call[d].since \in Nat /\ (Filled(d) => Full(d))
      BY <1>3, <2>3, NullAssumption DEF Types, CallRecords, Times, Filled
  <2>5. call[c].at \in {"statistics", "items"} => call[c].since <= clock
      BY <2>2 DEF Methods, InFlight, Suspended
  <2>6. value # NULL /\ call[c].at = "statistics" => Full(c)
      BY <1>3, <2>2, <2>3, <2>5, NullAssumption
  <2>7. value # NULL /\ call[c].at = "items" => value \in (call[c].since)..clock
      BY <1>3, <2>2, <2>3, <2>4, <2>5
  <2> HIDE DEF Full
  <2>8. \A i \in 1..Len(replies') :
            replies'[i].value # NULL =>
                /\ call[replies'[i].call].at = "statistics" => Full(replies'[i].call)
                /\ call[replies'[i].call].at = "items" =>
                      replies'[i].value \in (call[replies'[i].call].since)..clock
    <3>1. ASSUME NEW i \in 1..Len(replies'), replies'[i].value # NULL
          PROVE  /\ call[replies'[i].call].at = "statistics" => Full(replies'[i].call)
                 /\ call[replies'[i].call].at = "items" =>
                       replies'[i].value \in (call[replies'[i].call].since)..clock
      <4>1. CASE i \in 1..Len(replies)
        <5>1. replies'[i] = replies[i] /\ replies[i].value # NULL
            BY <2>1, <3>1, <4>1
        <5>2. replies[i].call \in Calls
            BY <4>1, Messages
        <5>3. call[replies[i].call].at = "statistics" => Filled(replies[i].call)
            BY <4>1, <5>1 DEF Fresh
        <5>4. call[replies[i].call].at = "items" =>
                  replies[i].value \in (call[replies[i].call].since)..clock
            BY <4>1, <5>1 DEF Fresh
        <5> QED
            BY <5>1, <5>2, <5>3, <5>4, <2>4
      <4>2. CASE i = Len(replies) + 1
        <5>1. replies'[i].call = c /\ replies'[i].value = value
            BY <2>1, <4>2
        <5> QED
            BY <2>6, <2>7, <3>1, <5>1
      <4>3. Len(replies) \in Nat
          BY Messages
      <4> QED
          BY <2>1, <3>1, <4>1, <4>2, <4>3
    <3> QED
        BY <3>1
  <2>9. \A d \in Calls :
            call[d].kind = "update" /\ call[d].at \in {"items", "basic"} => Full(d)
      BY <2>4 DEF Fresh
  <2> USE DEF Full
  <2> QED
      BY <1>3, <2>3, <2>8, <2>9 DEF Fresh, Filled
<1>4. clock \in Times
    BY DEF Types
<1>5. CASE GetSystemStatistics
    BY <1>3, <1>5 DEF GetSystemStatistics
<1>6. CASE EnumProcessItems
    BY <1>3, <1>4, <1>6 DEF EnumProcessItems
<1>7. CASE GetSystemBasicInformation
    BY <1>3, <1>7 DEF GetSystemBasicInformation
<1>8. CASE AnswerError
    BY <1>3, <1>8 DEF AnswerError
<1> QED
    BY <1>1, <1>2, <1>5, <1>6, <1>7, <1>8 DEF HostStep

LEMMA FreshIsolate ==
    ASSUME Types, Channel, Awaited, Methods, Fresh, IsolateStep
    PROVE  Fresh'
<1>1. UNCHANGED <<clock, buffer, writing>>
    BY IsolateShape
<1>2. PICK c, r :
        /\ c \in Calls
        /\ replies # <<>> /\ Head(replies).call = c /\ replies' = Tail(replies)
        /\ call' = [call EXCEPT ![c] = r]
        /\ Goes(c, r)
    BY IsolateShape
<1>3. call[c] \in CallRecords /\ clock \in Times /\ buffer \in {NULL} \union Times
    BY <1>2 DEF Types
<1>4. Len(replies) \in Nat \ {0} /\ Head(replies) = replies[1]
    BY <1>2, Messages, TailFacts
<1>5. \/ r.at \in Ends /\ requests' = requests
      \/ r.at \in Suspended /\ requests' = Append(requests, Request(c, r.at))
    BY <1>2, <1>3 DEF Goes, CallRecords, Suspended
<1>6. /\ Len(replies') = Len(replies) - 1
      /\ \A i \in 1..Len(replies') :
            i + 1 \in 1..Len(replies) /\ replies'[i] = replies[i + 1] /\ replies[i + 1].call # c
    BY <1>2, <1>5, TakeChannel
<1>7. call'[c] = r /\ \A d \in Calls \ {c} : call'[d] = call[d]
    BY <1>2 DEF Types
<1>8. \A i \in 1..Len(replies') :
        LET d == replies'[i].call
        IN  replies'[i].value # NULL =>
                /\ call'[d].at = "statistics" => buffer # NULL /\ call'[d].since <= buffer
                /\ call'[d].at = "items" => replies'[i].value \in (call'[d].since)..clock
  <2> SUFFICES ASSUME NEW i \in 1..Len(replies'), replies'[i].value # NULL
               PROVE  LET d == replies'[i].call
                      IN  /\ call'[d].at = "statistics" => buffer # NULL /\ call'[d].since <= buffer
                          /\ call'[d].at = "items" => replies'[i].value \in (call'[d].since)..clock
      OBVIOUS
  <2> DEFINE j == i + 1
  <2>1. j \in 1..Len(replies) /\ replies'[i] = replies[j] /\ replies[j].call \in Calls \ {c}
      BY <1>6, Messages
  <2> HIDE DEF j
  <2> QED
      BY <1>7, <2>1 DEF Fresh, Filled
<1>9. CASE r.at \in Ends
    BY <1>1, <1>7, <1>8, <1>9 DEF Fresh, Filled, Ends
<1>10. ASSUME call[c].kind = "update", call[c].at = "statistics", Head(replies).value # NULL,
              r = [call[c] EXCEPT !.at = "items", !.self = state]
       PROVE  Fresh'
  <2>1. r.at = "items" /\ r.since = call[c].since
      BY <1>3, <1>10 DEF CallRecords
  <2>2. Filled(c)
      BY <1>2, <1>4, <1>10 DEF Fresh
  <2> QED
      BY <1>1, <1>7, <1>8, <2>1, <2>2 DEF Fresh, Filled
<1>11. ASSUME call[c].kind = "update", call[c].at = "items", Head(replies).value # NULL,
              r = [call[c] EXCEPT !.at = "basic", !.items = PhItems(Head(replies).value),
                                  !.statistics = ReadBuffer]
       PROVE  Fresh'
  <2>1. /\ r.at = "basic" /\ r.since = call[c].since
        /\ r.items = PhItems(Head(replies).value) /\ r.statistics = ReadBuffer
      BY <1>3, <1>11 DEF CallRecords
  <2>2. Filled(c)
      BY <1>2, <1>11 DEF Fresh
  <2>3. Head(replies).value \in (call[c].since)..clock
      BY <1>2, <1>4, <1>11 DEF Fresh
  <2>4. r.items.from = "ph" /\ r.items.id \in (r.since)..MaxClock
      BY <1>3, <2>1, <2>3, BoundAssumption DEF PhItems, Times, CallRecords
  <2>5. r.statistics \in {TORN} \union (r.since)..MaxClock
      BY <1>3, <2>1, <2>2, NullAssumption, BoundAssumption
         DEF ReadBuffer, Filled, Times, CallRecords
  <2>6. buffer # NULL /\ r.since <= buffer
      BY <2>1, <2>2 DEF Filled
  <2> QED
      BY <1>1, <1>7, <1>8, <2>1, <2>4, <2>5, <2>6 DEF Fresh, Filled
<1> QED
    BY <1>2, <1>9, <1>10, <1>11 DEF Goes

-----------------------------------------------------------------------------
(* The theorems.                                                           *)

LEMMA NextInv == IInv /\ [Next]_vars => IInv'
<1> SUFFICES ASSUME IInv, [Next]_vars PROVE IInv'
    OBVIOUS
<1> USE DEF IInv
<1>1. CASE Next
  <2>1. Types'
      BY <1>1, TypesUser, TypesHost, TypesIsolate DEF Next
  <2>2. Fresh'
      BY <1>1, FreshUser, FreshHost, FreshIsolate DEF Next
  <2> QED
      BY <1>1, <2>1, <2>2, ChannelStep, WritesStep, MethodsStep
<1>2. CASE UNCHANGED vars
    BY <1>2 DEF vars, host, Types, Channel, Awaited, WritesForHead, Methods, Fresh, InFlight,
                Filled
<1> QED
    BY <1>1, <1>2

\* messages.g.dart: every call that is suspended has exactly one message under
\* way, for what it waits for, and no other call has any, however many calls
\* share the channel.
THEOREM TypeCorrect == Spec => []TypeOK
<1>1. IInv => TypeOK
  <2> SUFFICES ASSUME IInv PROVE TypeOK
      OBVIOUS
  <2> USE DEF IInv
  <2>1. ASSUME NEW s \in Infos PROVE TypedState(s)
      BY <2>1 DEF TypedState, Infos, Items, Statistics, Times
  <2>2. ASSUME NEW c \in Calls
        PROVE  LET mine == {i \in 1..Len(requests) : requests[i].call = c}
                   answers == {i \in 1..Len(replies) : replies[i].call = c}
               IN  IF ~InFlight(c) THEN mine = {} /\ answers = {}
                   ELSE \/ /\ answers = {}
                           /\ \E i \in mine : mine = {i} /\ requests[i].what = call[c].at
                        \/ mine = {} /\ \E i \in answers : answers = {i}
    <3> DEFINE mine == {i \in 1..Len(requests) : requests[i].call = c}
               answers == {i \in 1..Len(replies) : replies[i].call = c}
    <3>1. CASE ~InFlight(c)
        BY <3>1, Messages DEF Channel, InFlight
    <3>2. ASSUME NEW i \in mine
          PROVE  answers = {} /\ mine = {i} /\ requests[i].what = call[c].at
        BY <3>2 DEF Channel
    <3>3. ASSUME NEW i \in answers
          PROVE  mine = {} /\ answers = {i}
        BY <3>3 DEF Channel
    <3>4. InFlight(c) => mine # {} \/ answers # {}
        BY DEF Awaited
    <3> QED
        BY <3>1, <3>2, <3>3, <3>4
  <2>3. ASSUME NEW c \in Calls
        PROVE  /\ call[c].at \in Suspended \union {"idle", "done", "failed"}
               /\ TypedState(call[c].self)
               /\ InFlight(c) => /\ call[c].kind \in Kinds \union {"update"}
                                 /\ call[c].since \in 0..clock
    <3>1. call[c] \in CallRecords
        BY DEF Types
    <3> QED
        BY <2>1, <3>1 DEF CallRecords, Ends, Methods, Types, Times
  <2>4. TypedState(state)
      BY <2>1 DEF Types
  <2> QED
      BY <2>2, <2>3, <2>4 DEF TypeOK, Types, Times
<1> QED
    BY <1>1, InitInv, NextInv, PTL DEF Spec

\* processes.dart:98, api.cpp:154-160: a refresh that overlaps with no other
\* reads whole statistics, of the moment it asked for, whichever calls were made
\* before it.
THEOREM AloneIsWhole == Spec => []AloneReadsWhole
<1>1. IInv => AloneReadsWhole
  <2> SUFFICES ASSUME IInv, NEW c \in Calls,
                      InFlight(c), call[c].kind = "update", call[c].at = "items", replies # <<>>,
                      \A d \in Calls \ {c} : ~InFlight(d)
               PROVE  ~writing /\ buffer \in (call[c].since)..clock
      BY DEF AloneReadsWhole
  <2> USE DEF IInv
  <2>1. 1 \in 1..Len(replies) /\ replies[1].call = c
    <3>1. 1 \in 1..Len(replies)
        BY Messages
    <3> QED
        BY <3>1, Messages DEF Channel
  <2>2. \A i \in 1..Len(requests) : requests[i].call = c
      BY Messages DEF Channel, InFlight
  <2>3. requests = <<>>
    <3>1. \A i \in 1..Len(requests) : FALSE
        BY <2>1, <2>2 DEF Channel
    <3> QED
        BY <3>1, Messages
  <2>4. ~writing
      BY <2>3 DEF WritesForHead
  <2>5. call[c].since \in Nat /\ clock \in Nat /\ buffer \in {NULL} \union Nat
      BY DEF Types, CallRecords, Times
  <2> QED
      BY <2>4, <2>5 DEF Fresh, Filled
<1> QED
    BY <1>1, InitInv, NextInv, PTL DEF Spec

\* main.dart:120, "get the current processes now": what a call leaves when it
\* finishes is no older than the click, however many calls share the channel and
\* the buffer.
THEOREM NoOlder == Spec => NotOlderThanClick
<1> DEFINE Newer ==
        \A c \in Calls : InFlight(c) /\ call'[c].at = "done" =>
            /\ call[c].kind # "updateSystemStatistics" =>
                  state'.processItems.from = "ph" /\ state'.processItems.id >= call[c].since
            /\ call[c].kind # "updateCurrentProcesses" =>
                  state'.statistics \in {TORN} \union (call[c].since)..MaxClock
<1>1. ASSUME IInv, [Next]_vars PROVE [Newer]_vars
  <2>0. Types /\ Channel /\ Methods /\ Fresh
      BY <1>1 DEF IInv
  <2> USE <2>0
  <2> SUFFICES ASSUME NEW c \in Calls, InFlight(c), call'[c].at = "done"
               PROVE  /\ call[c].kind # "updateSystemStatistics" =>
                            /\ state'.processItems.from = "ph"
                            /\ state'.processItems.id >= call[c].since
                      /\ call[c].kind # "updateCurrentProcesses" =>
                            state'.statistics \in {TORN} \union (call[c].since)..MaxClock
      OBVIOUS
  <2>1. call[c].at # "done" /\ call[c] \in CallRecords /\ call[c].since \in Nat
      BY DEF InFlight, Suspended, Types, CallRecords, Times
  <2>2. PICK d \in Calls :
            \/ UpdateGotStatistics(d) \/ UpdateGotItems(d) \/ UpdateGotItemsLast(d)
            \/ UpdateGotBasicInformation(d) \/ CurrentProcessesGotItems(d)
            \/ SystemStatisticsGot(d) \/ CallFails(d)
    <3>1. ~UNCHANGED call
        BY <2>1
    <3>2. ASSUME NEW e \in Calls, NEW kind \in Kinds, Begin(e, kind) PROVE FALSE
        BY <2>1, <3>2 DEF Begin, NoCall, Types
    <3> QED
        BY <1>1, <3>1, <3>2 DEF vars, host, Next, UserStep, HostStep, IsolateStep, OpenCsv,
            Choose, Tick, BeginSystemStatistics, GetSystemStatistics, EnumProcessItems,
            GetSystemBasicInformation, AnswerError
  <2>3. d = c
    <3>1. \E r : call' = [call EXCEPT ![d] = r]
        BY <2>2 DEF UpdateGotStatistics, UpdateGotItems, UpdateGotItemsLast,
            UpdateGotBasicInformation, CurrentProcessesGotItems, SystemStatisticsGot, CallFails,
            Finish, Types
    <3> QED
        BY <2>1, <3>1 DEF Types
  <2>4. ~UpdateGotStatistics(c) /\ ~UpdateGotItems(c) /\ ~CallFails(c)
      BY <2>1 DEF UpdateGotStatistics, UpdateGotItems, CallFails, Finish, NoCall, Types,
                  CallRecords
  <2>5. /\ replies # <<>> /\ Head(replies).call = c /\ Head(replies).value # NULL
        /\ 1 \in 1..Len(replies) /\ Head(replies) = replies[1]
    <3>1. replies # <<>> /\ Head(replies).call = c /\ Head(replies).value # NULL
        BY <2>2, <2>3, <2>4 DEF UpdateGotItemsLast, UpdateGotBasicInformation,
            CurrentProcessesGotItems, SystemStatisticsGot, Resume
    <3> QED
        BY <3>1, Messages, TailFacts
  <2>6. Filled(c) => ReadBuffer \in {TORN} \union (call[c].since)..MaxClock
      BY <2>1, NullAssumption DEF ReadBuffer, Filled, Types, Times
  <2>7. call[c].at = "items" =>
            Head(replies).value \in (call[c].since)..clock
      BY <2>5 DEF Fresh
  <2>8. call[c].at = "statistics" => Filled(c)
      BY <2>5 DEF Fresh
  <2>9. clock \in Nat /\ state \in Infos /\ call[c].self \in Infos
      BY <2>1 DEF Types, Times, CallRecords
  <2>10. CASE UpdateGotItemsLast(c)
    <3>1. state'.processItems = PhItems(Head(replies).value) /\ state'.statistics = ReadBuffer
        BY <2>9, <2>10 DEF UpdateGotItemsLast, Commit, Infos
    <3>2. call[c].at = "items" /\ Filled(c)
        BY <2>10 DEF UpdateGotItemsLast, Resume, Fresh
    <3> QED
        BY <2>1, <2>6, <2>7, <2>9, <3>1, <3>2 DEF PhItems
  <2>11. CASE UpdateGotBasicInformation(c)
    <3>1. state'.processItems = call[c].items /\ state'.statistics = call[c].statistics
        BY <2>9, <2>11 DEF UpdateGotBasicInformation, Commit, Infos
    <3>2. call[c].at = "basic"
        BY <2>11 DEF UpdateGotBasicInformation, Resume
    <3> QED
        BY <2>1, <3>1, <3>2, BoundAssumption DEF Fresh
  <2>12. CASE CurrentProcessesGotItems(c)
    <3>1. state'.processItems = PhItems(Head(replies).value)
        BY <2>9, <2>12 DEF CurrentProcessesGotItems, Infos
    <3>2. call[c].at = "items" /\ call[c].kind = "updateCurrentProcesses"
        BY <2>12 DEF CurrentProcessesGotItems, Resume
    <3> QED
        BY <2>1, <2>7, <2>9, <3>1, <3>2 DEF PhItems
  <2>13. CASE SystemStatisticsGot(c)
    <3>1. state'.statistics = ReadBuffer
        BY <2>9, <2>13 DEF SystemStatisticsGot, Infos
    <3>2. call[c].at = "statistics" /\ call[c].kind = "updateSystemStatistics"
        BY <2>13 DEF SystemStatisticsGot, Resume
    <3> QED
        BY <2>6, <2>8, <3>1, <3>2
  <2> QED
      BY <2>2, <2>3, <2>4, <2>10, <2>11, <2>12, <2>13
<1> QED
    BY <1>1, InitInv, NextInv, PTL DEF Spec, NotOlderThanClick

\* The root tile of a page that calls update() only, as main.dart does: the
\* captured state that a refresh writes back may be stale in every field, but
\* update() sets all three that the tile is drawn from, and the CSV reader
\* clears the statistics.
LEMMA TileInv ==
    ASSUME Kinds \subseteq {"update"}
    PROVE  Spec => [](RootTileSafe /\ CsvTile)
<1> DEFINE Tile == RootTileSafe /\ CsvTile
<1>1. Init => Tile
    BY DEF Init, InitialState, NoItems, RootTileSafe, CsvTile
<1>2. ASSUME IInv, Tile, [Next]_vars PROVE Tile'
  <2>0. Types /\ Methods /\ Fresh
      BY <1>2 DEF IInv
  <2> USE <2>0
  <2>1. ASSUME UNCHANGED <<state>> PROVE Tile'
      BY <1>2, <2>1 DEF RootTileSafe, CsvTile
  <2>2. ASSUME NEW f \in Csvs, OpenCsv(f) PROVE Tile'
      BY <2>2 DEF OpenCsv, RootTileSafe, CsvTile, CsvItems, Types, Infos
  <2>3. ASSUME NEW k \in Choices, NEW value \in BOOLEAN, Choose(k, value) PROVE Tile'
      BY <1>2, <2>3 DEF Choose, RootTileSafe, CsvTile, Types, Infos
  <2>4. ASSUME NEW self \in Infos, NEW i, NEW s, i.from = "ph", Commit(self, i, s) PROVE Tile'
      BY <2>4 DEF Commit, RootTileSafe, CsvTile, Infos
  <2>5. ASSUME NEW c \in Calls, InFlight(c)
        PROVE  call[c].kind = "update" /\ call[c].self \in Infos
      BY <2>5 DEF Methods, Types, CallRecords
  <2>6. ASSUME NEW c \in Calls, UpdateGotItemsLast(c) PROVE Tile'
    <3>1. InFlight(c) /\ PhItems(Head(replies).value).from = "ph"
        BY <2>6 DEF UpdateGotItemsLast, Resume, InFlight, Suspended, PhItems
    <3> QED
        BY <2>4, <2>5, <2>6, <3>1 DEF UpdateGotItemsLast
  <2>7. ASSUME NEW c \in Calls, UpdateGotBasicInformation(c) PROVE Tile'
    <3>1. InFlight(c) /\ call[c].items.from = "ph"
        BY <2>7 DEF UpdateGotBasicInformation, Resume, InFlight, Suspended, Fresh
    <3> QED
        BY <2>4, <2>5, <2>7, <3>1 DEF UpdateGotBasicInformation
  <2>8. ASSUME NEW c \in Calls, CurrentProcessesGotItems(c) \/ SystemStatisticsGot(c)
        PROVE  FALSE
      BY <2>5, <2>8 DEF CurrentProcessesGotItems, SystemStatisticsGot, Resume, InFlight, Suspended
  <2> QED
      BY <1>2, <2>1, <2>2, <2>3, <2>6, <2>7, <2>8 DEF vars, Next, UserStep, HostStep, IsolateStep,
          Begin, Tick, BeginSystemStatistics, GetSystemStatistics, EnumProcessItems,
          GetSystemBasicInformation, AnswerError, UpdateGotStatistics, UpdateGotItems, CallFails
<1> QED
    BY <1>1, <1>2, InitInv, NextInv, PTL DEF Spec

\* treemap.dart:437-446: statistics on the screen always come with the basic
\* information the root tile divides by.
THEOREM RootTileIsSafe ==
    ASSUME Kinds \subseteq {"update"}
    PROVE  Spec => []RootTileSafe
BY TileInv, PTL

\* treemap.dart:437-447: the rows of a CSV are never shown with live statistics.
THEOREM CsvTileTells ==
    ASSUME Kinds \subseteq {"update"}
    PROVE  Spec => []CsvTile
BY TileInv, PTL
=============================================================================
