------------------------------ MODULE Processes ------------------------------
(***************************************************************************)
(* The state of the treemap page (lib/src/provider/processes.dart): an     *)
(* isolate that runs one event at a time, the refreshes it has under way,  *)
(* each suspended at an await, and the host that answers them over the     *)
(* platform channel, first come first served.  A reply and everything the  *)
(* isolate does until the next await is one action.                        *)
(***************************************************************************)
EXTENDS Integers, Sequences

CONSTANTS
    Calls,      \* asynchronous calls of the provider's methods; each is made once
    Boot,       \* the update() of initState
    Kinds,      \* the methods called: "update", "updateCurrentProcesses", "updateSystemStatistics"
    Csvs,       \* CSV files the user may open
    Choices,    \* the choices made in the tool bar, each TRUE or FALSE
    Default,    \* the choices made before the user touches them
    MaxClock,   \* bound on how often the host's processes change
    HostFails,  \* whether the host may answer with an error
    NULL, TORN

ASSUME BootAssumption == Boot \in Calls
ASSUME KindsAssumption ==
    Kinds \subseteq {"update", "updateCurrentProcesses", "updateSystemStatistics"}
ASSUME DefaultAssumption == Default \in [Choices -> BOOLEAN]
ASSUME BoundAssumption == MaxClock \in Nat /\ HostFails \in BOOLEAN
ASSUME NullAssumption == NULL \notin Int /\ TORN \notin Int /\ NULL # TORN /\ NULL \notin Csvs

VARIABLES
    state,     \* the provider's ProcesssInfo
    call,      \* per call: method, where it is suspended, what it holds
    requests,  \* messages on their way to the host
    replies,   \* answers on their way to the isolate
    clock,     \* the host's processes, as the number of changes so far
    buffer,    \* PluginStatistics, the one buffer of api.cpp
    writing    \* the host is inside PhPluginGetSystemStatistics

host == <<clock, buffer, writing>>
vars == <<state, call, requests, replies, host>>

-----------------------------------------------------------------------------
\* processItems: nothing yet, the rows of a CSV, or the processes at a time.
NoItems == [from |-> "none", id |-> NULL]
CsvItems(f) == [from |-> "csv", id |-> f]
PhItems(n) == [from |-> "ph", id |-> n]

\* statistics and ptrStatistics are set and cleared together, and are one
\* field here; ptrSystemBasicInformation is known or not.
InitialState ==
    [processItems |-> NoItems, itemsType |-> NULL, statistics |-> NULL,
     ptrSystemBasicInformation |-> FALSE, briefInfo |-> NULL, choice |-> Default]

NoCall == [kind |-> NULL, at |-> "idle", since |-> 0, self |-> InitialState,
           items |-> NoItems, statistics |-> NULL]

Suspended == {"statistics", "items", "basic"}
InFlight(c) == call[c].at \in Suspended

Request(c, what) == [call |-> c, what |-> what]

\* fromPointer: what the isolate reads of the buffer at this moment.
ReadBuffer == IF writing THEN TORN ELSE buffer

Init ==
    /\ state = InitialState
    /\ call = [c \in Calls |-> IF c = Boot
                                 THEN [NoCall EXCEPT !.kind = "update", !.at = "statistics"]
                                 ELSE NoCall]
    /\ requests = <<Request(Boot, "statistics")>>
    /\ replies = <<>>
    /\ clock = 0
    /\ buffer = NULL
    /\ writing = FALSE

-----------------------------------------------------------------------------
(* Slips in the code that the properties must notice (the mutants of       *)
(* PROJECT.json); no specification uses them.                              *)

\* processes.dart:47-48 missing
OpenCsv_KeepsStatistics(f) ==
    /\ state' = [state EXCEPT !.processItems = CsvItems(f), !.itemsType = "csv",
                              !.briefInfo = f]
    /\ UNCHANGED <<call, requests, replies, host>>

\* api.cpp:158 missing
GetSystemStatistics_NotSampled ==
    /\ writing
    /\ writing' = FALSE
    /\ requests # <<>>
    /\ requests' = Tail(requests)
    /\ replies' = Append(replies, [call |-> Head(requests).call, value |-> TRUE])
    /\ UNCHANGED <<state, call, clock, buffer>>

\* api.cpp:158 only the first time
GetSystemStatistics_Once ==
    /\ writing
    /\ writing' = FALSE
    /\ buffer' = IF buffer = NULL THEN clock ELSE buffer
    /\ requests # <<>>
    /\ requests' = Tail(requests)
    /\ replies' = Append(replies, [call |-> Head(requests).call, value |-> TRUE])
    /\ UNCHANGED <<state, call, clock>>

\* the handler catches the exception and never calls reply
AnswerError_Lost ==
    /\ HostFails
    /\ ~writing
    /\ requests # <<>>
    /\ requests' = Tail(requests)
    /\ UNCHANGED <<state, call, replies, host>>

\* processes.dart:99 missing
Commit_WithoutBasic(self, items, statistics) ==
    state' = [self EXCEPT !.processItems = items, !.statistics = statistics]

\* processes.dart:96 missing
Commit_WithoutItems(self, items, statistics) ==
    state' = [self EXCEPT !.statistics = statistics,
                          !.ptrSystemBasicInformation = TRUE]

\* the error is taken for an answer that will still come
CallFails_Swallowed(c) ==
    /\ replies # <<>>
    /\ Head(replies).call = c
    /\ Head(replies).value = NULL
    /\ replies' = Tail(replies)
    /\ UNCHANGED <<state, call, requests, host>>

-----------------------------------------------------------------------------
(* The user: the tool bar of main.dart.                                    *)

\* A method is called and runs to its first await.  updateCurrentProcesses
\* evaluates state before that await, the others after it.
Begin(c, kind) ==
    /\ call[c].at = "idle"
    /\ LET what == IF kind = "updateCurrentProcesses" THEN "items" ELSE "statistics"
       IN  /\ call' = [call EXCEPT ![c] = [NoCall EXCEPT !.kind = kind, !.at = what,
                                                        !.since = clock, !.self = state]]
           /\ requests' = Append(requests, Request(c, what))
    /\ UNCHANGED <<state, replies, host>>

\* updateCsvProcesses: the file is read without an await.
OpenCsv(f) ==
    /\ state' = [state EXCEPT !.processItems = CsvItems(f), !.itemsType = "csv",
                              !.briefInfo = f, !.statistics = NULL]
    /\ UNCHANGED <<call, requests, replies, host>>

\* The setters sortBySize, dataSetSelect and hideIdle.
Choose(k, value) ==
    /\ value # state.choice[k]
    /\ state' = [state EXCEPT !.choice[k] = value]
    /\ UNCHANGED <<call, requests, replies, host>>

-----------------------------------------------------------------------------
(* The host: one message at a time, on the platform thread.                *)

Answer(what, value) ==
    /\ requests # <<>>
    /\ Head(requests).what = what
    /\ requests' = Tail(requests)
    /\ replies' = Append(replies, [call |-> Head(requests).call, value |-> value])

\* The processes change by themselves, at most MaxClock times.
Tick ==
    /\ clock < MaxClock
    /\ clock' = clock + 1
    /\ UNCHANGED <<state, call, requests, replies, buffer, writing>>

BeginSystemStatistics ==
    /\ requests # <<>> /\ Head(requests).what = "statistics"
    /\ ~writing
    /\ writing' = TRUE
    /\ UNCHANGED <<state, call, requests, replies, clock, buffer>>

GetSystemStatistics ==
    /\ writing
    /\ writing' = FALSE
    /\ buffer' = clock
    /\ Answer("statistics", TRUE)
    /\ UNCHANGED <<state, call, clock>>

EnumProcessItems ==
    /\ Answer("items", clock)
    /\ UNCHANGED <<state, call, host>>

GetSystemBasicInformation ==
    /\ Answer("basic", TRUE)
    /\ UNCHANGED <<state, call, host>>

AnswerError ==
    /\ HostFails
    /\ ~writing
    /\ \E what \in Suspended : Answer(what, NULL)
    /\ UNCHANGED <<state, call, host>>

HostStep ==
    \/ BeginSystemStatistics
    \/ GetSystemStatistics
    \/ EnumProcessItems
    \/ GetSystemBasicInformation
    \/ AnswerError

-----------------------------------------------------------------------------
(* The isolate resumes a call.                                             *)

\* The next reply is for call c, suspended at the given await.
Resume(c, at) ==
    /\ replies # <<>>
    /\ Head(replies).call = c
    /\ Head(replies).value # NULL
    /\ call[c].at = at
    /\ replies' = Tail(replies)
    /\ UNCHANGED host

\* The call is over; what it held is garbage.
Finish(c, how) == call' = [call EXCEPT ![c] = [NoCall EXCEPT !.at = how]]

\* state = state.copyWith(...) of update: the receiver is the state captured
\* before the awaits, not the state of now.
Commit(self, items, statistics) ==
    state' = [self EXCEPT !.processItems = items, !.statistics = statistics,
                          !.ptrSystemBasicInformation = TRUE]

\* update goes on: the receiver of copyWith is evaluated, then its arguments.
UpdateGotStatistics(c) ==
    /\ Resume(c, "statistics")
    /\ call[c].kind = "update"
    /\ call' = [call EXCEPT ![c].at = "items", ![c].self = state]
    /\ requests' = Append(requests, Request(c, "items"))
    /\ UNCHANGED state

\* The items have arrived: the buffer is read; the basic information is asked
\* for only if the state of now has none.
UpdateGotItems(c) ==
    /\ Resume(c, "items")
    /\ call[c].kind = "update"
    /\ ~state.ptrSystemBasicInformation
    /\ call' = [call EXCEPT ![c].at = "basic",
                            ![c].items = PhItems(Head(replies).value),
                            ![c].statistics = ReadBuffer]
    /\ requests' = Append(requests, Request(c, "basic"))
    /\ UNCHANGED state

UpdateGotItemsLast(c) ==
    /\ Resume(c, "items")
    /\ call[c].kind = "update"
    /\ state.ptrSystemBasicInformation
    /\ Commit(call[c].self, PhItems(Head(replies).value), ReadBuffer)
    /\ Finish(c, "done")
    /\ UNCHANGED requests

UpdateGotBasicInformation(c) ==
    /\ Resume(c, "basic")
    /\ Commit(call[c].self, call[c].items, call[c].statistics)
    /\ Finish(c, "done")
    /\ UNCHANGED requests

CurrentProcessesGotItems(c) ==
    /\ Resume(c, "items")
    /\ call[c].kind = "updateCurrentProcesses"
    /\ state' = [call[c].self EXCEPT !.processItems = PhItems(Head(replies).value),
                                     !.itemsType = "ph"]
    /\ Finish(c, "done")
    /\ UNCHANGED requests

SystemStatisticsGot(c) ==
    /\ Resume(c, "statistics")
    /\ call[c].kind = "updateSystemStatistics"
    /\ state' = [state EXCEPT !.statistics = ReadBuffer]
    /\ Finish(c, "done")
    /\ UNCHANGED requests

\* A PlatformException ends the call; its future is not awaited by anyone.
CallFails(c) ==
    /\ replies # <<>>
    /\ Head(replies).call = c
    /\ Head(replies).value = NULL
    /\ replies' = Tail(replies)
    /\ Finish(c, "failed")
    /\ UNCHANGED <<state, requests, host>>

IsolateStep ==
    \E c \in Calls :
        \/ UpdateGotStatistics(c)
        \/ UpdateGotItems(c)
        \/ UpdateGotItemsLast(c)
        \/ UpdateGotBasicInformation(c)
        \/ CurrentProcessesGotItems(c)
        \/ SystemStatisticsGot(c)
        \/ CallFails(c)

UserStep ==
    \/ \E c \in Calls, kind \in Kinds : Begin(c, kind)
    \/ \E f \in Csvs : OpenCsv(f)
    \/ \E k \in Choices, value \in BOOLEAN : Choose(k, value)

Next == UserStep \/ Tick \/ HostStep \/ IsolateStep

Spec == Init /\ [][Next]_vars

\* Both event loops run; the user and the processes do as they like.
FairSpec == Spec /\ WF_vars(HostStep) /\ WF_vars(IsolateStep)

-----------------------------------------------------------------------------
(* Properties.                                                             *)

TypedState(s) ==
    /\ s.processItems \in {NoItems} \union {CsvItems(f) : f \in Csvs}
                                    \union {PhItems(n) : n \in 0..MaxClock}
    /\ s.itemsType \in {NULL, "csv", "ph"}
    /\ s.statistics \in {NULL, TORN} \union 0..MaxClock
    /\ s.ptrSystemBasicInformation \in BOOLEAN
    /\ s.briefInfo \in {NULL} \union Csvs
    /\ s.choice \in [Choices -> BOOLEAN]

\* Types, and the discipline of the channel (messages.g.dart): a call that is
\* suspended has exactly one message under way, and no other call has any.
TypeOK ==
    /\ TypedState(state)
    /\ \A c \in Calls :
        /\ call[c].at \in Suspended \union {"idle", "done", "failed"}
        /\ TypedState(call[c].self)
        /\ InFlight(c) => /\ call[c].kind \in Kinds \union {"update"}
                          /\ call[c].since \in 0..clock
        /\ LET mine == {i \in 1..Len(requests) : requests[i].call = c}
               answers == {i \in 1..Len(replies) : replies[i].call = c}
           IN  IF ~InFlight(c) THEN mine = {} /\ answers = {}
               ELSE \/ /\ answers = {}
                       /\ \E i \in mine : mine = {i} /\ requests[i].what = call[c].at
                    \/ mine = {} /\ \E i \in answers : answers = {i}
    /\ clock \in 0..MaxClock
    /\ buffer \in {NULL} \union 0..MaxClock
    /\ writing \in BOOLEAN

\* treemap.dart:437-446: the root tile shows the statistics as soon as there
\* are any, and then needs the basic information (processes.dart:138-139).
RootTileSafe == state.statistics # NULL => state.ptrSystemBasicInformation

\* treemap.dart:437-447: under the rows of a CSV the root tile shows the
\* summary of that CSV, not the live statistics of a refresh.
CsvTile ==
    state.processItems.from = "csv" =>
        state.statistics = NULL /\ state.briefInfo = state.processItems.id

\* main.dart:120, "get the current processes now": when a call finishes, the
\* processes and the statistics it leaves are no older than the click, however
\* many other refreshes share the channel and the buffer.
NotOlderThanClick ==
    [][\A c \in Calls : InFlight(c) /\ call'[c].at = "done" =>
        /\ call[c].kind # "updateSystemStatistics" =>
              state'.processItems.from = "ph" /\ state'.processItems.id >= call[c].since
        /\ call[c].kind # "updateCurrentProcesses" =>
              state'.statistics \in {TORN} \union (call[c].since)..MaxClock]_vars

\* A refresh never replaces the processes on the screen by older ones
\* (processes.dart:93-101).
NeverBackInTime ==
    [][state.processItems.from = "ph" /\ state'.processItems.from = "ph"
        => state'.processItems.id >= state.processItems.id]_vars

\* Refreshes that do not overlap read whole statistics, of the moment they
\* asked for: with no other call in flight, the host is not writing the buffer
\* when the isolate may read it (processes.dart:98, api.cpp:154-160).
AloneReadsWhole ==
    \A c \in Calls :
        /\ InFlight(c) /\ call[c].kind = "update"
        /\ call[c].at = "items" /\ replies # <<>>
        /\ \A d \in Calls \ {c} : ~InFlight(d)
        => ~writing /\ buffer \in (call[c].since)..clock

\* Every call that is made comes to an end, if only by an error of the host.
CallEnds == \A c \in Calls : InFlight(c) ~> ~InFlight(c)

\* main.dart:235-244: the spinner gives way to the treemap, unless a refresh
\* failed; the page has no other way out of it than another click.
SpinnerEnds ==
    <>(state.processItems # NoItems \/ \E c \in Calls : call[c].at = "failed")

-----------------------------------------------------------------------------
(* What the documents say, and the code does not do.                       *)

\* README.md, "add hideIdle switch": a switch stays as the user left it: what
\* the isolate does for a refresh does not turn it.
ChoiceIsTheUsers == [][state'.choice # state.choice => UNCHANGED call]_vars
=============================================================================
