-------------------------- MODULE ChartWindowProofs --------------------------
(***************************************************************************)
(* Safety of ChartWindow for any set of threads and any set of failures.   *)
(* The argument: the global handle is a lock that nobody acquires by an    *)
(* atomic test-and-set, and it still excludes, because only the UI thread  *)
(* takes it, and keeps waiting with it until the thread it made has told   *)
(* it that its window is there.                                            *)
(***************************************************************************)
EXTENDS ChartWindow, TLAPS

-----------------------------------------------------------------------------
(* The inductive invariant.                                                *)

\* The UI thread is inside startFlutterWindow on behalf of thread t.
UiServes(t) == uiPc \in {"store", "wait", "blocked"} /\ uiThread = t

\* A thread that has not set the event has the UI thread waiting for it.
StartingIsAwaited ==
    \A t \in Threads : Stage(t) \in StartPcs => UiServes(t)

\* A thread owns the slot until it clears the handle; if it failed, for good.
OwnersOwn ==
    \A t \in Threads :
        Stage(t) \in StartPcs \union RunPcs \union ClosePcs => Owner = t

FailedIsAwaited ==
    \A t \in Threads :
        status[t] = "failure" =>
            /\ Stage(t) \in EndPcs \ {"clearHwnd"}
            /\ UiServes(t)
            /\ Owner = t

\* The UI thread's own place tells what the slot holds.
HandleByUi ==
    /\ uiPc \in {"create", "store"} => ChartWindowThreadHandle = NULL
    /\ uiPc \in {"wait", "blocked"} => ChartWindowThreadHandle \in {uiThread, NULL}
    /\ uiPc = "blocked" => ~ChartWindowInitializedEvent
    /\ uiPc \in {"store", "wait", "blocked"} => pc[uiThread] # "none"
    /\ \A t \in Threads : ChartWindowThreadHandle = t => pc[t] # "none"

\* Where a thread can have a window.
OpenOnlyHere ==
    \A t \in Threads :
        Open(t) =>
            \/ Stage(t) \in {"onCreate", "publish", "setEvent", "loop", "quit"}
            \/ Stage(t) \in {"dtorLoad", "dtorStore", "dtorDestroyed"} /\ status[t] = "failure"
            \/ "getmessage" \in Failures

\* A place inside Destroy always has a place to return to.
ReturnKnown ==
    \A t \in Threads : pc[t] \in DestroyPcs => ret[t] # "none"

\* The slot machinery, without the window.
Slot ==
    /\ TypeOK
    /\ ReturnKnown
    /\ StartingIsAwaited
    /\ OwnersOwn
    /\ FailedIsAwaited
    /\ HandleByUi
    /\ SignalOfLoop
    /\ LiveHandle

\* A handle its thread did not close is the one the UI thread waits with.
LeakedIsAwaited ==
    \A t \in openHandles :
        Stage(t) \in EndPcs \union {"clearHandle"} => UiServes(t)

\* The flag may claim a class that Windows does not have only while a thread is
\* about to clear it, or about to miss the class, or has missed it.
FlagHonest ==
    class_registered_ /\ ~classInSystem =>
        \E t \in Threads : pc[t] \in {"clearFlag", "createWindow"} \/ status[t] = "failure"

IInv == Slot /\ OpenOnlyHere /\ LeakedIsAwaited /\ FlagHonest

-----------------------------------------------------------------------------
(* Type correctness.                                                       *)

LEMMA TypeInit == Init => TypeOK
<1> SUFFICES ASSUME Init PROVE TypeOK
    OBVIOUS
<1> USE DEF Init
<1>1. uiPc \in UiPcs /\ uiPc \notin {"store", "wait", "blocked"}
    BY DEF UiPcs
<1>2. /\ {uiThread, ChartWindowThreadHandle, FlutterWindowHandle} \subseteq Threads \union {NULL}
      /\ openHandles \subseteq Threads
    OBVIOUS
<1>3. /\ ChartWindowInitializedEvent \in BOOLEAN
      /\ class_registered_ \in BOOLEAN
      /\ classInSystem \in BOOLEAN
    OBVIOUS
<1>4. g_active_window_count \in Int /\ loaded \in [Threads -> Int]
    OBVIOUS
<1>5. /\ pc \in [Threads -> {"none"} \union StartPcs \union RunPcs \union ClosePcs
                              \union EndPcs \union DestroyPcs]
      /\ ret \in [Threads -> {"none", "testClass", "quit", "dtorDestroyed", "done"}]
    OBVIOUS
<1>6. /\ window \in [Threads -> {"none", "hidden", "visible", "closing", "destroyed"}]
      /\ status \in [Threads -> {"none", "failure", "success"}]
    OBVIOUS
<1> HIDE DEF Init
<1> QED
    BY <1>1, <1>2, <1>3, <1>4, <1>5, <1>6 DEF TypeOK

USE DEF UiPcs, StartPcs, RunPcs, ClosePcs, EndPcs, DestroyPcs

LEMMA TypeUi == TypeOK /\ (Click \/ UiStep) => TypeOK'
<1> SUFFICES ASSUME TypeOK, Click \/ UiStep PROVE TypeOK'
    OBVIOUS
<1> USE DEF TypeOK, UiGoto, uiVars, globals, classVars, locals
<1>1. CASE Click
    BY <1>1 DEF Click
<1>2. CASE CheckHandle
    BY <1>2 DEF CheckHandle
<1>3. ASSUME NEW t \in Threads, CreateThread(t) PROVE TypeOK'
    BY <1>3 DEF CreateThread
<1>4. CASE CreateThreadFails
    BY <1>4 DEF CreateThreadFails
<1>5. CASE StoreHandle
    BY <1>5 DEF StoreHandle
<1>6. CASE WaitForEvent
    BY <1>6 DEF WaitForEvent
<1>7. CASE PostShow
    BY <1>7 DEF PostShow
<1> QED
    BY <1>1, <1>2, <1>3, <1>4, <1>5, <1>6, <1>7 DEF UiStep

LEMMA TypeThread ==
    ASSUME TypeOK, NEW t \in Threads, ThreadStep(t) \/ MessageStep(t)
    PROVE  TypeOK'
<1> USE DEF TypeOK, Goto, CallDestroy, LoadCount, CreateFails,
            uiVars, globals, classVars, locals
<1>1. CASE CtorLoad(t) \/ CtorStore(t)
    BY <1>1 DEF CtorLoad, CtorStore
<1>2. CASE TestClass(t) \/ RegisterClass(t) \/ SetFlag(t)
  <2>1. CASE TestClass(t)
      BY <2>1 DEF TestClass
  <2>2. CASE RegisterClass(t)
      BY <2>2 DEF RegisterClass
  <2>3. CASE SetFlag(t)
      BY <2>3 DEF SetFlag
  <2> QED
      BY <1>2, <2>1, <2>2, <2>3
<1>3. CASE CreateWindow(t) \/ CreateWindowFails(t) \/ OnCreate(t) \/ OnCreateFails(t)
    BY <1>3 DEF CreateWindow, CreateWindowFails, OnCreate, OnCreateFails
<1>4. CASE PublishWindow(t) \/ SetEvent(t)
    BY <1>4 DEF PublishWindow, SetEvent
<1>5. CASE ShowFirstFrame(t) \/ CloseByUser(t) \/ GetMessageFails(t) \/ Quit(t)
    BY <1>5 DEF ShowFirstFrame, CloseByUser, GetMessageFails, Quit
<1>6. CASE ResetEvent(t) \/ CloseHandle(t)
    BY <1>6 DEF ResetEvent, CloseHandle
<1>9. CASE ClearHandle(t) \/ ClearHwnd(t)
    BY <1>9 DEF ClearHandle, ClearHwnd
<1>7. CASE DtorLoad(t) \/ DtorDestroyed(t)
    BY <1>7 DEF DtorLoad, DtorDestroyed
<1>10. CASE DtorStore(t)
    <2> USE <1>10 DEF DtorStore
    <2>1. window' \in [Threads -> {"none", "hidden", "visible", "closing", "destroyed"}]
        OBVIOUS
    <2>2. /\ ret' \in [Threads -> {"none", "testClass", "quit", "dtorDestroyed", "done"}]
          /\ pc' = [pc EXCEPT ![t] = "testCount"]
        OBVIOUS
    <2>3. g_active_window_count' \in Int
        OBVIOUS
    <2> QED
        BY <2>1, <2>2, <2>3
<1>8. CASE TestCount(t)
    <2>1. pc' \in [Threads -> {"none"} \union StartPcs \union RunPcs \union ClosePcs
                             \union EndPcs \union DestroyPcs]
        BY <1>8 DEF TestCount
    <2> QED
        BY <1>8, <2>1 DEF TestCount
<1>11. CASE UnregisterClass(t)
    <2>1. classInSystem' \in BOOLEAN
        BY <1>11 DEF UnregisterClass
    <2> QED
        BY <1>11, <2>1 DEF UnregisterClass
<1>12. CASE ClearFlag(t)
    <2>1. pc' \in [Threads -> {"none"} \union StartPcs \union RunPcs \union ClosePcs
                             \union EndPcs \union DestroyPcs]
        BY <1>12 DEF ClearFlag
    <2> QED
        BY <1>12, <2>1 DEF ClearFlag
<1> QED
    BY <1>1, <1>2, <1>3, <1>4, <1>5, <1>6, <1>7, <1>8, <1>9, <1>10, <1>11, <1>12
    DEF ThreadStep, MessageStep

LEMMA TypeStep == TypeOK /\ [Next]_vars => TypeOK'
<1> SUFFICES ASSUME TypeOK, [Next]_vars PROVE TypeOK'
    OBVIOUS
<1>1. CASE UNCHANGED vars
    BY <1>1 DEF TypeOK, vars, uiVars, globals, classVars, locals
<1> QED
    BY <1>1, TypeUi, TypeThread DEF Next

\* Every variable keeps its type, whatever the set of threads.
THEOREM Typing == Spec => []TypeOK
BY TypeInit, TypeStep, PTL DEF Spec

-----------------------------------------------------------------------------
(* The slot.                                                               *)

HIDE DEF UiPcs, StartPcs, RunPcs, ClosePcs, EndPcs, DestroyPcs

\* The slot in terms of the phase a thread is in.
Starting(t) == Stage(t) \in StartPcs
Running(t) == Stage(t) \in RunPcs
Closing(t) == Stage(t) \in ClosePcs
Ended(t) == Stage(t) \in EndPcs

\* A step inside a phase that touches neither the UI thread, nor the globals of
\* dllmain.cpp, nor a result leaves the slot as it is.
LEMMA QuietStep ==
    ASSUME Slot, TypeOK', ReturnKnown', UNCHANGED <<uiVars, globals, status>>,
           \A t \in Threads :
              /\ Starting(t)' = Starting(t) /\ Running(t)' = Running(t)
              /\ Closing(t)' = Closing(t) /\ Ended(t)' = Ended(t)
              /\ (Stage(t) = "clearHwnd")' = (Stage(t) = "clearHwnd")
              /\ pc[t] # "none" => pc'[t] # "none"
    PROVE  Slot'
<1> USE DEF Slot, Starting, Running, Closing, Ended, uiVars, globals, UiServes, Owner
<1>1. StartingIsAwaited'
    BY DEF StartingIsAwaited
<1>2. OwnersOwn'
    BY DEF OwnersOwn
<1>3. FailedIsAwaited'
    BY DEF FailedIsAwaited
<1>4. HandleByUi'
    BY DEF HandleByUi, TypeOK
<1>5. SignalOfLoop'
    BY DEF SignalOfLoop
<1>6. LiveHandle'
    BY DEF LiveHandle
<1> QED
    BY <1>1, <1>2, <1>3, <1>4, <1>5, <1>6

\* Two statements of one phase; the statement that clears the window handle
\* decides the result and is a phase of its own.
SamePhase(x, y) ==
    \/ {x, y} \subseteq StartPcs
    \/ {x, y} \subseteq RunPcs
    \/ {x, y} \subseteq ClosePcs
    \/ {x, y} \subseteq EndPcs \ {"clearHwnd"}

\* One thread moves to another statement of its phase.
Moves(t) ==
    /\ UNCHANGED <<uiVars, globals, status>>
    /\ pc' = [pc EXCEPT ![t] = pc'[t]]
    /\ ret' = [ret EXCEPT ![t] = ret'[t]]
    /\ pc'[t] # "none"
    /\ pc'[t] \in DestroyPcs => ret'[t] # "none"
    /\ SamePhase(Stage(t), Stage(t)')

LEMMA MoveStep ==
    ASSUME Slot, TypeOK', NEW t \in Threads, Moves(t)
    PROVE  Slot'
<1>1. \A u \in Threads \ {t} : Stage(u)' = Stage(u) /\ pc'[u] = pc[u] /\ ret'[u] = ret[u]
    BY DEF Slot, TypeOK, Stage, Moves
<1>2. ReturnKnown'
    BY <1>1 DEF Slot, ReturnKnown, Moves
<1>3. /\ Starting(t)' = Starting(t) /\ Running(t)' = Running(t)
      /\ Closing(t)' = Closing(t) /\ Ended(t)' = Ended(t)
      /\ (Stage(t) = "clearHwnd")' = (Stage(t) = "clearHwnd")
    BY DEF Moves, SamePhase, Starting, Running, Closing, Ended,
           StartPcs, RunPcs, ClosePcs, EndPcs
<1>4. \A u \in Threads :
          /\ Starting(u)' = Starting(u) /\ Running(u)' = Running(u)
          /\ Closing(u)' = Closing(u) /\ Ended(u)' = Ended(u)
          /\ (Stage(u) = "clearHwnd")' = (Stage(u) = "clearHwnd")
          /\ pc[u] # "none" => pc'[u] # "none"
    BY <1>1, <1>3 DEF Starting, Running, Closing, Ended, Moves
<1> QED
    BY <1>2, <1>4, QuietStep DEF Moves

LEMMA QuietActions ==
    ASSUME Slot, NEW t \in Threads,
           \/ CtorLoad(t) \/ CtorStore(t) \/ TestClass(t) \/ RegisterClass(t) \/ SetFlag(t)
           \/ CreateWindow(t) \/ OnCreate(t)
           \/ ShowFirstFrame(t) \/ CloseByUser(t) \/ GetMessageFails(t) \/ Quit(t)
           \/ CloseHandle(t) \/ DtorLoad(t) \/ DtorStore(t) \/ DtorDestroyed(t)
           \/ TestCount(t) \/ UnregisterClass(t) \/ ClearFlag(t)
    PROVE  Moves(t)
<1> DEFINE returns == {"testClass", "quit", "dtorDestroyed", "done"}
<1> USE DEF Goto, CallDestroy, LoadCount, uiVars, globals, classVars, locals, DestroyPcs
<1>0. /\ DOMAIN pc = Threads /\ DOMAIN ret = Threads
      /\ pc = [pc EXCEPT ![t] = pc[t]] /\ ret = [ret EXCEPT ![t] = ret[t]]
      /\ pc[t] \in DestroyPcs => ret[t] \in returns
    BY DEF Slot, TypeOK, ReturnKnown
<1>p. ASSUME NEW x \in returns PROVE SamePhase(x, x)
    BY DEF SamePhase, StartPcs, RunPcs, EndPcs
<1>1. CASE CtorLoad(t)
    <2>1. Stage(t) = "ctorLoad" /\ Stage(t)' = "ctorStore"
        BY <1>0, <1>1 DEF CtorLoad, Stage
    <2>2. SamePhase(Stage(t), Stage(t)')
        BY <2>1 DEF SamePhase, StartPcs, RunPcs, ClosePcs, EndPcs
    <2> QED
        BY <1>0, <1>1, <2>2 DEF CtorLoad, Moves
<1>2. CASE CtorStore(t)
    <2>1. Stage(t) = "ctorStore" /\ Stage(t)' = "testClass"
        BY <1>0, <1>2 DEF CtorStore, Stage
    <2>2. SamePhase(Stage(t), Stage(t)')
        BY <2>1 DEF SamePhase, StartPcs, RunPcs, ClosePcs, EndPcs
    <2> QED
        BY <1>0, <1>2, <2>2 DEF CtorStore, Moves
<1>3. CASE TestClass(t)
    <2>1. Stage(t) = "testClass" /\ Stage(t)' \in {"registerClass", "createWindow"}
        BY <1>0, <1>3 DEF TestClass, Stage
    <2>2. SamePhase(Stage(t), Stage(t)')
        BY <2>1 DEF SamePhase, StartPcs, RunPcs, ClosePcs, EndPcs
    <2> QED
        BY <1>0, <1>3, <2>2 DEF TestClass, Moves
<1>4. CASE RegisterClass(t)
    <2>1. Stage(t) = "registerClass" /\ Stage(t)' = "setFlag"
        BY <1>0, <1>4 DEF RegisterClass, Stage
    <2>2. SamePhase(Stage(t), Stage(t)')
        BY <2>1 DEF SamePhase, StartPcs, RunPcs, ClosePcs, EndPcs
    <2> QED
        BY <1>0, <1>4, <2>2 DEF RegisterClass, Moves
<1>5. CASE SetFlag(t)
    <2>1. Stage(t) = "setFlag" /\ Stage(t)' = "createWindow"
        BY <1>0, <1>5 DEF SetFlag, Stage
    <2>2. SamePhase(Stage(t), Stage(t)')
        BY <2>1 DEF SamePhase, StartPcs, RunPcs, ClosePcs, EndPcs
    <2> QED
        BY <1>0, <1>5, <2>2 DEF SetFlag, Moves
<1>6. CASE CreateWindow(t)
    <2>1. Stage(t) = "createWindow" /\ Stage(t)' = "onCreate"
        BY <1>0, <1>6 DEF CreateWindow, Stage
    <2>2. SamePhase(Stage(t), Stage(t)')
        BY <2>1 DEF SamePhase, StartPcs, RunPcs, ClosePcs, EndPcs
    <2> QED
        BY <1>0, <1>6, <2>2 DEF CreateWindow, Moves
<1>7. CASE OnCreate(t)
    <2>1. Stage(t) = "onCreate" /\ Stage(t)' = "publish"
        BY <1>0, <1>7 DEF OnCreate, Stage
    <2>2. SamePhase(Stage(t), Stage(t)')
        BY <2>1 DEF SamePhase, StartPcs, RunPcs, ClosePcs, EndPcs
    <2> QED
        BY <1>0, <1>7, <2>2 DEF OnCreate, Moves
<1>8. CASE ShowFirstFrame(t)
    <2>1. Stage(t) = "loop" /\ Stage(t)' = "loop"
        BY <1>0, <1>8 DEF ShowFirstFrame, Stage
    <2>2. SamePhase(Stage(t), Stage(t)')
        BY <2>1 DEF SamePhase, StartPcs, RunPcs, ClosePcs, EndPcs
    <2> QED
        BY <1>0, <1>8, <2>2 DEF ShowFirstFrame, Moves
<1>9. CASE CloseByUser(t)
    <2>1. Stage(t) = "loop" /\ Stage(t)' = "quit"
        BY <1>0, <1>9 DEF CloseByUser, Stage
    <2>2. SamePhase(Stage(t), Stage(t)')
        BY <2>1 DEF SamePhase, StartPcs, RunPcs, ClosePcs, EndPcs
    <2> QED
        BY <1>0, <1>9, <2>2 DEF CloseByUser, Moves
<1>10. CASE GetMessageFails(t)
    <2>1. Stage(t) = "loop" /\ Stage(t)' = "resetEvent"
        BY <1>0, <1>10 DEF GetMessageFails, Stage
    <2>2. SamePhase(Stage(t), Stage(t)')
        BY <2>1 DEF SamePhase, StartPcs, RunPcs, ClosePcs, EndPcs
    <2> QED
        BY <1>0, <1>10, <2>2 DEF GetMessageFails, Moves
<1>11. CASE Quit(t)
    <2>1. Stage(t) = "quit" /\ Stage(t)' = "resetEvent"
        BY <1>0, <1>11 DEF Quit, Stage
    <2>2. SamePhase(Stage(t), Stage(t)')
        BY <2>1 DEF SamePhase, StartPcs, RunPcs, ClosePcs, EndPcs
    <2> QED
        BY <1>0, <1>11, <2>2 DEF Quit, Moves
<1>12. CASE CloseHandle(t)
    <2>1. Stage(t) = "closeHandle" /\ Stage(t)' = "clearHandle"
        BY <1>0, <1>12 DEF CloseHandle, Stage
    <2>2. SamePhase(Stage(t), Stage(t)')
        BY <2>1 DEF SamePhase, StartPcs, RunPcs, ClosePcs, EndPcs
    <2> QED
        BY <1>0, <1>12, <2>2 DEF CloseHandle, Moves
<1>13. CASE DtorLoad(t)
    <2>1. Stage(t) = "dtorLoad" /\ Stage(t)' = "dtorStore"
        BY <1>0, <1>13 DEF DtorLoad, Stage
    <2>2. SamePhase(Stage(t), Stage(t)')
        BY <2>1 DEF SamePhase, StartPcs, RunPcs, ClosePcs, EndPcs
    <2> QED
        BY <1>0, <1>13, <2>2 DEF DtorLoad, Moves
<1>14. CASE DtorStore(t)
    <2>1. Stage(t) = "dtorStore" /\ Stage(t)' \in {"dtorDestroyed", "done"}
        BY <1>0, <1>14 DEF DtorStore, Stage
    <2>2. SamePhase(Stage(t), Stage(t)')
        BY <2>1 DEF SamePhase, StartPcs, RunPcs, ClosePcs, EndPcs
    <2> QED
        BY <1>0, <1>14, <2>2 DEF DtorStore, Moves
<1>15. CASE DtorDestroyed(t)
    <2>1. Stage(t) = "dtorDestroyed" /\ Stage(t)' = "done"
        BY <1>0, <1>15 DEF DtorDestroyed, Stage
    <2>2. SamePhase(Stage(t), Stage(t)')
        BY <2>1 DEF SamePhase, StartPcs, RunPcs, ClosePcs, EndPcs
    <2> QED
        BY <1>0, <1>15, <2>2 DEF DtorDestroyed, Moves
<1>16. CASE TestCount(t)
    <2>1. Stage(t) \in returns /\ Stage(t)' = Stage(t)
        BY <1>0, <1>16 DEF TestCount, Stage
    <2>2. SamePhase(Stage(t), Stage(t)')
        BY <1>p, <2>1 DEF SamePhase, StartPcs, RunPcs, ClosePcs, EndPcs
    <2> QED
        BY <1>0, <1>16, <2>2 DEF TestCount, Moves
<1>17. CASE UnregisterClass(t)
    <2>1. Stage(t) \in returns /\ Stage(t)' = Stage(t)
        BY <1>0, <1>17 DEF UnregisterClass, Stage
    <2>2. SamePhase(Stage(t), Stage(t)')
        BY <1>p, <2>1 DEF SamePhase, StartPcs, RunPcs, ClosePcs, EndPcs
    <2> QED
        BY <1>0, <1>17, <2>2 DEF UnregisterClass, Moves
<1>18. CASE ClearFlag(t)
    <2>1. Stage(t) \in returns /\ Stage(t)' = Stage(t)
        BY <1>0, <1>18 DEF ClearFlag, Stage
    <2>2. SamePhase(Stage(t), Stage(t)')
        BY <1>p, <2>1 DEF SamePhase, StartPcs, RunPcs, ClosePcs, EndPcs
    <2> QED
        BY <1>0, <1>18, <2>2 DEF ClearFlag, Moves
<1> QED
    BY <1>1, <1>2, <1>3, <1>4, <1>5, <1>6, <1>7, <1>8, <1>9,
       <1>10, <1>11, <1>12, <1>13, <1>14, <1>15, <1>16, <1>17, <1>18

\* The UI thread's own steps.  It takes the slot when nobody owns it, and leaves
\* its wait only when the thread it made is in its loop.
LEMMA SlotUi ==
    ASSUME Slot, TypeOK', Click \/ UiStep
    PROVE  Slot'
<1> USE DEF UiGoto, globals, locals
<1>0. TypeOK /\ ReturnKnown
    BY DEF Slot
<1>1. ASSUME uiPc \in {"idle", "check", "create", "post"},
             uiPc' \in {"idle", "check", "create", "post"},
             uiPc' = "create" => ChartWindowThreadHandle = NULL,
             UNCHANGED <<uiThread, globals, pc, ret, status>>
      PROVE  Slot'
    <2>1. \A t \in Threads : Stage(t)' = Stage(t)
        BY <1>1 DEF Stage
    <2> QED
        BY <1>0, <1>1, <2>1 DEF Slot, ReturnKnown, StartingIsAwaited, OwnersOwn,
           FailedIsAwaited, HandleByUi, SignalOfLoop, LiveHandle, UiServes, Owner
<1>2. CASE Click
    BY <1>1, <1>2 DEF Click
<1>3. CASE CheckHandle
    BY <1>1, <1>3 DEF CheckHandle
<1>4. ASSUME NEW t \in Threads, CreateThread(t) PROVE Slot'
    <2> USE <1>4 DEF CreateThread
    <2>1. /\ Stage(t)' = "ctorLoad"
          /\ Stage(t) = "none"
          /\ \A u \in Threads \ {t} : Stage(u)' = Stage(u) /\ pc'[u] = pc[u]
        BY <1>0 DEF TypeOK, Stage, DestroyPcs
    <2>2. "ctorLoad" \in StartPcs /\ "ctorLoad" \notin RunPcs
          /\ "ctorLoad" \notin DestroyPcs /\ "none" \notin RunPcs
        BY DEF StartPcs, RunPcs, DestroyPcs
    <2>3. /\ ChartWindowThreadHandle = NULL /\ Owner = NULL
          /\ Owner' = t /\ UiServes(t)'
        BY DEF Slot, HandleByUi, Owner, UiServes
    <2>4. \A u \in Threads : Owner # u
        BY <2>3, NullAssumption
    <2>5. /\ \A u \in Threads : status[u] # "failure"
          /\ \A u \in Threads : Stage(u) \notin StartPcs \union RunPcs \union ClosePcs
        BY <2>4 DEF Slot, FailedIsAwaited, OwnersOwn
    <2>6. StartingIsAwaited' /\ OwnersOwn' /\ FailedIsAwaited'
        BY <2>1, <2>3, <2>5 DEF StartingIsAwaited, OwnersOwn, FailedIsAwaited
    <2>7. ReturnKnown'
        BY <1>0, <2>1, <2>2 DEF TypeOK, ReturnKnown
    <2>8. HandleByUi'
        BY <1>0, <2>3, NullAssumption DEF TypeOK, HandleByUi
    <2>9. SignalOfLoop'
        BY <2>1, <2>2 DEF Slot, SignalOfLoop
    <2>10. LiveHandle'
        BY DEF LiveHandle
    <2> QED
        BY <2>6, <2>7, <2>8, <2>9, <2>10 DEF Slot
<1>5. CASE CreateThreadFails
    BY <1>1, <1>5 DEF CreateThreadFails
<1>6. CASE StoreHandle
    <2> USE <1>6 DEF StoreHandle
    <2>1. \A t \in Threads : Stage(t)' = Stage(t)
        BY DEF Stage
    <2>2. Owner' = Owner /\ \A t \in Threads : UiServes(t)' = UiServes(t)
        BY DEF Owner, UiServes
    <2>3. StartingIsAwaited' /\ OwnersOwn' /\ FailedIsAwaited' /\ ReturnKnown'
        BY <2>1, <2>2 DEF Slot, StartingIsAwaited, OwnersOwn, FailedIsAwaited, ReturnKnown
    <2>4. HandleByUi'
        BY DEF Slot, HandleByUi
    <2>5. SignalOfLoop' /\ LiveHandle'
        BY <2>1 DEF Slot, SignalOfLoop, LiveHandle
    <2> QED
        BY <2>3, <2>4, <2>5 DEF Slot
<1>7. CASE WaitForEvent
    <2> USE <1>7 DEF WaitForEvent
    <2>1. \A t \in Threads : Stage(t)' = Stage(t)
        BY DEF Stage
    <2>2. Owner = ChartWindowThreadHandle /\ Owner' = Owner
        BY DEF Owner
    <2>3. ReturnKnown' /\ OwnersOwn' /\ SignalOfLoop'
        BY <2>1, <2>2 DEF Slot, ReturnKnown, OwnersOwn, SignalOfLoop
    <2>4. CASE ~ChartWindowInitializedEvent
        <3>1. \A t \in Threads : UiServes(t)' = UiServes(t)
            BY <2>4 DEF UiServes
        <3> QED
            BY <1>0, <2>1, <2>2, <2>3, <2>4, <3>1
            DEF Slot, StartingIsAwaited, FailedIsAwaited, HandleByUi, LiveHandle
    <2>5. CASE ChartWindowInitializedEvent
        <3>1. PICK r \in Threads : Stage(r) \in RunPcs
            BY <2>5 DEF Slot, SignalOfLoop
        <3>2. /\ Stage(r) \notin StartPcs /\ Stage(r) \notin EndPcs
              /\ Owner = r
            BY <3>1 DEF Slot, OwnersOwn, StartPcs, RunPcs, EndPcs
        <3>3. \A t \in Threads : Stage(t) \notin StartPcs /\ status[t] # "failure"
            BY <3>2 DEF Slot, OwnersOwn, FailedIsAwaited
        <3>4. StartingIsAwaited' /\ FailedIsAwaited'
            BY <2>1, <3>3 DEF StartingIsAwaited, FailedIsAwaited
        <3>5. LiveHandle'
            BY <2>1, <2>2, <3>1, <3>2 DEF LiveHandle
        <3>6. HandleByUi'
            BY <2>5 DEF Slot, HandleByUi
        <3> QED
            BY <2>3, <3>4, <3>5, <3>6 DEF Slot
    <2> QED
        BY <2>4, <2>5
<1>8. CASE PostShow
    BY <1>1, <1>8 DEF PostShow
<1> QED
    BY <1>2, <1>3, <1>4, <1>5, <1>6, <1>7, <1>8 DEF UiStep

\* What a thread's step changes is its own statement.
LEMMA OthersStay ==
    ASSUME TypeOK, NEW t \in Threads, NEW from, NEW to,
           from \notin DestroyPcs, to \notin DestroyPcs,
           Goto(t, from, to), UNCHANGED ret
    PROVE  /\ Stage(t) = from /\ Stage(t)' = to /\ pc'[t] = to
           /\ \A u \in Threads \ {t} : Stage(u)' = Stage(u) /\ pc'[u] = pc[u]
BY DEF TypeOK, Goto, Stage

\* At most one thread owns the slot.
LEMMA OneOwner ==
    ASSUME Slot, NEW t \in Threads, NEW u \in Threads, Owner = t,
           \/ Stage(u) \in StartPcs \union RunPcs \union ClosePcs
           \/ status[u] = "failure"
    PROVE  t = u
BY DEF Slot, OwnersOwn, FailedIsAwaited

\* The thread's steps from one phase to the next.
LEMMA SlotPhase ==
    ASSUME Slot, TypeOK', NEW t \in Threads,
           \/ CreateWindowFails(t) \/ OnCreateFails(t)
           \/ PublishWindow(t) \/ SetEvent(t)
           \/ ResetEvent(t) \/ ClearHandle(t) \/ ClearHwnd(t)
    PROVE  Slot'
<1> USE DEF uiVars, globals, locals
<1>0. TypeOK /\ ReturnKnown
    BY DEF Slot
<1>1. ASSUME NEW from \in {"createWindow", "onCreate"}, CreateFails(t, from) PROVE Slot'
    <2> USE <1>1 DEF CreateFails
    <2>1. /\ Stage(t) = from /\ Stage(t)' = "dtorLoad" /\ pc'[t] = "dtorLoad"
          /\ \A u \in Threads \ {t} : Stage(u)' = Stage(u) /\ pc'[u] = pc[u]
        BY <1>0, OthersStay DEF DestroyPcs
    <2>2. /\ from \in StartPcs /\ from \notin RunPcs
          /\ "dtorLoad" \notin StartPcs \union RunPcs \union ClosePcs \union DestroyPcs
          /\ "dtorLoad" \in EndPcs \ {"clearHwnd"}
        BY DEF StartPcs, RunPcs, ClosePcs, EndPcs, DestroyPcs
    <2>3. UiServes(t) /\ Owner = t /\ Owner' = Owner
          /\ \A u \in Threads : UiServes(u)' = UiServes(u)
        BY <2>1, <2>2 DEF Slot, StartingIsAwaited, OwnersOwn, UiServes, Owner
    <2>4. /\ status'[t] = "failure"
          /\ \A u \in Threads \ {t} : status'[u] = status[u]
        BY <1>0 DEF TypeOK
    <2>5. StartingIsAwaited' /\ OwnersOwn' /\ FailedIsAwaited'
        BY <2>1, <2>2, <2>3, <2>4 DEF Slot, StartingIsAwaited, OwnersOwn, FailedIsAwaited
    <2>6. HandleByUi'
        BY <1>0, <2>1 DEF Slot, TypeOK, HandleByUi
    <2>7. ReturnKnown' /\ SignalOfLoop' /\ LiveHandle'
        BY <2>1, <2>2, <2>3 DEF Slot, ReturnKnown, SignalOfLoop, LiveHandle, UiServes
    <2> QED
        BY <2>5, <2>6, <2>7 DEF Slot
<1>2. CASE PublishWindow(t)
    <2> USE <1>2 DEF PublishWindow
    <2>1. /\ Stage(t) = "publish" /\ Stage(t)' = "setEvent" /\ pc'[t] = "setEvent"
          /\ \A u \in Threads \ {t} : Stage(u)' = Stage(u) /\ pc'[u] = pc[u]
        BY <1>0, OthersStay DEF DestroyPcs
    <2>2. {"publish", "setEvent"} \subseteq StartPcs \ (RunPcs \union ClosePcs \union EndPcs)
          /\ "setEvent" \notin DestroyPcs
        BY DEF StartPcs, RunPcs, ClosePcs, EndPcs, DestroyPcs
    <2>3. Owner' = Owner /\ \A u \in Threads : UiServes(u)' = UiServes(u)
        BY DEF UiServes, Owner
    <2>4. StartingIsAwaited' /\ OwnersOwn' /\ FailedIsAwaited'
        BY <2>1, <2>2, <2>3 DEF Slot, StartingIsAwaited, OwnersOwn, FailedIsAwaited
    <2>5. HandleByUi'
        BY <1>0, <2>1 DEF Slot, TypeOK, HandleByUi
    <2>6. ReturnKnown' /\ SignalOfLoop' /\ LiveHandle'
        BY <2>1, <2>2 DEF Slot, ReturnKnown, SignalOfLoop, LiveHandle
    <2> QED
        BY <2>4, <2>5, <2>6 DEF Slot
<1>3. CASE SetEvent(t)
    <2> USE <1>3 DEF SetEvent
    <2>1. /\ Stage(t) = "setEvent" /\ Stage(t)' = "loop" /\ pc'[t] = "loop"
          /\ \A u \in Threads \ {t} : Stage(u)' = Stage(u) /\ pc'[u] = pc[u]
        BY <1>0, OthersStay DEF DestroyPcs
    <2>2. /\ "setEvent" \in StartPcs \ EndPcs
          /\ "loop" \in RunPcs \ (StartPcs \union ClosePcs \union EndPcs \union DestroyPcs)
        BY DEF StartPcs, RunPcs, ClosePcs, EndPcs, DestroyPcs
    <2>3. UiServes(t) /\ Owner = t /\ Owner' = Owner
        BY <2>1, <2>2 DEF Slot, StartingIsAwaited, OwnersOwn, UiServes, Owner
    <2>4. \A u \in Threads \ {t} :
             Stage(u) \notin StartPcs \union RunPcs \union ClosePcs /\ status[u] # "failure"
        BY <2>3, OneOwner
    <2>5. status[t] # "failure"
        BY <2>1, <2>2 DEF Slot, FailedIsAwaited
    <2>6. StartingIsAwaited' /\ OwnersOwn' /\ FailedIsAwaited'
        BY <2>1, <2>2, <2>3, <2>4, <2>5 DEF StartingIsAwaited, OwnersOwn, FailedIsAwaited
    <2>7. HandleByUi'
        BY <1>0, <2>1 DEF Slot, TypeOK, HandleByUi
    <2>8. SignalOfLoop'
        BY <2>1, <2>2 DEF SignalOfLoop
    <2>9. LiveHandle'
        <3> SUFFICES ASSUME uiPc' \in {"idle", "check", "create", "post"}
                     PROVE  LiveHandle'
            BY DEF LiveHandle
        <3>1. uiPc = "blocked"
            BY <2>3 DEF UiServes
        <3>2. ChartWindowThreadHandle' = t
            BY <2>3, <3>1 DEF Owner
        <3> QED
            BY <2>1, <2>2, <3>2 DEF LiveHandle
    <2>10. ReturnKnown'
        BY <2>1, <2>2 DEF Slot, ReturnKnown
    <2> QED
        BY <2>6, <2>7, <2>8, <2>9, <2>10 DEF Slot
<1>4. CASE ResetEvent(t)
    <2> USE <1>4 DEF ResetEvent
    <2>1. /\ Stage(t) = "resetEvent" /\ Stage(t)' = "closeHandle" /\ pc'[t] = "closeHandle"
          /\ \A u \in Threads \ {t} : Stage(u)' = Stage(u) /\ pc'[u] = pc[u]
        BY <1>0, OthersStay DEF DestroyPcs
    <2>2. /\ "resetEvent" \in RunPcs \ EndPcs
          /\ "closeHandle" \in ClosePcs \ (StartPcs \union RunPcs \union EndPcs \union DestroyPcs)
        BY DEF StartPcs, RunPcs, ClosePcs, EndPcs, DestroyPcs
    <2>3. Owner = t /\ Owner' = Owner /\ \A u \in Threads : UiServes(u)' = UiServes(u)
        BY <2>1, <2>2 DEF Slot, OwnersOwn, UiServes, Owner
    <2>4. \A u \in Threads \ {t} : Stage(u) \notin RunPcs
        BY <2>3, OneOwner
    <2>5. StartingIsAwaited' /\ OwnersOwn' /\ FailedIsAwaited'
        BY <2>1, <2>2, <2>3 DEF Slot, StartingIsAwaited, OwnersOwn, FailedIsAwaited
    <2>6. HandleByUi'
        BY <1>0, <2>1 DEF Slot, TypeOK, HandleByUi
    <2>7. ReturnKnown' /\ SignalOfLoop' /\ LiveHandle'
        BY <2>1, <2>2, <2>4 DEF Slot, ReturnKnown, SignalOfLoop, LiveHandle
    <2> QED
        BY <2>5, <2>6, <2>7 DEF Slot
<1>5. CASE ClearHandle(t)
    <2> USE <1>5 DEF ClearHandle
    <2>1. /\ Stage(t) = "clearHandle" /\ Stage(t)' = "clearHwnd" /\ pc'[t] = "clearHwnd"
          /\ \A u \in Threads \ {t} : Stage(u)' = Stage(u) /\ pc'[u] = pc[u]
        BY <1>0, OthersStay DEF DestroyPcs
    <2>2. /\ "clearHandle" \in ClosePcs \ (RunPcs \union EndPcs)
          /\ "clearHwnd" \in EndPcs \ (StartPcs \union RunPcs \union ClosePcs \union DestroyPcs)
        BY DEF StartPcs, RunPcs, ClosePcs, EndPcs, DestroyPcs
    <2>3. Owner = t /\ \A u \in Threads : UiServes(u)' = UiServes(u)
        BY <2>1, <2>2 DEF Slot, OwnersOwn, UiServes
    <2>4. \A u \in Threads \ {t} :
             Stage(u) \notin StartPcs \union RunPcs \union ClosePcs /\ status[u] # "failure"
        BY <2>3, OneOwner
    <2>5. status[t] # "failure"
        BY <2>1, <2>2 DEF Slot, FailedIsAwaited
    <2>6. StartingIsAwaited' /\ OwnersOwn' /\ FailedIsAwaited'
        BY <2>1, <2>2, <2>4, <2>5 DEF StartingIsAwaited, OwnersOwn, FailedIsAwaited
    <2>7. HandleByUi'
        BY <1>0, <2>1, NullAssumption DEF Slot, TypeOK, HandleByUi
    <2>8. LiveHandle'
        BY NullAssumption DEF LiveHandle
    <2>9. ReturnKnown' /\ SignalOfLoop'
        BY <2>1, <2>2 DEF Slot, ReturnKnown, SignalOfLoop
    <2> QED
        BY <2>6, <2>7, <2>8, <2>9 DEF Slot
<1>6. CASE ClearHwnd(t)
    <2> USE <1>6 DEF ClearHwnd
    <2>1. /\ Stage(t) = "clearHwnd" /\ Stage(t)' = "dtorLoad" /\ pc'[t] = "dtorLoad"
          /\ \A u \in Threads \ {t} : Stage(u)' = Stage(u) /\ pc'[u] = pc[u]
        BY <1>0, OthersStay DEF DestroyPcs
    <2>2. {"clearHwnd", "dtorLoad"} \subseteq
             EndPcs \ (StartPcs \union RunPcs \union ClosePcs \union DestroyPcs)
        BY DEF StartPcs, RunPcs, ClosePcs, EndPcs, DestroyPcs
    <2>3. Owner' = Owner /\ \A u \in Threads : UiServes(u)' = UiServes(u)
        BY DEF UiServes, Owner
    <2>4. /\ status'[t] = "success"
          /\ \A u \in Threads \ {t} : status'[u] = status[u]
        BY <1>0 DEF TypeOK
    <2>5. StartingIsAwaited' /\ OwnersOwn' /\ FailedIsAwaited'
        BY <2>1, <2>2, <2>3, <2>4 DEF Slot, StartingIsAwaited, OwnersOwn, FailedIsAwaited
    <2>6. HandleByUi'
        BY <1>0, <2>1 DEF Slot, TypeOK, HandleByUi
    <2>7. ReturnKnown' /\ SignalOfLoop' /\ LiveHandle'
        BY <2>1, <2>2 DEF Slot, ReturnKnown, SignalOfLoop, LiveHandle
    <2> QED
        BY <2>5, <2>6, <2>7 DEF Slot
<1> QED
    BY <1>1, <1>2, <1>3, <1>4, <1>5, <1>6 DEF CreateWindowFails, OnCreateFails

LEMMA SlotInit == Init => Slot
<1> SUFFICES ASSUME Init PROVE Slot
    OBVIOUS
<1>1. \A t \in Threads : Stage(t) = "none" /\ pc[t] = "none" /\ status[t] = "none"
    BY DEF Init, Stage, DestroyPcs
<1>2. "none" \notin StartPcs \union RunPcs \union ClosePcs \union EndPcs \union DestroyPcs
    BY DEF StartPcs, RunPcs, ClosePcs, EndPcs, DestroyPcs
<1>3. ReturnKnown /\ StartingIsAwaited /\ OwnersOwn /\ FailedIsAwaited
    BY <1>1, <1>2 DEF ReturnKnown, StartingIsAwaited, OwnersOwn, FailedIsAwaited
<1>4. HandleByUi /\ SignalOfLoop /\ LiveHandle
    BY <1>1, <1>2, NullAssumption DEF Init, HandleByUi, SignalOfLoop, LiveHandle
<1> QED
    BY <1>3, <1>4, TypeInit DEF Slot

LEMMA SlotStep == Slot /\ [Next]_vars => Slot'
<1> SUFFICES ASSUME Slot, [Next]_vars PROVE Slot'
    OBVIOUS
<1>0. TypeOK'
    BY TypeStep DEF Slot
<1>1. CASE Click \/ UiStep
    BY <1>0, <1>1, SlotUi
<1>2. ASSUME NEW t \in Threads, ThreadStep(t) \/ MessageStep(t) PROVE Slot'
    <2>1. CASE \/ CreateWindowFails(t) \/ OnCreateFails(t)
               \/ PublishWindow(t) \/ SetEvent(t)
               \/ ResetEvent(t) \/ ClearHandle(t) \/ ClearHwnd(t)
        BY <1>0, <2>1, SlotPhase
    <2>2. CASE ~ ( \/ CreateWindowFails(t) \/ OnCreateFails(t)
                   \/ PublishWindow(t) \/ SetEvent(t)
                   \/ ResetEvent(t) \/ ClearHandle(t) \/ ClearHwnd(t) )
        <3>1. Moves(t)
            BY <1>2, <2>2, QuietActions DEF ThreadStep, MessageStep
        <3> QED
            BY <1>0, <3>1, MoveStep
    <2> QED
        BY <2>1, <2>2
<1>3. CASE UNCHANGED vars
    <2>1. UNCHANGED <<uiPc, uiThread, ChartWindowThreadHandle, FlutterWindowHandle,
                      ChartWindowInitializedEvent, pc, ret, status>>
        BY <1>3 DEF vars, uiVars, globals, locals
    <2>2. \A t \in Threads : Stage(t)' = Stage(t)
        BY <2>1 DEF Stage
    <2>3. ReturnKnown'
        BY <2>1 DEF Slot, ReturnKnown
    <2> QED
        BY <1>0, <2>1, <2>2, <2>3, QuietStep
        DEF Starting, Running, Closing, Ended, uiVars, globals
<1> QED
    BY <1>1, <1>2, <1>3 DEF Next

LEMMA SlotAlways == Spec => []Slot
BY SlotInit, SlotStep, PTL DEF Spec

\* Threads that close and clear the global handle find their own handle there,
\* or none yet.
THEOREM OwnHandleSafe == Spec => []OwnHandle
<1>1. Slot => OwnHandle
    <2> SUFFICES ASSUME Slot, NEW t \in Threads, pc[t] \in ClosePcs
                 PROVE  ChartWindowThreadHandle \in {t, NULL}
        BY DEF OwnHandle
    <2>1. Stage(t) = pc[t]
        BY DEF Stage, ClosePcs, DestroyPcs
    <2> QED
        BY <2>1 DEF Slot, OwnersOwn, HandleByUi, Owner
<1> QED
    BY <1>1, SlotAlways, PTL

\* The event stands for a thread that serves messages.
THEOREM SignalSafe == Spec => []SignalOfLoop
<1>1. Slot => SignalOfLoop
    BY DEF Slot
<1> QED
    BY <1>1, SlotAlways, PTL

\* A click tests the handle of a thread that is still there, or none.
THEOREM LiveHandleSafe == Spec => []LiveHandle
<1>1. Slot => LiveHandle
    BY DEF Slot
<1> QED
    BY <1>1, SlotAlways, PTL

-----------------------------------------------------------------------------
(* The window: it is open only while its thread owns the slot.             *)

\* Where a thread with a window can be.
MayBeOpen(t) ==
    \/ Stage(t) \in {"onCreate", "publish", "setEvent", "loop", "quit"}
    \/ Stage(t) \in {"dtorLoad", "dtorStore", "dtorDestroyed"} /\ status[t] = "failure"
    \/ "getmessage" \in Failures

\* A step of one thread concerns only that thread's window.
LEMMA OpenOfOthers ==
    ASSUME TypeOK, OpenOnlyHere, NEW t \in Threads,
           \A u \in Threads \ {t} :
              pc'[u] = pc[u] /\ ret'[u] = ret[u] /\ window'[u] = window[u] /\ status'[u] = status[u],
           Open(t)' => MayBeOpen(t)'
    PROVE  OpenOnlyHere'
<1> SUFFICES ASSUME NEW u \in Threads \ {t}, Open(u)' PROVE MayBeOpen(u)'
    BY DEF OpenOnlyHere, MayBeOpen
<1>1. Open(u) /\ Stage(u)' = Stage(u)
    BY DEF Open, Stage
<1> QED
    BY <1>1 DEF OpenOnlyHere, MayBeOpen

LEMMA OpenThread ==
    ASSUME Slot, OpenOnlyHere, NEW t \in Threads, ThreadStep(t) \/ MessageStep(t)
    PROVE  OpenOnlyHere'
<1> USE DEF Goto, CallDestroy, LoadCount, CreateFails, locals
<1>0. TypeOK /\ ReturnKnown
    BY DEF Slot
<1>1. \A u \in Threads \ {t} :
          pc'[u] = pc[u] /\ ret'[u] = ret[u] /\ window'[u] = window[u] /\ status'[u] = status[u]
    <2> USE <1>0 DEF TypeOK
    <2>1. CASE \/ CtorLoad(t) \/ CtorStore(t) \/ TestClass(t) \/ RegisterClass(t) \/ SetFlag(t)
        BY <2>1 DEF CtorLoad, CtorStore, TestClass, RegisterClass, SetFlag
    <2>2. CASE \/ CreateWindow(t) \/ CreateWindowFails(t) \/ OnCreate(t) \/ OnCreateFails(t)
               \/ PublishWindow(t) \/ SetEvent(t)
        BY <2>2 DEF CreateWindow, CreateWindowFails, OnCreate, OnCreateFails, PublishWindow, SetEvent
    <2>3. CASE ShowFirstFrame(t) \/ CloseByUser(t) \/ GetMessageFails(t) \/ Quit(t)
        BY <2>3 DEF ShowFirstFrame, CloseByUser, GetMessageFails, Quit
    <2>4. CASE ResetEvent(t) \/ CloseHandle(t) \/ ClearHandle(t) \/ ClearHwnd(t)
        BY <2>4 DEF ResetEvent, CloseHandle, ClearHandle, ClearHwnd
    <2>5. CASE DtorLoad(t) \/ DtorStore(t) \/ DtorDestroyed(t)
        BY <2>5 DEF DtorLoad, DtorStore, DtorDestroyed
    <2>6. CASE TestCount(t) \/ UnregisterClass(t) \/ ClearFlag(t)
        BY <2>6 DEF TestCount, UnregisterClass, ClearFlag
    <2> QED
        BY <2>1, <2>2, <2>3, <2>4, <2>5, <2>6 DEF ThreadStep, MessageStep
<1>2. Open(t)' => MayBeOpen(t)'
    <2>0. DOMAIN pc = Threads /\ DOMAIN ret = Threads
          /\ DOMAIN window = Threads /\ DOMAIN status = Threads
        BY <1>0 DEF TypeOK
    <2>1. CASE \/ CtorLoad(t) \/ CtorStore(t) \/ TestClass(t) \/ RegisterClass(t) \/ SetFlag(t)
        <3>1. Open(t)' => Open(t)
            BY <2>1 DEF CtorLoad, CtorStore, TestClass, RegisterClass, SetFlag, Open
        <3>2. /\ Stage(t) \in {"ctorLoad", "ctorStore", "testClass", "registerClass", "setFlag"}
              /\ Failures' = Failures
            BY <2>1 DEF CtorLoad, CtorStore, TestClass, RegisterClass, SetFlag, Stage, DestroyPcs
        <3> QED
            BY <3>1, <3>2 DEF OpenOnlyHere, MayBeOpen
    <2>2. CASE CreateWindow(t) \/ OnCreate(t) \/ PublishWindow(t) \/ SetEvent(t)
        <3>1. Stage(t)' \in {"onCreate", "publish", "setEvent", "loop"}
            BY <2>0, <2>2 DEF CreateWindow, OnCreate, PublishWindow, SetEvent, Stage, DestroyPcs
        <3> QED
            BY <3>1 DEF MayBeOpen
    <2>3. CASE CreateWindowFails(t) \/ OnCreateFails(t)
        <3>1. Stage(t)' = "dtorLoad" /\ status'[t] = "failure"
            BY <2>0, <2>3 DEF CreateWindowFails, OnCreateFails, Stage, DestroyPcs
        <3> QED
            BY <3>1 DEF MayBeOpen
    <2>4. CASE ShowFirstFrame(t) \/ CloseByUser(t)
        <3>1. Stage(t)' \in {"loop", "quit"}
            BY <2>0, <2>4 DEF ShowFirstFrame, CloseByUser, Stage, DestroyPcs
        <3> QED
            BY <3>1 DEF MayBeOpen
    <2>5. CASE Quit(t) \/ DtorDestroyed(t)
        <3>1. window'[t] = "destroyed"
            BY <2>0, <2>5 DEF Quit, DtorDestroyed
        <3> QED
            BY <3>1 DEF Open
    <2>6. CASE GetMessageFails(t)
        BY <2>6 DEF GetMessageFails, MayBeOpen
    <2>7. CASE ResetEvent(t) \/ CloseHandle(t) \/ ClearHandle(t) \/ ClearHwnd(t)
        <3>1. Open(t)' => Open(t)
            BY <2>7 DEF ResetEvent, CloseHandle, ClearHandle, ClearHwnd, Open
        <3>2. Stage(t) \in {"resetEvent", "closeHandle", "clearHandle", "clearHwnd"}
            BY <2>7 DEF ResetEvent, CloseHandle, ClearHandle, ClearHwnd, Stage, DestroyPcs
        <3> QED
            BY <3>1, <3>2 DEF OpenOnlyHere, MayBeOpen
    <2>8. CASE DtorLoad(t)
        <3>1. /\ Open(t)' => Open(t)
              /\ Stage(t) = "dtorLoad" /\ Stage(t)' = "dtorStore" /\ status' = status
            BY <2>0, <2>8 DEF DtorLoad, Open, Stage, DestroyPcs
        <3> QED
            BY <3>1 DEF OpenOnlyHere, MayBeOpen
    <2>9. CASE DtorStore(t)
        <3>1. /\ Open(t)' => Open(t)
              /\ status' = status
            BY <2>0, <2>9 DEF DtorStore, Open
        <3>2. /\ Stage(t) = "dtorStore"
              /\ Open(t) => Stage(t)' = "dtorDestroyed"
            BY <2>0, <2>9 DEF DtorStore, Stage, DestroyPcs
        <3> QED
            BY <3>1, <3>2 DEF OpenOnlyHere, MayBeOpen
    <2>10. CASE TestCount(t) \/ UnregisterClass(t) \/ ClearFlag(t)
        <3>1. /\ Open(t)' => Open(t)
              /\ status' = status
            BY <2>10 DEF TestCount, UnregisterClass, ClearFlag, Open
        <3>2. pc[t] \in DestroyPcs => ret[t] \in {"testClass", "quit", "dtorDestroyed", "done"}
            BY <1>0 DEF TypeOK, ReturnKnown
        <3>3. Stage(t)' = Stage(t)
            BY <2>0, <2>10, <3>2 DEF TestCount, UnregisterClass, ClearFlag, Stage, DestroyPcs
        <3> QED
            BY <3>1, <3>3 DEF OpenOnlyHere, MayBeOpen
    <2> QED
        BY <2>1, <2>2, <2>3, <2>4, <2>5, <2>6, <2>7, <2>8, <2>9, <2>10
        DEF ThreadStep, MessageStep
<1> QED
    BY <1>0, <1>1, <1>2, OpenOfOthers

LEMMA OpenStep == Slot /\ OpenOnlyHere /\ [Next]_vars => OpenOnlyHere'
<1> SUFFICES ASSUME Slot, OpenOnlyHere, [Next]_vars PROVE OpenOnlyHere'
    OBVIOUS
<1>1. ASSUME NEW t \in Threads, CreateThread(t) PROVE OpenOnlyHere'
    <2>1. /\ Stage(t) = "none" /\ window' = window /\ status' = status /\ ret' = ret
          /\ \A u \in Threads \ {t} : pc'[u] = pc[u]
        BY <1>1 DEF CreateThread, Slot, TypeOK, Stage, DestroyPcs, locals
    <2>2. Open(t)' => MayBeOpen(t)'
        BY <2>1 DEF OpenOnlyHere, MayBeOpen, Open
    <2> QED
        BY <2>1, <2>2, OpenOfOthers DEF Slot
<1>2. ASSUME UNCHANGED <<pc, ret, window, status>> PROVE OpenOnlyHere'
    BY <1>2 DEF OpenOnlyHere, Open, Stage
<1>3. CASE Click \/ UiStep
    BY <1>1, <1>2, <1>3 DEF Click, UiStep, CheckHandle, CreateThreadFails, StoreHandle,
       WaitForEvent, PostShow, locals
<1>4. CASE UNCHANGED vars
    BY <1>2, <1>4 DEF vars, locals
<1> QED
    BY <1>3, <1>4, OpenThread DEF Next

LEMMA OpenAlways == Spec => [](Slot /\ OpenOnlyHere)
<1>1. Init => OpenOnlyHere
    BY DEF Init, OpenOnlyHere, Open
<1> QED
    BY <1>1, SlotInit, SlotStep, OpenStep, PTL DEF Spec

\* A thread with a window owns the slot.
LEMMA OpenOwns ==
    ASSUME Slot, OpenOnlyHere, "getmessage" \notin Failures, NEW t \in Threads, Open(t)
    PROVE  Owner = t
BY DEF Slot, OpenOnlyHere, OwnersOwn, FailedIsAwaited, StartPcs, RunPcs

\* Never two chart windows, however the threads and the clicks interleave.
THEOREM OneWindowSafe == Spec => []OneWindow
<1>1. Slot /\ OpenOnlyHere => OneWindow
    BY OpenOwns DEF OneWindow
<1> QED
    BY <1>1, OpenAlways, PTL

-----------------------------------------------------------------------------
(* The kernel handle.                                                      *)

LEMMA LeakThread ==
    ASSUME Slot, Slot', LeakedIsAwaited, NEW t \in Threads, ThreadStep(t) \/ MessageStep(t)
    PROVE  LeakedIsAwaited'
<1> USE DEF LeakedIsAwaited, globals, locals, uiVars
<1>0. openHandles \subseteq Threads
    BY DEF Slot, TypeOK
<1>1. CASE \/ CreateWindowFails(t) \/ OnCreateFails(t)
    <2>1. status'[t] = "failure" /\ openHandles' = openHandles
        BY <1>1 DEF CreateWindowFails, OnCreateFails, CreateFails, Slot, TypeOK
    <2>2. UiServes(t)' /\ \A u \in Threads : UiServes(u)' = UiServes(u)
        BY <1>1, <2>1 DEF CreateWindowFails, OnCreateFails, CreateFails,
           Slot, FailedIsAwaited, UiServes
    <2>3. \A u \in Threads \ {t} : Stage(u)' = Stage(u)
        BY <1>1 DEF CreateWindowFails, OnCreateFails, CreateFails, Goto, Slot, TypeOK, Stage
    <2> QED
        BY <1>0, <2>1, <2>2, <2>3
<1>2. CASE PublishWindow(t) \/ SetEvent(t)
    <2>1. /\ Stage(t) \in StartPcs
          /\ Stage(t)' \in StartPcs \union RunPcs
          /\ \A u \in Threads \ {t} : Stage(u)' = Stage(u)
          /\ openHandles' = openHandles /\ uiThread' = uiThread
        BY <1>2 DEF PublishWindow, SetEvent, Goto, Slot, TypeOK, Stage,
           StartPcs, RunPcs, DestroyPcs
    <2>2. UiServes(t)
        BY <2>1 DEF Slot, StartingIsAwaited
    <2>3. Stage(t)' \notin EndPcs \union {"clearHandle"}
        BY <2>1 DEF StartPcs, RunPcs, EndPcs
    <2>4. \A u \in openHandles \ {t} : ~UiServes(u)
        BY <2>2 DEF UiServes
    <2> QED
        BY <1>0, <2>1, <2>3, <2>4
<1>3. CASE ResetEvent(t)
    <2>1. /\ Stage(t)' = "closeHandle"
          /\ \A u \in Threads \ {t} : Stage(u)' = Stage(u)
          /\ openHandles' = openHandles
          /\ \A u \in Threads : UiServes(u)' = UiServes(u)
        BY <1>3 DEF ResetEvent, Goto, Slot, TypeOK, Stage, DestroyPcs, UiServes
    <2> QED
        BY <2>1 DEF Slot, TypeOK, EndPcs
<1>4. CASE CloseHandle(t)
    <2>1. /\ Stage(t) \in ClosePcs
          /\ \A u \in Threads \ {t} : Stage(u)' = Stage(u)
          /\ openHandles' = openHandles \ {ChartWindowThreadHandle}
          /\ \A u \in Threads : UiServes(u)' = UiServes(u)
        BY <1>4 DEF CloseHandle, Goto, Slot, TypeOK, Stage, ClosePcs, DestroyPcs, UiServes
    <2>2. Owner = t
        BY <2>1 DEF Slot, OwnersOwn
    <2>3. t \in openHandles' => UiServes(t)'
        BY <2>1, <2>2 DEF Owner, UiServes
    <2> QED
        BY <2>1, <2>3 DEF Slot, TypeOK
<1>5. CASE ClearHandle(t) \/ ClearHwnd(t)
    <2>1. /\ Stage(t) \in EndPcs \union {"clearHandle"}
          /\ \A u \in Threads \ {t} : Stage(u)' = Stage(u)
          /\ openHandles' = openHandles
          /\ \A u \in Threads : UiServes(u)' = UiServes(u)
        BY <1>5 DEF ClearHandle, ClearHwnd, Goto, Slot, TypeOK, Stage, EndPcs,
           DestroyPcs, UiServes
    <2> QED
        BY <2>1 DEF Slot, TypeOK
<1>6. CASE ~ ( \/ CreateWindowFails(t) \/ OnCreateFails(t) \/ PublishWindow(t) \/ SetEvent(t)
               \/ ResetEvent(t) \/ CloseHandle(t) \/ ClearHandle(t) \/ ClearHwnd(t) )
    <2>1. Moves(t)
        BY <1>6, QuietActions DEF ThreadStep, MessageStep
    <2>2. openHandles' = openHandles /\ Stage(t) \notin ClosePcs
        <3> USE DEF LoadCount, CallDestroy, Goto, Stage, ClosePcs, DestroyPcs
        <3>1. CASE CtorLoad(t) \/ CtorStore(t) \/ TestClass(t) \/ RegisterClass(t) \/ SetFlag(t)
            BY <3>1 DEF CtorLoad, CtorStore, TestClass, RegisterClass, SetFlag
        <3>2. CASE \/ CreateWindow(t) \/ OnCreate(t)
                   \/ ShowFirstFrame(t) \/ CloseByUser(t) \/ GetMessageFails(t) \/ Quit(t)
            BY <3>2 DEF CreateWindow, OnCreate, ShowFirstFrame, CloseByUser, GetMessageFails, Quit
        <3>3. CASE DtorLoad(t) \/ DtorStore(t) \/ DtorDestroyed(t)
            BY <3>3 DEF DtorLoad, DtorStore, DtorDestroyed
        <3>4. CASE TestCount(t) \/ UnregisterClass(t) \/ ClearFlag(t)
            <4>1. ret[t] \notin ClosePcs
                BY DEF Slot, TypeOK
            <4> QED
                BY <3>4, <4>1 DEF TestCount, UnregisterClass, ClearFlag
        <3> QED
            BY <1>6, <3>1, <3>2, <3>3, <3>4 DEF ThreadStep, MessageStep
    <2>3. Stage(t)' \in EndPcs \union {"clearHandle"} => Stage(t) \in EndPcs
        BY <2>1, <2>2 DEF Moves, SamePhase, StartPcs, RunPcs, ClosePcs, EndPcs
    <2>4. /\ \A u \in Threads \ {t} : Stage(u)' = Stage(u)
          /\ \A u \in Threads : UiServes(u)' = UiServes(u)
        BY <2>1 DEF Moves, Slot, TypeOK, Stage, UiServes
    <2> QED
        BY <1>0, <2>2, <2>3, <2>4
<1> QED
    BY <1>1, <1>2, <1>3, <1>4, <1>5, <1>6

LEMMA LeakUi ==
    ASSUME Slot, LeakedIsAwaited, Click \/ UiStep
    PROVE  LeakedIsAwaited'
<1> USE DEF LeakedIsAwaited, UiGoto, globals, locals
<1>0. openHandles \subseteq Threads
    BY DEF Slot, TypeOK
<1>1. CASE Click \/ CheckHandle \/ CreateThreadFails \/ PostShow
    <2>1. /\ uiPc \notin {"store", "wait", "blocked"}
          /\ openHandles' = openHandles /\ pc' = pc /\ ret' = ret
        BY <1>1 DEF Click, CheckHandle, CreateThreadFails, PostShow
    <2> QED
        BY <2>1 DEF UiServes, Stage
<1>2. ASSUME NEW t \in Threads, CreateThread(t) PROVE LeakedIsAwaited'
    <2>1. /\ Stage(t)' = "ctorLoad" /\ openHandles' = openHandles \union {t}
          /\ \A u \in Threads \ {t} : Stage(u)' = Stage(u)
        BY <1>2 DEF CreateThread, Slot, TypeOK, Stage, DestroyPcs
    <2>2. \A u \in Threads : ~UiServes(u)
        BY <1>2 DEF CreateThread, UiServes
    <2> QED
        BY <1>0, <2>1, <2>2 DEF EndPcs
<1>3. CASE StoreHandle
    BY <1>3 DEF StoreHandle, UiServes, Stage
<1>4. CASE WaitForEvent
    <2>1. \A u \in Threads : Stage(u)' = Stage(u)
        BY <1>4 DEF WaitForEvent, Stage
    <2>2. openHandles' = openHandles
        BY <1>4 DEF WaitForEvent
    <2>3. CASE ~ChartWindowInitializedEvent
        <3>1. \A u \in Threads : UiServes(u)' = UiServes(u)
            BY <1>4, <2>3 DEF WaitForEvent, UiServes
        <3> QED
            BY <1>0, <2>1, <2>2, <3>1
    <2>4. CASE ChartWindowInitializedEvent
        <3>1. PICK r \in Threads : Stage(r) \in RunPcs
            BY <2>4 DEF Slot, SignalOfLoop
        <3>2. ChartWindowThreadHandle = r /\ uiPc = "wait"
            BY <1>4, <3>1 DEF WaitForEvent, Slot, OwnersOwn, Owner
        <3>3. uiThread = r
            BY <3>2, NullAssumption DEF Slot, HandleByUi
        <3>4. \A u \in openHandles : Stage(u) \notin EndPcs \union {"clearHandle"}
            BY <3>1, <3>3 DEF UiServes, RunPcs, EndPcs
        <3> QED
            BY <1>0, <2>1, <2>2, <3>4
    <2> QED
        BY <2>3, <2>4
<1> QED
    BY <1>1, <1>2, <1>3, <1>4 DEF UiStep

LEMMA LeakStep == Slot /\ LeakedIsAwaited /\ [Next]_vars => LeakedIsAwaited'
<1> SUFFICES ASSUME Slot, LeakedIsAwaited, [Next]_vars PROVE LeakedIsAwaited'
    OBVIOUS
<1>1. Slot'
    BY SlotStep
<1>2. CASE UNCHANGED vars
    BY <1>2 DEF vars, uiVars, locals, LeakedIsAwaited, UiServes, Stage
<1> QED
    BY <1>1, <1>2, LeakUi, LeakThread DEF Next

\* With the UI thread free, every thread that is past its NtClose has had its
\* handle closed.
THEOREM LeakSafe == Spec => []LeakOnlyWhenHung
<1>1. Init => LeakedIsAwaited
    BY DEF Init, LeakedIsAwaited
<1>2. LeakedIsAwaited => LeakOnlyWhenHung
    BY DEF LeakedIsAwaited, LeakOnlyWhenHung, UiServes
<1> QED
    BY <1>1, <1>2, SlotInit, SlotStep, LeakStep, PTL DEF Spec

-----------------------------------------------------------------------------
(* The window class.                                                       *)

LEMMA FlagThread ==
    ASSUME Slot, FlagHonest, NEW t \in Threads, ThreadStep(t) \/ MessageStep(t)
    PROVE  FlagHonest'
<1> USE DEF Goto, CallDestroy, LoadCount, CreateFails, classVars, locals
<1>0. /\ pc \in [Threads -> {"none"} \union StartPcs \union RunPcs \union ClosePcs
                              \union EndPcs \union DestroyPcs]
      /\ status \in [Threads -> {"none", "failure", "success"}]
    BY DEF Slot, TypeOK
\* Steps that leave flag and class alone, and the place of the thread that
\* answers for them.
<1> DEFINE Elsewhere ==
        /\ UNCHANGED classVars
        /\ pc[t] \notin {"clearFlag", "createWindow"}
        /\ \A u \in Threads \ {t} : pc'[u] = pc[u]
        /\ \A u \in Threads : status[u] = "failure" => status'[u] = "failure"
<1>1. ASSUME Elsewhere PROVE FlagHonest'
    BY <1>1 DEF FlagHonest
<1>2. CASE CtorLoad(t) \/ CtorStore(t) \/ TestClass(t)
    BY <1>0, <1>1, <1>2 DEF CtorLoad, CtorStore, TestClass
<1>3. CASE RegisterClass(t)
    BY <1>3 DEF RegisterClass, FlagHonest
<1>4. CASE SetFlag(t)
    BY <1>0, <1>4 DEF SetFlag, FlagHonest
<1>5. CASE CreateWindow(t)
    BY <1>5 DEF CreateWindow, FlagHonest
<1>6. CASE CreateWindowFails(t)
    BY <1>0, <1>6 DEF CreateWindowFails, FlagHonest
<1>7. CASE OnCreate(t) \/ OnCreateFails(t)
    BY <1>0, <1>1, <1>7 DEF OnCreate, OnCreateFails
<1>8. CASE \/ PublishWindow(t) \/ SetEvent(t) \/ ResetEvent(t)
           \/ CloseHandle(t) \/ ClearHandle(t)
    BY <1>0, <1>1, <1>8 DEF PublishWindow, SetEvent, ResetEvent, CloseHandle, ClearHandle
<1>9. CASE ShowFirstFrame(t) \/ CloseByUser(t) \/ GetMessageFails(t) \/ Quit(t)
    BY <1>0, <1>1, <1>9 DEF ShowFirstFrame, CloseByUser, GetMessageFails, Quit
\* A thread at clearHwnd has not failed.
<1>10. CASE ClearHwnd(t)
  <2>1. pc[t] = "clearHwnd" /\ Stage(t) = "clearHwnd"
      BY <1>10 DEF ClearHwnd, Stage, DestroyPcs
  <2>2. status[t] # "failure"
      BY <2>1 DEF Slot, FailedIsAwaited
  <2> QED
      BY <1>0, <1>1, <1>10, <2>1, <2>2 DEF ClearHwnd
<1>11. CASE DtorLoad(t) \/ DtorStore(t) \/ DtorDestroyed(t) \/ TestCount(t)
    BY <1>0, <1>1, <1>11 DEF DtorLoad, DtorStore, DtorDestroyed, TestCount
<1>12. CASE UnregisterClass(t)
    BY <1>0, <1>12 DEF UnregisterClass, FlagHonest
<1>13. CASE ClearFlag(t)
    BY <1>13 DEF ClearFlag, FlagHonest
<1> HIDE DEF Elsewhere
<1> QED
    BY <1>2, <1>3, <1>4, <1>5, <1>6, <1>7, <1>8, <1>9, <1>10, <1>11, <1>12, <1>13
       DEF ThreadStep, MessageStep

LEMMA FlagStep == Slot /\ FlagHonest /\ [Next]_vars => FlagHonest'
<1> SUFFICES ASSUME Slot, FlagHonest, [Next]_vars PROVE FlagHonest'
    OBVIOUS
<1>1. ASSUME UNCHANGED <<classVars, pc, status>> PROVE FlagHonest'
    BY <1>1 DEF FlagHonest, classVars
<1>2. CASE UNCHANGED vars
    BY <1>1, <1>2 DEF vars, locals
<1>3. CASE Click
    BY <1>1, <1>3 DEF Click, locals
<1>4. CASE CheckHandle \/ CreateThreadFails \/ StoreHandle \/ WaitForEvent \/ PostShow
    BY <1>1, <1>4 DEF CheckHandle, CreateThreadFails, StoreHandle, WaitForEvent, PostShow, locals
<1>5. ASSUME NEW t \in Threads, CreateThread(t) PROVE FlagHonest'
  <2>1. pc[t] = "none" /\ UNCHANGED <<classVars, status>> /\ \A u \in Threads \ {t} : pc'[u] = pc[u]
      BY <1>5 DEF CreateThread, locals, Slot, TypeOK
  <2> QED
      BY <2>1 DEF FlagHonest, classVars
<1> QED
    BY <1>2, <1>3, <1>4, <1>5, FlagThread DEF Next, UiStep

\* win32_window.cpp:99-125: with the UI thread free and no thread starting or
\* ending, the registrar's flag claims no class that Windows does not have,
\* whatever updates of the count were lost before.
THEOREM FlagSafe == Spec => []ClassFlagHonest
<1>1. Init => FlagHonest
    BY DEF Init, FlagHonest
<1>2. Slot /\ FlagHonest => ClassFlagHonest
  <2> SUFFICES ASSUME Slot, FlagHonest,
                      uiPc \in {"idle", "check", "create"},
                      \A t \in Threads : pc[t] \in {"none", "loop", "done"},
                      class_registered_
               PROVE  classInSystem
      BY DEF ClassFlagHonest
  <2>1. \A t \in Threads : status[t] # "failure"
      BY DEF Slot, FailedIsAwaited, UiServes
  <2> QED
      BY <2>1 DEF FlagHonest
<1> QED
    BY <1>1, <1>2, FlagStep, SlotInit, SlotStep, PTL DEF Spec

-----------------------------------------------------------------------------
\* The inductive invariant of all of the above.
THEOREM Inductive == Spec => []IInv
<1>1. Init => LeakedIsAwaited /\ FlagHonest
    BY DEF Init, LeakedIsAwaited, FlagHonest
<1>2. Slot /\ OpenOnlyHere /\ LeakedIsAwaited /\ FlagHonest <=> IInv
    BY DEF IInv
<1> QED
    BY <1>1, <1>2, OpenAlways, SlotStep, LeakStep, FlagStep, PTL DEF Spec

-----------------------------------------------------------------------------
(* ChartWindow implements OneChart.                                        *)

Started == {t \in Threads : pc[t] # "none"}
Opened == {t \in Threads : Open(t)}

LEMMA AbstractInit == Init => Abstract!Init
BY DEF Init, Abstract!Init, Owner, Open

\* A step that starts no thread, keeps the owner and keeps the windows is a
\* stutter of OneChart.
LEMMA Stutter ==
    ASSUME Started' = Started, Owner' = Owner, Opened' = Opened
    PROVE  UNCHANGED Abstract!vars
BY DEF Started, Opened, Abstract!vars

LEMMA AbstractUi ==
    ASSUME Slot, Click \/ UiStep
    PROVE  [Abstract!Next]_(Abstract!vars)
<1> USE DEF UiGoto, globals, locals
<1>1. CASE Click \/ CheckHandle \/ CreateThreadFails \/ StoreHandle \/ WaitForEvent \/ PostShow
    <2>1. Started' = Started /\ Opened' = Opened
        BY <1>1 DEF Click, CheckHandle, CreateThreadFails, StoreHandle, WaitForEvent,
           PostShow, Started, Opened, Open
    <2>2. Owner' = Owner
        BY <1>1 DEF Click, CheckHandle, CreateThreadFails, StoreHandle, WaitForEvent,
           PostShow, Owner
    <2> QED
        BY <2>1, <2>2, Stutter
<1>2. ASSUME NEW t \in Threads, CreateThread(t) PROVE Abstract!Next
    <2>1. Owner = NULL /\ Owner' = t
        BY <1>2 DEF CreateThread, Slot, HandleByUi, Owner
    <2>2. t \in Threads \ Started /\ Started' = Started \union {t}
        BY <1>2 DEF CreateThread, Slot, TypeOK, Started
    <2>3. Opened' = Opened
        BY <1>2 DEF CreateThread, Opened, Open
    <2>4. Abstract!Start(t)
        BY <2>1, <2>2, <2>3 DEF Abstract!Start, Started, Opened
    <2> QED
        BY <2>4 DEF Abstract!Next
<1> QED
    BY <1>1, <1>2 DEF UiStep

LEMMA AbstractThread ==
    ASSUME Slot, OpenOnlyHere, "getmessage" \notin Failures,
           NEW t \in Threads, ThreadStep(t) \/ MessageStep(t)
    PROVE  [Abstract!Next]_(Abstract!vars)
<1> USE DEF Goto, globals, locals, uiVars
<1>0. /\ TypeOK /\ ReturnKnown
      /\ \A u \in Threads : Open(u) => Owner = u
    BY OpenOwns DEF Slot
<1>1. CASE CreateWindow(t)
    <2>1. Stage(t) = "createWindow" /\ pc[t] # "none"
        BY <1>1 DEF CreateWindow, Stage, DestroyPcs
    <2>2. Owner = t /\ Owner' = Owner
        BY <1>1, <2>1 DEF CreateWindow, Slot, OwnersOwn, StartPcs, Owner
    <2>3. Opened = {}
        BY <1>0, <2>1, <2>2 DEF Opened, OpenOnlyHere
    <2>4. Opened' = {t}
        BY <1>0, <1>1, <2>3 DEF CreateWindow, TypeOK, Opened, Open
    <2>5. Started' = Started
        BY <1>0, <1>1, <2>1 DEF CreateWindow, TypeOK, Started
    <2>6. Abstract!Open
        BY <2>2, <2>3, <2>4, <2>5, NullAssumption DEF Abstract!Open, Started, Opened
    <2> QED
        BY <2>6 DEF Abstract!Next
<1>2. CASE Quit(t) \/ DtorDestroyed(t)
    <2>1. Started' = Started /\ Owner' = Owner
        BY <1>0, <1>2 DEF Quit, DtorDestroyed, CallDestroy, TypeOK, Started, Owner
    <2>2. Opened' = Opened \ {t}
        BY <1>0, <1>2 DEF Quit, DtorDestroyed, TypeOK, Opened, Open
    <2>3. CASE Open(t)
        <3>1. Owner = t /\ Opened = {t}
            BY <1>0, <2>3 DEF Opened
        <3>2. Abstract!Close
            BY <2>1, <2>2, <3>1, NullAssumption DEF Abstract!Close, Started, Opened
        <3> QED
            BY <3>2 DEF Abstract!Next
    <2>4. CASE ~Open(t)
        BY <2>1, <2>2, <2>4, Stutter DEF Opened
    <2> QED
        BY <2>3, <2>4
<1>3. CASE ClearHandle(t)
    <2>1. /\ Stage(t) = "clearHandle"
          /\ Started' = Started /\ Opened' = Opened
        BY <1>0, <1>3 DEF ClearHandle, TypeOK, Stage, DestroyPcs, Started, Opened, Open
    <2>2. Owner = t
        BY <2>1 DEF Slot, OwnersOwn, ClosePcs
    <2>3. CASE uiPc = "store"
        BY <1>3, <2>1, <2>3, Stutter DEF ClearHandle, Owner
    <2>4. CASE uiPc # "store"
        <3>1. Owner' = NULL
            BY <1>3, <2>4 DEF ClearHandle, Owner
        <3>2. Opened = {}
            BY <1>0, <2>1, <2>2 DEF Opened, OpenOnlyHere
        <3>3. Abstract!Release
            BY <2>1, <2>2, <3>1, <3>2, NullAssumption DEF Abstract!Release, Started, Opened
        <3> QED
            BY <3>3 DEF Abstract!Next
    <2> QED
        BY <2>3, <2>4
<1>4. CASE \/ CreateWindowFails(t) \/ OnCreateFails(t) \/ PublishWindow(t) \/ SetEvent(t)
           \/ ResetEvent(t) \/ ClearHwnd(t)
    <2>1. Started' = Started
        BY <1>0, <1>4 DEF CreateWindowFails, OnCreateFails, CreateFails, PublishWindow,
           SetEvent, ResetEvent, ClearHwnd, TypeOK, Started
    <2>2. Opened' = Opened
        BY <1>4 DEF CreateWindowFails, OnCreateFails, CreateFails, PublishWindow,
           SetEvent, ResetEvent, ClearHwnd, Opened, Open
    <2>3. Owner' = Owner
        BY <1>4 DEF CreateWindowFails, OnCreateFails, CreateFails, PublishWindow,
           SetEvent, ResetEvent, ClearHwnd, Owner
    <2> QED
        BY <2>1, <2>2, <2>3, Stutter
<1>5. CASE ~ ( \/ CreateWindow(t) \/ Quit(t) \/ DtorDestroyed(t) \/ ClearHandle(t)
               \/ CreateWindowFails(t) \/ OnCreateFails(t) \/ PublishWindow(t) \/ SetEvent(t)
               \/ ResetEvent(t) \/ ClearHwnd(t) )
    <2>1. Moves(t)
        BY <1>5, QuietActions DEF ThreadStep, MessageStep
    <2>2. pc[t] # "none" /\ pc'[t] # "none"
        BY <2>1 DEF Moves, SamePhase, Stage, StartPcs, RunPcs, ClosePcs, EndPcs, DestroyPcs
    <2>3. Started' = Started /\ Owner' = Owner
        BY <1>0, <2>1, <2>2 DEF Moves, TypeOK, Started, Owner
    <2>4. Opened' = Opened
        <3> USE <1>0 DEF LoadCount, CallDestroy, TypeOK, Opened, Open
        <3>1. CASE CtorLoad(t) \/ CtorStore(t) \/ TestClass(t) \/ RegisterClass(t) \/ SetFlag(t)
            BY <3>1 DEF CtorLoad, CtorStore, TestClass, RegisterClass, SetFlag
        <3>2. CASE OnCreate(t) \/ GetMessageFails(t) \/ CloseHandle(t) \/ DtorLoad(t)
            BY <3>2 DEF OnCreate, GetMessageFails, CloseHandle, DtorLoad
        <3>3. CASE ShowFirstFrame(t)
            BY <3>3 DEF ShowFirstFrame
        <3>4. CASE CloseByUser(t)
            BY <3>4 DEF CloseByUser
        <3>5. CASE DtorStore(t)
            BY <3>5 DEF DtorStore
        <3>6. CASE TestCount(t) \/ UnregisterClass(t) \/ ClearFlag(t)
            BY <3>6 DEF TestCount, UnregisterClass, ClearFlag
        <3> QED
            BY <1>5, <3>1, <3>2, <3>3, <3>4, <3>5, <3>6 DEF ThreadStep, MessageStep
    <2> QED
        BY <2>3, <2>4, Stutter
<1> QED
    BY <1>1, <1>2, <1>3, <1>4, <1>5

\* Sessions follow one another, and only the owner of the slot has a window:
\* whenever GetMessage does not fail, the code implements OneChart.
THEOREM Refinement ==
    ASSUME "getmessage" \notin Failures
    PROVE  Spec => ImplementsOneChart
<1>1. ASSUME Slot, OpenOnlyHere, [Next]_vars
      PROVE  [Abstract!Next]_(Abstract!vars)
    <2>1. CASE UNCHANGED vars
        BY <2>1, Stutter DEF vars, uiVars, globals, locals, Started, Opened, Owner, Open
    <2> QED
        BY <1>1, <2>1, AbstractUi, AbstractThread DEF Next
<1> QED
    BY <1>1, AbstractInit, OpenAlways, PTL DEF Spec, ImplementsOneChart, Abstract!Spec
=============================================================================
