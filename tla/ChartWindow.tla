----------------------------- MODULE ChartWindow -----------------------------
(***************************************************************************)
(* The life of the chart window in the System Informer process: the click  *)
(* on View > Chart (dllmain.cpp startFlutterWindow, on the host's UI       *)
(* thread), the thread it starts (flutterWindowThread), the Win32Window    *)
(* object that thread builds and destroys (win32_window.cpp,               *)
(* flutter_window.cpp), and the process-wide variables they share without  *)
(* a lock.  Every action is one access to shared state: an unsynchronised  *)
(* C++ read-modify-write is two actions.                                   *)
(***************************************************************************)
EXTENDS Integers, FiniteSets

CONSTANTS
    Threads,   \* window threads; each runs once, so |Threads| bounds the windows
    NULL,      \* a null handle
    Failures   \* what may go wrong in a run: "thread", "window", "controller", "getmessage"

ASSUME NullAssumption == NULL \notin Threads
ASSUME FailuresAssumption == Failures \subseteq {"thread", "window", "controller", "getmessage"}

VARIABLES
    uiPc,                         \* where the host's UI thread is in startFlutterWindow
    uiThread,                     \* the thread PhCreateThreadEx last made for it
    ChartWindowThreadHandle,      \* the handle of a window thread, named by the thread
    FlutterWindowHandle,          \* the window of a thread, named by the thread
    ChartWindowInitializedEvent,  \* the PH_EVENT: set or not
    g_active_window_count,
    class_registered_,            \* the registrar's flag
    classInSystem,                \* whether the window class is registered with Windows
    pc, ret,                      \* per thread: next statement, where Destroy() returns to
    loaded,                       \* per thread: the count read by a ++ or -- under way
    window,                       \* per thread: its window on the desktop
    status,                       \* per thread: the value flutterWindowThread returns
    openHandles                   \* the threads whose kernel handle is still open

uiVars == <<uiPc, uiThread>>
globals == <<ChartWindowThreadHandle, FlutterWindowHandle, ChartWindowInitializedEvent>>
classVars == <<class_registered_, classInSystem>>
locals == <<ret, loaded, window, status>>
vars == <<uiVars, globals, g_active_window_count, classVars, pc, locals, openHandles>>

-----------------------------------------------------------------------------
UiPcs == {"idle", "check", "create", "store", "wait", "blocked", "post"}

\* The statements of flutterWindowThread, in program order; DestroyPcs are
\* those of Win32Window::Destroy, called from four places.
StartPcs == {"ctorLoad", "ctorStore", "testClass", "registerClass", "setFlag",
             "createWindow", "onCreate", "publish", "setEvent"}
RunPcs == {"loop", "quit", "resetEvent"}
ClosePcs == {"closeHandle", "clearHandle"}
EndPcs == {"clearHwnd", "dtorLoad", "dtorStore", "dtorDestroyed", "done"}
DestroyPcs == {"testCount", "unregister", "clearFlag"}

\* The statement of flutterWindowThread a thread is at, calls of Destroy included.
Stage(t) == IF pc[t] \in DestroyPcs THEN ret[t] ELSE pc[t]

\* A window counts as existing until WM_DESTROY has been handled.
Open(t) == window[t] \in {"hidden", "visible", "closing"}

Init ==
    /\ uiPc = "idle"
    /\ uiThread = NULL
    /\ ChartWindowThreadHandle = NULL
    /\ FlutterWindowHandle = NULL
    /\ ChartWindowInitializedEvent = FALSE
    /\ g_active_window_count = 0
    /\ class_registered_ = FALSE
    /\ classInSystem = FALSE
    /\ pc = [t \in Threads |-> "none"]
    /\ ret = [t \in Threads |-> "none"]
    /\ loaded = [t \in Threads |-> 0]
    /\ window = [t \in Threads |-> "none"]
    /\ status = [t \in Threads |-> "none"]
    /\ openHandles = {}

-----------------------------------------------------------------------------
UiGoto(from, to) == uiPc = from /\ uiPc' = to

Goto(t, from, to) == pc[t] = from /\ pc' = [pc EXCEPT ![t] = to]

(* Slips in the code that the properties must notice (the mutants of       *)
(* PROJECT.json); no specification uses them.                              *)

\* line 87 tests nothing
CheckHandle_Always ==
    /\ UiGoto("check", "create")
    /\ UNCHANGED <<uiThread, globals, g_active_window_count, classVars, pc, locals, openHandles>>

\* line 89 without NT_SUCCESS
CreateThreadFails_Unnoticed ==
    /\ "thread" \in Failures
    /\ UiGoto("create", "store")
    /\ UNCHANGED <<uiThread, globals, g_active_window_count, classVars, pc, locals, openHandles>>

\* line 62 missing
SetEvent_Missing(t) ==
    /\ Goto(t, "setEvent", "loop")
    /\ UNCHANGED <<uiVars, globals, g_active_window_count, classVars, locals, openHandles>>

\* line 76 missing
ResetEvent_Missing(t) ==
    /\ Goto(t, "resetEvent", "closeHandle")
    /\ UNCHANGED <<uiVars, globals, g_active_window_count, classVars, locals, openHandles>>

\* lines 78 and 79 swapped
CloseHandle_Cleared(t) ==
    /\ Goto(t, "closeHandle", "clearHandle")
    /\ ChartWindowThreadHandle' = NULL
    /\ openHandles' = openHandles \ {NULL}
    /\ UNCHANGED <<uiVars, FlutterWindowHandle, ChartWindowInitializedEvent,
                   g_active_window_count, classVars, locals>>

\* line 76 after line 80
ClearHwnd_ResetsEvent(t) ==
    /\ Goto(t, "clearHwnd", "dtorLoad")
    /\ FlutterWindowHandle' = NULL
    /\ ChartWindowInitializedEvent' = FALSE
    /\ status' = [status EXCEPT ![t] = "success"]
    /\ UNCHANGED <<uiVars, ChartWindowThreadHandle,
                   g_active_window_count, classVars, ret, loaded, window, openHandles>>

\* line 79 after line 80
ClearHwnd_ClearsHandle(t) ==
    /\ Goto(t, "clearHwnd", "dtorLoad")
    /\ FlutterWindowHandle' = NULL
    /\ ChartWindowThreadHandle' = NULL
    /\ status' = [status EXCEPT ![t] = "success"]
    /\ UNCHANGED <<uiVars, ChartWindowInitializedEvent,
                   g_active_window_count, classVars, ret, loaded, window, openHandles>>

\* win32_window.cpp:124 missing
ClearFlag_Missing(t) ==
    /\ Goto(t, "clearFlag", ret[t])
    /\ UNCHANGED <<uiVars, globals, g_active_window_count, classVars, locals, openHandles>>

-----------------------------------------------------------------------------
(* The host's UI thread: MenuItemCallback and startFlutterWindow.          *)

\* The user picks View > Chart.  A click is taken only while a thread is left
\* to serve it: the bound on the number of windows.
Click ==
    /\ \E t \in Threads : pc[t] = "none"
    /\ UiGoto("idle", "check")
    /\ UNCHANGED <<uiThread, globals, g_active_window_count, classVars, pc, locals, openHandles>>

CheckHandle ==
    /\ UiGoto("check", IF ChartWindowThreadHandle = NULL THEN "create" ELSE "post")
    /\ UNCHANGED <<uiThread, globals, g_active_window_count, classVars, pc, locals, openHandles>>

\* PhCreateThreadEx starts the thread and only then writes its out parameter.
CreateThread(t) ==
    /\ pc[t] = "none"
    /\ UiGoto("create", "store")
    /\ uiThread' = t
    /\ pc' = [pc EXCEPT ![t] = "ctorLoad"]
    /\ openHandles' = openHandles \union {t}
    /\ UNCHANGED <<globals, g_active_window_count, classVars, locals>>

\* PhShowError, and the click is over.
CreateThreadFails ==
    /\ "thread" \in Failures
    /\ UiGoto("create", "idle")
    /\ UNCHANGED <<uiThread, globals, g_active_window_count, classVars, pc, locals, openHandles>>

StoreHandle ==
    /\ UiGoto("store", "wait")
    /\ ChartWindowThreadHandle' = uiThread
    /\ UNCHANGED <<uiThread, FlutterWindowHandle, ChartWindowInitializedEvent,
                   g_active_window_count, classVars, pc, locals, openHandles>>

\* PhWaitForEvent: at once if the event is set, else until the next PhSetEvent.
WaitForEvent ==
    /\ UiGoto("wait", IF ChartWindowInitializedEvent THEN "post" ELSE "blocked")
    /\ UNCHANGED <<uiThread, globals, g_active_window_count, classVars, pc, locals, openHandles>>

\* PostMessage to a thread handle used as a window: it reaches no window.
PostShow ==
    /\ UiGoto("post", "idle")
    /\ UNCHANGED <<uiThread, globals, g_active_window_count, classVars, pc, locals, openHandles>>

UiStep ==
    \/ CheckHandle
    \/ \E t \in Threads : CreateThread(t)
    \/ CreateThreadFails
    \/ StoreHandle
    \/ WaitForEvent
    \/ PostShow

-----------------------------------------------------------------------------
(* The window thread.                                                      *)

\* Call the part of Win32Window::Destroy that follows DestroyWindow.
CallDestroy(t, from, back) ==
    /\ Goto(t, from, "testCount")
    /\ ret' = [ret EXCEPT ![t] = back]

LoadCount(t, from, to) ==
    /\ Goto(t, from, to)
    /\ loaded' = [loaded EXCEPT ![t] = g_active_window_count]
    /\ UNCHANGED <<uiVars, globals, g_active_window_count, classVars, ret, window, status, openHandles>>

\* ++g_active_window_count, then Create calls Destroy.
CtorLoad(t) == LoadCount(t, "ctorLoad", "ctorStore")

CtorStore(t) ==
    /\ CallDestroy(t, "ctorStore", "testClass")
    /\ g_active_window_count' = loaded[t] + 1
    /\ UNCHANGED <<uiVars, globals, classVars, loaded, window, status, openHandles>>

\* GetWindowClass
TestClass(t) ==
    /\ Goto(t, "testClass", IF class_registered_ THEN "createWindow" ELSE "registerClass")
    /\ UNCHANGED <<uiVars, globals, g_active_window_count, classVars, locals, openHandles>>

RegisterClass(t) ==
    /\ Goto(t, "registerClass", "setFlag")
    /\ classInSystem' = TRUE
    /\ UNCHANGED <<uiVars, globals, g_active_window_count, class_registered_, locals, openHandles>>

SetFlag(t) ==
    /\ Goto(t, "setFlag", "createWindow")
    /\ class_registered_' = TRUE
    /\ UNCHANGED <<uiVars, globals, g_active_window_count, classInSystem, locals, openHandles>>

CreateWindow(t) ==
    /\ classInSystem
    /\ Goto(t, "createWindow", "onCreate")
    /\ window' = [window EXCEPT ![t] = "hidden"]
    /\ UNCHANGED <<uiVars, globals, g_active_window_count, classVars, ret, loaded, status, openHandles>>

\* Create returned false: the thread returns EXIT_FAILURE through ~FlutterWindow.
CreateFails(t, from) ==
    /\ Goto(t, from, "dtorLoad")
    /\ status' = [status EXCEPT ![t] = "failure"]
    /\ UNCHANGED <<uiVars, globals, g_active_window_count, classVars, ret, loaded, window, openHandles>>

CreateWindowFails(t) ==
    /\ ~classInSystem \/ "window" \in Failures
    /\ CreateFails(t, "createWindow")

OnCreate(t) ==
    /\ Goto(t, "onCreate", "publish")
    /\ UNCHANGED <<uiVars, globals, g_active_window_count, classVars, locals, openHandles>>

OnCreateFails(t) ==
    /\ "controller" \in Failures
    /\ CreateFails(t, "onCreate")

PublishWindow(t) ==
    /\ Goto(t, "publish", "setEvent")
    /\ FlutterWindowHandle' = t
    /\ UNCHANGED <<uiVars, ChartWindowThreadHandle, ChartWindowInitializedEvent,
                   g_active_window_count, classVars, locals, openHandles>>

\* PhSetEvent releases the UI thread if it is blocked on the event.
SetEvent(t) ==
    /\ Goto(t, "setEvent", "loop")
    /\ ChartWindowInitializedEvent' = TRUE
    /\ uiPc' = IF uiPc = "blocked" THEN "post" ELSE uiPc
    /\ UNCHANGED <<uiThread, ChartWindowThreadHandle, FlutterWindowHandle,
                   g_active_window_count, classVars, locals, openHandles>>

\* SetNextFrameCallback: the first frame shows the window.
ShowFirstFrame(t) ==
    /\ pc[t] = "loop"
    /\ window[t] = "hidden"
    /\ window' = [window EXCEPT ![t] = "visible"]
    /\ UNCHANGED <<uiVars, globals, g_active_window_count, classVars, pc, ret, loaded, status, openHandles>>

\* The user closes the window: WM_DESTROY calls Destroy, then PostQuitMessage.
CloseByUser(t) ==
    /\ window[t] = "visible"
    /\ CallDestroy(t, "loop", "quit")
    /\ window' = [window EXCEPT ![t] = "closing"]
    /\ UNCHANGED <<uiVars, globals, g_active_window_count, classVars, loaded, status, openHandles>>

Quit(t) ==
    /\ Goto(t, "quit", "resetEvent")
    /\ window' = [window EXCEPT ![t] = "destroyed"]
    /\ UNCHANGED <<uiVars, globals, g_active_window_count, classVars, ret, loaded, status, openHandles>>

\* GetMessage returned -1: the loop ends with the window still there.
GetMessageFails(t) ==
    /\ "getmessage" \in Failures
    /\ Goto(t, "loop", "resetEvent")
    /\ UNCHANGED <<uiVars, globals, g_active_window_count, classVars, locals, openHandles>>

ResetEvent(t) ==
    /\ Goto(t, "resetEvent", "closeHandle")
    /\ ChartWindowInitializedEvent' = FALSE
    /\ UNCHANGED <<uiVars, ChartWindowThreadHandle, FlutterWindowHandle,
                   g_active_window_count, classVars, locals, openHandles>>

\* NtClose of whatever the global holds.
CloseHandle(t) ==
    /\ Goto(t, "closeHandle", "clearHandle")
    /\ openHandles' = openHandles \ {ChartWindowThreadHandle}
    /\ UNCHANGED <<uiVars, globals, g_active_window_count, classVars, locals>>

ClearHandle(t) ==
    /\ Goto(t, "clearHandle", "clearHwnd")
    /\ ChartWindowThreadHandle' = NULL
    /\ UNCHANGED <<uiVars, FlutterWindowHandle, ChartWindowInitializedEvent,
                   g_active_window_count, classVars, locals, openHandles>>

ClearHwnd(t) ==
    /\ Goto(t, "clearHwnd", "dtorLoad")
    /\ FlutterWindowHandle' = NULL
    /\ status' = [status EXCEPT ![t] = "success"]
    /\ UNCHANGED <<uiVars, ChartWindowThreadHandle, ChartWindowInitializedEvent,
                   g_active_window_count, classVars, ret, loaded, window, openHandles>>

\* ~Win32Window: --g_active_window_count, then Destroy.  When the window is
\* still there, DestroyWindow re-enters Destroy through WM_DESTROY first.
DtorLoad(t) == LoadCount(t, "dtorLoad", "dtorStore")

DtorStore(t) ==
    /\ CallDestroy(t, "dtorStore", IF Open(t) THEN "dtorDestroyed" ELSE "done")
    /\ window' = [window EXCEPT ![t] = IF Open(t) THEN "closing" ELSE @]
    /\ g_active_window_count' = loaded[t] - 1
    /\ UNCHANGED <<uiVars, globals, classVars, loaded, status, openHandles>>

DtorDestroyed(t) ==
    /\ CallDestroy(t, "dtorDestroyed", "done")
    /\ window' = [window EXCEPT ![t] = "destroyed"]
    /\ UNCHANGED <<uiVars, globals, g_active_window_count, classVars, loaded, status, openHandles>>

\* The tail of Win32Window::Destroy.
TestCount(t) ==
    /\ Goto(t, "testCount", IF g_active_window_count = 0 THEN "unregister" ELSE ret[t])
    /\ UNCHANGED <<uiVars, globals, g_active_window_count, classVars, locals, openHandles>>

\* UnregisterClass: Windows refuses while a window of the class exists.
UnregisterClass(t) ==
    /\ Goto(t, "unregister", "clearFlag")
    /\ classInSystem' = (classInSystem /\ \E u \in Threads : Open(u))
    /\ UNCHANGED <<uiVars, globals, g_active_window_count, class_registered_, locals, openHandles>>

ClearFlag(t) ==
    /\ Goto(t, "clearFlag", ret[t])
    /\ class_registered_' = FALSE
    /\ UNCHANGED <<uiVars, globals, g_active_window_count, classInSystem, locals, openHandles>>

\* What the thread does by itself, whatever the user does.
ThreadStep(t) ==
    \/ CtorLoad(t) \/ CtorStore(t)
    \/ TestClass(t) \/ RegisterClass(t) \/ SetFlag(t)
    \/ CreateWindow(t) \/ CreateWindowFails(t)
    \/ OnCreate(t) \/ OnCreateFails(t)
    \/ PublishWindow(t) \/ SetEvent(t)
    \/ Quit(t) \/ ResetEvent(t)
    \/ CloseHandle(t) \/ ClearHandle(t) \/ ClearHwnd(t)
    \/ DtorLoad(t) \/ DtorStore(t) \/ DtorDestroyed(t)
    \/ TestCount(t) \/ UnregisterClass(t) \/ ClearFlag(t)

\* What the message loop may be handed.
MessageStep(t) ==
    \/ ShowFirstFrame(t)
    \/ CloseByUser(t)
    \/ GetMessageFails(t)

Next ==
    \/ Click
    \/ UiStep
    \/ \E t \in Threads : ThreadStep(t) \/ MessageStep(t)

\* Windows schedules both threads; nothing makes the user click or close.
Fairness ==
    /\ WF_vars(UiStep)
    /\ \A t \in Threads : WF_vars(ThreadStep(t))

Spec == Init /\ [][Next]_vars

FairSpec == Spec /\ Fairness

-----------------------------------------------------------------------------
(* Properties.                                                             *)

\* Every variable holds a value of its type, and the UI thread waits only
\* after a thread was really made (the NT_SUCCESS test of dllmain.cpp:89).
TypeOK ==
    /\ uiPc \in UiPcs
    /\ uiThread \in Threads \union {NULL}
    /\ uiPc \in {"store", "wait", "blocked"} => uiThread \in Threads
    /\ ChartWindowThreadHandle \in Threads \union {NULL}
    /\ FlutterWindowHandle \in Threads \union {NULL}
    /\ ChartWindowInitializedEvent \in BOOLEAN
    /\ g_active_window_count \in Int
    /\ class_registered_ \in BOOLEAN
    /\ classInSystem \in BOOLEAN
    /\ pc \in [Threads -> {"none"} \union StartPcs \union RunPcs \union ClosePcs
                            \union EndPcs \union DestroyPcs]
    /\ ret \in [Threads -> {"none", "testClass", "quit", "dtorDestroyed", "done"}]
    /\ loaded \in [Threads -> Int]
    /\ window \in [Threads -> {"none", "hidden", "visible", "closing", "destroyed"}]
    /\ status \in [Threads -> {"none", "failure", "success"}]
    /\ openHandles \subseteq Threads

\* The plugin never has two chart windows at a time, although the slot that
\* keeps them apart is a plain global written by several threads.  A message
\* loop that ends by GetMessage's -1 gives the slot up with its window open.
OneWindow ==
    "getmessage" \notin Failures =>
        \A t, u \in Threads : Open(t) /\ Open(u) => t = u

\* A thread that closes and clears the global handle (dllmain.cpp:78-79) never
\* closes or clears the handle of another thread: it finds its own handle
\* there, or none yet when PhCreateThreadEx has not stored it.
OwnHandle ==
    \A t \in Threads :
        pc[t] \in ClosePcs => ChartWindowThreadHandle \in {t, NULL}

\* The initialised event of a thread in its message loop is not reset by the
\* thread that came before it (dllmain.cpp:62, 76), and nobody finds the event
\* set when no thread serves messages.
SignalOfLoop ==
    ChartWindowInitializedEvent <=> \E t \in Threads : Stage(t) \in RunPcs

\* When startFlutterWindow is not under way, a handle in the global is the
\* handle of a thread that has not given it up: a click tests a handle that
\* stands for a thread, never for one that has gone (dllmain.cpp:87).
LiveHandle ==
    \A t \in Threads :
        uiPc \in {"idle", "check", "create", "post"} /\ ChartWindowThreadHandle = t
            => Stage(t) \in RunPcs \union ClosePcs

\* A thread handle outlives its use only if the click that made it never
\* returns: with the UI thread free, every handle is closed (dllmain.cpp:78).
LeakOnlyWhenHung ==
    \A t \in openHandles :
        Stage(t) \in EndPcs => uiPc \in {"store", "wait", "blocked"} /\ uiThread = t

\* A click returns to the host's UI loop, unless its window could not be
\* made or was closed again (dllmain.cpp:97 waits without a timeout).
ClickReturns ==
    \A t \in Threads :
        (uiPc = "store" /\ uiThread = t)
            ~> (uiPc = "idle" \/ status[t] = "failure" \/ window[t] = "destroyed")

\* Between clicks and with no thread starting or ending, the registrar's flag
\* does not claim a class that Windows does not have (win32_window.cpp:99-125),
\* so that the next click by itself finds or registers its class.  With the UI
\* thread free no lost update of the count and no late UnregisterClass is left.
ClassFlagHonest ==
    ( /\ uiPc \in {"idle", "check", "create"}
      /\ \A t \in Threads : pc[t] \in {"none", "loop", "done"}
      /\ class_registered_ )
        => classInSystem

-----------------------------------------------------------------------------
(* The abstract specification: the slot belongs to the thread whose handle *)
(* is, or is about to be, in the global.                                   *)

Owner == IF uiPc = "store" THEN uiThread ELSE ChartWindowThreadHandle

Abstract == INSTANCE OneChart WITH
    Sessions <- Threads,
    None     <- NULL,
    started  <- {t \in Threads : pc[t] # "none"},
    owner    <- Owner,
    open     <- {t \in Threads : Open(t)}

\* The plugin's code implements OneChart (dllmain.cpp:25-101): windows come
\* from one session after another, each opened and closed by the owner.
ImplementsOneChart == Abstract!Spec

-----------------------------------------------------------------------------
(* What the comments and the documents say, and the code does not do.      *)

\* The thread's Win32Window has been constructed and not yet destroyed.
Live(t) == Stage(t) \in (StartPcs \ {"ctorLoad", "ctorStore"}) \union RunPcs
                        \union ClosePcs \union {"clearHwnd", "dtorLoad"}

\* README.md: clicking View > chart launches the view: a click that reaches
\* the code is followed by an open chart window, if nothing fails.
ClickOpensWindow == (uiPc = "check") ~> (\E t \in Threads : Open(t))

\* dllmain.cpp:92-93 tells the user "Unable to create the window.": a failed
\* creation brings the UI thread back.
FailureReported ==
    \A t \in Threads : (status[t] = "failure") ~> (uiPc = "idle")

\* win32_window.cpp:32: the count is the number of Win32Window objects, in
\* every state where no constructor or destructor is at work on it.
CountIsNumberOfWindows ==
    (\A t \in Threads : pc[t] \notin {"ctorStore", "dtorStore"})
        => g_active_window_count = Cardinality({t \in Threads : Live(t)})
=============================================================================
