------------------------------- MODULE HostApi -------------------------------
(***************************************************************************)
(* The host API (windows/runner/api.cpp) and those who call it from the    *)
(* page: refreshes that read process items through their addresses         *)
(* (proc_items.dart), icons fetched for tiles and for the settings dialog  *)
(* (icon.dart), and the settings.  One isolate, one host, one channel; the *)
(* window may be closed and opened again, which loses the isolate and all  *)
(* its globals, while the host's objects stay.                             *)
(***************************************************************************)
EXTENDS Settings, Sequences, FiniteSets

CONSTANTS
    Loads,       \* refreshes of a session
    Keys,        \* icons, each an index and a size
    Large,       \* the large ones
    Iconless,    \* those the host has no icon for
    Entries,     \* how often the settings dialog is asked for an icon in a session
    Clients,     \* calls of the settings methods in a session
    Processes,   \* processes, each of which lives once
    Addresses,   \* where process items may be
    Handles,     \* the GDI handles the process may still use
    Place,       \* the place an allocator takes of a set of free ones
    Mixes,       \* bound on the mix of callers: those of a behaviour are one of these sets
    MaxSessions, \* bound on how often the window is opened
    MaxEdits,    \* bound on how often the host's options are edited
    HostFails,   \* whether GDI may fail while it has handles left, as for lack of memory
    NULL, FREE

Dialog == 1..Entries
Fetches == Keys \union Dialog
Tasks == Loads \union Fetches \union Clients
Places == Addresses \union Handles

ASSUME TasksAssumption ==
    /\ Entries \in Nat
    /\ Loads \intersect Fetches = {} /\ Loads \intersect Clients = {}
    /\ Fetches \intersect Clients = {} /\ Keys \intersect Dialog = {}
ASSUME KeysAssumption == Large \subseteq Keys /\ Iconless \subseteq Keys /\ NULL \notin Keys \union Dialog
ASSUME PlacesAssumption == Addresses \intersect Handles = {} /\ NULL \notin Places
ASSUME PlaceAssumption ==
    \A S \in ((SUBSET Addresses) \union (SUBSET Handles)) \ {{}} : Place[S] \in S
ASSUME MixesAssumption == Mixes \subseteq SUBSET {"refresh", "icons", "settings"}
ASSUME BoundsAssumption == {MaxSessions, MaxEdits} \subseteq Nat /\ HostFails \in BOOLEAN

VARIABLES
    page,      \* what main() is at: the await it is suspended at, then runApp
    inited,    \* logger.dart's _inited
    at,        \* per task: "idle", "waiting", and how it ended
    asked,     \* per entry in the dialog: the icon
    entered,   \* entries made in the dialog
    cache,     \* largeImageCache and smallImageCache
    image,     \* the entry whose icon the dialog shows
    requests, replies,
    session,   \* sessions so far
    memory,    \* what is at each place: a process, a bitmap, or FREE
    refs,      \* per address: references that EnumProcessItems took
    listed,    \* addresses of the items of processes that run
    icons,     \* the icons, by session, of which an HICON was not destroyed
    unmade,    \* those PhIconToBitmap made no bitmap of (a history variable, for CacheTells)
    edits,
    callers    \* who calls in this behaviour: "refresh", "icons", "settings"

page_ == <<page, inited>>
isolate == <<at, asked, entered, cache, image>>
channel == <<requests, replies>>
items == <<refs, listed>>
host == <<memory, items, icons, unmade, settings, edits>>
vars == <<page_, isolate, channel, session, host, callers>>

-----------------------------------------------------------------------------
\* What may be behind an address or a handle: a process item, or the bitmap
\* made of an icon for a session.
Bitmap(k, s) == [icon |-> k, session |-> s]
Objects == Processes \union {Bitmap(k, s) : k \in Keys, s \in 1..MaxSessions}

ASSUME MarksAssumption ==
    ERROR \notin Handles \union {NULL} /\ GARBLED # NULL /\ FREE \notin Objects
ASSUME HandlesAssumption == IsFiniteSet(Handles)

IconOf(f) == IF f \in Dialog THEN asked[f] ELSE f
InFlight(t) == at[t] = "waiting"
FreeIn(places) == {p \in places : memory[p] = FREE}
FreeHandles == FreeIn(Handles)
NewBitmap == Place[FreeHandles]

\* The cache of a page: an icon's picture, the picture of something else, NULL.
Caches == [Keys -> Keys \union {NULL, GARBLED}]
Started == {"script", "root", "file"}

Init ==
    /\ page = "closed" /\ inited = FALSE
    /\ at = [t \in Tasks |-> "idle"]
    /\ asked = [d \in Dialog |-> NULL] /\ entered = 0
    /\ cache = [k \in Keys |-> NULL]
    /\ image = NULL
    /\ requests = <<>> /\ replies = <<>>
    /\ session = 0
    /\ memory = [p \in Places |-> FREE]
    /\ refs = [a \in Addresses |-> 0] /\ listed = {}
    /\ icons = {} /\ unmade = {}
    /\ SettingsInit /\ edits = 0
    /\ callers \in Mixes

-----------------------------------------------------------------------------
(* Slips in the code that the properties must notice (the mutants of       *)
(* PROJECT.json); no specification uses them.  More follow where what they *)
(* are written with is defined.                                            *)

\* main.dart:29 without its await
Open_Unawaited ==
    /\ page = "closed"
    /\ session < MaxSessions
    /\ session' = session + 1
    /\ page' = "running"
    /\ UNCHANGED <<inited, isolate, channel, host>>

\* the last answer first
Answer_First(what, value) ==
    /\ requests # <<>>
    /\ Head(requests).what = what
    /\ requests' = Tail(requests)
    /\ replies' = <<[task |-> Head(requests).task, value |-> value]>> \o replies
    /\ UNCHANGED <<page_, isolate, session, edits>>

-----------------------------------------------------------------------------
(* main()                                                                  *)

\* The window is opened: a new isolate starts main(), which awaits loggerInit().
Open ==
    /\ page = "closed"
    /\ session < MaxSessions
    /\ session' = session + 1
    /\ page' = "script"
    /\ UNCHANGED <<inited, isolate, channel, host>>

\* loggerInit looks for the package config next to the script, then under
\* PH_CHART_SOURCE_ROOT, and throws if there is none; then it opens its file.
FindPackageConfig ==
    /\ \/ page = "script" /\ page' \in {"root", "file", "failed"}
       \/ page = "root" /\ page' \in {"file", "failed"}
    /\ UNCHANGED <<inited, isolate, channel, session, host>>

\* main goes on to runApp.
OpenLogFile ==
    /\ page = "file"
    /\ \/ page' = "running" /\ inited' = TRUE
       \/ page' = "failed" /\ UNCHANGED inited
    /\ UNCHANGED <<isolate, channel, session, host>>

\* The window is closed: engine and isolate go, and whatever was under way.
Close ==
    /\ page = "running"
    /\ page' = "closed" /\ inited' = FALSE
    /\ at' = [t \in Tasks |-> "idle"]
    /\ asked' = [d \in Dialog |-> NULL] /\ entered' = 0
    /\ cache' = [k \in Keys |-> NULL]
    /\ image' = NULL
    /\ requests' = <<>> /\ replies' = <<>>
    /\ UNCHANGED <<session, host>>

-----------------------------------------------------------------------------
(* Calls of the page                                                       *)

Call(t, what, name) ==
    /\ at[t] = "idle"
    /\ at' = [at EXCEPT ![t] = "waiting"]
    /\ requests' = Append(requests, [task |-> t, what |-> what, name |-> name])
    /\ UNCHANGED replies

\* A refresh asks for the processes.
Load(l) ==
    /\ page = "running"
    /\ Call(l, "items", NULL)
    /\ UNCHANGED <<page_, asked, entered, cache, image, session, host>>

\* Slip: icon.dart:31 missing.
GetIconPngData_NoReturn(f, k) == Call(f, "icon", NULL)

\* getIconPngData up to its await, for an icon k: found in the cache, or asked
\* for.
GetIconPngData(f, k) ==
    \/ /\ cache[k] # NULL
       /\ at' = [at EXCEPT ![f] = "hit"]
       /\ UNCHANGED channel
    \/ /\ cache[k] = NULL
       /\ Call(f, "icon", NULL)

\* A tile watches getIconPngProvider(k), whose keepAlive state is made once.
Watch(k) ==
    /\ page = "running"
    /\ at[k] = "idle"
    /\ GetIconPngData(k, k)
    /\ UNCHANGED <<page_, asked, entered, cache, image, session, host>>

\* The settings dialog, "get icon by index": of the large icons, and past the
\* provider.
EnterIndex(k) ==
    /\ page = "running"
    /\ entered < Entries
    /\ LET d == entered + 1
       IN  /\ entered' = d
           /\ asked' = [asked EXCEPT ![d] = k]
           /\ GetIconPngData(d, k)
           /\ image' = IF cache[k] # NULL THEN d ELSE image
    /\ UNCHANGED <<page_, cache, session, host>>

\* getStringSetting, getIntegerSetting, addStringSetting, addIntegerSetting.
UseSetting(c, what, name) ==
    /\ page = "running"
    /\ Call(c, what, name)
    /\ UNCHANGED <<page_, asked, entered, cache, image, session, host>>

-----------------------------------------------------------------------------
(* The host: processes start and exit, the user edits the options.         *)

ProcessStarts(p) ==
    /\ \A a \in Addresses : memory[a] # p
    /\ FreeIn(Addresses) # {}
    /\ memory' = [memory EXCEPT ![Place[FreeIn(Addresses)]] = p]
    /\ listed' = listed \union {Place[FreeIn(Addresses)]}
    /\ UNCHANGED <<page_, isolate, channel, session, refs, icons, unmade, settings, edits>>

\* The host drops its own reference; the last reference frees the item.
ProcessExits(a) ==
    /\ a \in listed
    /\ listed' = listed \ {a}
    /\ memory' = IF refs[a] = 0 THEN [memory EXCEPT ![a] = FREE] ELSE memory
    /\ UNCHANGED <<page_, isolate, channel, session, refs, icons, unmade, settings, edits>>

EditSetting(name, type, value) ==
    /\ edits < MaxEdits
    /\ edits' = edits + 1
    /\ Edit(name, type, value)
    /\ UNCHANGED <<page_, isolate, channel, session, memory, items, icons, unmade>>

-----------------------------------------------------------------------------
(* The host's handlers, one message at a time (messages.g.cpp); an error,  *)
(* or an exception, is an answer too.                                      *)

\* A request of the method is at the head, and gets the answer.
Answer(what, value) ==
    /\ requests # <<>>
    /\ Head(requests).what = what
    /\ requests' = Tail(requests)
    /\ replies' = Append(replies, [task |-> Head(requests).task, value |-> value])
    /\ UNCHANGED <<page_, isolate, session, edits>>

Requested == IconOf(Head(requests).task)

\* Slips: the references given back before the answer is read; DeleteObject of
\* the bitmap with the other two; api.cpp:150 missing; a handler that goes on
\* after reply(WrapError(...)).
EnumProcessItems_Dereferenced ==
    /\ Answer("items", {<<a, memory[a]>> : a \in listed})
    /\ UNCHANGED <<memory, items, icons, unmade, settings>>

GetImageListIcon_Deleted ==
    /\ Answer("icon", NewBitmap)
    /\ Requested \notin Iconless
    /\ Cardinality(FreeHandles) > 2
    /\ UNCHANGED <<memory, items, icons, unmade, settings>>

GetImageListIcon_Kept ==
    /\ Answer("icon", NewBitmap)
    /\ Requested \notin Iconless
    /\ Cardinality(FreeHandles) > 2
    /\ memory' = [memory EXCEPT ![NewBitmap] = Bitmap(Requested, session)]
    /\ icons' = icons \union {Bitmap(Requested, session)}
    /\ UNCHANGED <<items, unmade, settings>>

NoImageListIcon_NoReturn ==
    /\ requests # <<>>
    /\ Head(requests).what = "icon"
    /\ Requested \in Iconless
    /\ requests' = Tail(requests)
    /\ replies' = replies \o [i \in 1..2 |-> [task |-> Head(requests).task, value |-> ERROR]]
    /\ UNCHANGED <<page_, isolate, session, edits, memory, items, icons, unmade, settings>>

\* PhEnumProcessItems references every item it returns; nobody gives these
\* references back.  The answer is the addresses; that it also says what was at
\* each of them is for the properties.
EnumProcessItems ==
    /\ Answer("items", {<<a, memory[a]>> : a \in listed})
    /\ refs' = [a \in Addresses |-> IF a \in listed THEN refs[a] + 1 ELSE refs[a]]
    /\ UNCHANGED <<memory, listed, icons, unmade, settings>>

\* PhGetImageListIcon has no icon for the index.
NoImageListIcon ==
    /\ Answer("icon", ERROR)
    /\ Requested \in Iconless
    /\ UNCHANGED <<memory, items, icons, unmade, settings>>

\* GetIconInfo or GetObject fails, if only because there are no two handles for
\* colour and mask: the early return skips DestroyIcon.
GetIconInfoFails ==
    /\ Answer("icon", ERROR)
    /\ Requested \notin Iconless
    /\ HostFails \/ Cardinality(FreeHandles) < 2
    /\ icons' = icons \union {Bitmap(Requested, session)}
    /\ UNCHANGED <<memory, items, unmade, settings>>

\* PhIconToBitmap makes a bitmap, beside colour and mask, that nobody deletes.
GetImageListIcon ==
    /\ Answer("icon", NewBitmap)
    /\ Requested \notin Iconless
    /\ Cardinality(FreeHandles) > 2
    /\ memory' = [memory EXCEPT ![NewBitmap] = Bitmap(Requested, session)]
    /\ UNCHANGED <<items, icons, unmade, settings>>

\* PhIconToBitmap makes none, if only because colour and mask are the last two
\* handles: its result is not tested, and the answer is the handle 0, no error.
PhIconToBitmapFails ==
    /\ Answer("icon", NULL)
    /\ Requested \notin Iconless
    /\ Cardinality(FreeHandles) >= 2
    /\ HostFails \/ Cardinality(FreeHandles) = 2
    /\ unmade' = unmade \union {Bitmap(Requested, session)}
    /\ UNCHANGED <<memory, items, icons, settings>>

ReadSetting(name) ==
    /\ \/ Answer("getString", GetStringSetting(name))
       \/ Answer("getInteger", GetIntegerSetting(name))
    /\ Head(requests).name = name
    /\ UNCHANGED <<memory, items, icons, unmade, settings>>

AddStringSetting(name, text) ==
    /\ Answer("addString", TRUE)
    /\ Head(requests).name = name
    /\ AddSetting("string", name, text)
    /\ UNCHANGED <<memory, items, icons, unmade>>

AddIntegerSetting(name) ==
    /\ Answer("addInteger", TRUE)
    /\ Head(requests).name = name
    /\ AddSetting("integer", name, 0)
    /\ UNCHANGED <<memory, items, icons, unmade>>

HostStep ==
    \/ EnumProcessItems
    \/ NoImageListIcon
    \/ GetIconInfoFails
    \/ GetImageListIcon
    \/ PhIconToBitmapFails
    \/ \E name \in Names :
        \/ ReadSetting(name)
        \/ \E text \in Texts : AddStringSetting(name, text)
        \/ AddIntegerSetting(name)

-----------------------------------------------------------------------------
(* The isolate resumes a call.                                             *)

Resume(t) ==
    /\ replies # <<>>
    /\ Head(replies).task = t
    /\ Head(replies).value # ERROR
    /\ replies' = Tail(replies)
    /\ UNCHANGED <<page_, asked, entered, requests, session, host>>

Ends(t, how) == at' = [at EXCEPT ![t] = how]

\* fromRaw copies every item, through its address, into Dart objects.
FromRaw(l) ==
    /\ l \in Loads
    /\ Resume(l)
    /\ Ends(l, "done")
    /\ UNCHANGED <<cache, image>>

\* The pixels are encoded and cached, and the dialog shows the picture.
Encode(f, picture) ==
    /\ Ends(f, "done")
    /\ cache' = [cache EXCEPT ![IconOf(f)] = picture]
    /\ image' = IF f \in Dialog THEN f ELSE image

\* getIconPngData after its await: what is behind the handle is read.
ReadBitmap(f) ==
    /\ f \in Fetches
    /\ Resume(f)
    /\ LET h == Head(replies).value
       IN  /\ h # NULL
           /\ Encode(f, IF memory[h] = FREE THEN GARBLED ELSE memory[h].icon)

\* GetObject fails for the handle 0, which is not tested: the BITMAP holds what
\* malloc left there, which the tests after it throw at, or which is drawn.
ReadNoBitmap(f) ==
    /\ f \in Fetches
    /\ Resume(f)
    /\ Head(replies).value = NULL
    /\ \/ Encode(f, GARBLED)
       \/ Ends(f, "failed") /\ UNCHANGED <<cache, image>>

GotSetting(c) ==
    /\ c \in Clients
    /\ Resume(c)
    /\ Ends(c, "done")
    /\ UNCHANGED <<cache, image>>

\* Slip: the message codec's exception leaves the call waiting.
Throws_Swallowed(t) ==
    /\ replies # <<>>
    /\ Head(replies).task = t
    /\ Head(replies).value = ERROR
    /\ replies' = Tail(replies)
    /\ UNCHANGED <<page_, isolate, requests, session, host>>

\* An error of the host is a PlatformException.
Throws(t) ==
    /\ replies # <<>>
    /\ Head(replies).task = t
    /\ Head(replies).value = ERROR
    /\ replies' = Tail(replies)
    /\ Ends(t, "failed")
    /\ UNCHANGED <<page_, asked, entered, cache, image, requests, session, host>>

IsolateStep ==
    \E t \in Tasks :
        \/ FromRaw(t)
        \/ ReadBitmap(t)
        \/ ReadNoBitmap(t)
        \/ GotSetting(t)
        \/ Throws(t)

PageStep ==
    \/ Open
    \/ FindPackageConfig
    \/ OpenLogFile
    \/ Close

Refresh ==
    /\ "refresh" \in callers
    /\ \/ \E l \in Loads : Load(l)
       \/ \E p \in Processes : ProcessStarts(p)
       \/ \E a \in Addresses : ProcessExits(a)

Icons ==
    /\ "icons" \in callers
    /\ \/ \E k \in Keys : Watch(k)
       \/ \E k \in Large : EnterIndex(k)

UseSettings ==
    /\ "settings" \in callers
    /\ \E name \in Names :
        \/ \E c \in Clients, what \in {"getString", "getInteger", "addString", "addInteger"} :
            UseSetting(c, what, name)
        \/ \E text \in Texts : EditSetting(name, "string", text)
        \/ EditSetting(name, "integer", 1)

Next ==
    /\ PageStep \/ Refresh \/ Icons \/ UseSettings \/ HostStep \/ IsolateStep
    /\ UNCHANGED callers

Spec == Init /\ [][Next]_vars

\* Both event loops run.
FairSpec == Spec /\ WF_vars(HostStep /\ UNCHANGED callers)
                 /\ WF_vars(IsolateStep /\ UNCHANGED callers)

-----------------------------------------------------------------------------
(* Properties.                                                             *)

\* Types, and the discipline of the channel: a task that waits has exactly one
\* message under way, no other task has any, and a closed page has none.
TypeOK ==
    /\ page \in {"closed", "running", "failed"} \union Started
    /\ at \in [Tasks -> {"idle", "waiting", "hit", "done", "failed"}]
    /\ asked \in [Dialog -> Large \union {NULL}]
    /\ cache \in Caches
    /\ image \in Dialog \union {NULL}
    /\ memory \in [Places -> Objects \union {FREE}]
    /\ refs \in [Addresses -> Nat]
    /\ listed \subseteq Addresses
    /\ icons \subseteq Objects /\ unmade \subseteq Objects
    /\ page # "running" => requests = <<>> /\ replies = <<>> /\ ~inited
    /\ \A t \in Tasks :
        LET mine == {i \in DOMAIN requests : requests[i].task = t}
            answers == {i \in DOMAIN replies : replies[i].task = t}
        IN  Cardinality(mine) + Cardinality(answers) = IF InFlight(t) THEN 1 ELSE 0

\* The addresses and handles on their way to the isolate, each with the object
\* it was handed out for.
SentItems == UNION {replies[i].value : i \in {j \in DOMAIN replies : replies[j].task \in Loads}}
SentBitmaps ==
    {<<replies[i].value, Bitmap(IconOf(replies[i].task), session)>> :
        i \in {j \in DOMAIN replies : replies[j].task \in Fetches /\ replies[j].value \in Handles}}

\* HostApi implements HostObjects: no process item and no bitmap is freed while
\* its address is on its way (api.cpp:80-95, 147-151): the references of
\* PhEnumProcessItems keep an item whose process has exited.
Abstract ==
    INSTANCE HostObjects WITH sent <- SentItems \union SentBitmaps
ImplementsHostObjects == Abstract!Spec

\* logger.dart:89: whatever runs past runApp finds the logger initialised,
\* since main waits for it (main.dart:29).
LoggerReady == \A t \in Tasks : InFlight(t) => inited

\* icon.dart:29: a picture in the cache is the one of its index and size.  It is
\* another only if PhIconToBitmap failed, in this session, for that very icon:
\* the bitmap of any other answer is the icon's own and there when it is read.
CacheTells ==
    \A k \in Keys :
        \/ cache[k] \in {NULL, k}
        \/ cache[k] = GARBLED /\ Bitmap(k, session) \in unmade

\* icon.dart:30-32: once an icon has been read in a session, neither a tile nor
\* the dialog asks the host for it again.
NeverFetchedAgain ==
    [][\A f, g \in Fetches :
        at[f] = "idle" /\ at'[f] = "waiting" /\ at[g] = "done" => IconOf(g) # IconOf(f)']_vars

\* api.cpp:147-150: the host loses an HICON only with a fetch that fails.
IconLostOnlyByFailure ==
    \A k \in Keys :
        Bitmap(k, session) \in icons /\ page = "running" =>
            \E f \in Fetches :
                /\ IconOf(f) = k
                /\ \/ at[f] = "failed"
                   \/ \E i \in DOMAIN replies : replies[i].task = f /\ replies[i].value = ERROR

\* settings_ui.dart:101-107: the dialog shows whichever entry ends last.  It
\* goes back from one entry to an earlier one only if the later one overtook it
\* by way of the cache: fetches themselves end in the order of the entries.
GoesBackOnlyPastAHit ==
    [][{image, image'} \subseteq Dialog /\ image' < image => at[image] = "hit"]_vars

\* Whatever is added over the channel (the FIXME of settings.dart:15), exactly
\* the string settings of dllmain.cpp:159-165 are found, the others are errors,
\* and a text of ASCII letters comes back as it is.
SettingsRead ==
    \A name \in Names :
        IF name \in Declared
          THEN StringSetting(name).bytes = StringSetting(name).units /\ StringSetting(name).units > 0
                => GetStringSetting(name) = StringSetting(name)
          ELSE GetStringSetting(name) = ERROR

\* Every call of the page is answered, and ends.
TaskEnds == \A t \in Tasks : InFlight(t) ~> ~InFlight(t)
=============================================================================
