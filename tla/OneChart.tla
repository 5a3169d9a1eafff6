------------------------------ MODULE OneChart ------------------------------
(***************************************************************************)
(* What the native side of the plugin promises about its chart: sessions   *)
(* follow one another, a session owns the plugin's one slot from the click *)
(* that starts it until its thread gives the slot back, and only the owner *)
(* has a window on the desktop.  ChartWindow implements this.              *)
(***************************************************************************)

CONSTANTS
    Sessions,  \* the sessions that may ever be started
    None       \* no session

VARIABLES
    started,   \* the sessions that have been started
    owner,     \* the session that holds the slot, or None
    open       \* the sessions that have a window

vars == <<started, owner, open>>

Init ==
    /\ started = {}
    /\ owner = None
    /\ open = {}

\* A click takes the free slot for a session that never ran before.
Start(s) ==
    /\ owner = None
    /\ s \in Sessions \ started
    /\ started' = started \union {s}
    /\ owner' = s
    /\ UNCHANGED open

Open ==
    /\ owner # None
    /\ open = {}
    /\ open' = {owner}
    /\ UNCHANGED <<started, owner>>

Close ==
    /\ owner # None
    /\ open = {owner}
    /\ open' = {}
    /\ UNCHANGED <<started, owner>>

\* The slot is given back only after the window is gone.
Release ==
    /\ owner # None
    /\ open = {}
    /\ owner' = None
    /\ UNCHANGED <<started, open>>

Next ==
    \/ \E s \in Sessions : Start(s)
    \/ Open
    \/ Close
    \/ Release

Spec == Init /\ [][Next]_vars
=============================================================================
