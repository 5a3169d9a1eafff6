----------------------------- MODULE HostObjects -----------------------------
(***************************************************************************)
(* What the host API promises about the objects whose addresses it hands   *)
(* to the isolate as plain integers (ProcessItemsRaw, HBITMAP): while an   *)
(* address is on its way to a reader, the object behind it is not freed,   *)
(* and so its place is not used again for another one.  HostApi implements *)
(* this.                                                                   *)
(***************************************************************************)

CONSTANTS
    Places,    \* addresses and handles
    Objects,   \* what may be behind them
    FREE

VARIABLES
    memory,    \* the object at each place, or FREE
    sent       \* pairs of a place and the object it was handed out for

vars == <<memory, sent>>

Init ==
    /\ memory = [p \in Places |-> FREE]
    /\ sent = {}

\* A new object, whose address may be handed out at once.
Create(p, o) ==
    /\ memory[p] = FREE
    /\ memory' = [memory EXCEPT ![p] = o]
    /\ sent' \in {sent, sent \union {<<p, o>>}}

Free(p) ==
    /\ memory[p] # FREE
    /\ \A s \in sent : s[1] # p
    /\ memory' = [memory EXCEPT ![p] = FREE]
    /\ UNCHANGED sent

\* Addresses of objects that exist are handed out.
Send ==
    /\ sent \subseteq sent'
    /\ \A s \in sent' \ sent : s[1] \in Places /\ s[2] = memory[s[1]] /\ s[2] # FREE
    /\ UNCHANGED memory

\* Addresses are read, or lost with the channel.
Receive ==
    /\ sent' \subseteq sent
    /\ UNCHANGED memory

Next ==
    \/ \E p \in Places : Free(p) \/ \E o \in Objects : Create(p, o)
    \/ Send
    \/ Receive

Spec == Init /\ [][Next]_vars

\* Whoever reads through an address finds the object it was handed out for.
AddressesTell == \A s \in sent : memory[s[1]] = s[2]
=============================================================================
