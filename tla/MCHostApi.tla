------------------------------ MODULE MCHostApi ------------------------------
(* HostApi with the sets TLC checks it on. *)
EXTENDS HostApi

CONSTANTS load, again, icon, none, client, chrome, notepad, a1, a2, h1, h2, h3, h4,
          launch, showDebug, level

TwoLoads == {load, again}
TwoIcons == {icon, none}
NoIcon == {none}
OneClient == {client}
TwoProcesses == {chrome, notepad}
TwoAddresses == {a1, a2}
FourHandles == {h1, h2, h3, h4}

SomePlace ==
    [S \in ((SUBSET TwoAddresses) \union (SUBSET FourHandles)) \ {{}} |-> CHOOSE p \in S : TRUE]

Strings == {launch}
IntegerNames == {showDebug}
AllNames == {launch, showDebug, level}
NameLength == [n \in AllNames |-> 3]

\* Empty, ASCII, and with letters of three bytes.
SomeTexts == {[units |-> 0, bytes |-> 0], [units |-> 2, bytes |-> 2], [units |-> 2, bytes |-> 6]}

\* The callers share nothing but the channel; a behaviour has one kind of them.
OneAtATime == {{"refresh"}, {"icons"}, {"settings"}}
=============================================================================
