----------------------------- MODULE MCProcesses -----------------------------
(* Processes with the sets TLC checks it on. *)
EXTENDS Processes

CONSTANTS boot, again, third, csv

TwoCalls == {boot, again}
ThreeCalls == {boot, again, third}

\* What the page calls, and what the provider offers.
PageKinds == {"update"}
AllKinds == {"update", "updateCurrentProcesses", "updateSystemStatistics"}

OneCsv == {csv}
NoCsv == {}

OneChoice == {"hideIdle"}
NoChoice == {}

DefaultChoice == [k \in Choices |-> k = "sortBySize"]
=============================================================================
