------------------------------ MODULE ProcessIds ------------------------------
(* The PIDs that the CSV reader and the process tree share (proc_items.dart). *)
EXTENDS Integers

CONSTANT Pids   \* PIDs of ordinary processes

ASSUME PidsAssumption == Pids \subseteq Nat \ {0}

\* InvalidPid: the PIDs that names stand for.
RootPid == 0
Idle == -1
Interrupts == -2
Special == {Idle, Interrupts}
AllPids == Pids \union Special
=============================================================================
