------------------------------ MODULE MCTreemap ------------------------------
(* Treemap with the sets TLC checks it on. *)
EXTENDS Treemap

ThreePids == {1, 2, 3}

\* Distinct powers of two: two sets of processes never have the same sum.
PowerSize == [p \in AllPids |-> 2 ^ (p + 2)]

\* Every order of the idle process and three others; a parent may be any other
\* process, the kernel, or a process that has gone (9).  Cycles included.
AnyParents ==
    LET processes == Pids \union {Idle}
    IN  {[order |-> o, ppid |-> f] :
            o \in SetToSeqs(processes),
            f \in {g \in [processes -> Pids \union {0, 9}] :
                    g[Idle] = 0 /\ \A p \in Pids : g[p] # p}}

NoSnapshots == {}
=============================================================================
