---------------------------- MODULE MCChartWindow ----------------------------
(* ChartWindow with the sets TLC checks it on. *)
EXTENDS ChartWindow, TLC

CONSTANTS t1, t2, t3

TwoThreads == {t1, t2}
ThreeThreads == {t1, t2, t3}

Healthy == {}
CreateFailures == {"thread", "window", "controller"}
AllFailures == CreateFailures \union {"getmessage"}
WindowFailure == {"window"}

\* Sound for the safety runs only: no liveness property is checked with it.
Symmetric == Permutations(Threads)
=============================================================================
