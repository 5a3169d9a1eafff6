------------------------------- MODULE Treemap -------------------------------
(***************************************************************************)
(* What the page shows (lib/src/widgets/treemap.dart): a tree built from a *)
(* list of the host's processes, or from the rows of a CSV, whose parents  *)
(* CsvImport has made up from the indentation.                             *)
(***************************************************************************)
EXTENDS ProcTree

CONSTANT MaxRows

ASSUME RowsAssumption == MaxRows \in Nat

VARIABLES rows, ppids, prePid, preLevel, reading

Csv == INSTANCE CsvImport

csvVars == <<rows, ppids, prePid, preLevel, reading>>

\* ProcessItems.fromCSV: the rows in their order, by PID.
CsvItems ==
    LET order == [i \in DOMAIN rows |-> rows[i].item]
    IN  [order |-> order,
         ppid |-> [p \in ToSet(order) |->
                    rows[CHOOSE i \in DOMAIN rows : rows[i].item = p].ppid]]

-----------------------------------------------------------------------------
MapInit == Init /\ Csv!Init

ReadCsv ==
    /\ stage = "idle"
    /\ Csv!Next
    /\ UNCHANGED vars

BuildCsv ==
    /\ ~reading
    /\ \E hide \in BOOLEAN : Build(CsvItems, hide)
    /\ UNCHANGED csvVars

BuildLive ==
    /\ rows = <<>> /\ stage = "idle"
    /\ \E s \in Snapshots, hide \in BOOLEAN : Build(s, hide)
    /\ UNCHANGED csvVars

Draw ==
    /\ BuildStep
    /\ UNCHANGED csvVars

MapNext ==
    \/ ReadCsv
    \/ BuildCsv
    \/ BuildLive
    \/ Draw

\* build() runs to its end by itself; what is opened is the user's affair.
MapSpec == MapInit /\ [][MapNext]_<<vars, csvVars>> /\ WF_<<vars, csvVars>>(Draw)

-----------------------------------------------------------------------------
(* Properties.                                                             *)

CsvTypeOK == Csv!CsvTypeOK

\* csv.dart:54-67 gives every row the PID of the row it is indented under.
ParentIsIndentation == Csv!ParentIsIndentation

HasDepths == stage \notin {"idle", "tree", "depth"}

\* The tree of a CSV is the forest its indentation draws, although the parents
\* pass through PID columns and a map by PID: a process is under the process it
\* is indented under; below the pseudo processes, whose PIDs the columns do not
\* hold, and at the top level it is under the root.
CsvForest ==
    HasDepths =>
        \A i \in DOMAIN rows :
            LET above == Csv!Above(i)
            IN  rows[i].item # Idle =>
                    parent[rows[i].item] =
                        IF above = 0 \/ rows[above].item \notin Pids
                          THEN RootPid ELSE rows[above].item

-----------------------------------------------------------------------------
(* What the documents say, and the code does not do.                       *)

\* README.md, "add hideIdle switch": with the switch off, the idle process of
\* what is shown has its tile.
IdleIsSwitched ==
    stage = "drawn" /\ ~hideIdle /\ Exists(Idle) => Idle \in Shown
=============================================================================
