------------------------------ MODULE CsvImport ------------------------------
(***************************************************************************)
(* The rows of a CSV saved by System Informer, read one by one             *)
(* (lib/src/model/csv.dart).  The file has no column for the parent of a   *)
(* process: the reader takes it from the indentation of the names, with a  *)
(* stack of the PIDs on the path to the row.                               *)
(***************************************************************************)
EXTENDS ProcessIds, Sequences, SequencesExt

CONSTANT MaxRows   \* bound on the rows of a file

VARIABLES
    rows,      \* the rows read, each with its level, PID, item's PID and parent
    ppids,     \* the stack
    prePid,    \* the PID and the level of the last row
    preLevel,
    reading    \* TRUE until the end of the file

csvVars == <<rows, ppids, prePid, preLevel, reading>>

-----------------------------------------------------------------------------
\* A PID cell that holds no number reads as 0 (idle's holds 0 itself).
Column(item) == IF item \in Special THEN 0 ELSE item

\* System Informer writes its tree in preorder, each process once,
\* the idle process at the top.
Saved(item, level) ==
    /\ \A i \in DOMAIN rows : rows[i].item # item
    /\ level \in 0..(IF rows = <<>> \/ item = Idle THEN 0 ELSE preLevel + 1)

Init ==
    /\ rows = <<>>
    /\ ppids = <<-1>>
    /\ prePid = 0
    /\ preLevel = 0
    /\ reading = TRUE

\* The part of the loop common to every row, with the stack as it is by then.
AddRow(item, level, stack) ==
    /\ ppids' = stack
    /\ rows' = Append(rows, [item |-> item, column |-> Column(item), level |-> level,
                             ppid |-> Last(stack)])
    /\ prePid' = Column(item)
    /\ preLevel' = level
    /\ UNCHANGED reading

\* Slips in the code that the properties must notice (the mutants of
\* PROJECT.json); no specification uses them: one removeLast for any number of
\* levels, and the row's own PID pushed instead of the last one.
Shallower_Once(item, level) ==
    /\ level < preLevel
    /\ AddRow(item, level, Front(ppids))

Deeper_OwnPid(item, level) ==
    /\ level > preLevel
    /\ AddRow(item, level, Append(ppids, Column(item)))

Deeper(item, level) ==
    /\ level > preLevel
    /\ AddRow(item, level, Append(ppids, prePid))

Same(item, level) ==
    /\ level = preLevel
    /\ AddRow(item, level, ppids)

Shallower(item, level) ==
    /\ level < preLevel
    /\ AddRow(item, level, SubSeq(ppids, 1, Len(ppids) - (preLevel - level)))

ReadRow ==
    /\ reading
    /\ Len(rows) < MaxRows
    /\ \E item \in AllPids, level \in 0..MaxRows :
        /\ Saved(item, level)
        /\ \/ Deeper(item, level)
           \/ Same(item, level)
           \/ Shallower(item, level)

\* fromCSV: the file is read to its end.
EndOfFile ==
    /\ reading
    /\ rows # <<>>
    /\ reading' = FALSE
    /\ UNCHANGED <<rows, ppids, prePid, preLevel>>

Next == ReadRow \/ EndOfFile

-----------------------------------------------------------------------------
(* Properties.                                                             *)

\* The rows are of the types above, and the stack holds one PID per level of
\* the last row: removeLast and last never meet an empty stack (csv.dart:61,66).
CsvTypeOK ==
    /\ \A i \in DOMAIN rows :
        /\ rows[i].item \in AllPids
        /\ rows[i].ppid \in Pids \union {-1, 0}
        /\ rows[i].level \in 0..MaxRows
    /\ Len(ppids) = preLevel + 1
    /\ ppids[1] = -1
    /\ prePid \in Pids \union {0}
    /\ reading \in BOOLEAN

\* The row that the indentation puts row i under; 0 for a row at the top.
Above(i) ==
    LET before == {j \in 1..(i - 1) : rows[j].level < rows[i].level}
    IN  IF before = {} THEN 0 ELSE CHOOSE j \in before : \A k \in before : k <= j

\* csv.dart:54-67 gives every row the PID of the row it is indented under.
ParentIsIndentation ==
    \A i \in DOMAIN rows :
        rows[i].ppid = IF Above(i) = 0 THEN -1 ELSE rows[Above(i)].column
=============================================================================
