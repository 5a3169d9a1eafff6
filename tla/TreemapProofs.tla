----------------------------- MODULE TreemapProofs -----------------------------
(***************************************************************************)
(* The reader of CSVs and the tree, for any set of PIDs, any list of       *)
(* processes and files of any length: the parents the reader makes up are  *)
(* those the indentation draws, and the loop of _buildTree puts each       *)
(* process into one place and fills every placeholder.                     *)
(***************************************************************************)
EXTENDS Treemap, SequenceFacts, FiniteSetTheorems, FunctionTheorems, SequenceTheorems, TLAPS

-----------------------------------------------------------------------------
(* The invariant of the CSV reader.                                        *)

Columns == Pids \union {-1, 0}
Row == [item : AllPids, column : Columns, level : 0..MaxRows, ppid : Columns]

CsvTypes ==
    /\ rows \in Seq(Row)
    /\ \A i, j \in 1..Len(rows) : rows[i].item = rows[j].item => i = j
    /\ \A i \in 1..Len(rows) : rows[i].column = Csv!Column(rows[i].item)
    /\ ppids \in Seq(Columns) /\ Len(ppids) = preLevel + 1 /\ ppids[1] = -1
    /\ prePid \in Pids \union {0}
    /\ preLevel \in 0..MaxRows
    /\ reading \in BOOLEAN

\* After the first n rows of rs, a row of level l belongs to the process with
\* this PID.
Owner(rs, n, l, pid) ==
    \/ pid = -1 /\ \A j \in 1..n : rs[j].level >= l
    \/ \E j \in 1..n :
        /\ rs[j].level < l /\ pid = rs[j].column
        /\ \A k \in 1..n : rs[k].level < l => k <= j

\* The stack holds the owners of the levels down to the last row's.
Path ==
    /\ rows = <<>> => preLevel = 0
    /\ rows # <<>> => LET last == rows[Len(rows)]
                      IN  prePid = last.column /\ preLevel = last.level
    /\ \A l \in 0..preLevel : Owner(rows, Len(rows), l, ppids[l + 1])

Owned == \A i \in 1..Len(rows) : Owner(rows, i - 1, rows[i].level, rows[i].ppid)

Reader == CsvTypes /\ Path /\ Owned

-----------------------------------------------------------------------------
LEMMA InitReader == Csv!Init => Reader
<1> SUFFICES ASSUME Csv!Init PROVE Reader
    OBVIOUS
<1>1. /\ rows = <<>> /\ Len(rows) = 0 /\ ppids = <<-1>> /\ Len(ppids) = 1 /\ ppids[1] = -1
      /\ preLevel = 0 /\ prePid = 0 /\ reading = TRUE
    BY DEF Csv!Init
<1>2. ppids \in Seq(Columns) /\ rows \in Seq(Row)
    BY <1>1 DEF Columns
<1>3. CsvTypes
    BY <1>1, <1>2, RowsAssumption DEF CsvTypes
<1>4. Path /\ Owned
    BY <1>1 DEF Path, Owned, Owner
<1> QED
    BY <1>3, <1>4 DEF Reader

\* The stack that a row is read with: it reaches down to the row's own level.
LEMMA StackReaches ==
    ASSUME Reader, Csv!ReadRow
    PROVE  \E item \in AllPids, level \in 0..MaxRows, stack \in Seq(Columns) :
            /\ Csv!AddRow(item, level, stack)
            /\ \A i \in 1..Len(rows) : rows[i].item # item
            /\ Len(stack) = level + 1 /\ stack[1] = -1
            /\ \A l \in 0..level : Owner(rows, Len(rows), l, stack[l + 1])
<1> USE DEF Reader, CsvTypes
<1>1. PICK item \in AllPids, level \in 0..MaxRows :
        /\ Csv!Saved(item, level)
        /\ Csv!Deeper(item, level) \/ Csv!Same(item, level) \/ Csv!Shallower(item, level)
    BY DEF Csv!ReadRow, Csv!AllPids, Csv!Special, Csv!Idle, Csv!Interrupts, AllPids, Special,
           Idle, Interrupts
<1>2. DOMAIN rows = 1..Len(rows) /\ Len(rows) \in Nat /\ preLevel \in Nat /\ level \in Nat
    BY RowsAssumption
<1>3. \A i \in 1..Len(rows) : rows[i].item # item
    BY <1>1, <1>2 DEF Csv!Saved
<1>4. CASE Csv!Deeper(item, level)
  <2> DEFINE stack == Append(ppids, prePid)
  <2>1. level > preLevel /\ Csv!AddRow(item, level, stack)
      BY <1>4 DEF Csv!Deeper
  <2>2. rows # <<>> /\ level = preLevel + 1
      BY <1>1, <1>2, <2>1 DEF Csv!Saved, Path
  <2>3. prePid \in Columns
      BY DEF Columns
  <2>4. /\ stack \in Seq(Columns) /\ Len(stack) = level + 1 /\ stack[level + 1] = prePid
        /\ \A i \in 1..level : stack[i] = ppids[i]
      BY <2>2, <2>3, AppendFacts
  <2> HIDE DEF stack
  <2>5. stack[1] = -1
      BY <1>2, <2>2, <2>4
  <2>6. Owner(rows, Len(rows), level, prePid)
    <3>1. Len(rows) \in 1..Len(rows) /\ rows[Len(rows)].level = preLevel
          /\ prePid = rows[Len(rows)].column
        BY <1>2, <2>2 DEF Path
    <3>2. \A k \in 1..Len(rows) : k <= Len(rows)
        BY <1>2
    <3> QED
        BY <1>2, <2>2, <3>1, <3>2 DEF Owner
  <2>7. ASSUME NEW l \in 0..level PROVE Owner(rows, Len(rows), l, stack[l + 1])
    <3>1. CASE l = level
        BY <2>4, <2>6, <3>1
    <3>2. CASE l # level
      <4>1. l \in 0..preLevel /\ l + 1 \in 1..level
          BY <1>2, <2>2, <3>2
      <4> QED
          BY <2>4, <4>1 DEF Path
    <3> QED
        BY <3>1, <3>2
  <2> QED
      BY <1>3, <2>1, <2>4, <2>5, <2>7
<1>5. CASE Csv!Same(item, level)
  <2>1. level = preLevel /\ Csv!AddRow(item, level, ppids)
      BY <1>5 DEF Csv!Same
  <2> QED
      BY <1>3, <2>1 DEF Path
<1>6. CASE Csv!Shallower(item, level)
  <2> DEFINE stack == SubSeq(ppids, 1, Len(ppids) - (preLevel - level))
  <2>1. level < preLevel /\ Csv!AddRow(item, level, stack)
      BY <1>6 DEF Csv!Shallower
  <2>2. Len(ppids) - (preLevel - level) = level + 1
      BY <1>2
  <2>3. /\ stack \in Seq(Columns) /\ Len(stack) = level + 1
        /\ \A i \in 1..(level + 1) : stack[i] = ppids[i]
      BY <1>2, <2>1, <2>2
  <2> HIDE DEF stack
  <2>4. stack[1] = -1
      BY <1>2, <2>3
  <2>5. ASSUME NEW l \in 0..level PROVE Owner(rows, Len(rows), l, stack[l + 1])
    <3>1. l \in 0..preLevel /\ l + 1 \in 1..(level + 1)
        BY <1>2, <2>1
    <3> QED
        BY <2>3, <3>1 DEF Path
  <2> QED
      BY <1>3, <2>1, <2>3, <2>4, <2>5
<1> QED
    BY <1>1, <1>4, <1>5, <1>6

LEMMA NextReader == Reader /\ [Csv!Next]_csvVars => Reader'
<1> SUFFICES ASSUME Reader, [Csv!Next]_csvVars PROVE Reader'
    OBVIOUS
<1> USE DEF Reader, CsvTypes
<1>1. ASSUME UNCHANGED <<rows, ppids, prePid, preLevel>>, reading' \in BOOLEAN PROVE Reader'
    BY <1>1 DEF Path, Owned, Owner
<1>2. CASE Csv!ReadRow
  <2>1. PICK item \in AllPids, level \in 0..MaxRows, stack \in Seq(Columns) :
            /\ Csv!AddRow(item, level, stack)
            /\ \A i \in 1..Len(rows) : rows[i].item # item
            /\ Len(stack) = level + 1 /\ stack[1] = -1
            /\ \A l \in 0..level : Owner(rows, Len(rows), l, stack[l + 1])
      BY <1>2, StackReaches
  <2> DEFINE pid == Csv!Column(item)
             row == [item |-> item, column |-> pid, level |-> level, ppid |-> Last(stack)]
  <2>2. /\ ppids' = stack /\ prePid' = pid /\ preLevel' = level /\ UNCHANGED reading
        /\ rows' = Append(rows, row)
      BY <2>1 DEF Csv!AddRow, Csv!Last, Last
  <2>3. level \in Nat /\ Last(stack) = stack[level + 1] /\ stack[level + 1] \in Columns
      BY <2>1, RowsAssumption DEF Last
  <2>4. pid \in Pids \union {0} /\ pid \in Columns
      BY DEF Csv!Column, Csv!Special, AllPids, Special, Columns, Idle, Interrupts, Csv!Idle,
             Csv!Interrupts
  <2>5. row \in Row /\ row.item = item /\ row.column = pid /\ row.level = level
        /\ row.ppid = stack[level + 1] /\ row.column = Csv!Column(row.item)
      BY <2>3, <2>4 DEF Row
  <2> HIDE DEF row, pid
  <2>6. /\ rows' \in Seq(Row) /\ Len(rows) \in Nat /\ Len(rows') = Len(rows) + 1
        /\ rows'[Len(rows) + 1] = row
        /\ \A i \in 1..Len(rows) : rows'[i] = rows[i]
      BY <2>2, <2>5, AppendFacts
  <2>7. \A i \in 1..Len(rows') : i \in 1..Len(rows) \/ i = Len(rows) + 1
      BY <2>6
  <2>8. \A i, j \in 1..Len(rows') : rows'[i].item = rows'[j].item => i = j
    <3> SUFFICES ASSUME NEW i \in 1..Len(rows'), NEW j \in 1..Len(rows'),
                        rows'[i].item = rows'[j].item
                 PROVE  i = j
        OBVIOUS
    <3>1. \A k \in 1..Len(rows) : rows'[k].item = rows[k].item /\ rows[k].item # item
        BY <2>1, <2>6
    <3>2. rows'[Len(rows) + 1].item = item
        BY <2>5, <2>6
    <3>3. CASE i \in 1..Len(rows)
      <4>1. j \in 1..Len(rows)
          BY <2>7, <3>1, <3>2, <3>3
      <4> QED
          BY <3>1, <3>3, <4>1
    <3>4. CASE i = Len(rows) + 1
        BY <2>7, <3>1, <3>2, <3>4
    <3> QED
        BY <2>7, <3>3, <3>4
  <2>9. CsvTypes'
    <3>1. \A i \in 1..Len(rows') : rows'[i].column = Csv!Column(rows'[i].item)
        BY <2>5, <2>6, <2>7
    <3> QED
        BY <2>1, <2>2, <2>4, <2>6, <2>8, <3>1
  <2>10. ASSUME NEW n \in 0..Len(rows), NEW l, NEW p, Owner(rows, n, l, p)
         PROVE  Owner(rows', n, l, p)
    <3>1. \A j \in 1..n : rows'[j] = rows[j]
        BY <2>6
    <3> QED
        BY <2>10, <3>1 DEF Owner
  <2>11. ASSUME NEW l \in 0..level PROVE Owner(rows', Len(rows'), l, stack[l + 1])
    <3> DEFINE p == stack[l + 1]
    <3>1. Owner(rows, Len(rows), l, p)
        BY <2>1
    <3> HIDE DEF p
    <3>2. Owner(rows', Len(rows), l, p)
        BY <2>6, <2>10, <3>1
    <3>3. rows'[Len(rows')].level >= l
        BY <2>3, <2>5, <2>6
    <3>4. Owner(rows', Len(rows'), l, p)
      <4>1. \A j \in 1..Len(rows') : j \in 1..Len(rows) \/ (j = Len(rows') /\ rows'[j].level >= l)
          BY <2>6, <2>7, <3>3
      <4>2. CASE p = -1 /\ \A j \in 1..Len(rows) : rows'[j].level >= l
          BY <4>1, <4>2 DEF Owner
      <4>3. ASSUME NEW j \in 1..Len(rows), rows'[j].level < l, p = rows'[j].column,
                   \A k \in 1..Len(rows) : rows'[k].level < l => k <= j
            PROVE  Owner(rows', Len(rows'), l, p)
        <5>1. j \in 1..Len(rows')
            BY <2>6
        <5>2. rows'[Len(rows')] = row /\ row.level = level
            BY <2>5, <2>6
        <5>3. ~ (rows'[Len(rows')].level < l)
            BY <2>3, <3>3, <5>2
        <5>4. \A k \in 1..Len(rows') : rows'[k].level < l => k <= j
            BY <2>7, <2>6, <4>3, <5>3
        <5> QED
            BY <4>3, <5>1, <5>4 DEF Owner
      <4> QED
          BY <3>2, <4>2, <4>3 DEF Owner
    <3> QED
        BY <3>4 DEF p
  <2>12. Path'
    <3>1. rows' # <<>> /\ rows'[Len(rows')] = row
        BY <2>6
    <3> QED
        BY <2>2, <2>5, <2>11, <3>1 DEF Path
  <2>13. Owned'
    <3> SUFFICES ASSUME NEW i \in 1..Len(rows')
                 PROVE  Owner(rows', i - 1, rows'[i].level, rows'[i].ppid)
        BY DEF Owned
    <3>1. CASE i \in 1..Len(rows)
      <4>1. Owner(rows, i - 1, rows[i].level, rows[i].ppid) /\ i - 1 \in 0..Len(rows)
          BY <2>6, <3>1 DEF Owned
      <4> QED
          BY <2>6, <2>10, <3>1, <4>1
    <3>2. CASE i = Len(rows) + 1
      <4>1. Owner(rows, Len(rows), level, stack[level + 1]) /\ i - 1 = Len(rows)
          BY <2>1, <2>3, <2>6, <3>2
      <4> QED
          BY <2>5, <2>6, <2>10, <3>2, <4>1
    <3> QED
        BY <2>7, <3>1, <3>2
  <2> QED
      BY <2>9, <2>12, <2>13
<1>3. CASE Csv!EndOfFile
    BY <1>1, <1>3 DEF Csv!EndOfFile
<1>4. CASE UNCHANGED csvVars
    BY <1>1, <1>4 DEF csvVars
<1> QED
    BY <1>2, <1>3, <1>4 DEF Csv!Next

\* Every step of the page reads on, or leaves the reader alone.
LEMMA ReaderOfMap == [MapNext]_<<vars, csvVars>> => [Csv!Next]_csvVars
BY DEF MapNext, ReadCsv, BuildCsv, BuildLive, Draw, csvVars

\* csv.dart:61,66: the stack holds one PID for each level of the last row, so
\* that removeLast and last never meet an empty one.
THEOREM StackNeverEmpty == MapSpec => []CsvTypeOK
<1>1. ASSUME Reader PROVE CsvTypeOK
  <2>1. DOMAIN rows = 1..Len(rows) /\ \A i \in 1..Len(rows) : rows[i] \in Row
      BY <1>1, ElementFacts DEF Reader, CsvTypes
  <2>2. \A i \in DOMAIN rows :
            /\ rows[i].item \in AllPids
            /\ rows[i].ppid \in Pids \union {-1, 0}
            /\ rows[i].level \in 0..MaxRows
      BY <2>1 DEF Row, Columns
  <2> QED
      BY <1>1, <2>2 DEF Reader, CsvTypes, CsvTypeOK, Csv!CsvTypeOK, Csv!AllPids, Csv!Special,
                        Csv!Idle, Csv!Interrupts, AllPids, Special, Idle, Interrupts
<1>2. MapInit => Reader
    BY InitReader DEF MapInit
<1>3. Reader /\ [MapNext]_<<vars, csvVars>> => Reader'
    BY NextReader, ReaderOfMap
<1> QED
    BY <1>1, <1>2, <1>3, PTL DEF MapSpec

\* csv.dart:54-67: in a file of any length and any depth, every row gets the PID
\* of the row it is indented under.
THEOREM ParentsAreIndentation == MapSpec => []ParentIsIndentation
<1>1. ASSUME Reader PROVE ParentIsIndentation
  <2>1. DOMAIN rows = 1..Len(rows) /\ Len(rows) \in Nat /\ \A i \in 1..Len(rows) : rows[i] \in Row
      BY <1>1, ElementFacts DEF Reader, CsvTypes
  <2>2. \A i \in 1..Len(rows) : rows[i].level \in Int
      BY <2>1 DEF Row
  <2>3. ASSUME NEW i \in 1..Len(rows)
        PROVE  rows[i].ppid = IF Csv!Above(i) = 0 THEN -1 ELSE rows[Csv!Above(i)].column
    <3> DEFINE before == {j \in 1..(i - 1) : rows[j].level < rows[i].level}
    <3>1. Csv!Above(i) = IF before = {} THEN 0 ELSE CHOOSE j \in before : \A k \in before : k <= j
        BY DEF Csv!Above
    <3>2. Owner(rows, i - 1, rows[i].level, rows[i].ppid)
        BY <1>1 DEF Reader, Owned
    <3>3. CASE rows[i].ppid = -1 /\ \A j \in 1..(i - 1) : rows[j].level >= rows[i].level
      <4>1. \A j \in 1..(i - 1) : j \in 1..Len(rows)
          BY <2>1
      <4>2. before = {}
          BY <2>2, <3>3, <4>1
      <4> QED
          BY <3>1, <3>3, <4>2
    <3>4. ASSUME NEW j \in 1..(i - 1), rows[j].level < rows[i].level, rows[i].ppid = rows[j].column,
                 \A k \in 1..(i - 1) : rows[k].level < rows[i].level => k <= j
          PROVE  rows[i].ppid = IF Csv!Above(i) = 0 THEN -1 ELSE rows[Csv!Above(i)].column
      <4>1. j \in before /\ \A k \in before : k <= j
          BY <3>4
      <4>2. before \subseteq Int
          OBVIOUS
      <4> HIDE DEF before
      <4>3. \A m \in before : (\A k \in before : k <= m) => m = j
          BY <4>1, <4>2
      <4>4. (CHOOSE m \in before : \A k \in before : k <= m) = j
          BY <4>1, <4>3
      <4>5. before # {}
          BY <4>1
      <4>6. Csv!Above(i) = j
          BY <3>1, <4>4, <4>5
      <4> QED
          BY <3>4, <4>6
    <3> QED
        BY <3>2, <3>3, <3>4 DEF Owner
  <2> QED
      BY <2>1, <2>3 DEF ParentIsIndentation, Csv!ParentIsIndentation
<1>2. MapInit => Reader
    BY InitReader DEF MapInit
<1>3. Reader /\ [MapNext]_<<vars, csvVars>> => Reader'
    BY NextReader, ReaderOfMap
<1> QED
    BY <1>1, <1>2, <1>3, PTL DEF MapSpec

-----------------------------------------------------------------------------
(* The invariant of the tree.                                              *)

\* A list of processes, each once.
List(order) ==
    /\ order \in Seq(AllPids)
    /\ \A i, j \in 1..Len(order) : order[i] = order[j] => i = j

TreeTypes ==
    /\ List(items.order) /\ items.ppid \in [ToSet(items.order) -> Int]
    /\ stage \in Stages
    /\ next \in 1..(Len(items.order) + 1)
    /\ children \in [Nodes -> Seq(AllPids)]
    /\ RootPid \in known

\* Before the loop there is nothing but the root; in it, a node's children are
\* among the entries read, and what is known lies between those and the list.
ReadSoFar ==
    /\ stage = "idle" => next = 1 /\ known = {RootPid} /\ \A n \in Nodes : children[n] = <<>>
    /\ stage = "tree" =>
        /\ \A n \in Nodes : \A i \in 1..Len(children[n]) :
            \E j \in 1..(next - 1) : children[n][i] = items.order[j]
        /\ known \subseteq {RootPid} \union ToSet(items.order)
        /\ \A j \in 1..(next - 1) : items.order[j] \in known
    /\ stage = "depth" => known = {RootPid} \union ToSet(items.order)

\* A process has one place among the children.
OneEach ==
    \A n, m \in Nodes : \A i \in 1..Len(children[n]), j \in 1..Len(children[m]) :
        children[n][i] = children[m][j] => n = m /\ i = j

Tree == TreeTypes /\ ReadSoFar /\ OneEach

-----------------------------------------------------------------------------
LEMMA InitTree == Init => Tree
<1> SUFFICES ASSUME Init PROVE Tree
    OBVIOUS
<1>1. /\ items.order = <<>> /\ items.ppid = <<>> /\ Len(items.order) = 0 /\ next = 1
      /\ stage = "idle" /\ known = {RootPid} /\ children = [n \in Nodes |-> <<>>]
    BY DEF Init
<1>2. ToSet(items.order) = {} /\ <<>> \in Seq(AllPids)
    BY <1>1 DEF ToSet
<1>3. items.ppid \in [ToSet(items.order) -> Int]
    BY <1>1, <1>2
<1>4. TreeTypes
    BY <1>1, <1>2, <1>3 DEF TreeTypes, List, Stages
<1>5. ReadSoFar /\ OneEach
    BY <1>1 DEF ReadSoFar, OneEach
<1> QED
    BY <1>4, <1>5 DEF Tree

\* What is built is a list: of the host, or of the rows of a CSV.
LEMMA BuildTree ==
    ASSUME Tree, NEW snapshot, NEW hide, Build(snapshot, hide), List(snapshot.order),
           snapshot.ppid \in [ToSet(snapshot.order) -> Int]
    PROVE  Tree'
<1>1. /\ stage = "idle" /\ stage' = "tree" /\ items' = snapshot
      /\ UNCHANGED <<next, known, children, parent>>
    BY DEF Build
<1>2. Len(snapshot.order) \in Nat
    BY DEF List
<1>3. TreeTypes'
    BY <1>1, <1>2 DEF Tree, TreeTypes, ReadSoFar, Stages
<1>4. ReadSoFar' /\ OneEach'
    BY <1>1 DEF Tree, ReadSoFar, OneEach
<1> QED
    BY <1>3, <1>4 DEF Tree

LEMMA SnapshotIsList ==
    ASSUME NEW s \in Snapshots
    PROVE  List(s.order) /\ s.ppid \in [ToSet(s.order) -> Int]
<1>1. /\ s \in ProcessItems(s.order) /\ s.order \in Seq(AllPids)
      /\ \A i, j \in DOMAIN s.order : s.order[i] = s.order[j] => i = j
    BY SnapshotsAssumption
<1>2. DOMAIN s.order = 1..Len(s.order)
    BY <1>1
<1> QED
    BY <1>1, <1>2 DEF ProcessItems, List

LEMMA CsvIsList ==
    ASSUME Reader
    PROVE  List(CsvItems.order) /\ CsvItems.ppid \in [ToSet(CsvItems.order) -> Int]
<1> DEFINE order == [i \in DOMAIN rows |-> rows[i].item]
<1>1. /\ DOMAIN rows = 1..Len(rows) /\ Len(rows) \in Nat
      /\ \A i \in 1..Len(rows) : rows[i] \in Row
    BY ElementFacts DEF Reader, CsvTypes
<1>2. \A i \in 1..Len(rows) : rows[i].item \in AllPids /\ rows[i].ppid \in Int
  <2>1. Columns \subseteq Int
      BY PidsAssumption DEF Columns
  <2>2. \A r \in Row : r.item \in AllPids /\ r.ppid \in Columns
      BY DEF Row
  <2> QED
      BY <1>1, <2>1, <2>2
<1>3. CsvItems.order = order
    BY DEF CsvItems
<1>4. order \in Seq(AllPids) /\ Len(order) = Len(rows) /\ DOMAIN order = 1..Len(rows)
    BY <1>1, <1>2
<1>5. List(order)
    BY <1>1, <1>4 DEF List, Reader, CsvTypes
<1>6. ASSUME NEW p \in ToSet(order)
      PROVE  rows[CHOOSE i \in DOMAIN rows : rows[i].item = p].ppid \in Int
  <2>1. \E i \in DOMAIN rows : rows[i].item = p
      BY <1>4 DEF ToSet
  <2>2. (CHOOSE i \in DOMAIN rows : rows[i].item = p) \in DOMAIN rows
      BY <2>1
  <2> QED
      BY <1>1, <1>2, <2>2
<1>7. CsvItems.ppid = [p \in ToSet(order) |-> rows[CHOOSE i \in DOMAIN rows : rows[i].item = p].ppid]
    BY DEF CsvItems
<1> HIDE DEF order
<1> QED
    BY <1>3, <1>5, <1>6, <1>7

\* Sequences in which each value has one place, and one value more at an end.
LEMMA OneMore ==
    ASSUME NEW N, NEW c, NEW d, NEW n, NEW e,
           \A m, k \in N : \A i \in 1..Len(c[m]), j \in 1..Len(c[k]) :
                c[m][i] = c[k][j] => m = k /\ i = j,
           \A m \in N : \A i \in 1..Len(c[m]) : c[m][i] # e,
           \A m \in N : \A i \in 1..Len(d[m]) :
                \/ i \in 1..Len(c[m]) /\ d[m][i] = c[m][i]
                \/ m = n /\ i = Len(c[n]) + 1 /\ d[m][i] = e
    PROVE  \A m, k \in N : \A i \in 1..Len(d[m]), j \in 1..Len(d[k]) :
                d[m][i] = d[k][j] => m = k /\ i = j
<1> SUFFICES ASSUME NEW m \in N, NEW k \in N, NEW i \in 1..Len(d[m]), NEW j \in 1..Len(d[k]),
                    d[m][i] = d[k][j]
             PROVE  m = k /\ i = j
    OBVIOUS
<1>1. CASE i \in 1..Len(c[m]) /\ d[m][i] = c[m][i]
  <2>1. d[k][j] # e
      BY <1>1
  <2>2. j \in 1..Len(c[k]) /\ d[k][j] = c[k][j]
      BY <2>1
  <2>3. i \in 1..Len(c[m]) /\ c[m][i] = c[k][j]
      BY <1>1, <2>2
  <2> QED
      BY <2>2, <2>3
<1>2. CASE m = n /\ i = Len(c[n]) + 1 /\ d[m][i] = e
  <2>1. k = n /\ j = Len(c[n]) + 1
      BY <1>2
  <2> QED
      BY <1>2, <2>1
<1> QED
    BY <1>1, <1>2

\* One turn of the loop: the entry is none of the children so far.
LEMMA AttachTree ==
    ASSUME Tree, AtLoop, NEW n \in Nodes, NEW parents \in SUBSET ToSet(items.order),
           Attach(n, parents)
    PROVE  Tree'
<1> USE DEF Tree, TreeTypes
<1>1. /\ stage = "tree" /\ next \in 1..Len(items.order) /\ next' = next + 1
      /\ UNCHANGED <<items, stage, parent>> /\ known' = known \union {Entry} \union parents
      /\ Len(items.order) \in Nat /\ DOMAIN items.order = 1..Len(items.order)
    BY DEF AtLoop, Attach, List
<1>2. Entry = items.order[next] /\ Entry \in AllPids /\ Entry \in ToSet(items.order)
  <2>1. Entry = items.order[next]
      BY DEF Entry
  <2>2. items.order[next] \in AllPids
    <3>1. items.order \in Seq(AllPids)
        BY DEF List
    <3> HIDE DEF Tree, TreeTypes
    <3> QED
        BY <1>1, <3>1, ElementFacts
  <2>3. items.order[next] \in ToSet(items.order)
      BY <1>1 DEF ToSet
  <2> QED
      BY <2>1, <2>2, <2>3
<1>3. \A m \in Nodes : \A i \in 1..Len(children[m]) : children[m][i] # Entry
    BY <1>1, <1>2 DEF ReadSoFar, List
<1>4. \A m \in Nodes : children[m] \in Seq(AllPids) /\ Len(children[m]) \in Nat
    OBVIOUS
<1>5. CASE children' = children
  <2>1. TreeTypes' /\ OneEach'
      BY <1>1, <1>5 DEF OneEach
  <2>2. ReadSoFar'
    <3>1. \A j \in 1..(next' - 1) : j \in 1..(next - 1) \/ j = next
        BY <1>1
    <3>2. 1..(next - 1) \subseteq 1..(next' - 1)
        BY <1>1
    <3>3. \A m \in Nodes : \A i \in 1..Len(children[m]) :
            \E j \in 1..(next' - 1) : children[m][i] = items.order[j]
        BY <1>1, <3>2 DEF ReadSoFar
    <3>4. known' \subseteq {RootPid} \union ToSet(items.order)
        BY <1>1, <1>2 DEF ReadSoFar
    <3>5. \A j \in 1..(next' - 1) : items.order[j] \in known'
        BY <1>1, <1>2, <3>1 DEF ReadSoFar
    <3> QED
        BY <1>1, <1>5, <3>3, <3>4, <3>5 DEF ReadSoFar
  <2> QED
      BY <2>1, <2>2
<1>6. CASE children' = [children EXCEPT ![n] = Append(@, Entry)]
  <2> DEFINE e == Entry
             new == Append(children[n], e)
  <2>1. /\ new \in Seq(AllPids) /\ Len(new) = Len(children[n]) + 1 /\ new[Len(children[n]) + 1] = e
        /\ \A i \in 1..Len(children[n]) : new[i] = children[n][i]
      BY <1>2, <1>4, AppendFacts
  <2>2. children' = [children EXCEPT ![n] = new]
      BY <1>6
  <2>3. e = items.order[next] /\ e \in ToSet(items.order)
        /\ \A m \in Nodes : \A i \in 1..Len(children[m]) : children[m][i] # e
      BY <1>2, <1>3
  <2>4. known' = known \union {e} \union parents
      BY <1>1
  <2> HIDE DEF e, new
  <2>5. \A m \in Nodes : \A i \in 1..Len(children'[m]) :
            \/ i \in 1..Len(children[m]) /\ children'[m][i] = children[m][i]
            \/ m = n /\ i = Len(children[n]) + 1 /\ children'[m][i] = e
      BY <1>4, <2>1, <2>2
  <2>6. TreeTypes'
      BY <1>1, <2>1, <2>2, <2>4 DEF List
  <2>7. OneEach'
    BY <2>3, <2>5, OneMore DEF OneEach
  <2>8. ReadSoFar'
    <3>1. \A j \in 1..(next' - 1) : j \in 1..(next - 1) \/ j = next
        BY <1>1
    <3>2. 1..(next - 1) \subseteq 1..(next' - 1) /\ next \in 1..(next' - 1)
        BY <1>1
    <3>3. \A m \in Nodes : \A i \in 1..Len(children'[m]) :
            \E j \in 1..(next' - 1) : children'[m][i] = items.order[j]
        BY <1>1, <2>3, <2>5, <3>2 DEF ReadSoFar
    <3>4. known' \subseteq {RootPid} \union ToSet(items.order)
        BY <1>1, <2>3, <2>4 DEF ReadSoFar
    <3>5. \A j \in 1..(next' - 1) : items.order[j] \in known'
        BY <1>1, <2>3, <2>4, <3>1 DEF ReadSoFar
    <3> QED
        BY <1>1, <3>3, <3>4, <3>5 DEF ReadSoFar
  <2> QED
      BY <2>6, <2>7, <2>8
<1> QED
    BY <1>5, <1>6 DEF Attach

\* A sequence in which an element has no second place, without the element.
LEMMA RemoveFacts ==
    ASSUME NEW S, NEW s \in Seq(S), NEW e,
           \A i, j \in 1..Len(s) : s[i] = s[j] => i = j
    PROVE  /\ RemoveFirst(s, e) \in Seq(S)
           /\ \A i, j \in 1..Len(RemoveFirst(s, e)) :
                RemoveFirst(s, e)[i] = RemoveFirst(s, e)[j] => i = j
           /\ \A i \in 1..Len(RemoveFirst(s, e)) :
                \E j \in 1..Len(s) : RemoveFirst(s, e)[i] = s[j]
           /\ ToSet(RemoveFirst(s, e)) = ToSet(s) \ {e}
<1>1. CASE ~ \E i \in 1..Len(s) : s[i] = e
  <2>1. RemoveFirst(s, e) = s
      BY <1>1 DEF RemoveFirst
  <2>2. DOMAIN s = 1..Len(s)
      OBVIOUS
  <2>3. ToSet(s) = ToSet(s) \ {e}
      BY <1>1, <2>2 DEF ToSet
  <2> QED
      BY <2>1, <2>3
<1>2. ASSUME NEW k \in 1..Len(s), s[k] = e
      PROVE  RemoveFirst(s, e) = SubSeq(s, 1, k - 1) \o SubSeq(s, k + 1, Len(s))
  <2> DEFINE I == {i \in 1..Len(s) : s[i] = e}
  <2>1. I = {k}
      BY <1>2
  <2>2. Min(I) = k
      BY <2>1 DEF Min
  <2>3. SelectInSeq(s, LAMBDA v : v = e) = k
      BY <2>1, <2>2 DEF SelectInSeq
  <2> QED
      BY <1>2, <2>3 DEF RemoveFirst, RemoveAt
<1>3. ASSUME NEW k \in 1..Len(s),
             RemoveFirst(s, e) = SubSeq(s, 1, k - 1) \o SubSeq(s, k + 1, Len(s))
      PROVE  /\ RemoveFirst(s, e) \in Seq(S)
             /\ Len(RemoveFirst(s, e)) = Len(s) - 1
             /\ \A i \in 1..(Len(s) - 1) :
                    RemoveFirst(s, e)[i] = IF i < k THEN s[i] ELSE s[i + 1]
  <2>1. Len(s) \in Nat
      OBVIOUS
  <2> DEFINE low == SubSeq(s, 1, k - 1)
             high == SubSeq(s, k + 1, Len(s))
  <2>2. low \in Seq(S) /\ Len(low) = k - 1 /\ \A i \in 1..(k - 1) : low[i] = s[i]
      BY <2>1
  <2>3. high \in Seq(S) /\ Len(high) = Len(s) - k /\ \A i \in 1..(Len(s) - k) : high[i] = s[k + i]
      BY <2>1
  <2> HIDE DEF low, high
  <2>4. /\ low \o high \in Seq(S) /\ Len(low \o high) = Len(low) + Len(high)
        /\ \A i \in 1..(Len(low) + Len(high)) :
            (low \o high)[i] = IF i <= Len(low) THEN low[i] ELSE high[i - Len(low)]
    <3>1. low \in Seq(S) /\ high \in Seq(S)
        BY <2>2, <2>3
    <3> QED
        BY <3>1, ConcatProperties
  <2> DEFINE rest == low \o high
  <2>5. rest \in Seq(S) /\ Len(rest) = Len(s) - 1
      BY <2>1, <2>2, <2>3, <2>4
  <2>6. ASSUME NEW i \in 1..(Len(s) - 1) PROVE rest[i] = IF i < k THEN s[i] ELSE s[i + 1]
    <3>1. i \in 1..(Len(low) + Len(high))
        BY <2>1, <2>2, <2>3
    <3>2. rest[i] = IF i <= Len(low) THEN low[i] ELSE high[i - Len(low)]
        BY <2>4, <3>1
    <3>3. CASE i < k
      <4>1. i <= Len(low) /\ i \in 1..(k - 1)
          BY <2>2, <3>3
      <4> QED
          BY <2>2, <3>2, <3>3, <4>1
    <3>4. CASE ~ (i < k)
      <4>1. ~ (i <= Len(low)) /\ i - Len(low) = i - k + 1 /\ i - k + 1 \in 1..(Len(s) - k)
          BY <2>1, <2>2, <3>4
      <4>2. high[i - k + 1] = s[i + 1]
          BY <2>1, <2>3, <4>1
      <4> QED
          BY <3>2, <3>4, <4>1, <4>2
    <3> QED
        BY <3>3, <3>4
  <2>7. RemoveFirst(s, e) = rest
      BY <1>3 DEF low, high
  <2> HIDE DEF rest
  <2> QED
      BY <2>5, <2>6, <2>7
<1>4. ASSUME NEW k \in 1..Len(s), s[k] = e, NEW r \in Seq(S), Len(r) = Len(s) - 1,
             \A i \in 1..(Len(s) - 1) : r[i] = IF i < k THEN s[i] ELSE s[i + 1]
      PROVE  /\ \A i, j \in 1..Len(r) : r[i] = r[j] => i = j
             /\ \A i \in 1..Len(r) : \E j \in 1..Len(s) : r[i] = s[j]
             /\ ToSet(r) = ToSet(s) \ {e}
  <2>1. \A i \in 1..Len(r) : i \in 1..Len(s) /\ i + 1 \in 1..Len(s)
      BY <1>4
  <2>2. \A i \in 1..Len(r) : \E j \in 1..Len(s) : r[i] = s[j]
      BY <1>4, <2>1
  <2>3. ASSUME NEW i \in 1..Len(r), NEW j \in 1..Len(r), r[i] = r[j] PROVE i = j
    <3>1. /\ r[i] = IF i < k THEN s[i] ELSE s[i + 1]
          /\ r[j] = IF j < k THEN s[j] ELSE s[j + 1]
        BY <1>4, <2>3
    <3>2. CASE i < k /\ j < k
        BY <2>1, <2>3, <3>1, <3>2
    <3>3. CASE i < k /\ ~ (j < k)
      <4>1. s[i] = s[j + 1]
          BY <2>3, <3>1, <3>3
      <4>2. i = j + 1
          BY <2>1, <4>1
      <4> QED
          BY <3>3, <4>2
    <3>4. CASE ~ (i < k) /\ j < k
      <4>1. s[i + 1] = s[j]
          BY <2>3, <3>1, <3>4
      <4>2. i + 1 = j
          BY <2>1, <4>1
      <4> QED
          BY <3>4, <4>2
    <3>5. CASE ~ (i < k) /\ ~ (j < k)
      <4>1. i + 1 = j + 1
          BY <2>1, <2>3, <3>1, <3>5
      <4> QED
          BY <4>1
    <3> QED
        BY <3>2, <3>3, <3>4, <3>5
  <2>4. DOMAIN r = 1..(Len(s) - 1) /\ DOMAIN s = 1..Len(s) /\ Len(s) \in Nat
      BY <1>4
  <2>5. ASSUME NEW i \in 1..(Len(s) - 1) PROVE r[i] \in ToSet(s) \ {e}
    <3>1. CASE i < k
      <4>1. r[i] = s[i] /\ i \in 1..Len(s) /\ i # k
          BY <1>4, <2>4, <3>1
      <4> QED
          BY <1>4, <2>4, <4>1 DEF ToSet
    <3>2. CASE ~ (i < k)
      <4>1. r[i] = s[i + 1] /\ i + 1 \in 1..Len(s) /\ i + 1 # k
          BY <1>4, <2>4, <3>2
      <4> QED
          BY <1>4, <2>4, <4>1 DEF ToSet
    <3> QED
        BY <3>1, <3>2
  <2>6. ASSUME NEW j \in 1..Len(s), s[j] # e PROVE s[j] \in ToSet(r)
    <3>1. CASE j < k
      <4>1. j \in 1..(Len(s) - 1)
          BY <2>4, <3>1
      <4> QED
          BY <1>4, <2>4, <3>1, <4>1 DEF ToSet
    <3>2. CASE ~ (j < k)
      <4>1. j - 1 \in 1..(Len(s) - 1) /\ ~ (j - 1 < k) /\ j - 1 + 1 = j
          BY <1>4, <2>4, <2>6, <3>2
      <4>2. r[j - 1] = s[j]
          BY <1>4, <4>1
      <4> QED
          BY <2>4, <4>1, <4>2 DEF ToSet
    <3> QED
        BY <3>1, <3>2
  <2>7. ToSet(r) = ToSet(s) \ {e}
      BY <2>4, <2>5, <2>6 DEF ToSet
  <2> QED
      BY <2>2, <2>3, <2>7
<1>5. CASE \E i \in 1..Len(s) : s[i] = e
  <2>1. PICK k \in 1..Len(s) : s[k] = e
      BY <1>5
  <2>2. /\ RemoveFirst(s, e) \in Seq(S)
        /\ Len(RemoveFirst(s, e)) = Len(s) - 1
        /\ \A i \in 1..(Len(s) - 1) :
                RemoveFirst(s, e)[i] = IF i < k THEN s[i] ELSE s[i + 1]
      BY <1>2, <1>3, <2>1
  <2> DEFINE r == RemoveFirst(s, e)
  <2> HIDE DEF r
  <2>3. r \in Seq(S) /\ Len(r) = Len(s) - 1
        /\ \A i \in 1..(Len(s) - 1) : r[i] = IF i < k THEN s[i] ELSE s[i + 1]
      BY <2>2 DEF r
  <2>4. /\ \A i, j \in 1..Len(r) : r[i] = r[j] => i = j
        /\ \A i \in 1..Len(r) : \E j \in 1..Len(s) : r[i] = s[j]
        /\ ToSet(r) = ToSet(s) \ {e}
      BY <1>4, <2>1, <2>3
  <2> QED
      BY <2>3, <2>4 DEF r
<1> QED
    BY <1>1, <1>5

\* The idle process is taken from wherever it is.
LEMMA IdleTree ==
    ASSUME Tree, RemoveIdleNode
    PROVE  Tree'
<1> USE DEF Tree, TreeTypes
<1>1. /\ stage = "hide" /\ stage' = "sum" /\ UNCHANGED <<items, next, known>>
    BY DEF RemoveIdleNode
<1>2. CASE children' = children
    BY <1>1, <1>2 DEF ReadSoFar, OneEach, Stages
<1>3. ASSUME NEW n, children' = [children EXCEPT ![n] = RemoveFirst(@, Idle)] PROVE Tree'
  <2>1. CASE n \notin Nodes
    <3>1. children' = children
        BY <1>3, <2>1
    <3> QED
        BY <1>2, <3>1
  <2>2. CASE n \in Nodes
    <3> DEFINE old == children[n]
               new == RemoveFirst(old, Idle)
    <3>1. old \in Seq(AllPids) /\ \A i, j \in 1..Len(old) : old[i] = old[j] => i = j
        BY <2>2 DEF OneEach
    <3>2. /\ new \in Seq(AllPids)
          /\ \A i, j \in 1..Len(new) : new[i] = new[j] => i = j
          /\ \A i \in 1..Len(new) : \E j \in 1..Len(old) : new[i] = old[j]
      <4> HIDE DEF old, Tree, TreeTypes
      <4> QED
          BY <3>1, RemoveFacts
    <3>3. children' = [children EXCEPT ![n] = new]
        BY <1>3
    <3> HIDE DEF new
    <3>4. TreeTypes'
        BY <1>1, <3>2, <3>3 DEF Stages
    <3>5. \A m \in Nodes : children'[m] = IF m = n THEN new ELSE children[m]
        BY <2>2, <3>3
    <3>6. OneEach'
      <4> SUFFICES ASSUME NEW m \in Nodes, NEW k \in Nodes, NEW i \in 1..Len(children'[m]),
                          NEW j \in 1..Len(children'[k]), children'[m][i] = children'[k][j]
                   PROVE  m = k /\ i = j
          BY DEF OneEach
      <4>1. CASE m = n /\ k = n
          BY <2>2, <3>2, <3>5, <4>1
      <4>2. CASE m = n /\ k # n
        <5>1. PICK l \in 1..Len(old) : children'[m][i] = old[l]
            BY <3>2, <3>5, <4>2
        <5>2. children'[k][j] = children[k][j] /\ j \in 1..Len(children[k])
            BY <3>5, <4>2
        <5> QED
            BY <2>2, <4>2, <5>1, <5>2 DEF OneEach
      <4>3. CASE m # n /\ k = n
        <5>1. PICK l \in 1..Len(old) : children'[k][j] = old[l]
            BY <3>2, <3>5, <4>3
        <5>2. children'[m][i] = children[m][i] /\ i \in 1..Len(children[m])
            BY <3>5, <4>3
        <5> QED
            BY <2>2, <4>3, <5>1, <5>2 DEF OneEach
      <4>4. CASE m # n /\ k # n
          BY <3>5, <4>4 DEF OneEach
      <4> QED
          BY <4>1, <4>2, <4>3, <4>4
    <3>7. ReadSoFar'
        BY <1>1 DEF ReadSoFar
    <3> QED
        BY <3>4, <3>6, <3>7
  <2> QED
      BY <2>1, <2>2
<1> QED
    BY <1>2, <1>3 DEF RemoveIdleNode

LEMMA NextTree == Reader /\ Tree /\ [MapNext]_<<vars, csvVars>> => Tree'
<1> SUFFICES ASSUME Reader, Tree, [MapNext]_<<vars, csvVars>> PROVE Tree'
    OBVIOUS
<1>1. ASSUME UNCHANGED <<items, next, known, children>>, stage' \in Stages,
             \/ UNCHANGED stage
             \/ stage' \notin {"idle", "tree", "depth"}
      PROVE  Tree'
    BY <1>1 DEF Tree, TreeTypes, ReadSoFar, OneEach
<1>2. stage \in Stages
    BY DEF Tree, TreeTypes
<1>3. CASE BuildLive
    BY <1>3, SnapshotIsList, BuildTree DEF BuildLive
<1>4. CASE BuildCsv
    BY <1>4, CsvIsList, BuildTree DEF BuildCsv
<1>5. CASE TopLevel \/ Child \/ Orphan
  <2>1. AtLoop /\ RootPid \in Nodes
      BY <1>5 DEF TopLevel, Child, Orphan, Nodes
  <2>2. CASE Attach(RootPid, {})
      BY <2>1, <2>2, AttachTree
  <2>3. CASE Exists(Ppid) /\ Attach(Ppid, {Ppid})
    <3>1. Ppid \in ToSet(items.order)
        BY <2>3 DEF Exists
    <3>2. ToSet(items.order) \subseteq AllPids
        BY ElementFacts DEF Tree, TreeTypes, List, ToSet
    <3>3. Ppid \in Nodes
        BY <3>1, <3>2 DEF Nodes
    <3> QED
        BY <2>1, <2>3, <3>1, <3>3, AttachTree
  <2> QED
      BY <1>5, <2>2, <2>3 DEF TopLevel, Child, Orphan
<1>6. CASE EndOfTree
  <2>1. /\ stage = "tree" /\ stage' = "depth" /\ next > Len(items.order)
        /\ UNCHANGED <<items, next, known, children>>
      BY <1>6 DEF EndOfTree
  <2>2. next - 1 = Len(items.order) /\ DOMAIN items.order = 1..Len(items.order)
      BY <2>1 DEF Tree, TreeTypes, List
  <2>3. ToSet(items.order) \subseteq known
      BY <2>1, <2>2 DEF Tree, ReadSoFar, ToSet
  <2>4. known = {RootPid} \union ToSet(items.order)
      BY <2>1, <2>3 DEF Tree, TreeTypes, ReadSoFar
  <2>5. TreeTypes' /\ OneEach'
      BY <2>1 DEF Tree, TreeTypes, OneEach, Stages
  <2>6. ReadSoFar'
      BY <2>1, <2>4 DEF ReadSoFar
  <2> QED
      BY <2>5, <2>6 DEF Tree
<1>7. CASE RemoveIdleNode
    BY <1>7, IdleTree
<1>8. CASE \/ Visit \/ EndOfDepth \/ (\E n \in Shown : Sum(n)) \/ EndOfSum \/ AddSelfToChildren
            \/ ReadCsv \/ UNCHANGED <<vars, csvVars>>
    BY <1>1, <1>2, <1>8 DEF Visit, EndOfDepth, Sum, EndOfSum, AddSelfToChildren, ReadCsv, vars, Stages
<1> QED
    BY <1>3, <1>4, <1>5, <1>6, <1>7, <1>8 DEF MapNext, Draw, BuildStep

LEMMA MapInv == MapSpec => [](Reader /\ Tree)
<1>1. MapInit => Reader /\ Tree
    BY InitReader, InitTree DEF MapInit
<1>2. Reader /\ Tree /\ [MapNext]_<<vars, csvVars>> => Reader' /\ Tree'
    BY NextReader, ReaderOfMap, NextTree
<1> QED
    BY <1>1, <1>2, PTL DEF MapSpec

\* proc_tree.dart:36-71, 128-131: whatever the order of the list and wherever
\* the parents stand in it, no process is put under two nodes or twice under
\* one, and none above the root.
THEOREM PlacesAreUnique == MapSpec => []OnePlace
<1>1. ASSUME Tree PROVE OnePlace
  <2>1. \A n \in Nodes : children[n] \in Seq(AllPids) /\ DOMAIN children[n] = 1..Len(children[n])
      BY <1>1 DEF Tree, TreeTypes
  <2>2. RootPid \notin AllPids
      BY PidsAssumption DEF AllPids, Special, Idle, Interrupts, RootPid
  <2>3. \A n \in Nodes : RootPid \notin ToSet(children[n])
      BY <2>1, <2>2, ElementFacts DEF ToSet
  <2> QED
      BY <1>1, <2>1, <2>3 DEF Tree, OneEach, OnePlace
<1> QED
    BY <1>1, MapInv, PTL

\* proc_tree.dart:72-76: the assertion after the loop holds for every list in
\* which a process occurs once: each placeholder was filled by its entry.
THEOREM PlaceholdersAreFilled == MapSpec => []PlaceholdersFilled
<1>1. ASSUME Tree PROVE PlaceholdersFilled
  <2> DEFINE order == items.order
             listed == ToSet(order)
  <2> SUFFICES ASSUME stage = "depth" PROVE Cardinality(known) = Len(order) + 1
      BY DEF PlaceholdersFilled
  <2>1. /\ order \in Seq(AllPids) /\ \A i, j \in 1..Len(order) : order[i] = order[j] => i = j
        /\ known = {RootPid} \union listed
      BY <1>1 DEF Tree, TreeTypes, List, ReadSoFar
  <2>2. Len(order) \in Nat /\ DOMAIN order = 1..Len(order)
      BY <2>1
  <2>3. listed = {order[i] : i \in 1..Len(order)}
      BY <2>2 DEF ToSet
  <2> HIDE DEF order, listed
  <2>4. order \in Bijection(1..Len(order), listed)
      BY <2>1, <2>2, <2>3, Fun_IsBij
  <2>5. IsFiniteSet(1..Len(order)) /\ Cardinality(1..Len(order)) = Len(order)
    <3>1. /\ IsFiniteSet(1..Len(order))
          /\ Cardinality(1..Len(order)) = IF 1 > Len(order) THEN 0 ELSE Len(order) - 1 + 1
        BY <2>2, FS_Interval
    <3> QED
        BY <2>2, <3>1
  <2>6. IsFiniteSet(listed) /\ Cardinality(listed) = Len(order)
      BY <2>4, <2>5, FS_Bijection DEF ExistsBijection
  <2>7. RootPid \notin listed
    <3>1. RootPid \notin AllPids
        BY PidsAssumption DEF AllPids, Special, Idle, Interrupts, RootPid
    <3> QED
        BY <2>1, <2>3, <3>1, ElementFacts
  <2>8. Cardinality(listed \union {RootPid}) = Len(order) + 1
      BY <2>6, <2>7, FS_AddElement
  <2>9. known = listed \union {RootPid}
      BY <2>1
  <2> QED
      BY <2>8, <2>9
<1> QED
    BY <1>1, MapInv, PTL
=============================================================================
