------------------------------- MODULE ProcTree -------------------------------
(***************************************************************************)
(* The tree under the treemap (lib/src/model/proc_tree.dart), built anew   *)
(* by every build of the Treemap widget: one pass over the processes in    *)
(* whatever order the host lists them, a placeholder for a parent that     *)
(* comes later, then depths, the hideIdle switch, sums and the tiles for   *)
(* the share of a process that its children do not take.                   *)
(***************************************************************************)
EXTENDS ProcessIds, Sequences, FiniteSets, SequencesExt

CONSTANTS
    Size,       \* what the data picker reads of each process
    Snapshots,  \* the process lists the host may answer with
    NULL

Nodes == AllPids \union {RootPid}

\* ProcessItems: the PIDs in the order of the map, each process' parent.
ProcessItems(order) ==
    [order : {order}, ppid : [ToSet(order) -> Int]]

ASSUME NullAssumption == NULL \notin Int
ASSUME SizeAssumption == Size \in [AllPids -> Nat]
ASSUME SnapshotsAssumption ==
    \A s \in Snapshots :
        /\ s \in ProcessItems(s.order)
        /\ s.order \in Seq(AllPids)
        /\ \A i, j \in DOMAIN s.order : s.order[i] = s.order[j] => i = j

VARIABLES
    items,      \* the snapshot shown
    hideIdle,   \* the switch
    stage,      \* what build() does next
    next,       \* _buildTree: the entry the loop is at
    known,      \* the keys of treeNodeMap
    children,   \* per node, in order
    parent,     \* per node, set by _setDepth
    depth,
    todo,       \* the stack of _setDepth
    value,      \* per node, set by sum; NULL until then
    selfTiles   \* nodes that got a tile for themselves among their children

vars == <<items, hideIdle, stage, next, known, children, parent, depth, todo,
          value, selfTiles>>

Stages == {"idle", "tree", "depth", "hide", "sum", "self", "drawn"}

Init ==
    /\ items = [order |-> <<>>, ppid |-> <<>>]
    /\ hideIdle = FALSE
    /\ stage = "idle"
    /\ next = 1
    /\ known = {RootPid}
    /\ children = [n \in Nodes |-> <<>>]
    /\ parent = [n \in Nodes |-> NULL]
    /\ depth = [n \in Nodes |-> 0]
    /\ todo = <<>>
    /\ value = [n \in Nodes |-> NULL]
    /\ selfTiles = {}

-----------------------------------------------------------------------------
\* The loop of _buildTree, and its entry.
AtLoop == stage = "tree" /\ next <= Len(items.order)
Entry == items.order[next]
Ppid == items.ppid[Entry]
Exists(pid) == pid \in ToSet(items.order)

\* The root and the nodes under it: the least set that holds the root and with
\* a node its children.
Shown ==
    {n \in Nodes : \A S \in SUBSET Nodes :
        RootPid \in S /\ (\A m \in S : ToSet(children[m]) \subseteq S) => n \in S}

-----------------------------------------------------------------------------
(* Slips in the code that the properties must notice (the mutants of       *)
(* PROJECT.json); no specification uses them.                              *)

\* line 43: always a new node
Attach_NewNode(n, parents) ==
    /\ next' = next + 1
    /\ known' = known \union {Entry} \union parents
    /\ children' = IF Ppid = Entry THEN [children EXCEPT ![Entry] = <<>>]
                   ELSE [children EXCEPT ![Entry] = <<>>, ![n] = Append(@, Entry)]
    /\ UNCHANGED <<items, hideIdle, stage, parent, depth, todo, value, selfTiles>>

\* line 58 missing
TopLevel_NoContinue ==
    /\ AtLoop
    /\ Ppid <= 0
    /\ next' = next + 1
    /\ known' = known \union {Entry}
    /\ children' = [children EXCEPT ![RootPid] = Append(Append(@, Entry), Entry)]
    /\ UNCHANGED <<items, hideIdle, stage, parent, depth, todo, value, selfTiles>>

\* line 60 missing: a placeholder for a parent that is not in the list
Orphan_Placeholder ==
    /\ AtLoop
    /\ Ppid > 0
    /\ ~Exists(Ppid)
    /\ next' = next + 1
    /\ known' = known \union {Entry, Ppid}
    /\ children' = [children EXCEPT ![RootPid] = Append(@, Entry)]
    /\ UNCHANGED <<items, hideIdle, stage, parent, depth, todo, value, selfTiles>>

\* line 84: last instead of removeLast
Visit_Stays ==
    /\ stage = "depth"
    /\ todo # <<>>
    /\ todo' = todo \o Reverse(children[Last(todo)])
    /\ parent' = [n \in Nodes |-> IF n \in ToSet(children[Last(todo)])
                                   THEN Last(todo) ELSE parent[n]]
    /\ UNCHANGED <<items, hideIdle, stage, next, known, children, depth, value, selfTiles>>

\* line 130: removed from the map only
RemoveIdleNode_MapOnly ==
    /\ stage = "hide"
    /\ stage' = "sum"
    /\ known' = IF hideIdle THEN known \ {Idle} ELSE known
    /\ UNCHANGED <<items, hideIdle, next, children, parent, depth, todo, value, selfTiles>>

\* line 117: the root gets a tile, too
AddSelfToChildren_Root ==
    /\ stage = "self"
    /\ stage' = "drawn"
    /\ selfTiles' = {n \in Shown : children[n] # <<>>}
    /\ UNCHANGED <<items, hideIdle, next, known, children, parent, depth, todo, value>>

\* line 117: only beside several children
AddSelfToChildren_Several ==
    /\ stage = "self"
    /\ stage' = "drawn"
    /\ selfTiles' = {n \in Shown \ {RootPid} : Len(children[n]) > 1}
    /\ UNCHANGED <<items, hideIdle, next, known, children, parent, depth, todo, value>>

-----------------------------------------------------------------------------
(* fromProcessItems                                                        *)

\* The widget is built with a snapshot and the switch.
Build(snapshot, hide) ==
    /\ stage = "idle"
    /\ stage' = "tree"
    /\ items' = snapshot
    /\ hideIdle' = hide
    /\ UNCHANGED <<next, known, children, parent, depth, todo, value, selfTiles>>

\* The entry's node, known already if a child came first, goes under node n,
\* unless the process is its own parent.
Attach(n, parents) ==
    /\ next' = next + 1
    /\ known' = known \union {Entry} \union parents
    /\ children' = IF Ppid = Entry THEN children
                                   ELSE [children EXCEPT ![n] = Append(@, Entry)]
    /\ UNCHANGED <<items, hideIdle, stage, parent, depth, todo, value, selfTiles>>

TopLevel ==
    /\ AtLoop
    /\ Ppid <= 0
    /\ Attach(RootPid, {})

Child ==
    /\ AtLoop
    /\ Ppid > 0
    /\ Exists(Ppid)
    /\ Attach(Ppid, {Ppid})

Orphan ==
    /\ AtLoop
    /\ Ppid > 0
    /\ ~Exists(Ppid)
    /\ Attach(RootPid, {})

EndOfTree ==
    /\ stage = "tree"
    /\ next > Len(items.order)
    /\ stage' = "depth"
    /\ todo' = <<RootPid>>
    /\ UNCHANGED <<items, hideIdle, next, known, children, parent, depth, value, selfTiles>>

-----------------------------------------------------------------------------
(* _setDepth, removeIdleNode, sum, addSelfToChildren                       *)

\* One turn of the loop over the stack.
Visit ==
    /\ stage = "depth"
    /\ todo # <<>>
    /\ LET node == Last(todo)
           childs == ToSet(children[node])
       IN  /\ todo' = Front(todo) \o Reverse(children[node])
           /\ parent' = [n \in Nodes |-> IF n \in childs THEN node ELSE parent[n]]
           /\ depth' = [n \in Nodes |-> IF n \in childs THEN depth[node] + 1 ELSE depth[n]]
    /\ UNCHANGED <<items, hideIdle, stage, next, known, children, value, selfTiles>>

EndOfDepth ==
    /\ stage = "depth"
    /\ todo = <<>>
    /\ stage' = "hide"
    /\ UNCHANGED <<items, hideIdle, next, known, children, parent, depth, todo, value, selfTiles>>

RemoveIdleNode ==
    /\ stage = "hide"
    /\ stage' = "sum"
    /\ children' = IF hideIdle /\ parent[Idle] # NULL
                     THEN [children EXCEPT ![parent[Idle]] = RemoveFirst(@, Idle)]
                     ELSE children
    /\ UNCHANGED <<items, hideIdle, next, known, parent, depth, todo, value, selfTiles>>

\* The root is no process of its own.
Own(n) == IF n = RootPid THEN 0 ELSE Size[n]

\* The sum of a sequence of numbers.
Total(s) ==
    LET total[i \in 0..Len(s)] == IF i = 0 THEN 0 ELSE total[i - 1] + s[i]
    IN  total[Len(s)]

ChildValues(n) == [i \in DOMAIN children[n] |-> value[children[n][i]]]

\* sum goes through the nodes from below, a node after its children (eachAfter).
Sum(n) ==
    /\ stage = "sum"
    /\ value[n] = NULL
    /\ \A c \in ToSet(children[n]) : value[c] # NULL
    /\ value' = [value EXCEPT ![n] = Own(n) + Total(ChildValues(n))]
    /\ UNCHANGED <<items, hideIdle, stage, next, known, children, parent, depth, todo, selfTiles>>

EndOfSum ==
    /\ stage = "sum"
    /\ value[RootPid] # NULL
    /\ stage' = "self"
    /\ UNCHANGED <<items, hideIdle, next, known, children, parent, depth, todo, value, selfTiles>>

AddSelfToChildren ==
    /\ stage = "self"
    /\ stage' = "drawn"
    /\ selfTiles' = {n \in Shown \ {RootPid} : children[n] # <<>>}
    /\ UNCHANGED <<items, hideIdle, next, known, children, parent, depth, todo, value>>

BuildStep ==
    \/ TopLevel \/ Child \/ Orphan \/ EndOfTree
    \/ Visit \/ EndOfDepth
    \/ RemoveIdleNode
    \/ \E n \in Shown : Sum(n)
    \/ EndOfSum \/ AddSelfToChildren

Next ==
    \/ stage = "idle" /\ \E s \in Snapshots, hide \in BOOLEAN : Build(s, hide)
    \/ BuildStep

Spec == Init /\ [][Next]_vars

FairSpec == Spec /\ WF_vars(BuildStep)

-----------------------------------------------------------------------------
(* Properties.                                                             *)

TypeOK ==
    /\ items \in ProcessItems(items.order)
    /\ items.order \in Seq(AllPids)
    /\ hideIdle \in BOOLEAN
    /\ stage \in Stages
    /\ next \in 1..(Len(items.order) + 1)
    /\ known \subseteq Nodes
    /\ children \in [Nodes -> Seq(AllPids)]
    /\ parent \in [Nodes -> Nodes \union {NULL}]
    /\ depth \in [Nodes -> Nat]
    /\ todo \in Seq(Nodes)
    /\ value \in [Nodes -> Nat \union {NULL}]
    /\ selfTiles \subseteq AllPids

\* Where a process belongs: under its parent, if that is alive, else under the
\* root; a process that is its own parent belongs nowhere.
Home(p) ==
    IF items.ppid[p] = p THEN NULL
    ELSE IF items.ppid[p] > 0 /\ Exists(items.ppid[p]) THEN items.ppid[p] ELSE RootPid

\* The processes whose chain of parents leads to a node: the least set that holds
\* a process if it belongs under the node or under a process of the set.
Below(n) ==
    LET listed == ToSet(items.order)
    IN  {p \in listed : \A S \in SUBSET listed :
            (\A q \in listed : Home(q) \in S \union {n} => q \in S) => p \in S}

Rooted == Below(RootPid)

\* A node has one place in the tree, if any, so that _setDepth meets it once
\* and its size is counted once, even while placeholders stand in for parents
\* that have not been read.
OnePlace ==
    /\ \A n, m \in Nodes : \A i \in DOMAIN children[n], j \in DOMAIN children[m] :
        children[n][i] = children[m][j] => n = m /\ i = j
    /\ \A n \in Nodes : RootPid \notin ToSet(children[n])

\* The assertion after the loop (proc_tree.dart:72-76): every placeholder was
\* filled by an entry.
PlaceholdersFilled ==
    stage = "depth" => Cardinality(known) = Len(items.order) + 1

\* The tree does not depend on the order of the list: exactly the processes
\* whose chain of parents ends at the root get a parent, namely their own, and
\* are one level below it.
TreeOfParents ==
    stage \notin {"idle", "tree", "depth"} =>
        LET rooted == Rooted
        IN  /\ \A p \in AllPids : parent[p] = IF p \in rooted THEN Home(p) ELSE NULL
            /\ \A p \in rooted : depth[p] = depth[parent[p]] + 1

\* The sizes of the processes of a set, added up: the number of units in them.
TotalSize(S) == Cardinality(UNION {{p} \X (1..Size[p]) : p \in S})

\* A tile shows the process and every process whose chain of parents leads to it,
\* each once: the sum of their sizes, less the idle process if the switch hides it
\* (treemap.dart:67-73).  The root tile shows all that is rooted.
TilesShowAll ==
    stage = "drawn" =>
        \A n \in Shown :
            value[n] = TotalSize((Below(n) \union ({n} \ {RootPid}))
                                    \ (IF hideIdle THEN {Idle} ELSE {}))

\* The tiles inside a tile fill it: what the children do not take of the size
\* of a process goes to the tile for itself (proc_tree.dart:115-126).
TilesFillTheirParent ==
    stage = "drawn" =>
        \A n \in Shown :
            children[n] # <<>> =>
                value[n] = Total(ChildValues(n)) + (IF n \in selfTiles THEN Size[n] ELSE 0)

\* What a build still has to do: stages, entries to read, processes that
\* _setDepth has not met, nodes on its stack, nodes to sum.
StagesLeft ==
    CASE stage = "tree"  -> 6
      [] stage = "depth" -> 4
      [] stage = "hide"  -> 3
      [] stage = "sum"   -> 2
      [] stage = "self"  -> 1
      [] OTHER           -> 0

Unmet == {p \in ToSet(items.order) : parent[p] = NULL}

Unsummed == {n \in ToSet(items.order) \union {RootPid} : value[n] = NULL}

StepsLeft ==
    StagesLeft + (Len(items.order) + 1 - next) + Cardinality(Unmet) + Len(todo)
        + Cardinality(Unsummed)

\* Every step of a build leaves less to do, so that no list makes it run on: the
\* loop of _setDepth, above all, puts no node on its stack twice, although the
\* parents of a list may form a cycle (a PID that Windows has used again).
BuildProgresses == [][stage # "idle" => StepsLeft' \in 0..(StepsLeft - 1)]_vars

\* A build ends, whatever the list: each of its loops runs out.
BuildEnds == (stage = "tree") ~> (stage = "drawn")
=============================================================================
