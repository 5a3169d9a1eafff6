------------------------------ MODULE TreeProofs ------------------------------
(***************************************************************************)
(* The tree from its parents to its sums, for any processes of any size,   *)
(* in any order and with any parents: what is under the root is what the   *)
(* chains of parents lead to, and every size is counted once.  Trees are   *)
(* least closed sets (Rooted, Shown), which are their own principle of     *)
(* induction; a sum of sizes is the cardinality of a set of units.         *)
(***************************************************************************)
EXTENDS TreemapProofs

-----------------------------------------------------------------------------
(* The invariant.                                                          *)

Listed == ToSet(items.order)

\* What removeIdleNode takes out of the tree.
Hidden == IF hideIdle /\ parent[Idle] # NULL THEN {Idle} ELSE {}

\* The processes that have got their place, and keep it.
Placed ==
    CASE stage = "idle"                     -> {}
      [] stage = "tree"                     -> {items.order[j] : j \in 1..(next - 1)}
      [] stage \in {"depth", "hide"}        -> Listed
      [] stage \in {"sum", "self", "drawn"} -> Listed \ Hidden

\* A node's children are the processes that belong under it.
AtHome ==
    \A n \in Nodes : ToSet(children[n]) = {p \in Placed : Home(p) = n}

BuildTypes ==
    /\ hideIdle \in BOOLEAN
    /\ parent \in [Nodes -> Nodes \union {NULL}]
    /\ depth \in [Nodes -> Nat]
    /\ todo \in Seq(Nodes)
    /\ value \in [Nodes -> Nat \union {NULL}]
    /\ selfTiles \subseteq AllPids

Met(n) == n = RootPid \/ parent[n] # NULL

\* _setDepth has met only what is rooted, from the root down, and still has to
\* go through the children of a node it has met, if it has not met them all.
Depths ==
    /\ stage \in {"idle", "tree"} => \A n \in Nodes : parent[n] = NULL
    /\ \A p \in Nodes : parent[p] # NULL =>
        /\ p \in Rooted
        /\ parent[p] = Home(p)
        /\ Met(parent[p])
        /\ depth[p] = depth[parent[p]] + 1
    /\ stage = "depth" => \A n \in ToSet(todo) : Met(n)
    /\ stage \notin {"idle", "tree"} =>
        \A n \in Nodes : Met(n) =>
            \/ stage = "depth" /\ n \in ToSet(todo)
            \/ \A p \in Listed : Home(p) = n => parent[p] # NULL

\* What is counted of a set of nodes, unit by unit.
Units(size, S) == UNION {{p} \X (1..size[p]) : p \in S}

Summed == {n \in Nodes : value[n] # NULL}

\* With a node its children.
Takes(S) == \A m \in S : ToSet(children[m]) \subseteq S

\* The nodes of a set that are no children of others in it.
Tops(S) == S \ UNION {ToSet(children[m]) : m \in S}

\* The tops of a set hold every unit of the processes in the set once.
AddedUp(S) ==
    /\ IsFiniteSet(Units(Size, S \ {RootPid}))
    /\ IsFiniteSet(Units(value, Tops(S)))
    /\ Cardinality(Units(Size, S \ {RootPid})) = Cardinality(Units(value, Tops(S)))

\* A node is summed after its children, to its own size and theirs; so that every
\* set of summed nodes that has with a node its children is added up in its tops.
Sums ==
    /\ stage \in {"idle", "tree", "depth", "hide"} => Summed = {}
    /\ stage \in {"self", "drawn"} => RootPid \in Summed
    /\ Summed \subseteq Shown
    /\ \A n \in Summed :
        /\ ToSet(children[n]) \subseteq Summed
        /\ value[n] = Own(n) + Total(ChildValues(n))
    /\ \A S \in SUBSET Summed : Takes(S) => AddedUp(S)

Tiles == stage = "drawn" => selfTiles = {n \in Shown \ {RootPid} : children[n] # <<>>}

\* The tree of a CSV is built from its rows.
FromRows == stage # "idle" /\ rows # <<>> => items = CsvItems

\* The list is one, and what is known are nodes.
Shape == items \in ProcessItems(items.order) /\ known \subseteq Nodes

Drawing == AtHome /\ BuildTypes /\ Depths /\ Sums /\ Tiles /\ FromRows

-----------------------------------------------------------------------------
(* Sums and units.                                                         *)

\* Induction on numbers, as the absence of a least counterexample.
LEMMA Least ==
    ASSUME NEW T \in SUBSET Nat, T # {}
    PROVE  \E m \in T : \A k \in T : m <= k
<1> DEFINE less == OpToRel(<, Nat)
<1>1. less = {ss \in Nat \X Nat : ss[1] < ss[2]}
    BY DEF OpToRel
<1>2. IsWellFoundedOn(less, Nat)
    BY NatLessThanWellFounded
<1> HIDE DEF less
<1>3. PICK m \in T : \A k \in T : ~ (<<k, m>> \in less)
    BY <1>2, WFMin
<1>4. \A k \in T : ~ (k < m)
    BY <1>1, <1>3
<1> QED
    BY <1>3, <1>4

\* The recursion of Total is one over the positions: it has a solution.
LEMMA PartialTotals ==
    ASSUME NEW s, Len(s) \in Nat, \A i \in 1..Len(s) : s[i] \in Nat
    PROVE  \E t \in [0..Len(s) -> Nat] :
            /\ t[0] = 0
            /\ \A i \in 1..Len(s) : t[i] = t[i - 1] + s[i]
            /\ Total(s) = t[Len(s)]
<1> DEFINE N == Len(s)
           Upto(n, t) == t \in [0..n -> Nat] /\ t[0] = 0 /\ \A i \in 1..n : t[i] = t[i - 1] + s[i]
           bad == {n \in 0..N : ~ \E t : Upto(n, t)}
<1> HIDE DEF N
<1>1. N \in Nat /\ \A i \in 1..N : s[i] \in Nat
    BY DEF N
<1>2. bad = {}
  <2> SUFFICES ASSUME bad # {} PROVE FALSE
      OBVIOUS
  <2>1. bad \in SUBSET Nat
      BY <1>1
  <2>2. PICK m \in bad : \A k \in bad : m <= k
    <3> HIDE DEF bad
    <3> QED
        BY <2>1, Least
  <2>3. m \in 0..N /\ ~ \E t : Upto(m, t)
      OBVIOUS
  <2>4. m # 0
    <3>1. Upto(0, [i \in 0..0 |-> 0])
        OBVIOUS
    <3> QED
        BY <2>3, <3>1
  <2>5. m - 1 \in 0..N /\ m - 1 < m /\ m \in 1..N
      BY <1>1, <2>3, <2>4
  <2>6. PICK t : Upto(m - 1, t)
    <3>1. m - 1 \notin bad
      <4> HIDE DEF bad
      <4> QED
          BY <1>1, <2>2, <2>3, <2>5
    <3> HIDE DEF Upto
    <3> QED
        BY <2>5, <3>1
  <2> DEFINE u == [i \in 0..m |-> IF i = m THEN t[m - 1] + s[m] ELSE t[i]]
  <2>7. Upto(m, u)
    <3>1. t[m - 1] \in Nat /\ s[m] \in Nat
        BY <1>1, <2>5, <2>6
    <3>2. u \in [0..m -> Nat] /\ u[0] = 0
        BY <1>1, <2>5, <2>6, <3>1
    <3>3. ASSUME NEW i \in 1..m PROVE u[i] = u[i - 1] + s[i]
        BY <1>1, <2>5, <2>6
    <3> QED
        BY <3>2, <3>3
  <2> QED
      BY <2>3, <2>7
<1>3. PICK t : Upto(N, t)
  <2>1. N \in 0..N
      BY <1>1
  <2> HIDE DEF Upto
  <2> QED
      BY <1>2, <2>1
<1> DEFINE Solves(f) == f = [i \in 0..N |-> IF i = 0 THEN 0 ELSE f[i - 1] + s[i]]
           total == CHOOSE f : Solves(f)
<1>4. Solves(t)
  <2>1. t = [i \in 0..N |-> t[i]]
      BY <1>3
  <2>2. \A i \in 0..N : t[i] = IF i = 0 THEN 0 ELSE t[i - 1] + s[i]
      BY <1>1, <1>3
  <2> QED
      BY <2>1, <2>2
<1>5. Solves(total)
  <2> HIDE DEF Solves
  <2> QED
      BY <1>4
<1>6. Total(s) = total[N]
    BY DEF Total, N
<1> HIDE DEF total
<1>7. total = t
  <2> DEFINE off == {n \in 0..N : total[n] # t[n]}
  <2>1. off = {}
    <3> SUFFICES ASSUME off # {} PROVE FALSE
        OBVIOUS
    <3>1. off \in SUBSET Nat
        BY <1>1
    <3>2. PICK m \in off : \A k \in off : m <= k
      <4> HIDE DEF off
      <4> QED
          BY <3>1, Least
    <3>3. CASE m = 0
        BY <1>1, <1>3, <1>5, <3>3
    <3>4. CASE m # 0
      <4>1. m \in 1..N /\ m - 1 \in 0..N /\ m - 1 < m
          BY <1>1, <3>4
      <4>2. total[m - 1] = t[m - 1]
          BY <3>2, <4>1
      <4>3. total[m] = total[m - 1] + s[m]
          BY <1>5, <4>1
      <4> QED
          BY <1>3, <4>1, <4>2, <4>3
    <3> QED
        BY <3>3, <3>4
  <2>2. t = [n \in 0..N |-> t[n]] /\ total = [n \in 0..N |-> total[n]]
      BY <1>3, <1>5
  <2> QED
      BY <2>1, <2>2
<1> QED
    BY <1>3, <1>6, <1>7 DEF N

\* The units of one node.
LEMMA UnitsOfOne ==
    ASSUME NEW size, NEW p, size[p] \in Nat
    PROVE  IsFiniteSet(Units(size, {p})) /\ Cardinality(Units(size, {p})) = size[p]
<1> DEFINE k == size[p]
<1>1. Units(size, {p}) = {p} \X (1..k)
    BY DEF Units
<1>2. IsFiniteSet({p}) /\ Cardinality({p}) = 1
    BY FS_Singleton
<1>3. IsFiniteSet(1..k) /\ Cardinality(1..k) = k
  <2>1. k \in Nat
      OBVIOUS
  <2> HIDE DEF k
  <2>2. IsFiniteSet(1..k) /\ Cardinality(1..k) = IF 1 > k THEN 0 ELSE k - 1 + 1
      BY <2>1, FS_Interval
  <2> QED
      BY <2>1, <2>2
<1>4. k \in Nat
    OBVIOUS
<1> HIDE DEF k
<1>5. IsFiniteSet({p} \X (1..k)) /\ Cardinality({p} \X (1..k)) = 1 * k
  <2> DEFINE A == {p}
             B == 1..k
  <2>1. IsFiniteSet(A) /\ IsFiniteSet(B) /\ Cardinality(A) = 1 /\ Cardinality(B) = k
      BY <1>2, <1>3
  <2> HIDE DEF A, B
  <2>2. IsFiniteSet(A \X B) /\ Cardinality(A \X B) = Cardinality(A) * Cardinality(B)
      BY <2>1, FS_Product
  <2> QED
      BY <2>1, <2>2 DEF A, B
<1>6. 1 * k = k
    BY <1>4
<1> QED
    BY <1>1, <1>5, <1>6 DEF k

\* The units of two sets that share no node.
LEMMA UnitsOfBoth ==
    ASSUME NEW size, NEW S, NEW T, S \cap T = {},
           IsFiniteSet(Units(size, S)), IsFiniteSet(Units(size, T))
    PROVE  /\ IsFiniteSet(Units(size, S \union T))
           /\ Cardinality(Units(size, S \union T))
                = Cardinality(Units(size, S)) + Cardinality(Units(size, T))
<1>1. Units(size, S \union T) = Units(size, S) \union Units(size, T)
    BY DEF Units
<1>2. Units(size, S) \cap Units(size, T) = {}
    BY DEF Units
<1> DEFINE A == Units(size, S)
           B == Units(size, T)
<1>3. IsFiniteSet(A) /\ IsFiniteSet(B) /\ A \cap B = {}
    BY <1>2
<1> HIDE DEF A, B
<1>4. /\ IsFiniteSet(A \union B)
      /\ Cardinality(A \union B) = Cardinality(A) + Cardinality(B) - Cardinality(A \cap B)
    BY <1>3, FS_Union
<1>5. Cardinality(A \cap B) = 0 /\ Cardinality(A) \in Nat /\ Cardinality(B) \in Nat
    BY <1>3, FS_EmptySet, FS_CardinalityType
<1>6. Cardinality(A \union B) = Cardinality(A) + Cardinality(B)
    BY <1>4, <1>5
<1> QED
    BY <1>1, <1>4, <1>6 DEF A, B

\* A sequence in which nothing has a second place, and the sizes along it.
Sized(size, s, sizes) ==
    /\ Len(s) \in Nat /\ DOMAIN s = 1..Len(s)
    /\ \A i, j \in 1..Len(s) : s[i] = s[j] => i = j
    /\ \A i \in 1..Len(s) : size[s[i]] \in Nat
    /\ sizes = [i \in DOMAIN s |-> size[s[i]]]

\* What Total adds up along such a sequence are the units of its elements.
LEMMA UnitsOfMany ==
    ASSUME NEW size, NEW s, NEW sizes, Sized(size, s, sizes)
    PROVE  /\ IsFiniteSet(Units(size, ToSet(s)))
           /\ Cardinality(Units(size, ToSet(s))) = Total(sizes)
           /\ Total(sizes) \in Nat
<1> DEFINE N == Len(s)
           Prefix(k) == {s[i] : i \in 1..k}
<1> USE DEF Sized
<1>1. N \in Nat /\ sizes = [i \in 1..N |-> size[s[i]]] /\ \A i \in 1..N : sizes[i] \in Nat
    OBVIOUS
<1>2. Len(sizes) = N
    BY <1>1
<1>3. PICK t \in [0..N -> Nat] :
        t[0] = 0 /\ (\A i \in 1..N : t[i] = t[i - 1] + sizes[i]) /\ Total(sizes) = t[N]
  <2>1. Len(sizes) \in Nat /\ \A i \in 1..Len(sizes) : sizes[i] \in Nat
      BY <1>1, <1>2
  <2>2. \E t \in [0..Len(sizes) -> Nat] :
            /\ t[0] = 0
            /\ \A i \in 1..Len(sizes) : t[i] = t[i - 1] + sizes[i]
            /\ Total(sizes) = t[Len(sizes)]
    <3> HIDE DEF N
    <3> QED
        BY <2>1, PartialTotals
  <2> HIDE DEF N
  <2> QED
      BY <1>2, <2>2
<1> DEFINE Counted(k) == /\ IsFiniteSet(Units(size, Prefix(k)))
                         /\ Cardinality(Units(size, Prefix(k))) = t[k]
           bad == {k \in 0..N : ~ Counted(k)}
<1>4. bad = {}
  <2> SUFFICES ASSUME bad # {} PROVE FALSE
      OBVIOUS
  <2>1. bad \in SUBSET Nat
      BY <1>1
  <2>2. PICK m \in bad : \A k \in bad : m <= k
    <3> HIDE DEF bad
    <3> QED
        BY <2>1, Least
  <2>3. m \in 0..N /\ ~ Counted(m)
      OBVIOUS
  <2>4. m # 0
    <3>1. Units(size, Prefix(0)) = {}
        BY DEF Units
    <3>2. Counted(0)
        BY <1>3, <3>1, FS_EmptySet
    <3> QED
        BY <2>3, <3>2
  <2>5. m - 1 \in 0..N /\ m - 1 < m /\ m \in 1..N
      BY <1>1, <2>3, <2>4
  <2>6. Counted(m - 1)
    <3>1. m - 1 \notin bad
      <4> HIDE DEF bad
      <4> QED
          BY <1>1, <2>2, <2>3, <2>5
    <3> HIDE DEF Counted
    <3> QED
        BY <2>5, <3>1
  <2>7. Prefix(m) = Prefix(m - 1) \union {s[m]} /\ s[m] \notin Prefix(m - 1)
    <3>1. 1..m = 1..(m - 1) \union {m}
        BY <2>5
    <3>2. \A i \in 1..(m - 1) : i \in 1..N /\ i # m
        BY <2>5
    <3> QED
        BY <2>5, <3>1, <3>2
  <2>8. IsFiniteSet(Units(size, {s[m]})) /\ Cardinality(Units(size, {s[m]})) = sizes[m]
      BY <1>1, <2>5, UnitsOfOne
  <2> DEFINE P == Prefix(m - 1)
             e == s[m]
  <2>9. P \cap {e} = {}
      BY <2>7
  <2>10. /\ IsFiniteSet(Units(size, P \union {e}))
         /\ Cardinality(Units(size, P \union {e}))
                = Cardinality(Units(size, P)) + Cardinality(Units(size, {e}))
    <3>1. IsFiniteSet(Units(size, P)) /\ IsFiniteSet(Units(size, {e}))
        BY <2>6, <2>8
    <3> HIDE DEF P, e
    <3> QED
        BY <2>9, <3>1, UnitsOfBoth
  <2>11. Counted(m)
      BY <1>3, <2>5, <2>6, <2>7, <2>8, <2>10
  <2> QED
      BY <2>3, <2>11
<1>5. Counted(N)
  <2>1. N \in 0..N
      BY <1>1
  <2> HIDE DEF Counted, N
  <2> QED
      BY <1>4, <2>1
<1>6. Prefix(N) = ToSet(s)
    BY DEF ToSet
<1>7. t[N] \in Nat
    BY <1>1, <1>3
<1> HIDE DEF N
<1> QED
    BY <1>3, <1>5, <1>6, <1>7

-----------------------------------------------------------------------------
(* Least sets.                                                             *)

LEMMA NodeFacts ==
    /\ Nodes \subseteq Int /\ NULL \notin Nodes
    /\ AllPids \subseteq Nodes /\ RootPid \in Nodes /\ RootPid \notin AllPids
    /\ Idle \in AllPids /\ Idle # RootPid /\ Idle <= 0
    /\ \A n \in Nodes : n = RootPid \/ n \in AllPids
<1>1. \A p \in Pids : p \in Int /\ p > 0
    BY PidsAssumption
<1>2. Nodes = Pids \union {-1, -2, 0} /\ AllPids = Pids \union {-1, -2}
    BY DEF Nodes, AllPids, Special, Idle, Interrupts, RootPid
<1>3. \A n \in Nodes : n \in Int
    BY <1>1, <1>2
<1>4. NULL \notin Nodes
    BY <1>3, NullAssumption
<1>5. RootPid \notin AllPids /\ RootPid \in Nodes
    BY <1>1, <1>2 DEF RootPid
<1>6. Idle \in AllPids /\ Idle # RootPid /\ Idle <= 0
    BY <1>2 DEF Idle, RootPid
<1> QED
    BY <1>2, <1>3, <1>4, <1>5, <1>6 DEF RootPid

\* A process that has a home has it under the root or under another process of
\* the list, and never under the idle process.
LEMMA HomeFacts ==
    ASSUME Tree
    PROVE  /\ Listed \subseteq AllPids
           /\ \A p \in Listed : Home(p) # NULL =>
                /\ Home(p) \in Listed \union {RootPid} /\ Home(p) \in Nodes
                /\ Home(p) # p /\ Home(p) # Idle
<1>1. Listed \subseteq AllPids
    BY ElementFacts DEF Tree, TreeTypes, List, Listed, ToSet
<1>2. \A p \in Listed : items.ppid[p] \in Int
    BY DEF Tree, TreeTypes, Listed
<1>3. ASSUME NEW p \in Listed, Home(p) # NULL
      PROVE  /\ Home(p) \in Listed \union {RootPid} /\ Home(p) \in Nodes
             /\ Home(p) # p /\ Home(p) # Idle
  <2>1. CASE items.ppid[p] > 0 /\ Exists(items.ppid[p])
    <3>1. Home(p) = items.ppid[p] /\ items.ppid[p] # p /\ items.ppid[p] \in Listed
        BY <1>3, <2>1 DEF Home, Exists, Listed
    <3>2. items.ppid[p] # Idle
        BY <1>2, <2>1 DEF Idle
    <3> QED
        BY <1>1, <3>1, <3>2, NodeFacts
  <2>2. CASE ~ (items.ppid[p] > 0 /\ Exists(items.ppid[p]))
    <3>1. Home(p) = RootPid
        BY <1>3, <2>2 DEF Home
    <3> QED
        BY <1>1, <3>1, NodeFacts
  <2> QED
      BY <2>1, <2>2
<1> QED
    BY <1>1, <1>3

\* What holds the processes that belong under it or under a node.
GathersAt(n, S) == \A q \in Listed : Home(q) \in S \union {n} => q \in S

LEMMA BelowFacts ==
    ASSUME NEW n
    PROVE  /\ Below(n) \subseteq Listed
           /\ GathersAt(n, Below(n))
           /\ \A S \in SUBSET Listed : GathersAt(n, S) => Below(n) \subseteq S
           /\ \A p \in Below(n) : Home(p) \in Below(n) \union {n}
<1>1. Below(n) = {p \in Listed : \A S \in SUBSET Listed : GathersAt(n, S) => p \in S}
    BY DEF Below, Listed, GathersAt
<1>2. Below(n) \subseteq Listed /\ \A S \in SUBSET Listed : GathersAt(n, S) => Below(n) \subseteq S
    BY <1>1
<1>3. GathersAt(n, Below(n))
  <2> SUFFICES ASSUME NEW q \in Listed, Home(q) \in Below(n) \union {n}, q \notin Below(n)
               PROVE  FALSE
      BY DEF GathersAt
  <2>1. PICK S \in SUBSET Listed : GathersAt(n, S) /\ q \notin S
      BY <1>1
  <2>2. Home(q) \in S \union {n}
      BY <1>2, <2>1
  <2> QED
      BY <2>1, <2>2 DEF GathersAt
<1>4. \A p \in Below(n) : Home(p) \in Below(n) \union {n}
  <2> DEFINE S == {p \in Below(n) : Home(p) \in Below(n) \union {n}}
  <2>1. GathersAt(n, S)
      BY <1>3 DEF GathersAt
  <2>2. S \in SUBSET Listed
      BY <1>2
  <2>3. Below(n) \subseteq S
    <3> HIDE DEF S
    <3> QED
        BY <1>2, <2>1, <2>2
  <2> QED
      BY <2>3
<1> QED
    BY <1>2, <1>3, <1>4

Gathers(S) == GathersAt(RootPid, S)

LEMMA RootedFacts ==
    /\ Rooted \subseteq Listed
    /\ Gathers(Rooted)
    /\ \A S \in SUBSET Listed : Gathers(S) => Rooted \subseteq S
    /\ \A p \in Rooted : Home(p) \in Rooted \union {RootPid}
BY BelowFacts DEF Rooted, Gathers

\* What holds the root and the children of its nodes.
Holds(S) == RootPid \in S /\ \A m \in S : ToSet(children[m]) \subseteq S

LEMMA ShownFacts ==
    ASSUME Tree
    PROVE  /\ Shown \subseteq Nodes
           /\ Holds(Shown)
           /\ \A S \in SUBSET Nodes : Holds(S) => Shown \subseteq S
           /\ \A n \in Shown : n = RootPid \/ \E m \in Shown : n \in ToSet(children[m])
<1>1. Shown = {n \in Nodes : \A S \in SUBSET Nodes : Holds(S) => n \in S}
    BY DEF Shown, Holds
<1>2. Shown \subseteq Nodes /\ \A S \in SUBSET Nodes : Holds(S) => Shown \subseteq S
    BY <1>1
<1>3. \A m \in Nodes : ToSet(children[m]) \subseteq Nodes
  <2> SUFFICES ASSUME NEW m \in Nodes PROVE ToSet(children[m]) \subseteq AllPids
      BY NodeFacts
  <2>1. children[m] \in Seq(AllPids)
      BY DEF Tree, TreeTypes
  <2> QED
      BY <2>1, ElementFacts DEF ToSet
<1>4. Holds(Shown)
  <2>1. RootPid \in Shown
      BY <1>1, NodeFacts DEF Holds
  <2>2. ASSUME NEW m \in Shown, NEW n \in ToSet(children[m]) PROVE n \in Shown
    <3>1. n \in Nodes
        BY <1>2, <1>3, <2>2
    <3>2. ASSUME NEW S \in SUBSET Nodes, Holds(S) PROVE n \in S
      <4>1. m \in S
          BY <1>2, <3>2
      <4> QED
          BY <2>2, <3>2, <4>1 DEF Holds
    <3> QED
        BY <1>1, <3>1, <3>2
  <2> QED
      BY <2>1, <2>2 DEF Holds
<1>5. \A n \in Shown : n = RootPid \/ \E m \in Shown : n \in ToSet(children[m])
  <2> DEFINE S == {n \in Shown : n = RootPid \/ \E m \in Shown : n \in ToSet(children[m])}
  <2>1. Holds(S)
    <3>1. RootPid \in S
        BY <1>4 DEF Holds
    <3>2. \A m \in S : ToSet(children[m]) \subseteq S
        BY <1>4 DEF Holds
    <3> QED
        BY <3>1, <3>2 DEF Holds
  <2>2. S \in SUBSET Nodes
      BY <1>2
  <2>3. Shown \subseteq S
    <3> HIDE DEF S
    <3> QED
        BY <1>2, <2>1, <2>2
  <2> QED
      BY <2>3
<1> QED
    BY <1>2, <1>4, <1>5

-----------------------------------------------------------------------------
(* The steps, the parts of the invariant one by one.                       *)

\* Where processes belong depends on the list alone, and what is shown on the
\* children.
LEMMA SameList ==
    ASSUME items' = items
    PROVE  Listed' = Listed /\ Rooted' = Rooted /\ \A p : Home(p)' = Home(p)
BY DEF Listed, Rooted, Below, Home, Exists

LEMMA SameChildren ==
    ASSUME children' = children
    PROVE  Shown' = Shown
BY DEF Shown

LEMMA NothingSummed ==
    ASSUME \A n \in Nodes : value[n] = NULL, stage \notin {"self", "drawn"}
    PROVE  Sums
<1>1. Summed = {}
    BY DEF Summed
<1>2. \A S \in SUBSET Summed : S = {}
    BY <1>1
<1>3. Units(Size, {} \ {RootPid}) = {} /\ Units(value, Tops({})) = {}
    BY DEF Units, Tops
<1>4. AddedUp({})
    BY <1>3, FS_EmptySet DEF AddedUp
<1> QED
    BY <1>1, <1>2, <1>4 DEF Sums

LEMMA NothingSummedNext ==
    ASSUME \A n \in Nodes : value'[n] = NULL, stage' \notin {"self", "drawn"}
    PROVE  Sums'
<1>1. Summed' = {}
    BY DEF Summed
<1>2. \A S \in SUBSET Summed' : S = {}
    BY <1>1
<1>3. Units(Size, {} \ {RootPid})' = {} /\ Units(value, Tops({}))' = {}
    BY DEF Units, Tops
<1>4. AddedUp({})'
    BY <1>3, FS_EmptySet DEF AddedUp
<1> QED
    BY <1>1, <1>2, <1>4 DEF Sums

LEMMA InitDrawing == MapInit => Drawing
<1> SUFFICES ASSUME MapInit PROVE Drawing
    OBVIOUS
<1>1. Init /\ Tree /\ Csv!Init
    BY InitTree DEF MapInit
<1>2. /\ stage = "idle" /\ hideIdle = FALSE /\ todo = <<>> /\ selfTiles = {}
      /\ \A n \in Nodes : children[n] = <<>> /\ parent[n] = NULL /\ value[n] = NULL
    BY <1>1 DEF Init
<1>3. AtHome
    BY <1>2 DEF AtHome, Placed, ToSet
<1>4. BuildTypes
  <2>1. /\ parent = [n \in Nodes |-> NULL] /\ depth = [n \in Nodes |-> 0]
        /\ value = [n \in Nodes |-> NULL] /\ todo \in Seq(Nodes)
      BY <1>1 DEF Init
  <2> QED
      BY <1>2, <2>1 DEF BuildTypes
<1>5. Depths
    BY <1>2 DEF Depths
<1>6. Sums
    BY <1>2, NothingSummed
<1>7. Tiles /\ FromRows
    BY <1>2 DEF Tiles, FromRows
<1> QED
    BY <1>3, <1>4, <1>5, <1>6, <1>7 DEF Drawing

\* The children are those of before, and so are the processes that have a place.
LEMMA AtHomeFrame ==
    ASSUME AtHome, UNCHANGED <<items, children>>, Placed' = Placed
    PROVE  AtHome'
<1>1. \A p : Home(p)' = Home(p)
    BY SameList
<1> QED
    BY <1>1 DEF AtHome

\* The sums are those of before.
LEMMA SumsFrame ==
    ASSUME Sums, UNCHANGED <<children, value>>,
           stage' \in {"idle", "tree", "depth", "hide"} => Summed = {},
           stage' \in {"self", "drawn"} => RootPid \in Summed
    PROVE  Sums'
<1>1. Shown' = Shown /\ Summed' = Summed /\ \A S : Takes(S)' = Takes(S)
    BY SameChildren DEF Summed, Takes
<1>2. \A n : Own(n)' = Own(n) /\ Total(ChildValues(n))' = Total(ChildValues(n))
    BY DEF Own, ChildValues, Total
<1>3. \A S : AddedUp(S)' = AddedUp(S)
    BY DEF AddedUp, Units, Tops
<1> QED
    BY <1>1, <1>2, <1>3 DEF Sums

LEMMA BuildDrawing ==
    ASSUME Tree, Drawing, NEW snapshot, NEW hide \in BOOLEAN, Build(snapshot, hide)
    PROVE  AtHome' /\ BuildTypes' /\ Depths' /\ Sums' /\ Tiles'
<1>1. /\ stage = "idle" /\ stage' = "tree" /\ hideIdle' = hide /\ next = 1
      /\ UNCHANGED <<next, known, children, parent, depth, todo, value, selfTiles>>
      /\ \A n \in Nodes : children[n] = <<>>
    BY DEF Build, Tree, ReadSoFar
<1>2. AtHome'
  <2>1. Placed' = {}
      BY <1>1 DEF Placed
  <2>2. \A n \in Nodes : ToSet(children'[n]) = {}
      BY <1>1 DEF ToSet
  <2> QED
      BY <2>1, <2>2 DEF AtHome
<1>3. BuildTypes' /\ Tiles'
    BY <1>1 DEF Drawing, BuildTypes, Tiles
<1>4. Depths'
    BY <1>1 DEF Drawing, Depths
<1>5. Sums'
    BY <1>1, SumsFrame DEF Drawing, Sums
<1> QED
    BY <1>2, <1>3, <1>4, <1>5

LEMMA AppendSet ==
    ASSUME NEW S, NEW s \in Seq(S), NEW e \in S
    PROVE  ToSet(Append(s, e)) = ToSet(s) \union {e}
<1> DEFINE t == Append(s, e)
<1>1. /\ t \in Seq(S) /\ Len(s) \in Nat /\ Len(t) = Len(s) + 1 /\ t[Len(s) + 1] = e
      /\ \A i \in 1..Len(s) : t[i] = s[i]
    BY AppendFacts
<1>2. DOMAIN t = 1..(Len(s) + 1) /\ DOMAIN s = 1..Len(s)
    BY <1>1
<1> HIDE DEF t
<1>3. 1..(Len(s) + 1) = 1..Len(s) \union {Len(s) + 1}
    BY <1>1
<1>4. {t[i] : i \in DOMAIN t} = {s[i] : i \in DOMAIN s} \union {e}
    BY <1>1, <1>2, <1>3
<1> QED
    BY <1>4 DEF t, ToSet

\* The entry goes under the node where it belongs, or nowhere.
LEMMA AttachDrawing ==
    ASSUME Tree, Drawing, AtLoop, NEW n \in Nodes, NEW parents, Attach(n, parents),
           Home(Entry) = IF Ppid = Entry THEN NULL ELSE n
    PROVE  AtHome' /\ BuildTypes' /\ Depths' /\ Sums' /\ Tiles'
<1>1. /\ stage = "tree" /\ next \in 1..Len(items.order) /\ next' = next + 1
      /\ UNCHANGED <<items, hideIdle, stage, parent, depth, todo, value, selfTiles>>
    BY DEF AtLoop, Attach, Tree, TreeTypes, List
<1>2. Entry \in AllPids /\ Entry = items.order[next]
    BY <1>1, ElementFacts DEF Tree, TreeTypes, List, Entry
<1>3. Placed' = Placed \union {Entry}
  <2>1. 1..(next' - 1) = 1..(next - 1) \union {next}
      BY <1>1
  <2>2. /\ Placed = {items.order[j] : j \in 1..(next - 1)}
        /\ Placed' = {items.order[j] : j \in 1..(next' - 1)}
      BY <1>1 DEF Placed
  <2> QED
      BY <1>2, <2>1, <2>2
<1>4. \A p : Home(p)' = Home(p)
    BY <1>1, SameList
<1>5. AtHome'
  <2>1. CASE Ppid = Entry
    <3>1. children' = children /\ Home(Entry) \notin Nodes
        BY <2>1, NodeFacts DEF Attach
    <3> QED
        BY <1>3, <1>4, <3>1 DEF Drawing, AtHome
  <2>2. CASE Ppid # Entry
    <3> DEFINE e == Entry
    <3>1. children[n] \in Seq(AllPids) /\ Home(e) = n
        BY <2>2 DEF Tree, TreeTypes
    <3>2. children' = [children EXCEPT ![n] = Append(@, e)]
        BY <2>2 DEF Attach
    <3>3. \A m \in Nodes : children'[m] = IF m = n THEN Append(children[n], e) ELSE children[m]
        BY <3>2 DEF Tree, TreeTypes
    <3>4. ToSet(Append(children[n], e)) = ToSet(children[n]) \union {e}
        BY <1>2, <3>1, AppendSet
    <3>5. Placed' = Placed \union {e}
        BY <1>3
    <3> HIDE DEF e
    <3>6. ASSUME NEW m \in Nodes PROVE ToSet(children'[m]) = {p \in Placed' : Home(p) = m}
      <4>1. ToSet(children[m]) = {p \in Placed : Home(p) = m}
          BY DEF Drawing, AtHome
      <4>2. CASE m = n
          BY <3>1, <3>3, <3>4, <3>5, <4>1, <4>2
      <4>3. CASE m # n
          BY <3>1, <3>3, <3>5, <4>1, <4>3
      <4> QED
          BY <4>2, <4>3
    <3> QED
        BY <1>4, <3>6 DEF AtHome
  <2> QED
      BY <2>1, <2>2
<1>6. BuildTypes' /\ Tiles'
    BY <1>1 DEF Drawing, BuildTypes, Tiles
<1>7. Depths'
    BY <1>1, SameList DEF Drawing, Depths, Met
<1>8. Sums'
  <2>1. \A m \in Nodes : value'[m] = NULL
      BY <1>1 DEF Drawing, Sums, Summed
  <2> QED
      BY <1>1, <2>1, NothingSummedNext
<1> QED
    BY <1>5, <1>6, <1>7, <1>8

\* One turn of the stack: its last element goes, a sequence comes.
LEMMA StackFacts ==
    ASSUME NEW S, NEW s \in Seq(S), s # <<>>, NEW t \in Seq(S)
    PROVE  /\ Front(s) \o Reverse(t) \in Seq(S)
           /\ ToSet(Front(s) \o Reverse(t)) = ToSet(Front(s)) \union ToSet(t)
           /\ ToSet(s) = ToSet(Front(s)) \union {Last(s)}
           /\ Last(s) \in S
<1> DEFINE f == Front(s)
           r == Reverse(t)
<1>1. Len(s) \in Nat \ {0} /\ DOMAIN s = 1..Len(s)
    BY EmptySeq
<1>2. f \in Seq(S) /\ Len(f) = Len(s) - 1 /\ \A i \in 1..(Len(s) - 1) : f[i] = s[i]
    BY <1>1 DEF Front
<1>3. /\ r \in Seq(S) /\ Len(r) = Len(t) /\ Len(t) \in Nat
      /\ \A i \in 1..Len(t) : r[i] = t[Len(t) - i + 1]
  <2>1. r = [i \in 1..Len(t) |-> t[(Len(t) - i) + 1]] /\ Len(t) \in Nat
      BY DEF Reverse
  <2>2. \A i \in 1..Len(t) : (Len(t) - i) + 1 \in 1..Len(t)
      BY <2>1
  <2>3. \A i \in 1..Len(t) : t[(Len(t) - i) + 1] \in S
      BY <2>2
  <2> QED
      BY <2>1, <2>3
<1>4. ToSet(r) = ToSet(t)
  <2>1. DOMAIN r = 1..Len(t) /\ DOMAIN t = 1..Len(t)
      BY <1>3
  <2>2. \A i \in 1..Len(t) : Len(t) - i + 1 \in 1..Len(t) /\ Len(t) - (Len(t) - i + 1) + 1 = i
      BY <1>3
  <2>3. \A i \in 1..Len(t) : t[i] = r[Len(t) - i + 1]
      BY <1>3, <2>2
  <2> HIDE DEF r
  <2>4. {r[i] : i \in 1..Len(t)} = {t[i] : i \in 1..Len(t)}
    <3>1. \A i \in 1..Len(t) : r[i] \in {t[j] : j \in 1..Len(t)}
        BY <1>3, <2>2
    <3>2. \A i \in 1..Len(t) : t[i] \in {r[j] : j \in 1..Len(t)}
        BY <2>2, <2>3
    <3> QED
        BY <3>1, <3>2
  <2> QED
      BY <2>1, <2>4 DEF ToSet
<1> HIDE DEF f, r
<1>5. /\ f \o r \in Seq(S) /\ Len(f \o r) = Len(f) + Len(r)
      /\ \A i \in 1..(Len(f) + Len(r)) : (f \o r)[i] = IF i <= Len(f) THEN f[i] ELSE r[i - Len(f)]
    BY <1>2, <1>3, ConcatProperties
<1>6. ToSet(f \o r) = ToSet(f) \union ToSet(r)
  <2> DEFINE c == f \o r
  <2>1. /\ Len(f) \in Nat /\ Len(r) \in Nat /\ DOMAIN f = 1..Len(f) /\ DOMAIN r = 1..Len(r)
        /\ DOMAIN c = 1..(Len(f) + Len(r))
      BY <1>2, <1>3, <1>5
  <2>2. /\ \A i \in 1..Len(f) : c[i] = f[i] /\ i \in 1..(Len(f) + Len(r))
        /\ \A i \in 1..Len(r) : c[i + Len(f)] = r[i] /\ i + Len(f) \in 1..(Len(f) + Len(r))
        /\ \A i \in 1..(Len(f) + Len(r)) :
            \/ i \in 1..Len(f) /\ c[i] = f[i]
            \/ i - Len(f) \in 1..Len(r) /\ c[i] = r[i - Len(f)]
      BY <1>5, <2>1
  <2> HIDE DEF c
  <2>3. \A i \in DOMAIN c : c[i] \in ToSet(f) \union ToSet(r)
      BY <2>1, <2>2 DEF ToSet
  <2>4. (\A i \in DOMAIN f : f[i] \in ToSet(c)) /\ \A i \in DOMAIN r : r[i] \in ToSet(c)
      BY <2>1, <2>2 DEF ToSet
  <2>5. ToSet(c) = ToSet(f) \union ToSet(r)
      BY <2>3, <2>4 DEF ToSet
  <2> QED
      BY <2>5 DEF c
<1>7. ToSet(s) = ToSet(f) \union {Last(s)} /\ Last(s) \in S
  <2>1. Last(s) = s[Len(s)] /\ 1..Len(s) = 1..(Len(s) - 1) \union {Len(s)}
      BY <1>1 DEF Last
  <2>2. DOMAIN f = 1..(Len(s) - 1)
      BY <1>1, <1>2
  <2> QED
      BY <1>1, <1>2, <2>1, <2>2 DEF ToSet
<1> QED
    BY <1>4, <1>5, <1>6, <1>7 DEF f, r

LEMMA EndOfTreeDrawing ==
    ASSUME Tree, Drawing, EndOfTree
    PROVE  AtHome' /\ BuildTypes' /\ Depths' /\ Sums' /\ Tiles'
<1>1. /\ stage = "tree" /\ stage' = "depth" /\ next > Len(items.order) /\ todo' = <<RootPid>>
      /\ UNCHANGED <<items, hideIdle, next, known, children, parent, depth, value, selfTiles>>
    BY DEF EndOfTree
<1>2. AtHome'
  <2>1. next - 1 = Len(items.order) /\ DOMAIN items.order = 1..Len(items.order)
      BY <1>1 DEF Tree, TreeTypes, List
  <2>2. Placed = Listed /\ Placed' = Listed'
      BY <1>1, <2>1 DEF Placed, Listed, ToSet
  <2> QED
      BY <1>1, <2>2, SameList, AtHomeFrame DEF Drawing
<1>3. todo' \in Seq(Nodes) /\ ToSet(todo') = {RootPid}
    BY <1>1, NodeFacts DEF ToSet
<1>4. BuildTypes' /\ Tiles'
    BY <1>1, <1>3 DEF Drawing, BuildTypes, Tiles
<1>5. Depths'
    BY <1>1, <1>3, SameList DEF Drawing, Depths, Met
<1>6. Sums'
    BY <1>1, SumsFrame DEF Drawing, Sums
<1> QED
    BY <1>2, <1>4, <1>5, <1>6

\* A node's children get it for their parent, one level below.  A node that is
\* met a second time changes nothing.
LEMMA VisitDrawing ==
    ASSUME Tree, Drawing, Visit
    PROVE  AtHome' /\ BuildTypes' /\ Depths' /\ Sums' /\ Tiles'
<1> DEFINE node == Last(todo)
           childs == ToSet(children[node])
           MetNow(n) == n = RootPid \/ parent'[n] # NULL
<1>1. /\ stage = "depth" /\ todo # <<>>
      /\ todo' = Front(todo) \o Reverse(children[node])
      /\ parent' = [n \in Nodes |-> IF n \in childs THEN node ELSE parent[n]]
      /\ depth' = [n \in Nodes |-> IF n \in childs THEN depth[node] + 1 ELSE depth[n]]
      /\ UNCHANGED <<items, hideIdle, stage, next, known, children, value, selfTiles>>
    BY DEF Visit
<1>2. /\ todo' \in Seq(Nodes) /\ ToSet(todo') = ToSet(Front(todo)) \union childs
      /\ ToSet(todo) = ToSet(Front(todo)) \union {node} /\ node \in Nodes
  <2>1. todo \in Seq(Nodes)
      BY DEF Drawing, BuildTypes
  <2>2. node \in Nodes
      BY <1>1, <2>1, StackFacts
  <2>3. children[node] \in Seq(AllPids)
      BY <2>2 DEF Tree, TreeTypes
  <2>4. children[node] \in Seq(Nodes)
    <3> DEFINE s == children[node]
    <3>1. s \in Seq(AllPids) /\ AllPids \subseteq Nodes
        BY <2>3, NodeFacts
    <3> HIDE DEF s
    <3>2. s \in Seq(Nodes)
        BY <3>1
    <3> QED
        BY <3>2 DEF s
  <2> QED
      BY <1>1, <2>1, <2>2, <2>4, StackFacts
<1>3. childs = {p \in Listed : Home(p) = node}
    BY <1>1, <1>2 DEF Drawing, AtHome, Placed
<1>4. Listed \subseteq AllPids /\ AllPids \subseteq Nodes /\ NULL \notin Nodes
      /\ \A p \in Listed : Home(p) # NULL => Home(p) # p
    BY HomeFacts, NodeFacts
<1>5. Met(node)
    BY <1>1, <1>2 DEF Drawing, Depths
<1>6. /\ \A p \in Nodes : parent[p] # NULL =>
            /\ p \in Rooted /\ parent[p] = Home(p) /\ Met(parent[p])
            /\ depth[p] = depth[parent[p]] + 1
      /\ \A n \in ToSet(todo) : Met(n)
      /\ \A n \in Nodes : Met(n) =>
            n \in ToSet(todo) \/ \A p \in Listed : Home(p) = n => parent[p] # NULL
    BY <1>1 DEF Drawing, Depths
<1>7. /\ parent \in [Nodes -> Nodes \union {NULL}] /\ depth \in [Nodes -> Nat]
    BY DEF Drawing, BuildTypes
<1> HIDE DEF node, childs
<1>8. node \notin childs /\ childs \subseteq Nodes /\ RootPid \notin childs
    BY <1>2, <1>3, <1>4, NodeFacts
<1>9. \A p \in childs : p \in Rooted
  <2>1. node \in Rooted \union {RootPid}
      BY <1>2, <1>5, <1>6 DEF Met
  <2> QED
      BY <1>3, <2>1, RootedFacts DEF Gathers, GathersAt
<1>10. \A n \in Nodes : /\ Met(n) => MetNow(n)
                        /\ MetNow(n) => Met(n) \/ n \in childs
                        /\ n \in childs => MetNow(n)
    BY <1>1, <1>2, <1>4, <1>8 DEF Met
<1>11. \A p \in childs : parent[p] # NULL => depth[p] = depth[node] + 1
    BY <1>3, <1>6, <1>8
<1>12. \A n \in Nodes : Met(n) => depth'[n] = depth[n]
  <2> SUFFICES ASSUME NEW n \in Nodes, Met(n) PROVE depth'[n] = depth[n]
      OBVIOUS
  <2>1. CASE n \in childs
      BY <1>1, <1>8, <1>11, <2>1 DEF Met
  <2>2. CASE n \notin childs
      BY <1>1, <2>2
  <2> QED
      BY <2>1, <2>2
<1>13. AtHome'
  <2>1. Placed' = Placed
      BY <1>1 DEF Placed, Listed
  <2> QED
      BY <1>1, <2>1, AtHomeFrame DEF Drawing
<1>14. BuildTypes' /\ Tiles'
  <2>1. parent' \in [Nodes -> Nodes \union {NULL}]
      BY <1>1, <1>2, <1>7
  <2>2. depth[node] + 1 \in Nat
      BY <1>2, <1>7
  <2>3. depth' \in [Nodes -> Nat]
      BY <1>1, <1>7, <2>2
  <2> QED
      BY <1>1, <1>2, <2>1, <2>3 DEF Drawing, BuildTypes, Tiles
<1>15. ASSUME NEW p \in Nodes, parent'[p] # NULL
       PROVE  /\ p \in Rooted /\ parent'[p] = Home(p) /\ MetNow(parent'[p])
              /\ depth'[p] = depth'[parent'[p]] + 1
  <2>1. CASE p \in childs
    <3>1. parent'[p] = node /\ Home(p) = node /\ depth'[p] = depth[node] + 1
        BY <1>1, <1>3, <2>1
    <3>2. MetNow(node) /\ depth'[node] = depth[node]
        BY <1>2, <1>5, <1>10, <1>12
    <3> QED
        BY <1>9, <2>1, <3>1, <3>2 DEF Met
  <2>2. CASE p \notin childs
    <3>1. parent'[p] = parent[p] /\ depth'[p] = depth[p] /\ parent[p] \in Nodes
        BY <1>1, <1>7, <1>15, <2>2
    <3>2. Met(parent[p]) /\ depth'[parent[p]] = depth[parent[p]] /\ MetNow(parent[p])
        BY <1>6, <1>10, <1>12, <1>15, <3>1
    <3> QED
        BY <1>6, <1>15, <3>1, <3>2 DEF Met
  <2> QED
      BY <2>1, <2>2
<1>16. ASSUME NEW n \in ToSet(todo') PROVE MetNow(n)
  <2>1. ToSet(Front(todo)) \subseteq Nodes
    <3>1. ToSet(todo) \subseteq Nodes
        BY ElementFacts DEF Drawing, BuildTypes, ToSet
    <3> QED
        BY <1>2, <3>1
  <2> QED
      BY <1>2, <1>6, <1>8, <1>10, <1>16, <2>1
<1>17. ASSUME NEW n \in Nodes, MetNow(n)
       PROVE  n \in ToSet(todo') \/ \A p \in Listed : Home(p) = n => parent'[p] # NULL
  <2>1. CASE n \in childs \/ n \in ToSet(Front(todo))
      BY <1>2, <2>1
  <2>2. CASE n = node
      BY <1>1, <1>2, <1>3, <1>4, <2>2
  <2>3. CASE \A p \in Listed : Home(p) = n => parent[p] # NULL
      BY <1>1, <1>2, <1>4, <2>3
  <2> QED
      BY <1>2, <1>6, <1>10, <1>17, <2>1, <2>2, <2>3
<1>18. Depths'
  <2>1. Rooted' = Rooted /\ Listed' = Listed /\ \A p : Home(p)' = Home(p)
      BY <1>1, SameList
  <2>2. (\A p \in Nodes : parent[p] # NULL =>
            /\ p \in Rooted /\ parent[p] = Home(p) /\ Met(parent[p])
            /\ depth[p] = depth[parent[p]] + 1)'
      BY <1>15, <2>1 DEF Met
  <2>3. (\A n \in ToSet(todo) : Met(n))'
      BY <1>16 DEF Met
  <2>4. (\A n \in Nodes : Met(n) =>
            n \in ToSet(todo) \/ \A p \in Listed : Home(p) = n => parent[p] # NULL)'
      BY <1>17, <2>1 DEF Met
  <2> QED
      BY <1>1, <2>2, <2>3, <2>4 DEF Depths
<1>19. Sums'
    BY <1>1, SumsFrame DEF Drawing, Sums
<1> QED
    BY <1>13, <1>14, <1>18, <1>19

LEMMA EndOfDepthDrawing ==
    ASSUME Tree, Drawing, EndOfDepth
    PROVE  AtHome' /\ BuildTypes' /\ Depths' /\ Sums' /\ Tiles'
<1>1. /\ stage = "depth" /\ stage' = "hide" /\ todo = <<>>
      /\ UNCHANGED <<items, hideIdle, next, known, children, parent, depth, todo, value, selfTiles>>
    BY DEF EndOfDepth
<1>2. AtHome'
  <2>1. Placed' = Placed
      BY <1>1 DEF Placed, Listed
  <2> QED
      BY <1>1, <2>1, AtHomeFrame DEF Drawing
<1>3. BuildTypes' /\ Tiles'
    BY <1>1 DEF Drawing, BuildTypes, Tiles
<1>4. Depths'
  <2>1. ToSet(todo) = {}
      BY <1>1 DEF ToSet
  <2> QED
      BY <1>1, <2>1, SameList DEF Drawing, Depths, Met
<1>5. Sums'
    BY <1>1, SumsFrame DEF Drawing, Sums
<1> QED
    BY <1>2, <1>3, <1>4, <1>5

\* What is hidden is taken from the one node that has it.
LEMMA HideDrawing ==
    ASSUME Tree, Drawing, RemoveIdleNode
    PROVE  AtHome' /\ BuildTypes' /\ Depths' /\ Sums' /\ Tiles'
<1>1. /\ stage = "hide" /\ stage' = "sum"
      /\ children' = IF hideIdle /\ parent[Idle] # NULL
                       THEN [children EXCEPT ![parent[Idle]] = RemoveFirst(@, Idle)] ELSE children
      /\ UNCHANGED <<items, hideIdle, next, known, parent, depth, todo, value, selfTiles>>
    BY DEF RemoveIdleNode
<1>2. \A n \in Nodes : ToSet(children[n]) = {p \in Listed : Home(p) = n}
    BY <1>1 DEF Drawing, AtHome, Placed
<1>3. Placed' = Listed \ Hidden /\ \A p : Home(p)' = Home(p)
    BY <1>1, SameList DEF Placed, Listed, Hidden
<1>4. ASSUME ~ (hideIdle /\ parent[Idle] # NULL) PROVE AtHome'
  <2>1. children' = children /\ Hidden = {}
      BY <1>1, <1>4 DEF Hidden
  <2>2. AtHome'
      BY <1>2, <1>3, <2>1 DEF AtHome
  <2> QED
      BY <2>2
<1>5. ASSUME hideIdle /\ parent[Idle] # NULL PROVE AtHome'
  <2> DEFINE h == parent[Idle]
  <2>1. h \in Nodes /\ h = Home(Idle) /\ Hidden = {Idle}
    <3>1. Idle \in Nodes /\ parent[Idle] \in Nodes \union {NULL}
        BY NodeFacts DEF Drawing, BuildTypes
    <3>2. parent[Idle] = Home(Idle)
        BY <1>5, <3>1 DEF Drawing, Depths
    <3> QED
        BY <1>5, <3>1, <3>2 DEF Hidden
  <2>2. children' = [children EXCEPT ![h] = RemoveFirst(children[h], Idle)]
      BY <1>1, <1>5
  <2> HIDE DEF h
  <2>3. ToSet(RemoveFirst(children[h], Idle)) = ToSet(children[h]) \ {Idle}
    <3> DEFINE s == children[h]
    <3>1. s \in Seq(AllPids) /\ \A i, j \in 1..Len(s) : s[i] = s[j] => i = j
        BY <2>1 DEF Tree, TreeTypes, OneEach
    <3> HIDE DEF s
    <3>2. ToSet(RemoveFirst(s, Idle)) = ToSet(s) \ {Idle}
        BY <3>1, RemoveFacts
    <3> QED
        BY <3>2 DEF s
  <2>4. \A m \in Nodes :
            children'[m] = IF m = h THEN RemoveFirst(children[h], Idle) ELSE children[m]
      BY <2>2 DEF Tree, TreeTypes
  <2>5. ASSUME NEW m \in Nodes PROVE ToSet(children'[m]) = {p \in Placed' : Home(p) = m}
    <3>1. CASE m = h
        BY <1>2, <1>3, <2>1, <2>3, <2>4, <3>1
    <3>2. CASE m # h
        BY <1>2, <1>3, <2>1, <2>4, <3>2
    <3> QED
        BY <3>1, <3>2
  <2>6. AtHome'
      BY <1>3, <2>5 DEF AtHome
  <2> QED
      BY <2>6
<1>6. BuildTypes' /\ Tiles'
    BY <1>1 DEF Drawing, BuildTypes, Tiles
<1>7. Depths'
    BY <1>1, SameList DEF Drawing, Depths, Met
<1>8. Sums'
  <2>1. \A n \in Nodes : value'[n] = NULL
      BY <1>1 DEF Drawing, Sums, Summed
  <2> QED
      BY <1>1, <2>1, NothingSummedNext
<1> QED
    BY <1>4, <1>5, <1>6, <1>7, <1>8

\* The sum of the children's values is the number of their units.
LEMMA ChildUnits ==
    ASSUME Tree, BuildTypes, NEW n \in Nodes, \A c \in ToSet(children[n]) : value[c] # NULL
    PROVE  /\ IsFiniteSet(Units(value, ToSet(children[n])))
           /\ Cardinality(Units(value, ToSet(children[n]))) = Total(ChildValues(n))
           /\ Total(ChildValues(n)) \in Nat
<1> DEFINE s == children[n]
           v == value
           sizes == ChildValues(n)
<1>1. s \in Seq(AllPids) /\ \A i, j \in 1..Len(s) : s[i] = s[j] => i = j
    BY DEF Tree, TreeTypes, OneEach
<1>2. Len(s) \in Nat /\ DOMAIN s = 1..Len(s) /\ \A i, j \in 1..Len(s) : s[i] = s[j] => i = j
    BY <1>1
<1>3. \A i \in 1..Len(s) : v[s[i]] \in Nat
  <2> SUFFICES ASSUME NEW i \in 1..Len(s) PROVE v[s[i]] \in Nat
      OBVIOUS
  <2>1. s[i] \in ToSet(s) /\ s[i] \in Nodes
      BY <1>1, <1>2, ElementFacts, NodeFacts DEF ToSet
  <2> QED
      BY <2>1 DEF BuildTypes
<1>4. sizes = [i \in DOMAIN s |-> v[s[i]]]
    BY DEF ChildValues
<1> HIDE DEF s, v, sizes
<1>5. IsFiniteSet(Units(v, ToSet(s))) /\ Cardinality(Units(v, ToSet(s))) = Total(sizes)
      /\ Total(sizes) \in Nat
  <2>1. Sized(v, s, sizes)
      BY <1>2, <1>3, <1>4 DEF Sized
  <2> QED
      BY <2>1, UnitsOfMany
<1> QED
    BY <1>5 DEF s, v, sizes

\* The next node takes its children's sums into its own: in a set that has them,
\* they are tops no more, and their units are the node's.
LEMMA SumAdds ==
    ASSUME Tree, Drawing, NEW n \in Shown, Sum(n),
           NEW P \in SUBSET Summed, Takes(P), ToSet(children[n]) \subseteq P
    PROVE  AddedUp(P \union {n})'
<1> DEFINE C == ToSet(children[n])
           T == Tops(P)
           total == Total(ChildValues(n))
<1>1. /\ stage = "sum" /\ value[n] = NULL /\ \A c \in C : value[c] # NULL
      /\ value' = [value EXCEPT ![n] = Own(n) + total]
      /\ UNCHANGED <<items, hideIdle, stage, next, known, children, parent, depth, todo, selfTiles>>
    BY DEF Sum
<1>2. /\ n \in Nodes /\ Shown \subseteq Nodes /\ Shown' = Shown
      /\ \A m \in Nodes : ToSet(children[m]) \subseteq Nodes
  <2>1. \A m \in Nodes : children[m] \in Seq(AllPids)
      BY DEF Tree, TreeTypes
  <2>2. \A m \in Nodes : ToSet(children[m]) \subseteq AllPids
    <3> SUFFICES ASSUME NEW m \in Nodes PROVE ToSet(children[m]) \subseteq AllPids
        OBVIOUS
    <3>1. children[m] \in Seq(AllPids)
        BY <2>1
    <3> QED
        BY <3>1, ElementFacts DEF ToSet
  <2> QED
      BY <1>1, <2>2, ShownFacts, NodeFacts, SameChildren
<1>3. /\ value \in [Nodes -> Nat \union {NULL}]
      /\ P \subseteq Nodes /\ \A m \in P : value[m] # NULL
      /\ T = P \ UNION {ToSet(children[m]) : m \in P}
      /\ \A m \in P : ToSet(children[m]) \subseteq P
      /\ IsFiniteSet(Units(Size, P \ {RootPid})) /\ IsFiniteSet(Units(value, T))
      /\ Cardinality(Units(Size, P \ {RootPid})) = Cardinality(Units(value, T))
    BY DEF Drawing, BuildTypes, Sums, Summed, Takes, Tops, AddedUp
<1>4. n \notin P /\ C \subseteq P
    BY <1>1, <1>2, <1>3
<1>5. Own(n) \in Nat /\ (n # RootPid => Own(n) = Size[n])
    BY <1>2, SizeAssumption, NodeFacts DEF Own
<1>6. /\ IsFiniteSet(Units(value, C)) /\ Cardinality(Units(value, C)) = total /\ total \in Nat
    BY <1>1, <1>2, ChildUnits DEF Drawing
<1> HIDE DEF C, T, total
<1>7. /\ value' \in [Nodes -> Nat \union {NULL}] /\ value'[n] = Own(n) + total /\ value'[n] \in Nat
      /\ \A m \in Nodes : m # n => value'[m] = value[m]
  <2>1. Own(n) + total \in Nat
      BY <1>5, <1>6
  <2> QED
      BY <1>1, <1>2, <1>3, <2>1
\* A child has no other parent.
<1>8. C \subseteq T
  <2> SUFFICES ASSUME NEW c \in C, NEW m \in P, c \in ToSet(children[m]) PROVE FALSE
      BY <1>3, <1>4
  <2>1. PICK i \in 1..Len(children[n]) : c = children[n][i]
      BY <1>2 DEF C, ToSet, Tree, TreeTypes
  <2>2. PICK j \in 1..Len(children[m]) : c = children[m][j]
      BY <1>2, <1>3 DEF ToSet, Tree, TreeTypes
  <2>3. m = n
      BY <1>2, <1>3, <2>1, <2>2 DEF Tree, OneEach
  <2> QED
      BY <1>4, <2>3
<1> DEFINE NewTops == Tops(P \union {n})'
<1>9. NewTops = (T \ C) \union {n}
  <2> DEFINE X == UNION {ToSet(children[m]) : m \in P}
  <2>1. NewTops = (P \union {n}) \ UNION {ToSet(children[m]) : m \in P \union {n}}
      BY <1>1 DEF Tops
  <2>2. UNION {ToSet(children[m]) : m \in P \union {n}} = X \union ToSet(children[n])
      OBVIOUS
  <2>3. n \notin X /\ n \notin C
      BY <1>3, <1>4
  <2>4. T = P \ X
      BY <1>3
  <2> HIDE DEF X
  <2>5. NewTops = (P \union {n}) \ (X \union C)
      BY <2>1, <2>2 DEF C
  <2> QED
      BY <2>3, <2>4, <2>5
<1> HIDE DEF NewTops
\* The units of the tops.
<1>10. /\ IsFiniteSet(Units(value, T \ C))
       /\ Cardinality(Units(value, T)) = Cardinality(Units(value, T \ C)) + total
  <2> DEFINE R == T \ C
  <2>1. T = R \union C /\ R \cap C = {}
      BY <1>8
  <2>2. Units(value, R) \subseteq Units(value, T)
      BY DEF Units
  <2>3. IsFiniteSet(Units(value, R))
      BY <1>3, <2>2, FS_Subset
  <2> HIDE DEF R
  <2>4. Cardinality(Units(value, R \union C))
            = Cardinality(Units(value, R)) + Cardinality(Units(value, C))
      BY <1>6, <2>1, <2>3, UnitsOfBoth
  <2> QED
      BY <1>6, <2>1, <2>3, <2>4 DEF R
<1>11. /\ IsFiniteSet(Units(value', NewTops))
       /\ Cardinality(Units(value', NewTops)) = Cardinality(Units(value, T \ C)) + Own(n) + total
  <2> DEFINE R == T \ C
             v == value'
  <2>1. Units(v, R) = Units(value, R)
    <3>1. \A m \in R : m \in Nodes /\ m # n
        BY <1>3, <1>4
    <3>2. \A m \in R : v[m] = value[m]
        BY <1>7, <3>1
    <3> HIDE DEF R, v
    <3> QED
        BY <3>2 DEF Units
  <2>2. IsFiniteSet(Units(v, {n})) /\ Cardinality(Units(v, {n})) = v[n]
      BY <1>7, UnitsOfOne
  <2>3. R \cap {n} = {} /\ IsFiniteSet(Units(v, R))
      BY <1>3, <1>4, <1>10, <2>1
  <2>4. NewTops = R \union {n} /\ v[n] = Own(n) + total
      BY <1>7, <1>9
  <2>5. Cardinality(Units(v, R)) \in Nat /\ Cardinality(Units(v, R)) = Cardinality(Units(value, R))
      BY <2>1, <2>3, FS_CardinalityType
  <2> HIDE DEF R, v
  <2>6. /\ IsFiniteSet(Units(v, R \union {n}))
        /\ Cardinality(Units(v, R \union {n})) = Cardinality(Units(v, R)) + Cardinality(Units(v, {n}))
      BY <2>2, <2>3, UnitsOfBoth
  <2>7. IsFiniteSet(Units(v, NewTops))
        /\ Cardinality(Units(v, NewTops)) = Cardinality(Units(value, R)) + Own(n) + total
      BY <1>5, <1>6, <2>2, <2>4, <2>5, <2>6
  <2> QED
      BY <2>7 DEF R, v
\* The units of the processes.
<1>12. /\ IsFiniteSet(Units(Size, (P \union {n}) \ {RootPid}))
       /\ Cardinality(Units(Size, (P \union {n}) \ {RootPid}))
            = Cardinality(Units(Size, P \ {RootPid})) + Own(n)
  <2> DEFINE Q == P \ {RootPid}
  <2>1. Cardinality(Units(Size, Q)) \in Nat
      BY <1>3, FS_CardinalityType
  <2>2. CASE n = RootPid
    <3>1. (P \union {n}) \ {RootPid} = Q /\ Own(n) = 0
        BY <2>2 DEF Own
    <3>2. IsFiniteSet(Units(Size, Q))
        BY <1>3
    <3> HIDE DEF Q
    <3>3. Cardinality(Units(Size, Q)) = Cardinality(Units(Size, Q)) + Own(n)
        BY <2>1, <3>1
    <3> QED
        BY <3>1, <3>2, <3>3 DEF Q
  <2>3. CASE n # RootPid
    <3>1. (P \union {n}) \ {RootPid} = Q \union {n} /\ Q \cap {n} = {}
        BY <1>4, <2>3
    <3>2. IsFiniteSet(Units(Size, {n})) /\ Cardinality(Units(Size, {n})) = Own(n)
        BY <1>5, <2>3, UnitsOfOne
    <3>3. IsFiniteSet(Units(Size, Q))
        BY <1>3
    <3> HIDE DEF Q
    <3>4. /\ IsFiniteSet(Units(Size, Q \union {n}))
          /\ Cardinality(Units(Size, Q \union {n}))
                = Cardinality(Units(Size, Q)) + Cardinality(Units(Size, {n}))
        BY <3>1, <3>2, <3>3, UnitsOfBoth
    <3> QED
        BY <3>1, <3>2, <3>4 DEF Q
  <2> QED
      BY <2>2, <2>3
<1>13. Cardinality(Units(value, T \ C)) \in Nat
    BY <1>10, FS_CardinalityType
<1>14. Cardinality(Units(Size, (P \union {n}) \ {RootPid})) = Cardinality(Units(value', NewTops))
    BY <1>3, <1>5, <1>6, <1>10, <1>11, <1>12, <1>13
<1>15. /\ Units(Size, (P \union {n}) \ {RootPid})' = Units(Size, (P \union {n}) \ {RootPid})
       /\ Units(value, Tops(P \union {n}))' = Units(value', NewTops)
    BY DEF Units, NewTops
<1> QED
    BY <1>11, <1>12, <1>14, <1>15 DEF AddedUp

\* What was added up stays so, and what the node completes is added up, too.
LEMMA SumDrawing ==
    ASSUME Tree, Drawing, NEW n \in Shown, Sum(n)
    PROVE  AtHome' /\ BuildTypes' /\ Depths' /\ Sums' /\ Tiles'
<1> DEFINE C == ToSet(children[n])
           P == Summed
           total == Total(ChildValues(n))
<1>1. /\ stage = "sum" /\ value[n] = NULL /\ \A c \in C : value[c] # NULL
      /\ value' = [value EXCEPT ![n] = Own(n) + total]
      /\ UNCHANGED <<items, hideIdle, stage, next, known, children, parent, depth, todo, selfTiles>>
    BY DEF Sum
<1>2. /\ n \in Nodes /\ Shown \subseteq Nodes /\ Shown' = Shown
      /\ \A m \in Nodes : ToSet(children[m]) \subseteq Nodes
  <2>1. \A m \in Nodes : children[m] \in Seq(AllPids)
      BY DEF Tree, TreeTypes
  <2>2. \A m \in Nodes : ToSet(children[m]) \subseteq AllPids
    <3> SUFFICES ASSUME NEW m \in Nodes PROVE ToSet(children[m]) \subseteq AllPids
        OBVIOUS
    <3>1. children[m] \in Seq(AllPids)
        BY <2>1
    <3> QED
        BY <3>1, ElementFacts DEF ToSet
  <2> QED
      BY <1>1, <2>2, ShownFacts, NodeFacts, SameChildren
<1>3. /\ value \in [Nodes -> Nat \union {NULL}]
      /\ P = {m \in Nodes : value[m] # NULL} /\ P \subseteq Shown
      /\ \A m \in P : ToSet(children[m]) \subseteq P /\ value[m] = Own(m) + Total(ChildValues(m))
      /\ \A S \in SUBSET P : Takes(S) => AddedUp(S)
    BY DEF Drawing, BuildTypes, Sums, Summed
<1>4. n \notin P /\ C \subseteq P
    BY <1>1, <1>2, <1>3
<1>5. Own(n) \in Nat /\ (n # RootPid => Own(n) = Size[n])
    BY <1>2, SizeAssumption, NodeFacts DEF Own
<1>6. /\ IsFiniteSet(Units(value, C)) /\ Cardinality(Units(value, C)) = total /\ total \in Nat
    BY <1>1, <1>2, ChildUnits DEF Drawing
<1> HIDE DEF C, P, total
<1>7. /\ value' \in [Nodes -> Nat \union {NULL}] /\ value'[n] = Own(n) + total /\ value'[n] \in Nat
      /\ \A m \in Nodes : m # n => value'[m] = value[m]
  <2>1. Own(n) + total \in Nat
      BY <1>5, <1>6
  <2> QED
      BY <1>1, <1>2, <1>3, <2>1
<1>8. Summed' = P \union {n}
  <2>1. Summed' = {m \in Nodes : value'[m] # NULL}
      BY DEF Summed
  <2>2. value'[n] # NULL
      BY <1>7, NullAssumption
  <2> QED
      BY <1>2, <1>3, <1>7, <2>1, <2>2
<1>9. ASSUME NEW m \in P \union {n}
       PROVE  ToSet(children[m]) \subseteq P /\ value'[m] = Own(m) + Total(ChildValues(m)')
  <2>1. ToSet(children[m]) \subseteq P
      BY <1>3, <1>4, <1>9 DEF C
  <2>2. ChildValues(m)' = ChildValues(m)
    <3>1. m \in Nodes
        BY <1>2, <1>3
    <3>2. \A i \in DOMAIN children[m] : children[m][i] \in P
        BY <2>1 DEF ToSet
    <3>3. \A i \in DOMAIN children[m] : value'[children[m][i]] = value[children[m][i]]
        BY <1>3, <1>4, <1>7, <3>2
    <3> QED
        BY <1>1, <3>3 DEF ChildValues
  <2>3. CASE m = n
      BY <1>7, <2>1, <2>2, <2>3 DEF total
  <2>4. CASE m # n
      BY <1>2, <1>3, <1>7, <2>1, <2>2, <2>4
  <2> QED
      BY <2>3, <2>4
<1>10. ASSUME NEW S \in SUBSET (P \union {n}), Takes(S) PROVE AddedUp(S)'
  <2>1. CASE n \in S
    <3> DEFINE Q == S \ {n}
    <3>1. Q \in SUBSET P /\ S = Q \union {n}
        BY <2>1
    <3>2. ToSet(children[n]) \subseteq Q /\ Takes(Q)
        BY <1>3, <1>4, <1>10, <2>1, <3>1 DEF C, Takes
    <3> HIDE DEF Q
    <3> QED
        BY <3>1, <3>2, SumAdds DEF P
  <2>2. CASE n \notin S
    <3>1. S \in SUBSET P
        BY <2>2
    <3>2. AddedUp(S)
        BY <1>3, <1>10, <3>1
    <3>3. Tops(S)' = Tops(S) /\ Tops(S) \subseteq S
        BY <1>1 DEF Tops
    <3>4. \A m \in Tops(S) : value'[m] = value[m]
      <4>1. \A m \in S : m \in Nodes /\ m # n
          BY <1>3, <2>2, <3>1
      <4> QED
          BY <1>7, <3>3, <4>1
    <3>5. Units(value, Tops(S))' = Units(value, Tops(S)) /\ Units(Size, S \ {RootPid})' = Units(Size, S \ {RootPid})
        BY <3>3, <3>4 DEF Units
    <3> QED
        BY <3>2, <3>5 DEF AddedUp
  <2> QED
      BY <2>1, <2>2
<1>11. Sums'
  <2>1. \A m : Own(m)' = Own(m) /\ Total(ChildValues(m))' = Total(ChildValues(m)')
      BY DEF Own, Total
  <2>2. Summed' \subseteq Shown'
      BY <1>2, <1>3, <1>8
  <2>3. \A m \in Summed' :
            /\ ToSet(children'[m]) \subseteq Summed'
            /\ value'[m] = Own(m)' + Total(ChildValues(m))'
      BY <1>1, <1>8, <1>9, <2>1
  <2>4. \A S \in SUBSET Summed' : Takes(S)' => AddedUp(S)'
    <3>1. \A S : Takes(S)' = Takes(S)
        BY <1>1 DEF Takes
    <3> QED
        BY <1>8, <1>10, <3>1
  <2> QED
      BY <1>1, <2>2, <2>3, <2>4 DEF Sums
<1>12. AtHome'
  <2>1. Placed' = Placed
      BY <1>1 DEF Placed, Listed, Hidden
  <2> QED
      BY <1>1, <2>1, AtHomeFrame DEF Drawing
<1>13. BuildTypes' /\ Tiles'
    BY <1>1, <1>7 DEF Drawing, BuildTypes, Tiles
<1>14. Depths'
    BY <1>1, SameList DEF Drawing, Depths, Met
<1> QED
    BY <1>11, <1>12, <1>13, <1>14

\* The end of the sums, the tiles, and what does not touch the tree.
LEMMA EndDrawing ==
    ASSUME Tree, Drawing,
           EndOfSum \/ AddSelfToChildren \/ UNCHANGED vars
    PROVE  AtHome' /\ BuildTypes' /\ Depths' /\ Sums' /\ Tiles'
<1>1. /\ UNCHANGED <<items, hideIdle, next, known, children, parent, depth, todo, value>>
      /\ \/ /\ stage = "sum" /\ stage' = "self" /\ UNCHANGED selfTiles
            /\ value[RootPid] # NULL
         \/ /\ stage = "self" /\ stage' = "drawn"
            /\ selfTiles' = {n \in Shown \ {RootPid} : children[n] # <<>>}
         \/ UNCHANGED <<stage, selfTiles>>
    BY DEF EndOfSum, AddSelfToChildren, vars
<1>2. Shown' = Shown /\ Shown \subseteq Nodes
    BY <1>1, SameChildren, ShownFacts
<1>3. AtHome'
  <2>1. Placed' = Placed
      BY <1>1 DEF Placed, Listed, Hidden
  <2> QED
      BY <1>1, <2>1, AtHomeFrame DEF Drawing
<1>4. BuildTypes'
  <2>1. selfTiles' \subseteq AllPids
    <3>1. \A n \in Shown \ {RootPid} : n \in AllPids
        BY <1>2, NodeFacts
    <3> QED
        BY <1>1, <3>1 DEF Drawing, BuildTypes
  <2> QED
      BY <1>1, <2>1 DEF Drawing, BuildTypes
<1>5. Tiles'
    BY <1>1, <1>2 DEF Drawing, Tiles
<1>6. Depths'
    BY <1>1, SameList DEF Drawing, Depths, Met
<1>7. Sums'
  <2>1. stage' \in {"idle", "tree", "depth", "hide"} => Summed = {}
      BY <1>1 DEF Drawing, Sums
  <2>2. stage' \in {"self", "drawn"} => RootPid \in Summed
      BY <1>1, NodeFacts DEF Drawing, Sums, Summed
  <2> QED
      BY <1>1, <2>1, <2>2, SumsFrame DEF Drawing
<1> QED
    BY <1>3, <1>4, <1>5, <1>6, <1>7

\* Once the tree of a file is begun, the file stays as it was read.
LEMMA NextFromRows == FromRows /\ [MapNext]_<<vars, csvVars>> => FromRows'
<1> SUFFICES ASSUME FromRows, [MapNext]_<<vars, csvVars>> PROVE FromRows'
    OBVIOUS
<1>1. rows' = rows => CsvItems' = CsvItems
    BY DEF CsvItems
<1>2. CASE ReadCsv
    BY <1>2 DEF ReadCsv, FromRows, vars
<1>3. CASE BuildCsv
    BY <1>1, <1>3 DEF BuildCsv, Build, FromRows, csvVars
<1>4. CASE BuildLive
    BY <1>4 DEF BuildLive, FromRows, csvVars
<1>5. CASE Draw
  <2>1. stage # "idle" /\ items' = items
      BY <1>5 DEF Draw, BuildStep, TopLevel, Child, Orphan, AtLoop, Attach, EndOfTree, Visit,
                  EndOfDepth, RemoveIdleNode, Sum, EndOfSum, AddSelfToChildren
  <2> QED
      BY <1>1, <1>5, <2>1 DEF FromRows, Draw, csvVars
<1>6. CASE UNCHANGED <<vars, csvVars>>
    BY <1>1, <1>6 DEF FromRows, vars, csvVars
<1> QED
    BY <1>2, <1>3, <1>4, <1>5, <1>6 DEF MapNext

LEMMA NextDrawing == Reader /\ Tree /\ Drawing /\ [MapNext]_<<vars, csvVars>> => Drawing'
<1> SUFFICES ASSUME Reader, Tree, Drawing, [MapNext]_<<vars, csvVars>> PROVE Drawing'
    OBVIOUS
<1> DEFINE Kept == AtHome' /\ BuildTypes' /\ Depths' /\ Sums' /\ Tiles'
<1>1. CASE BuildCsv \/ BuildLive
    BY <1>1, BuildDrawing, NextFromRows DEF BuildCsv, BuildLive, Drawing
<1>2. ASSUME TopLevel \/ Child \/ Orphan PROVE Kept
  <2>1. AtLoop /\ Entry \in Listed
    <3>1. AtLoop
        BY <1>2 DEF TopLevel, Child, Orphan
    <3>2. next \in 1..Len(items.order) /\ DOMAIN items.order = 1..Len(items.order)
        BY <3>1 DEF AtLoop, Tree, TreeTypes, List
    <3> QED
        BY <3>1, <3>2 DEF Entry, Listed, ToSet
  <2>2. CASE TopLevel
    <3>1. Ppid \in Int /\ Ppid <= 0
        BY <2>1, <2>2 DEF TopLevel, Ppid, Tree, TreeTypes, Listed
    <3>2. ~ (Ppid > 0)
        BY <3>1
    <3>3. Home(Entry) = IF Ppid = Entry THEN NULL ELSE RootPid
        BY <3>2 DEF Home, Ppid
    <3> QED
        BY <2>1, <2>2, <3>3, AttachDrawing, NodeFacts DEF TopLevel
  <2>3. CASE Child
    <3>1. Home(Entry) = IF Ppid = Entry THEN NULL ELSE Ppid
        BY <2>3 DEF Child, Home, Ppid
    <3>2. Ppid \in Nodes
      <4>1. Ppid \in Listed
          BY <2>3 DEF Child, Exists, Listed
      <4> QED
          BY <4>1, HomeFacts, NodeFacts
    <3> QED
        BY <2>1, <2>3, <3>1, <3>2, AttachDrawing DEF Child
  <2>4. CASE Orphan
    <3>1. Home(Entry) = IF Ppid = Entry THEN NULL ELSE RootPid
        BY <2>4 DEF Orphan, Home, Ppid
    <3> QED
        BY <2>1, <2>4, <3>1, AttachDrawing, NodeFacts DEF Orphan
  <2> QED
      BY <1>2, <2>2, <2>3, <2>4
<1>3. CASE Draw
  <2>1. CASE TopLevel \/ Child \/ Orphan
      BY <1>2, <2>1, NextFromRows DEF Drawing
  <2>2. CASE EndOfTree
      BY <2>2, EndOfTreeDrawing, NextFromRows DEF Drawing
  <2>3. CASE Visit
      BY <2>3, VisitDrawing, NextFromRows DEF Drawing
  <2>4. CASE EndOfDepth
      BY <2>4, EndOfDepthDrawing, NextFromRows DEF Drawing
  <2>5. CASE RemoveIdleNode
      BY <2>5, HideDrawing, NextFromRows DEF Drawing
  <2>6. ASSUME NEW n \in Shown, Sum(n) PROVE Drawing'
      BY <2>6, SumDrawing, NextFromRows DEF Drawing
  <2>7. CASE EndOfSum \/ AddSelfToChildren
      BY <2>7, EndDrawing, NextFromRows DEF Drawing
  <2> QED
      BY <1>3, <2>1, <2>2, <2>3, <2>4, <2>5, <2>6, <2>7 DEF Draw, BuildStep
<1>4. CASE ReadCsv \/ UNCHANGED <<vars, csvVars>>
  <2>1. UNCHANGED vars
      BY <1>4 DEF ReadCsv, vars
  <2> QED
      BY <2>1, EndDrawing, NextFromRows DEF Drawing
<1> QED
    BY <1>1, <1>3, <1>4 DEF MapNext

LEMMA NextShape == Reader /\ Shape /\ Tree' /\ [MapNext]_<<vars, csvVars>> => Shape'
<1> SUFFICES ASSUME Reader, Shape, Tree', [MapNext]_<<vars, csvVars>> PROVE Shape'
    OBVIOUS
<1>1. CASE BuildCsv
  <2>1. CsvItems \in ProcessItems(CsvItems.order)
      BY CsvIsList DEF CsvItems, ProcessItems
  <2> QED
      BY <1>1, <2>1 DEF BuildCsv, Build, Shape, ProcessItems
<1>2. CASE BuildLive
  <2>1. PICK s \in Snapshots, hide \in BOOLEAN : Build(s, hide)
      BY <1>2 DEF BuildLive
  <2>2. items' = s /\ known' = known /\ s \in ProcessItems(s.order)
      BY <2>1, SnapshotsAssumption DEF Build
  <2> QED
      BY <2>2 DEF Shape, ProcessItems
<1>3. CASE TopLevel \/ Child \/ Orphan
  <2>1. stage' = "tree" /\ items' = items
      BY <1>3 DEF TopLevel, Child, Orphan, AtLoop, Attach
  <2>2. known' \subseteq {RootPid} \union ToSet(items'.order)
      BY <2>1 DEF Tree, ReadSoFar
  <2>3. ToSet(items'.order) \subseteq AllPids
    <3>1. items'.order \in Seq(AllPids)
        BY DEF Tree, TreeTypes, List
    <3> QED
        BY <3>1, ElementFacts DEF ToSet
  <2> QED
      BY <2>1, <2>2, <2>3, NodeFacts DEF Shape, ProcessItems
<1>4. CASE \/ EndOfTree \/ Visit \/ EndOfDepth \/ (\E n \in Shown : Sum(n)) \/ EndOfSum
           \/ RemoveIdleNode \/ AddSelfToChildren \/ ReadCsv \/ UNCHANGED <<vars, csvVars>>
    BY <1>4 DEF EndOfTree, Visit, EndOfDepth, Sum, EndOfSum, RemoveIdleNode, AddSelfToChildren,
                ReadCsv, vars, Shape, ProcessItems
<1> QED
    BY <1>1, <1>2, <1>3, <1>4 DEF MapNext, Draw, BuildStep

LEMMA DrawingInv == MapSpec => [](Reader /\ Tree /\ Drawing /\ Shape)
<1> DEFINE Inv == Reader /\ Tree /\ Drawing /\ Shape
<1>1. Inv /\ [MapNext]_<<vars, csvVars>> => Inv'
    BY NextReader, ReaderOfMap, NextTree, NextDrawing, NextShape
<1>2. MapInit => Inv
  <2>1. MapInit => Shape
    <3> SUFFICES ASSUME MapInit PROVE Shape
        OBVIOUS
    <3>1. items = [order |-> <<>>, ppid |-> <<>>] /\ known = {RootPid}
        BY DEF MapInit, Init
    <3>2. ToSet(<<>>) = {} /\ <<>> \in [{} -> Int]
        BY DEF ToSet
    <3> QED
        BY <3>1, <3>2, NodeFacts DEF Shape, ProcessItems
  <2> QED
      BY <2>1, InitReader, InitTree, InitDrawing DEF MapInit
<1> QED
    BY <1>1, <1>2, PTL DEF MapSpec

-----------------------------------------------------------------------------
(* The theorems.                                                           *)

\* proc_tree.dart and treemap.dart:55-75: whatever is shown, the nodes, their
\* parents, depths and sums have their types; no step takes the parent of a
\* node, the depth of one or a sum that is not there.
THEOREM TreeTyped == MapSpec => []TypeOK
<1>1. ASSUME Tree, Drawing, Shape PROVE TypeOK
  <2>1. /\ items.order \in Seq(AllPids) /\ stage \in Stages /\ next \in 1..(Len(items.order) + 1)
        /\ children \in [Nodes -> Seq(AllPids)]
      BY <1>1 DEF Tree, TreeTypes, List
  <2> QED
      BY <1>1, <2>1 DEF Drawing, BuildTypes, Shape, TypeOK
<1> QED
    BY <1>1, DrawingInv, PTL

\* Once _setDepth has run out of nodes, it has met what is rooted.
LEMMA ParentsAreHomes ==
    ASSUME Tree, Drawing, stage \notin {"idle", "tree", "depth"}
    PROVE  /\ \A p \in AllPids : parent[p] = IF p \in Rooted THEN Home(p) ELSE NULL
           /\ \A p \in Rooted : parent[p] # NULL /\ depth[p] = depth[parent[p]] + 1
<1>1. /\ \A p \in Nodes : parent[p] # NULL =>
            p \in Rooted /\ parent[p] = Home(p) /\ depth[p] = depth[parent[p]] + 1
      /\ \A n \in Nodes : Met(n) => \A p \in Listed : Home(p) = n => parent[p] # NULL
    BY DEF Drawing, Depths
<1>2. AllPids \subseteq Nodes /\ Listed \subseteq AllPids /\ RootPid \in Nodes
    BY HomeFacts, NodeFacts
<1> DEFINE A == {p \in Listed : parent[p] # NULL}
<1>3. Gathers(A)
    BY <1>1, <1>2 DEF Gathers, GathersAt, Met
<1>4. A \in SUBSET Listed
    OBVIOUS
<1> HIDE DEF A
<1>5. Rooted \subseteq A
    BY <1>3, <1>4, RootedFacts
<1>6. \A p \in Rooted : p \in AllPids /\ parent[p] # NULL
    BY <1>2, <1>5 DEF A
<1> QED
    BY <1>1, <1>2, <1>6

\* proc_tree.dart:36-97: whatever the order of the list and wherever its parents
\* stand in it, cycles included, the parents that _setDepth leaves are the alive
\* ones, for exactly the processes whose chain of parents ends at the root, and
\* each is one level below its parent.
THEOREM TreeIsOfParents == MapSpec => []TreeOfParents
<1>1. ASSUME Tree, Drawing PROVE TreeOfParents
    BY <1>1, ParentsAreHomes DEF TreeOfParents
<1> QED
    BY <1>1, DrawingInv, PTL

\* What is shown is what is rooted, but for what the switch hides.
LEMMA ShownIsRooted ==
    ASSUME Tree, Drawing, stage \in {"sum", "self", "drawn"}
    PROVE  Shown \ {RootPid} = Rooted \ (IF hideIdle THEN {Idle} ELSE {})
<1>1. \A n \in Nodes : ToSet(children[n]) = {p \in Listed \ Hidden : Home(p) = n}
    BY DEF Drawing, AtHome, Placed
<1>2. /\ Shown \subseteq Nodes /\ RootPid \in Shown
      /\ \A m \in Shown : ToSet(children[m]) \subseteq Shown
      /\ \A S \in SUBSET Nodes : Holds(S) => Shown \subseteq S
    BY ShownFacts DEF Holds
<1>3. /\ Listed \subseteq AllPids /\ AllPids \subseteq Nodes /\ NULL \notin Nodes
      /\ RootPid \in Nodes /\ RootPid \notin AllPids
      /\ \A p \in Listed : Home(p) # NULL => Home(p) # Idle
    BY HomeFacts, NodeFacts
<1>4. Rooted \ (IF hideIdle THEN {Idle} ELSE {}) = Rooted \ Hidden
    BY ParentsAreHomes DEF Hidden
<1>5. Rooted \ Hidden \subseteq Shown \ {RootPid}
  <2> DEFINE S == {p \in Listed : p \in Shown \/ p \in Hidden}
  <2>1. Gathers(S)
    <3> SUFFICES ASSUME NEW q \in Listed, Home(q) \in S \union {RootPid}, q \notin Hidden
                 PROVE  q \in Shown
        BY DEF Gathers, GathersAt
    <3>1. Home(q) \in Nodes /\ Home(q) # Idle
        BY <1>3
    <3>2. Home(q) \in Shown
        BY <1>2, <3>1 DEF Hidden
    <3> QED
        BY <1>1, <1>2, <3>1, <3>2
  <2>2. S \in SUBSET Listed
      OBVIOUS
  <2> HIDE DEF S
  <2>3. Rooted \subseteq S
      BY <2>1, <2>2, RootedFacts
  <2> QED
      BY <1>3, <2>3 DEF S
<1>6. Shown \ {RootPid} \subseteq Rooted \ Hidden
  <2> DEFINE S == {RootPid} \union (Rooted \ Hidden)
  <2>1. S \in SUBSET Nodes
      BY <1>3, RootedFacts
  <2>2. Holds(S)
      BY <1>1, <2>1, RootedFacts DEF Holds, Gathers, GathersAt
  <2> HIDE DEF S
  <2>3. Shown \subseteq S
      BY <1>2, <2>1, <2>2
  <2> QED
      BY <2>3 DEF S
<1> QED
    BY <1>4, <1>5, <1>6

\* Nothing that is shown is below itself: what is below a node is deeper.
LEMMA BelowIsDeeper ==
    ASSUME Tree, Drawing, stage \in {"sum", "self", "drawn"}, NEW n \in Shown
    PROVE  Below(n) \subseteq Rooted /\ n \notin Below(n)
<1> DEFINE S == {p \in Rooted : depth[p] > depth[n]}
<1>1. n \in Nodes /\ n \in Rooted \union {RootPid}
    BY ShownIsRooted, ShownFacts
<1>2. /\ Rooted \subseteq Nodes /\ Rooted \subseteq Listed
      /\ \A p \in Rooted : parent[p] = Home(p) /\ depth[p] = depth[Home(p)] + 1
  <2>1. Rooted \subseteq AllPids /\ AllPids \subseteq Nodes /\ Rooted \subseteq Listed
      BY RootedFacts, HomeFacts, NodeFacts
  <2> QED
      BY <2>1, ParentsAreHomes
<1>3. \A m \in Nodes : depth[m] \in Nat
    BY DEF Drawing, BuildTypes
<1>4. GathersAt(n, S)
  <2> SUFFICES ASSUME NEW q \in Listed, Home(q) \in S \union {n} PROVE q \in S
      BY DEF GathersAt
  <2>1. Home(q) \in Rooted \union {RootPid} /\ Home(q) \in Nodes
      BY <1>1, <1>2
  <2>2. q \in Rooted
      BY <2>1, RootedFacts DEF Gathers, GathersAt
  <2>3. depth[q] = depth[Home(q)] + 1 /\ depth[Home(q)] \in Nat /\ depth[n] \in Nat
      BY <1>1, <1>2, <1>3, <2>1, <2>2
  <2>4. depth[Home(q)] >= depth[n]
      BY <1>2, <1>3, <2>3
  <2> QED
      BY <2>2, <2>3, <2>4
<1>5. S \in SUBSET Listed
    BY <1>2
<1> HIDE DEF S
<1>6. Below(n) \subseteq S
    BY <1>4, <1>5, BelowFacts
<1>7. n \notin S
    BY <1>1, <1>3 DEF S
<1> QED
    BY <1>6, <1>7 DEF S

\* A node that is shown, and what is below it without what is hidden, are added up
\* in the node.
LEMMA TopOfBelow ==
    ASSUME Tree, Drawing, stage = "drawn", NEW n \in Shown, NEW U,
           U = {n} \union (Below(n) \ Hidden)
    PROVE  U \in SUBSET Summed /\ Takes(U) /\ Tops(U) = {n}
<1>1. \A m \in Nodes : ToSet(children[m]) = {p \in Listed \ Hidden : Home(p) = m}
    BY DEF Drawing, AtHome, Placed
<1>2. /\ Shown \subseteq Nodes /\ RootPid \in Shown
      /\ \A m \in Shown : ToSet(children[m]) \subseteq Shown
      /\ \A S \in SUBSET Nodes : Holds(S) => Shown \subseteq S
    BY ShownFacts DEF Holds
<1>3. /\ Below(n) \subseteq Listed
      /\ \A q \in Listed : Home(q) \in Below(n) \union {n} => q \in Below(n)
      /\ \A S \in SUBSET Listed : GathersAt(n, S) => Below(n) \subseteq S
      /\ \A p \in Below(n) : Home(p) \in Below(n) \union {n}
    BY BelowFacts DEF GathersAt
<1>4. /\ Listed \subseteq AllPids /\ AllPids \subseteq Nodes /\ NULL \notin Nodes
      /\ RootPid \notin AllPids
      /\ \A p \in Listed : Home(p) # NULL => Home(p) # Idle
    BY HomeFacts, NodeFacts
<1>5. Hidden \subseteq {Idle}
    BY DEF Hidden
<1>6. U \subseteq Nodes /\ \A m \in U : m \in Below(n) \union {n}
    BY <1>2, <1>3, <1>4
<1>7. Below(n) \ Hidden \subseteq Shown
  <2> DEFINE S == {p \in Listed : p \in Shown \/ p \in Hidden}
  <2>1. GathersAt(n, S)
    <3> SUFFICES ASSUME NEW q \in Listed, Home(q) \in S \union {n}, q \notin Hidden
                 PROVE  q \in Shown
        BY DEF GathersAt
    <3>1. Home(q) \in Nodes /\ Home(q) # Idle
        BY <1>2, <1>4
    <3>2. Home(q) \in Shown
        BY <1>5, <3>1
    <3> QED
        BY <1>1, <1>2, <3>1, <3>2
  <2>2. S \in SUBSET Listed
      OBVIOUS
  <2> HIDE DEF S
  <2>3. Below(n) \subseteq S
      BY <1>3, <2>1, <2>2
  <2> QED
      BY <2>3 DEF S
<1>8. Shown \subseteq Summed
  <2>1. Holds(Summed) /\ Summed \in SUBSET Nodes
      BY DEF Drawing, Sums, Holds, Summed
  <2> QED
      BY <1>2, <2>1
<1>9. U \in SUBSET Summed
    BY <1>7, <1>8
<1>10. Takes(U)
    BY <1>1, <1>3, <1>6 DEF Takes
<1>11. \A p \in U : p # n => \E m \in U : p \in ToSet(children[m])
  <2> SUFFICES ASSUME NEW p \in U, p # n PROVE \E m \in U : p \in ToSet(children[m])
      OBVIOUS
  <2>1. p \in Below(n) /\ p \notin Hidden /\ p \in Listed
      BY <1>3
  <2>2. Home(p) \in Nodes /\ Home(p) \in Below(n) \union {n}
      BY <1>2, <1>3, <1>4, <2>1
  <2>3. Home(p) # Idle
      BY <1>4, <2>1, <2>2
  <2>4. Home(p) \in U
      BY <1>5, <2>2, <2>3
  <2> QED
      BY <1>1, <2>1, <2>2, <2>4
<1>12. \A m \in U : n \notin ToSet(children[m])
  <2> SUFFICES ASSUME NEW m \in U, n \in ToSet(children[m]) PROVE FALSE
      OBVIOUS
  <2>1. n \in Listed /\ Home(n) = m
      BY <1>1, <1>6
  <2>2. n \in Below(n)
      BY <1>3, <1>6, <2>1
  <2> QED
      BY <2>2, BelowIsDeeper
<1>13. Tops(U) = {n}
    BY <1>11, <1>12 DEF Tops
<1> QED
    BY <1>9, <1>10, <1>13

\* treemap.dart:67-73: whatever the sizes, the sum of every tile is that of the
\* sizes of the process and of those whose chain of parents leads to it, each
\* counted once, less the idle process if the switch hides it.
THEOREM TilesSumAll == MapSpec => []TilesShowAll
<1>1. ASSUME Tree, Drawing PROVE TilesShowAll
  <2> SUFFICES ASSUME stage = "drawn", NEW n \in Shown
               PROVE  value[n] = TotalSize((Below(n) \union ({n} \ {RootPid}))
                                              \ (IF hideIdle THEN {Idle} ELSE {}))
      BY DEF TilesShowAll
  <2> DEFINE U == {n} \union (Below(n) \ Hidden)
  <2>1. U \in SUBSET Summed /\ Takes(U) /\ Tops(U) = {n}
      BY <1>1, TopOfBelow
  <2>2. AddedUp(U)
      BY <1>1, <2>1 DEF Drawing, Sums
  <2>3. Cardinality(Units(Size, U \ {RootPid})) = Cardinality(Units(value, {n}))
      BY <2>1, <2>2 DEF AddedUp
  <2>4. value[n] \in Nat
      BY <1>1, <2>1 DEF Drawing, BuildTypes, Summed
  <2>5. Cardinality(Units(value, {n})) = value[n]
      BY <2>4, UnitsOfOne
  <2>6. U \ {RootPid} = (Below(n) \union ({n} \ {RootPid})) \ (IF hideIdle THEN {Idle} ELSE {})
    <3>1. Below(n) \subseteq Rooted /\ Rooted \subseteq AllPids /\ RootPid \notin AllPids
        BY <1>1, BelowIsDeeper, RootedFacts, HomeFacts, NodeFacts
    <3>2. Rooted \ (IF hideIdle THEN {Idle} ELSE {}) = Rooted \ Hidden
        BY <1>1, ParentsAreHomes DEF Hidden
    <3>3. n = RootPid \/ n \in Rooted \ (IF hideIdle THEN {Idle} ELSE {})
        BY <1>1, ShownIsRooted
    <3> QED
        BY <3>1, <3>2, <3>3, NodeFacts
  <2> QED
      BY <2>3, <2>5, <2>6 DEF TotalSize, Units
<1> QED
    BY <1>1, DrawingInv, PTL

\* proc_tree.dart:115-126: the tiles inside the tile of a process, its own
\* included, have its size together, and those inside the root's have the root's.
THEOREM TilesFill == MapSpec => []TilesFillTheirParent
<1>1. ASSUME Tree, Drawing PROVE TilesFillTheirParent
  <2> SUFFICES ASSUME stage = "drawn", NEW n \in Shown, children[n] # <<>>
               PROVE  value[n] = Total(ChildValues(n)) + (IF n \in selfTiles THEN Size[n] ELSE 0)
      BY DEF TilesFillTheirParent
  <2>1. Shown \subseteq Summed
    <3>1. Holds(Summed) /\ Summed \in SUBSET Nodes
        BY <1>1 DEF Drawing, Sums, Holds, Summed
    <3> QED
        BY <1>1, <3>1, ShownFacts
  <2>2. /\ n \in Nodes /\ ToSet(children[n]) \subseteq Summed
        /\ value[n] = Own(n) + Total(ChildValues(n))
      BY <1>1, <2>1 DEF Drawing, Sums, Summed
  <2>3. Total(ChildValues(n)) \in Nat
      BY <1>1, <2>2, ChildUnits DEF Drawing, Summed
  <2>4. Own(n) = (IF n \in selfTiles THEN Size[n] ELSE 0) /\ Own(n) \in Nat
    <3>1. n \in selfTiles <=> n # RootPid
        BY <1>1 DEF Drawing, Tiles
    <3> QED
        BY <2>2, <3>1, NodeFacts, SizeAssumption DEF Own
  <2> DEFINE t == Total(ChildValues(n))
             o == Own(n)
  <2>5. o + t = t + o
    <3>1. o \in Nat /\ t \in Nat
        BY <2>3, <2>4
    <3> HIDE DEF o, t
    <3> QED
        BY <3>1
  <2> QED
      BY <2>2, <2>4, <2>5
<1> QED
    BY <1>1, DrawingInv, PTL

\* The row above a row, if it has one, is an earlier one.
LEMMA AboveFacts ==
    ASSUME NEW i \in Nat
    PROVE  Csv!Above(i) = 0 \/ Csv!Above(i) \in 1..(i - 1)
<1> DEFINE before == {j \in 1..(i - 1) : rows[j].level < rows[i].level}
           last == CHOOSE j \in before : \A k \in before : k <= j
<1>1. Csv!Above(i) = IF before = {} THEN 0 ELSE last
    BY DEF Csv!Above
<1>2. ASSUME before # {} PROVE last \in 1..(i - 1)
  <2> DEFINE back == {k \in Nat : i - k \in before}
  <2>1. \A j \in before : j \in 1..(i - 1) /\ i - j \in Nat /\ i - (i - j) = j
      OBVIOUS
  <2>2. back \in SUBSET Nat /\ back # {}
      BY <1>2, <2>1
  <2>3. PICK m \in back : \A k \in back : m <= k
    <3> HIDE DEF back
    <3> QED
        BY <2>2, Least
  <2>4. i - m \in before /\ m \in Nat
      OBVIOUS
  <2>5. \A k \in before : k <= i - m
      BY <2>1, <2>3, <2>4
  <2> HIDE DEF before
  <2>6. last \in before
      BY <2>4, <2>5
  <2> QED
      BY <2>1, <2>6
<1> QED
    BY <1>1, <1>2

\* What belongs where, in the list that is made of the rows.
LEMMA RowHomes ==
    ASSUME Reader, Tree, ParentIsIndentation, items = CsvItems,
           NEW i \in 1..Len(rows), rows[i].item # Idle
    PROVE  /\ rows[i].item \in Listed
           /\ Home(rows[i].item) =
                IF Csv!Above(i) = 0 \/ rows[Csv!Above(i)].item \notin Pids
                  THEN RootPid ELSE rows[Csv!Above(i)].item
<1> DEFINE p == rows[i].item
           above == Csv!Above(i)
<1>1. /\ Len(rows) \in Nat /\ DOMAIN rows = 1..Len(rows)
      /\ \A j \in 1..Len(rows) : rows[j].item \in AllPids
      /\ \A j, k \in 1..Len(rows) : rows[j].item = rows[k].item => j = k
      /\ \A j \in 1..Len(rows) : rows[j].column = Csv!Column(rows[j].item)
  <2>1. rows \in Seq(Row) /\ \A r \in Row : r.item \in AllPids
      BY DEF Reader, CsvTypes, Row
  <2> QED
      BY <2>1, ElementFacts DEF Reader, CsvTypes
<1>2. ToSet(items.order) = {rows[j].item : j \in 1..Len(rows)}
  <2>1. items.order = [j \in 1..Len(rows) |-> rows[j].item]
      BY <1>1 DEF CsvItems
  <2> QED
      BY <2>1 DEF ToSet
<1>3. p \in Listed
    BY <1>2 DEF Listed
<1>4. items.ppid[p] = rows[i].ppid
  <2>1. items.ppid = [q \in ToSet(items.order) |->
                        rows[CHOOSE j \in DOMAIN rows : rows[j].item = q].ppid]
      BY DEF CsvItems
  <2>2. (CHOOSE j \in DOMAIN rows : rows[j].item = p) = i
      BY <1>1
  <2> QED
      BY <1>3, <2>1, <2>2 DEF Listed
<1>5. rows[i].ppid = IF above = 0 THEN -1 ELSE rows[above].column
    BY <1>1 DEF ParentIsIndentation, Csv!ParentIsIndentation
<1>6. p \in AllPids /\ p # -1 /\ p # 0 /\ Nodes \subseteq Int /\ AllPids \subseteq Nodes
    BY <1>1, NodeFacts DEF Idle, RootPid
<1>7. above = 0 \/ above \in 1..(i - 1)
    BY <1>1, AboveFacts
<1>8. CASE above = 0
    BY <1>4, <1>5, <1>6, <1>3, <1>8 DEF Home
<1>9. CASE above \in 1..(i - 1)
  <2> DEFINE q == rows[above].item
  <2>1. above \in 1..Len(rows) /\ above # 0 /\ above # i
      BY <1>1, <1>9
  <2>2. q \in AllPids /\ q # p /\ rows[above].column = Csv!Column(q) /\ q \in Listed
      BY <1>1, <1>2, <2>1 DEF Listed
  <2>3. Csv!Column(q) = IF q \in Special THEN 0 ELSE q
      BY DEF Csv!Column, Csv!Special, Csv!Idle, Csv!Interrupts, Special, Idle, Interrupts
  <2>4. CASE q \notin Pids
    <3>1. q \in Special
        BY <2>2, <2>4 DEF AllPids
    <3>2. items.ppid[p] = 0
        BY <1>4, <1>5, <2>1, <2>2, <2>3, <3>1
    <3> QED
        BY <1>3, <1>6, <2>1, <2>4, <3>2 DEF Home
  <2>5. CASE q \in Pids
    <3>1. q > 0 /\ q \notin Special
      <4> HIDE DEF q
      <4>1. q \in Nat /\ q # 0
          BY <2>5, PidsAssumption
      <4> QED
          BY <4>1 DEF Special, Idle, Interrupts
    <3>2. items.ppid[p] = q
        BY <1>4, <1>5, <2>1, <2>2, <2>3, <3>1
    <3> QED
        BY <1>3, <2>1, <2>2, <2>5, <3>1, <3>2 DEF Home, Exists, Listed
  <2> QED
      BY <2>4, <2>5
<1> QED
    BY <1>7, <1>8, <1>9

\* csv.dart:47-69 and proc_tree.dart:36-97 together: for a file of any length and
\* any depth, the tree is the forest that the indentation draws.
THEOREM ForestIsIndentation == MapSpec => []CsvForest
<1>1. ASSUME Reader, Tree, Drawing, ParentIsIndentation PROVE CsvForest
  <2> SUFFICES ASSUME HasDepths, NEW i \in DOMAIN rows, rows[i].item # Idle
               PROVE  parent[rows[i].item] =
                        IF Csv!Above(i) = 0 \/ rows[Csv!Above(i)].item \notin Pids
                          THEN RootPid ELSE rows[Csv!Above(i)].item
      BY DEF CsvForest
  <2>1. Len(rows) \in Nat /\ DOMAIN rows = 1..Len(rows) /\ rows # <<>>
      BY <1>1 DEF Reader, CsvTypes
  <2>2. items = CsvItems
      BY <1>1, <2>1 DEF Drawing, FromRows, HasDepths
  <2>3. \A j \in 1..Len(rows) : rows[j].item # Idle =>
            /\ rows[j].item \in Listed
            /\ Home(rows[j].item) = IF Csv!Above(j) = 0 \/ rows[Csv!Above(j)].item \notin Pids
                                      THEN RootPid ELSE rows[Csv!Above(j)].item
      BY <1>1, <2>2, RowHomes
  <2> DEFINE bad == {j \in 1..Len(rows) : rows[j].item # Idle /\ rows[j].item \notin Rooted}
  <2>4. bad = {}
    <3> SUFFICES ASSUME bad # {} PROVE FALSE
        OBVIOUS
    <3>1. bad \in SUBSET Nat
        OBVIOUS
    <3>2. PICK m \in bad : \A k \in bad : m <= k
      <4> HIDE DEF bad
      <4> QED
          BY <3>1, Least
    <3>3. m \in 1..Len(rows) /\ rows[m].item # Idle /\ rows[m].item \notin Rooted
        OBVIOUS
    <3> DEFINE j == Csv!Above(m)
    <3>4. Home(rows[m].item) \notin Rooted \union {RootPid}
        BY <2>3, <3>3, RootedFacts DEF Gathers, GathersAt
    <3>5. j # 0 /\ rows[j].item \in Pids /\ rows[j].item \notin Rooted
        BY <2>3, <3>3, <3>4
    <3>6. j \in 1..(m - 1)
        BY <3>3, <3>5, AboveFacts
    <3>7. rows[j].item # Idle
        BY <3>5, PidsAssumption DEF Idle
    <3> HIDE DEF j
    <3>8. j \in bad
        BY <2>1, <3>3, <3>5, <3>6, <3>7
    <3> HIDE DEF bad
    <3> QED
        BY <3>1, <3>2, <3>3, <3>6, <3>8
  <2>5. rows[i].item \in Rooted /\ rows[i].item \in AllPids
      BY <1>1, <2>1, <2>4, <2>3, HomeFacts
  <2>6. parent[rows[i].item] = Home(rows[i].item)
      BY <1>1, <2>5, ParentsAreHomes DEF HasDepths
  <2> QED
      BY <2>1, <2>3, <2>6
<1> QED
    BY <1>1, DrawingInv, ParentsAreIndentation, PTL


-----------------------------------------------------------------------------
(* The progress of a build.                                                *)

\* While _setDepth runs, no node is on its stack twice, and nothing that belongs
\* under a node on the stack has been met.
MetOnce ==
    stage = "depth" =>
        /\ \A i, j \in 1..Len(todo) : todo[i] = todo[j] => i = j
        /\ \A p \in Listed : Home(p) \in ToSet(todo) => parent[p] = NULL

\* A sequence of different elements.
Distinct(s) == \A i, j \in 1..Len(s) : s[i] = s[j] => i = j

\* One turn of the stack, position by position.
LEMMA StackPositions ==
    ASSUME NEW S, NEW s \in Seq(S), s # <<>>, NEW t \in Seq(S)
    PROVE  /\ Len(s) \in Nat \ {0} /\ Len(t) \in Nat
           /\ Len(Front(s) \o Reverse(t)) = Len(s) - 1 + Len(t)
           /\ \A i \in 1..(Len(s) - 1 + Len(t)) :
                (Front(s) \o Reverse(t))[i] =
                    IF i <= Len(s) - 1 THEN s[i] ELSE t[Len(t) + Len(s) - i]
           /\ ToSet(Front(s)) = {s[i] : i \in 1..(Len(s) - 1)}
           /\ Last(s) = s[Len(s)]
<1> DEFINE f == Front(s)
           r == Reverse(t)
<1>1. Len(s) \in Nat \ {0} /\ DOMAIN s = 1..Len(s)
    BY EmptySeq
<1>2. f \in Seq(S) /\ Len(f) = Len(s) - 1 /\ \A i \in 1..(Len(s) - 1) : f[i] = s[i]
    BY <1>1 DEF Front
<1>3. /\ r \in Seq(S) /\ Len(r) = Len(t) /\ Len(t) \in Nat
      /\ \A i \in 1..Len(t) : r[i] = t[Len(t) - i + 1]
  <2>1. r = [i \in 1..Len(t) |-> t[(Len(t) - i) + 1]] /\ Len(t) \in Nat
      BY DEF Reverse
  <2>2. \A i \in 1..Len(t) : (Len(t) - i) + 1 \in 1..Len(t)
      BY <2>1
  <2>3. \A i \in 1..Len(t) : t[(Len(t) - i) + 1] \in S
      BY <2>2
  <2> QED
      BY <2>1, <2>3
<1>4. ToSet(f) = {s[i] : i \in 1..(Len(s) - 1)}
  <2>1. DOMAIN f = 1..(Len(s) - 1)
      BY <1>1, <1>2
  <2> QED
      BY <1>2, <2>1 DEF ToSet
<1> HIDE DEF f, r
<1>5. /\ f \o r \in Seq(S) /\ Len(f \o r) = Len(f) + Len(r)
      /\ \A i \in 1..(Len(f) + Len(r)) : (f \o r)[i] = IF i <= Len(f) THEN f[i] ELSE r[i - Len(f)]
    BY <1>2, <1>3, ConcatProperties
<1>6. ASSUME NEW i \in 1..(Len(s) - 1 + Len(t))
      PROVE  (f \o r)[i] = IF i <= Len(s) - 1 THEN s[i] ELSE t[Len(t) + Len(s) - i]
  <2>1. (f \o r)[i] = IF i <= Len(s) - 1 THEN f[i] ELSE r[i - (Len(s) - 1)]
      BY <1>2, <1>3, <1>5
  <2>2. CASE i <= Len(s) - 1
      BY <1>1, <1>2, <2>1, <2>2
  <2>3. CASE ~ (i <= Len(s) - 1)
    <3>1. /\ i - (Len(s) - 1) \in 1..Len(t)
          /\ Len(t) - (i - (Len(s) - 1)) + 1 = Len(t) + Len(s) - i
        BY <1>1, <1>3, <2>3
    <3> QED
        BY <1>3, <2>1, <2>3, <3>1
  <2> QED
      BY <2>2, <2>3
<1> QED
    BY <1>1, <1>2, <1>3, <1>4, <1>5, <1>6 DEF f, r, Last

LEMMA StackOnce ==
    ASSUME NEW S, NEW s \in Seq(S), s # <<>>, NEW t \in Seq(S), Distinct(s), Distinct(t),
           \A e \in ToSet(Front(s)) : e \notin ToSet(t)
    PROVE  /\ Distinct(Front(s) \o Reverse(t))
           /\ Len(Front(s) \o Reverse(t)) = Len(s) - 1 + Len(t)
           /\ Last(s) \notin ToSet(Front(s))
<1> DEFINE u == Front(s) \o Reverse(t)
           front == ToSet(Front(s))
<1>1. /\ Len(s) \in Nat \ {0} /\ Len(t) \in Nat /\ Len(u) = Len(s) - 1 + Len(t)
      /\ \A i \in 1..(Len(s) - 1 + Len(t)) :
            u[i] = IF i <= Len(s) - 1 THEN s[i] ELSE t[Len(t) + Len(s) - i]
      /\ front = {s[i] : i \in 1..(Len(s) - 1)}
      /\ Last(s) = s[Len(s)]
    BY StackPositions
<1>2. \A i \in 1..Len(t) : t[i] \notin front
  <2>1. DOMAIN t = 1..Len(t)
      OBVIOUS
  <2> QED
      BY <2>1 DEF ToSet
<1> HIDE DEF u, front
<1>3. Last(s) \notin front
    BY <1>1 DEF Distinct
<1>4. ASSUME NEW i \in 1..Len(u), NEW j \in 1..Len(u), u[i] = u[j] PROVE i = j
  <2>1. \A k \in 1..Len(u) :
            \/ k \in 1..(Len(s) - 1) /\ k \in 1..Len(s) /\ u[k] = s[k] /\ u[k] \in front
            \/ /\ Len(t) + Len(s) - k \in 1..Len(t) /\ u[k] = t[Len(t) + Len(s) - k]
               /\ u[k] \notin front
    <3> SUFFICES ASSUME NEW k \in 1..Len(u)
                 PROVE  \/ k \in 1..(Len(s) - 1) /\ k \in 1..Len(s) /\ u[k] = s[k] /\ u[k] \in front
                        \/ /\ Len(t) + Len(s) - k \in 1..Len(t) /\ u[k] = t[Len(t) + Len(s) - k]
                           /\ u[k] \notin front
        OBVIOUS
    <3>1. CASE k <= Len(s) - 1
      <4>1. k \in 1..(Len(s) - 1) /\ k \in 1..Len(s)
          BY <1>1, <3>1
      <4> QED
          BY <1>1, <3>1, <4>1
    <3>2. CASE ~ (k <= Len(s) - 1)
      <4>1. Len(t) + Len(s) - k \in 1..Len(t)
          BY <1>1, <3>2
      <4> QED
          BY <1>1, <1>2, <3>2, <4>1
    <3> QED
        BY <3>1, <3>2
  <2>2. CASE u[i] \in front
    <3>1. i \in 1..Len(s) /\ j \in 1..Len(s) /\ s[i] = s[j]
        BY <1>4, <2>1, <2>2
    <3> QED
        BY <3>1 DEF Distinct
  <2>3. CASE u[i] \notin front
    <3> DEFINE a == Len(t) + Len(s) - i
               b == Len(t) + Len(s) - j
    <3>1. a \in 1..Len(t) /\ b \in 1..Len(t) /\ t[a] = t[b]
        BY <1>4, <2>1, <2>3
    <3>2. a = b
      <4> HIDE DEF a, b
      <4> QED
          BY <3>1 DEF Distinct
    <3> QED
        BY <1>1, <3>2
  <2> QED
      BY <2>2, <2>3
<1> QED
    BY <1>1, <1>3, <1>4 DEF u, front, Distinct


\* A sequence of different elements has as many of them as it is long.
LEMMA DistinctCount ==
    ASSUME NEW S, NEW s \in Seq(S), Distinct(s)
    PROVE  IsFiniteSet(ToSet(s)) /\ Cardinality(ToSet(s)) = Len(s)
<1>1. Len(s) \in Nat /\ DOMAIN s = 1..Len(s)
    OBVIOUS
<1>2. ToSet(s) = {s[i] : i \in 1..Len(s)}
    BY <1>1 DEF ToSet
<1> DEFINE elements == ToSet(s)
<1> HIDE DEF elements
<1>3. s \in Bijection(1..Len(s), elements)
    BY <1>1, <1>2, Fun_IsBij DEF Distinct, elements
<1>4. IsFiniteSet(1..Len(s)) /\ Cardinality(1..Len(s)) = Len(s)
  <2>1. /\ IsFiniteSet(1..Len(s))
        /\ Cardinality(1..Len(s)) = IF 1 > Len(s) THEN 0 ELSE Len(s) - 1 + 1
      BY <1>1, FS_Interval
  <2> QED
      BY <1>1, <2>1
<1>5. IsFiniteSet(elements) /\ Cardinality(elements) = Len(s)
    BY <1>3, <1>4, FS_Bijection DEF ExistsBijection
<1> QED
    BY <1>5 DEF elements

\* The parts of what is left to do are numbers.
LEMMA StepsFacts ==
    ASSUME Tree, BuildTypes
    PROVE  /\ IsFiniteSet(Unmet) /\ Cardinality(Unmet) \in Nat
           /\ IsFiniteSet(Unsummed) /\ Cardinality(Unsummed) \in Nat
           /\ Len(todo) \in Nat /\ Len(items.order) + 1 - next \in Nat
           /\ Len(items.order) \in Nat /\ next \in Nat
<1>1. items.order \in Seq(AllPids) /\ Distinct(items.order)
    BY DEF Tree, TreeTypes, List, Distinct
<1>2. IsFiniteSet(Listed)
    BY <1>1, DistinctCount DEF Listed
<1>3. IsFiniteSet(Listed \union {RootPid})
    BY <1>2, FS_AddElement
<1>4. Unmet \subseteq Listed /\ Unsummed \subseteq Listed \union {RootPid}
    BY DEF Unmet, Unsummed, Listed
<1>5. IsFiniteSet(Unmet) /\ IsFiniteSet(Unsummed)
    BY <1>2, <1>3, <1>4, FS_Subset
<1>6. Len(todo) \in Nat /\ Len(items.order) \in Nat
  <2>1. todo \in Seq(Nodes)
      BY DEF BuildTypes
  <2> QED
      BY <1>1, <2>1
<1>7. next \in 1..(Len(items.order) + 1)
    BY DEF Tree, TreeTypes
<1> QED
    BY <1>5, <1>6, <1>7, FS_CardinalityType

\* A node is taken from the stack, and its children, none of which has been met,
\* come onto it: as many as are met now.
LEMMA VisitProgress ==
    ASSUME Tree, Drawing, MetOnce, Visit
    PROVE  /\ MetOnce'
           /\ Cardinality(Unmet') + Len(todo') = Cardinality(Unmet) + Len(todo) - 1
<1> DEFINE node == Last(todo)
           kids == children[node]
           childs == ToSet(kids)
<1>1. /\ stage = "depth" /\ todo # <<>>
      /\ todo' = Front(todo) \o Reverse(kids)
      /\ parent' = [n \in Nodes |-> IF n \in childs THEN node ELSE parent[n]]
      /\ UNCHANGED <<items, stage, children>>
    BY DEF Visit
<1>2. /\ todo \in Seq(Nodes) /\ node \in Nodes
      /\ kids \in Seq(AllPids) /\ kids \in Seq(Nodes) /\ Distinct(kids)
  <2>1. todo \in Seq(Nodes)
      BY DEF Drawing, BuildTypes
  <2>2. node \in Nodes
      BY <1>1, <2>1, StackFacts
  <2>3. kids \in Seq(AllPids) /\ Distinct(kids)
      BY <2>2 DEF Tree, TreeTypes, OneEach, Distinct
  <2>4. AllPids \subseteq Nodes
      BY NodeFacts
  <2> HIDE DEF kids
  <2>5. kids \in Seq(Nodes)
      BY <2>3, <2>4
  <2> QED
      BY <2>1, <2>2, <2>3, <2>5
<1>3. /\ ToSet(todo') = ToSet(Front(todo)) \union childs
      /\ ToSet(todo) = ToSet(Front(todo)) \union {node}
    BY <1>1, <1>2, StackFacts
<1>4. childs = {p \in Listed : Home(p) = node}
    BY <1>1, <1>2 DEF Drawing, AtHome, Placed
<1>5. /\ Listed \subseteq AllPids /\ AllPids \subseteq Nodes /\ NULL \notin Nodes
      /\ RootPid \notin AllPids
      /\ \A p \in Listed : Home(p) # NULL => Home(p) # p
    BY HomeFacts, NodeFacts
<1>6. /\ Distinct(todo)
      /\ \A p \in Listed : Home(p) \in ToSet(todo) => parent[p] = NULL
      /\ \A n \in ToSet(todo) : Met(n)
      /\ \A p \in Nodes : parent[p] # NULL => parent[p] = Home(p) /\ Met(parent[p])
    BY <1>1 DEF MetOnce, Distinct, Drawing, Depths
<1> HIDE DEF node, kids
<1>7. \A p \in childs : p \in Listed /\ p \in Nodes /\ parent[p] = NULL /\ ~ Met(p)
    BY <1>3, <1>4, <1>5, <1>6 DEF Met
<1>8. \A e \in ToSet(Front(todo)) : e \notin childs
    BY <1>3, <1>6, <1>7
<1>9. /\ Distinct(todo') /\ Len(todo') = Len(todo) - 1 + Len(kids)
      /\ node \notin ToSet(Front(todo))
  <2>1. /\ Distinct(Front(todo) \o Reverse(kids))
        /\ Len(Front(todo) \o Reverse(kids)) = Len(todo) - 1 + Len(kids)
        /\ Last(todo) \notin ToSet(Front(todo))
      BY <1>1, <1>2, <1>6, <1>8, StackOnce
  <2> QED
      BY <1>1, <2>1 DEF node
<1>10. Listed' = Listed /\ \A p : Home(p)' = Home(p)
    BY <1>1, SameList
<1>11. ASSUME NEW p \in Listed, Home(p) \in ToSet(todo') PROVE parent'[p] = NULL
  <2>1. p \in Nodes
      BY <1>5
  <2>2. CASE Home(p) \in ToSet(Front(todo))
    <3>1. parent[p] = NULL /\ Home(p) # node
        BY <1>3, <1>6, <1>9, <2>2
    <3> QED
        BY <1>1, <1>4, <2>1, <3>1
  <2>3. CASE Home(p) \in childs
    <3>1. ~ Met(Home(p)) /\ Home(p) # node
      <4>1. Met(node)
          BY <1>3, <1>6
      <4> QED
          BY <1>7, <2>3, <4>1
    <3>2. parent[p] = NULL
        BY <1>6, <2>1, <3>1
    <3> QED
        BY <1>1, <1>4, <2>1, <3>1, <3>2
  <2> QED
      BY <1>3, <1>11, <2>2, <2>3
<1>12. MetOnce'
  <2>1. \A p \in Listed' : Home(p)' \in ToSet(todo') => parent'[p] = NULL
      BY <1>10, <1>11
  <2> QED
      BY <1>9, <2>1 DEF MetOnce, Distinct
<1>13. Unmet' = Unmet \ childs /\ childs \subseteq Unmet
  <2>1. Unmet = {p \in Listed : parent[p] = NULL} /\ Unmet' = {p \in Listed : parent'[p] = NULL}
      BY <1>10 DEF Unmet, Listed
  <2>2. \A p \in Listed : parent'[p] = IF p \in childs THEN node ELSE parent[p]
      BY <1>1, <1>5
  <2>3. node # NULL
      BY <1>2, <1>5
  <2> HIDE DEF childs
  <2> QED
      BY <1>7, <2>1, <2>2, <2>3
<1>14. IsFiniteSet(childs) /\ Cardinality(childs) = Len(kids) /\ Len(kids) \in Nat
    BY <1>2, DistinctCount
<1>15. Cardinality(Unmet') = Cardinality(Unmet) - Len(kids)
  <2>1. IsFiniteSet(Unmet)
      BY StepsFacts DEF Drawing
  <2>2. Cardinality(Unmet \ childs) = Cardinality(Unmet) - Cardinality(Unmet \cap childs)
      BY <2>1, FS_Difference
  <2>3. Unmet \cap childs = childs
      BY <1>13
  <2> QED
      BY <1>13, <1>14, <2>2, <2>3
<1>16. Len(todo) \in Nat /\ Cardinality(Unmet) \in Nat
    BY StepsFacts DEF Drawing
<1> QED
    BY <1>9, <1>12, <1>14, <1>15, <1>16


LEMMA NextMetOnce == Tree /\ Drawing /\ MetOnce /\ [MapNext]_<<vars, csvVars>> => MetOnce'
<1> SUFFICES ASSUME Tree, Drawing, MetOnce, [MapNext]_<<vars, csvVars>> PROVE MetOnce'
    OBVIOUS
<1>1. CASE EndOfTree
  <2>1. /\ todo' = <<RootPid>> /\ UNCHANGED <<items, parent>>
        /\ \A n \in Nodes : parent[n] = NULL
      BY <1>1 DEF EndOfTree, Drawing, Depths
  <2>2. Listed' \subseteq Nodes
      BY <2>1, HomeFacts, NodeFacts DEF Listed
  <2> QED
      BY <2>1, <2>2 DEF MetOnce
<1>2. CASE Visit
    BY <1>2, VisitProgress
<1>3. CASE UNCHANGED vars
    BY <1>3, SameList DEF MetOnce, vars
<1>4. CASE stage' # "depth"
    BY <1>4 DEF MetOnce
<1>5. \/ EndOfTree \/ Visit \/ UNCHANGED vars \/ stage' # "depth"
  <2>1. CASE BuildCsv \/ BuildLive \/ ReadCsv \/ UNCHANGED <<vars, csvVars>>
      BY <2>1 DEF BuildCsv, BuildLive, Build, ReadCsv, vars
  <2>2. CASE Draw
      BY <2>2 DEF Draw, BuildStep, TopLevel, Child, Orphan, AtLoop, Attach, EndOfDepth,
                  RemoveIdleNode, Sum, EndOfSum, AddSelfToChildren
  <2> QED
      BY <2>1, <2>2 DEF MapNext
<1> QED
    BY <1>1, <1>2, <1>3, <1>4, <1>5

\* What is shown is in the list.
LEMMA ShownIsListed ==
    ASSUME Tree, Drawing
    PROVE  Shown \subseteq Listed \union {RootPid}
<1>1. Placed \subseteq Listed
  <2>1. \A j \in 1..(next - 1) : j \in DOMAIN items.order
      BY DEF Tree, TreeTypes, List
  <2>2. \A j \in 1..(next - 1) : items.order[j] \in Listed
      BY <2>1 DEF Listed, ToSet
  <2>3. stage \in Stages
      BY DEF Tree, TreeTypes
  <2> QED
      BY <2>2, <2>3 DEF Placed, Stages
<1>2. Listed \union {RootPid} \in SUBSET Nodes
    BY HomeFacts, NodeFacts
<1>3. Holds(Listed \union {RootPid})
    BY <1>1, <1>2 DEF Holds, Drawing, AtHome
<1> QED
    BY <1>2, <1>3, ShownFacts

\* Each step of a build has its part in what is left.
LEMMA StepProgress ==
    ASSUME Tree, Drawing, MetOnce, BuildStep, Tree', BuildTypes'
    PROVE  StepsLeft' \in 0..(StepsLeft - 1)
<1> DEFINE unmet == Cardinality(Unmet)
           unsummed == Cardinality(Unsummed)
           length == Len(items.order)
           stack == Len(todo)
<1>1. /\ unmet \in Nat /\ unsummed \in Nat /\ stack \in Nat
      /\ length \in Nat /\ next \in Nat /\ length + 1 - next \in Nat
    BY StepsFacts DEF Drawing
<1>2. /\ unmet' \in Nat /\ unsummed' \in Nat /\ stack' \in Nat
      /\ length' \in Nat /\ next' \in Nat /\ length' + 1 - next' \in Nat
  <2>1. (/\ IsFiniteSet(Unmet) /\ Cardinality(Unmet) \in Nat
         /\ IsFiniteSet(Unsummed) /\ Cardinality(Unsummed) \in Nat
         /\ Len(todo) \in Nat /\ Len(items.order) + 1 - next \in Nat
         /\ Len(items.order) \in Nat /\ next \in Nat)'
      BY StepsFacts, PTL
  <2> QED
      BY <2>1
<1>3. /\ StepsLeft = StagesLeft + (length + 1 - next) + unmet + stack + unsummed
      /\ StepsLeft' = StagesLeft' + (length' + 1 - next') + unmet' + stack' + unsummed'
    BY DEF StepsLeft
<1>4. /\ UNCHANGED <<items, parent>> => unmet' = unmet
      /\ UNCHANGED <<items, value>> => unsummed' = unsummed
      /\ UNCHANGED items => length' = length
      /\ UNCHANGED todo => stack' = stack
    BY DEF Unmet, Unsummed
<1> HIDE DEF unmet, unsummed, length, stack
<1>5. CASE TopLevel \/ Child \/ Orphan
  <2>1. /\ stage = "tree" /\ stage' = "tree" /\ next' = next + 1
        /\ UNCHANGED <<items, parent, todo, value>>
      BY <1>5 DEF TopLevel, Child, Orphan, AtLoop, Attach
  <2> QED
      BY <1>1, <1>2, <1>3, <1>4, <2>1 DEF StagesLeft
<1>6. CASE EndOfTree
  <2>1. /\ stage = "tree" /\ stage' = "depth" /\ UNCHANGED <<items, next, parent, value>>
        /\ todo' = <<RootPid>>
      BY <1>6 DEF EndOfTree
  <2>2. stack' = 1
      BY <2>1 DEF stack
  <2> QED
      BY <1>1, <1>2, <1>3, <1>4, <2>1, <2>2 DEF StagesLeft
<1>7. CASE Visit
  <2>1. stage = "depth" /\ stage' = "depth" /\ UNCHANGED <<items, next, value>>
      BY <1>7 DEF Visit
  <2>2. unmet' + stack' = unmet + stack - 1
      BY <1>7, VisitProgress DEF unmet, stack
  <2> QED
      BY <1>1, <1>2, <1>3, <1>4, <2>1, <2>2 DEF StagesLeft
<1>8. CASE EndOfDepth \/ RemoveIdleNode \/ EndOfSum \/ AddSelfToChildren
  <2>1. /\ UNCHANGED <<items, next, parent, todo, value>>
        /\ \/ stage = "depth" /\ stage' = "hide"
           \/ stage = "hide" /\ stage' = "sum"
           \/ stage = "sum" /\ stage' = "self"
           \/ stage = "self" /\ stage' = "drawn"
      BY <1>8 DEF EndOfDepth, RemoveIdleNode, EndOfSum, AddSelfToChildren
  <2>2. unmet' = unmet /\ unsummed' = unsummed /\ length' = length /\ stack' = stack /\ next' = next
      BY <1>4, <2>1
  <2>3. StagesLeft \in Nat /\ StagesLeft' \in Nat /\ StagesLeft' = StagesLeft - 1
      BY <2>1 DEF StagesLeft
  <2> QED
      BY <1>1, <1>3, <2>2, <2>3
<1>9. ASSUME NEW n \in Shown, Sum(n) PROVE StepsLeft' \in 0..(StepsLeft - 1)
  <2>1. /\ stage = "sum" /\ stage' = "sum" /\ value[n] = NULL
        /\ value' = [value EXCEPT ![n] = Own(n) + Total(ChildValues(n))]
        /\ \A c \in ToSet(children[n]) : value[c] # NULL
        /\ UNCHANGED <<items, next, parent, todo>>
      BY <1>9 DEF Sum
  <2>2. n \in Listed \union {RootPid} /\ n \in Nodes /\ Listed \union {RootPid} \subseteq Nodes
      BY ShownIsListed, HomeFacts, NodeFacts
  <2>3. value'[n] # NULL /\ \A m \in Nodes \ {n} : value'[m] = value[m]
    <3>1. Own(n) \in Nat /\ Total(ChildValues(n)) \in Nat
      <4>1. Own(n) \in Nat
          BY <2>2, NodeFacts, SizeAssumption DEF Own
      <4> QED
          BY <2>1, <2>2, <4>1, ChildUnits DEF Drawing
    <3> DEFINE sum == Own(n) + Total(ChildValues(n))
    <3>2. sum # NULL
      <4>1. sum \in Nat
          BY <3>1
      <4> HIDE DEF sum
      <4> QED
          BY <4>1, NullAssumption
    <3>3. value' = [value EXCEPT ![n] = sum] /\ value \in [Nodes -> Nat \union {NULL}]
        BY <2>1 DEF Drawing, BuildTypes
    <3> HIDE DEF sum
    <3> QED
        BY <2>2, <3>2, <3>3
  <2>4. Unsummed' = Unsummed \ {n} /\ n \in Unsummed
      BY <2>1, <2>2, <2>3 DEF Unsummed, Listed
  <2>5. unsummed' = unsummed - 1
      BY <2>4, StepsFacts, FS_RemoveElement DEF Drawing, unsummed
  <2> QED
      BY <1>1, <1>2, <1>3, <1>4, <2>1, <2>5 DEF StagesLeft
<1> QED
    BY <1>5, <1>6, <1>7, <1>8, <1>9 DEF BuildStep

\* treemap.dart:55-82, proc_tree.dart:36-97: each step of a build, whatever the
\* list, leaves less to do, and what is left is a number: no cycle of parents makes
\* _setDepth go round, and no sum waits for ever.
THEOREM BuildIsProgress == MapSpec => BuildProgresses
<1> DEFINE Inv == Reader /\ Tree /\ Drawing /\ Shape
<1>1. MapInit => MetOnce
    BY DEF MapInit, Init, MetOnce
<1>2. Inv /\ MetOnce /\ [MapNext]_<<vars, csvVars>> => MetOnce'
    BY NextMetOnce
<1>3. ASSUME Inv, Inv', MetOnce, [MapNext]_<<vars, csvVars>>
      PROVE  [stage # "idle" => StepsLeft' \in 0..(StepsLeft - 1)]_vars
  <2> SUFFICES ASSUME stage # "idle", ~ UNCHANGED vars PROVE StepsLeft' \in 0..(StepsLeft - 1)
      OBVIOUS
  <2>1. BuildStep
      BY <1>3 DEF MapNext, Draw, BuildCsv, BuildLive, Build, ReadCsv, vars
  <2> QED
      BY <1>3, <2>1, StepProgress DEF Drawing
<1> QED
    BY <1>1, <1>2, <1>3, DrawingInv, PTL DEF MapSpec, BuildProgresses


\* While the root waits for its sum, some node waits for no child.
SumsGoOn ==
    stage = "sum" /\ value[RootPid] = NULL =>
        \E n \in Shown : value[n] = NULL /\ \A c \in ToSet(children[n]) : value[c] # NULL

\* There is less below a child than below its parent.
LEMMA LessBelow ==
    ASSUME Tree, Drawing, stage = "sum", NEW n \in Shown, NEW c \in ToSet(children[n])
    PROVE  /\ c \in Shown
           /\ Cardinality(Below(n)) \in Nat /\ Cardinality(Below(c)) \in Nat
           /\ Cardinality(Below(c)) < Cardinality(Below(n))
<1>1. c \in Shown /\ n \in Nodes
    BY ShownFacts DEF Holds
<1>2. c \in Listed /\ Home(c) = n
    BY <1>1 DEF Drawing, AtHome, Placed
<1>3. /\ Below(n) \subseteq Listed /\ Below(c) \subseteq Listed
      /\ \A q \in Listed : Home(q) \in Below(n) \union {n} => q \in Below(n)
      /\ \A S \in SUBSET Listed : GathersAt(c, S) => Below(c) \subseteq S
    BY BelowFacts DEF GathersAt
<1>4. c \in Below(n)
    BY <1>2, <1>3
<1>5. Below(c) \subseteq Below(n)
  <2>1. GathersAt(c, Below(n))
      BY <1>3, <1>4 DEF GathersAt
  <2> QED
      BY <1>3, <2>1
<1>6. c \notin Below(c)
    BY <1>1, BelowIsDeeper
<1>7. IsFiniteSet(Listed)
  <2>1. items.order \in Seq(AllPids) /\ Distinct(items.order)
      BY DEF Tree, TreeTypes, List, Distinct
  <2> QED
      BY <2>1, DistinctCount DEF Listed
<1>8. IsFiniteSet(Below(n)) /\ IsFiniteSet(Below(c))
    BY <1>3, <1>7, FS_Subset
<1>9. Cardinality(Below(n)) \in Nat /\ Cardinality(Below(c)) \in Nat
    BY <1>8, FS_CardinalityType
<1>10. Cardinality(Below(c)) <= Cardinality(Below(n)) /\ Cardinality(Below(c)) # Cardinality(Below(n))
    BY <1>4, <1>5, <1>6, <1>8, FS_Subset
<1> QED
    BY <1>1, <1>9, <1>10

\* treemap.dart:71: sum never finds every node waiting for a child, although the
\* parents of the list may form a cycle: one with as few nodes below it as any
\* that waits has no child that waits.
THEOREM SumIsPossible == MapSpec => []SumsGoOn
<1>1. ASSUME Tree, Drawing PROVE SumsGoOn
  <2> SUFFICES ASSUME stage = "sum", value[RootPid] = NULL
               PROVE  \E n \in Shown : value[n] = NULL /\ \A c \in ToSet(children[n]) : value[c] # NULL
      BY DEF SumsGoOn
  <2> SUFFICES ASSUME \A n \in Shown : value[n] = NULL => \E c \in ToSet(children[n]) : value[c] = NULL
               PROVE  FALSE
      OBVIOUS
  <2> DEFINE waiting == {n \in Shown : value[n] = NULL}
             sizes == {Cardinality(Below(n)) : n \in waiting}
  <2>1. RootPid \in waiting
      BY <1>1, ShownFacts DEF Holds
  <2>2. \A n \in waiting : \E c \in waiting :
            /\ Cardinality(Below(n)) \in Nat
            /\ Cardinality(Below(c)) < Cardinality(Below(n))
      BY <1>1, LessBelow
  <2> HIDE DEF waiting
  <2>3. sizes \in SUBSET Nat /\ sizes # {}
      BY <2>1, <2>2
  <2>4. PICK m \in sizes : \A k \in sizes : m <= k
    <3> HIDE DEF sizes
    <3> QED
        BY <2>3, Least
  <2>5. PICK n \in waiting : m = Cardinality(Below(n))
      OBVIOUS
  <2>6. PICK c \in waiting : Cardinality(Below(c)) < Cardinality(Below(n))
      BY <2>2
  <2>7. Cardinality(Below(c)) \in sizes
      OBVIOUS
  <2> HIDE DEF sizes
  <2>8. m <= Cardinality(Below(c)) /\ Cardinality(Below(c)) < m
      BY <2>4, <2>5, <2>6, <2>7
  <2>9. m \in Nat /\ Cardinality(Below(c)) \in Nat
      BY <2>3, <2>4, <2>7
  <2> QED
      BY <2>8, <2>9
<1> QED
    BY <1>1, DrawingInv, PTL
=============================================================================
