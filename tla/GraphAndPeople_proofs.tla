------------------------ MODULE GraphAndPeople_proofs -----------------------
(* The relation graph for any facts, entities and batch size: no edge loses   *)
(* an end, and a graph that is ready shows the facts. Then the directory of   *)
(* people for any names: what is in it stands, and captures give no name away.*)
EXTENDS MemoryGraph, ActorRegistry, FiniteSetTheorems, FunctionTheorems, SequenceTheorems, TLAPS

-----------------------------------------------------------------------------
(* The inductive invariant.                                                  *)
Edges == SUBSET (GraphFacts \X (1..MaxRevisions))
Projections == [GraphRows -> Edges]
StoredRows == [GraphRows -> [value : Edges, writes : Nat]]
Resting == [pc : {"idle", "queued", "facts"}]
Reading == [pc : {"rows"}, want : Projections, try : 0..1]
Writing == [pc : {"write"}, want : Projections, try : 0..1, seen : StoredRows, left : Seq(GraphRows)]

StateShape ==
    /\ revisions \in [GraphFacts -> 0..MaxRevisions]
    /\ rows \in StoredRows
    /\ graphTasks \in [Rebuilders -> Resting \cup Reading \cup Writing]
    /\ graphTasks["user"].pc # "queued"
    /\ scheduled <=> graphTasks["scheduled"].pc # "idle"
    /\ phase \in {"idle", "queued", "rebuilding", "ready", "degraded"}
    /\ {scheduled, dirty, enabled, unannounced, overlapped} \subseteq BOOLEAN
    /\ changes \in Nat

(* Until two rebuilds cross, one is in flight at a time. *)
OneInFlight == ~overlapped => ~(InFlight("scheduled") /\ InFlight("user"))

(* Whoever wants an edge wants its ends.                                   *)
Hangs(want) == \A f \in GraphFacts : want[f] # {} => \A e \in FactEnds[f] : want[e] # {}
WantsHang == \A b \in Rebuilders : graphTasks[b].pc \in {"rows", "write"} => Hangs(graphTasks[b].want)

(* The order of the operations: nodes, edges, edges to go, nodes to go.    *)
Turn(want, g) == IF want[g] # {} THEN IF g \in Entities THEN 1 ELSE 2
                 ELSE IF g \in GraphFacts THEN 3 ELSE 4
Sorted(want, s) == \A i, j \in DOMAIN s : i < j => s[i] # s[j] /\ Turn(want, s[i]) <= Turn(want, s[j])
Has(s, g) == \E i \in DOMAIN s : s[i] = g
Rest(want, s) == \A g \in GraphRows : rows[g].value # want[g] <=> Has(s, g)

(* What a rebuild that nobody crossed has left is in order, and it is all  *)
(* that differs from what it wants.                                        *)
LeftIsRest ==
    ~overlapped => \A b \in Rebuilders : graphTasks[b].pc = "write" =>
                      Sorted(graphTasks[b].want, graphTasks[b].left) /\ Rest(graphTasks[b].want, graphTasks[b].left)

(* Whoever announced a change can rely on a rebuild: one is due, one under *)
(* way knows the facts, or none is and the graph is current or not ready.  *)
Due == \/ graphTasks["scheduled"].pc \in {"queued", "facts"}
       \/ dirty /\ graphTasks["scheduled"].pc # "idle"
KnowsFacts(b) == \/ graphTasks[b].pc = "facts"
                 \/ /\ graphTasks[b].pc \in {"rows", "write"}
                    /\ graphTasks[b].want = deriveMemoryGraphProjection(revisions)
Shows == [g \in GraphRows |-> rows[g].value] = deriveMemoryGraphProjection(revisions)
Quiet == \A b \in Rebuilders : graphTasks[b].pc = "idle"
Promised ==
    enabled /\ ~unannounced /\ ~overlapped =>
        Due \/ (\E b \in Rebuilders : KnowsFacts(b)) \/ (Quiet /\ (Shows \/ phase # "ready"))

GraphInv == /\ StateShape /\ OneInFlight /\ WantsHang /\ LeftIsRest /\ NoDanglingEdge /\ Promised

-----------------------------------------------------------------------------
(* The order of the operations.                                              *)

(* Entities are not facts, and there are finitely many rows. *)
LEMMA RowSets == /\ Entities \cap GraphFacts = {} /\ GraphRows = GraphFacts \cup Entities
                 /\ \A f \in GraphFacts : FactEnds[f] \subseteq Entities
                 /\ IsFiniteSet(GraphFacts) /\ IsFiniteSet(Entities)
<1>1. Entities \cap GraphFacts = {} /\ \A f \in GraphFacts : FactEnds[f] \subseteq Entities
  BY GraphShape DEF Entities
<1>2. IsFiniteSet(Entities)
  <2> DEFINE ends == {FactEnds[f] : f \in GraphFacts}
             of == [f \in GraphFacts |-> FactEnds[f]]
  <2>1. of \in Surjection(GraphFacts, ends)
    BY DEF Surjection
  <2>2. IsFiniteSet(ends)
    BY <2>1, GraphShape, FS_Surjection
  <2>3. \A T \in ends : IsFiniteSet(T)
    BY GraphShape
  <2> HIDE DEF ends
  <2>4. IsFiniteSet(UNION ends)
    BY <2>2, <2>3, FS_UNION
  <2>5. QED
    BY <2>4 DEF Entities, ends
<1>3. QED
  BY <1>1, <1>2, GraphShape DEF GraphRows

(* A set as a sequence: every element once. *)
LEMMA SetInOrder ==
    ASSUME NEW S, IsFiniteSet(S)
    PROVE  /\ SetToSeq(S) \in Seq(S)
           /\ \A i, j \in DOMAIN SetToSeq(S) : SetToSeq(S)[i] = SetToSeq(S)[j] => i = j
           /\ \A g : Has(SetToSeq(S), g) <=> g \in S
<1> DEFINE n == Cardinality(S)
           s == SetToSeq(S)
<1>1. n \in Nat /\ Bijection(1..n, S) # {}
  BY FS_CardinalityType DEF ExistsBijection
<1>2. \E f \in [1..n -> S] : IsInjective(f)
  BY <1>1 DEF Bijection, Injection
<1>3. s \in [1..n -> S] /\ IsInjective(s)
  BY <1>2 DEF SetToSeq
<1>4. s \in Injection(1..n, S)
  BY <1>3 DEF Injection
<1>5. Cardinality(1..n) = n
  BY <1>1, FS_Interval
<1>6. s \in Surjection(1..n, S)
  BY <1>4, <1>5, FS_Injection
<1>7. \A g \in S : \E i \in 1..n : s[i] = g
  BY <1>6 DEF Surjection
<1> HIDE DEF n, s
<1>8. s \in Seq(S) /\ DOMAIN s = 1..n
  BY <1>1, <1>3
<1>9. \A i, j \in DOMAIN s : s[i] = s[j] => i = j
  BY <1>3 DEF IsInjective
<1>10. \A g : Has(s, g) <=> g \in S
  BY <1>3, <1>7, <1>8 DEF Has
<1>11. QED
  BY <1>8, <1>9, <1>10 DEF s

UpTo(want, s, n) == \A i \in DOMAIN s : Turn(want, s[i]) <= n

(* Rows of one turn, in any order. *)
LEMMA TurnInOrder ==
    ASSUME NEW want, NEW S, S \subseteq GraphRows, NEW n \in 1..4, \A g \in S : Turn(want, g) = n
    PROVE  /\ SetToSeq(S) \in Seq(GraphRows) /\ Sorted(want, SetToSeq(S))
           /\ \A i \in DOMAIN SetToSeq(S) : Turn(want, SetToSeq(S)[i]) = n
           /\ \A g : Has(SetToSeq(S), g) <=> g \in S
<1> DEFINE s == SetToSeq(S)
<1>1. IsFiniteSet(GraphRows)
  BY RowSets, FS_Union
<1>2. IsFiniteSet(S)
  BY <1>1, FS_Subset
<1>3. /\ s \in Seq(S) /\ \A i, j \in DOMAIN s : s[i] = s[j] => i = j
      /\ \A g : Has(s, g) <=> g \in S
  BY <1>2, SetInOrder
<1> HIDE DEF s
<1>4. \A i \in DOMAIN s : s[i] \in S
  BY <1>3
<1>5. s \in Seq(GraphRows)
  BY <1>3
<1>6. \A i \in DOMAIN s : Turn(want, s[i]) = n
  BY <1>4
<1>7. DOMAIN s \subseteq Nat
  BY <1>3
<1>8. Sorted(want, s)
  <2>1. SUFFICES ASSUME NEW i \in DOMAIN s, NEW j \in DOMAIN s, i < j
                 PROVE  s[i] # s[j] /\ Turn(want, s[i]) <= Turn(want, s[j])
    BY DEF Sorted
  <2>2. i # j /\ Turn(want, s[i]) = n /\ Turn(want, s[j]) = n
    BY <1>6, <1>7, <2>1
  <2>3. QED
    BY <1>3, <2>2
<1>9. QED
  BY <1>3, <1>5, <1>6, <1>8 DEF s

(* Operations of a later turn after those of earlier ones. *)
LEMMA TurnsJoined ==
    ASSUME NEW want, NEW s \in Seq(GraphRows), NEW t \in Seq(GraphRows), NEW n \in 0..3,
           Sorted(want, s), Sorted(want, t), UpTo(want, s, n), \A i \in DOMAIN t : Turn(want, t[i]) = n + 1
    PROVE  /\ s \o t \in Seq(GraphRows) /\ Sorted(want, s \o t) /\ UpTo(want, s \o t, n + 1)
           /\ \A g : Has(s \o t, g) <=> Has(s, g) \/ Has(t, g)
<1> DEFINE u == s \o t
<1>1. /\ u \in Seq(GraphRows) /\ Len(u) = Len(s) + Len(t)
      /\ DOMAIN u = 1..Len(u) /\ DOMAIN s = 1..Len(s) /\ DOMAIN t = 1..Len(t)
      /\ Len(s) \in Nat /\ Len(t) \in Nat
  OBVIOUS
<1>2. /\ \A i \in 1..Len(s) : u[i] = s[i]
      /\ \A i \in 1..Len(t) : u[i + Len(s)] = t[i]
      /\ \A i \in 1..Len(u) : i > Len(s) => i - Len(s) \in 1..Len(t) /\ u[i] = t[i - Len(s)]
  BY <1>1
<1> HIDE DEF u
<1>3. \A g : Turn(want, g) \in 1..4
  BY DEF Turn
<1>4. UpTo(want, u, n + 1)
  <2>1. SUFFICES ASSUME NEW i \in 1..Len(u) PROVE Turn(want, u[i]) <= n + 1
    BY <1>1 DEF UpTo
  <2>2. CASE i <= Len(s)
    <3>1. i \in DOMAIN s /\ u[i] = s[i]
      BY <1>1, <1>2, <2>2
    <3>2. Turn(want, s[i]) <= n /\ Turn(want, s[i]) \in 1..4
      BY <1>3, <3>1 DEF UpTo
    <3>3. QED
      BY <3>1, <3>2
  <2>3. CASE i > Len(s)
    <3>1. i - Len(s) \in DOMAIN t /\ u[i] = t[i - Len(s)]
      BY <1>1, <1>2, <2>3
    <3>2. Turn(want, t[i - Len(s)]) = n + 1
      BY <3>1
    <3>3. QED
      BY <3>1, <3>2
  <2>4. QED
    BY <1>1, <2>2, <2>3
<1>5. Sorted(want, u)
  <2>1. SUFFICES ASSUME NEW i \in 1..Len(u), NEW j \in 1..Len(u), i < j
                 PROVE  u[i] # u[j] /\ Turn(want, u[i]) <= Turn(want, u[j])
    BY <1>1 DEF Sorted
  <2>2. CASE j <= Len(s)
    <3>1. i \in DOMAIN s /\ j \in DOMAIN s /\ u[i] = s[i] /\ u[j] = s[j]
      BY <1>1, <1>2, <2>1, <2>2
    <3>2. QED
      BY <2>1, <3>1 DEF Sorted
  <2>3. CASE i > Len(s)
    <3>1. /\ i - Len(s) \in DOMAIN t /\ j - Len(s) \in DOMAIN t /\ i - Len(s) < j - Len(s)
          /\ u[i] = t[i - Len(s)] /\ u[j] = t[j - Len(s)]
      BY <1>1, <1>2, <2>1, <2>3
    <3>2. QED
      BY <3>1 DEF Sorted
  <2>4. CASE i <= Len(s) /\ j > Len(s)
    <3>1. i \in DOMAIN s /\ u[i] = s[i] /\ j - Len(s) \in DOMAIN t /\ u[j] = t[j - Len(s)]
      BY <1>1, <1>2, <2>4
    <3>2. Turn(want, u[i]) <= n /\ Turn(want, u[j]) = n + 1
      BY <3>1 DEF UpTo
    <3>3. Turn(want, u[i]) \in 1..4
      BY <1>3
    <3>4. QED
      BY <3>2, <3>3
  <2>5. QED
    BY <1>1, <2>2, <2>3, <2>4
<1>6. ASSUME NEW g PROVE Has(u, g) <=> Has(s, g) \/ Has(t, g)
  <2>1. ASSUME Has(u, g) PROVE Has(s, g) \/ Has(t, g)
    <3>1. PICK i \in 1..Len(u) : u[i] = g
      BY <1>1, <2>1 DEF Has
    <3>2. CASE i <= Len(s)
      BY <1>1, <1>2, <3>1, <3>2 DEF Has
    <3>3. CASE i > Len(s)
      BY <1>1, <1>2, <3>1, <3>3 DEF Has
    <3>4. QED
      BY <1>1, <3>2, <3>3
  <2>2. ASSUME Has(s, g) PROVE Has(u, g)
    BY <1>1, <1>2, <2>2 DEF Has
  <2>3. ASSUME Has(t, g) PROVE Has(u, g)
    <3>1. PICK i \in 1..Len(t) : t[i] = g
      BY <1>1, <2>3 DEF Has
    <3>2. i + Len(s) \in 1..Len(u) /\ u[i + Len(s)] = g
      BY <1>1, <1>2, <3>1
    <3>3. QED
      BY <1>1, <3>2 DEF Has
  <2>4. QED
    BY <2>1, <2>2, <2>3
<1>7. QED
  BY <1>1, <1>4, <1>5, <1>6 DEF u

Changed(want, set) == {g \in set : want[g] # {} /\ rows[g].value # want[g]}
Gone(want, set) == {g \in set : want[g] = {} /\ rows[g].value # {}}

(* What a reconciliation does: all that differs, nodes before their edges,   *)
(* and edges that go before their nodes.                                     *)
LEMMA OperationsFit ==
    ASSUME NEW want
    PROVE  /\ Operations(want) \in Seq(GraphRows) /\ Sorted(want, Operations(want))
           /\ Rest(want, Operations(want))
<1> DEFINE a == SetToSeq(Changed(want, Entities))
           b == SetToSeq(Changed(want, GraphFacts))
           c == SetToSeq(Gone(want, GraphFacts))
           d == SetToSeq(Gone(want, Entities))
<1>1. Operations(want) = ((a \o b) \o c) \o d
  BY DEF Operations, Changed, Gone
<1>2. /\ \A g \in Changed(want, Entities) : Turn(want, g) = 1
      /\ \A g \in Changed(want, GraphFacts) : Turn(want, g) = 2
      /\ \A g \in Gone(want, GraphFacts) : Turn(want, g) = 3
      /\ \A g \in Gone(want, Entities) : Turn(want, g) = 4
      /\ Changed(want, Entities) \subseteq GraphRows /\ Changed(want, GraphFacts) \subseteq GraphRows
      /\ Gone(want, Entities) \subseteq GraphRows /\ Gone(want, GraphFacts) \subseteq GraphRows
      /\ 1 \in 1..4 /\ 2 \in 1..4 /\ 3 \in 1..4 /\ 4 \in 1..4
  BY RowSets DEF Changed, Gone, Turn
<1>3. /\ a \in Seq(GraphRows) /\ Sorted(want, a) /\ \A i \in DOMAIN a : Turn(want, a[i]) = 1
      /\ \A g : Has(a, g) <=> g \in Changed(want, Entities)
  BY <1>2, TurnInOrder
<1>4. /\ b \in Seq(GraphRows) /\ Sorted(want, b) /\ \A i \in DOMAIN b : Turn(want, b[i]) = 2
      /\ \A g : Has(b, g) <=> g \in Changed(want, GraphFacts)
  BY <1>2, TurnInOrder
<1>5. /\ c \in Seq(GraphRows) /\ Sorted(want, c) /\ \A i \in DOMAIN c : Turn(want, c[i]) = 3
      /\ \A g : Has(c, g) <=> g \in Gone(want, GraphFacts)
  <2> DEFINE S == Gone(want, GraphFacts)
             n == 3
  <2>1. S \subseteq GraphRows /\ n \in 1..4 /\ \A g \in S : Turn(want, g) = n
    BY <1>2
  <2> HIDE DEF S, n
  <2>2. /\ SetToSeq(S) \in Seq(GraphRows) /\ Sorted(want, SetToSeq(S))
        /\ \A i \in DOMAIN SetToSeq(S) : Turn(want, SetToSeq(S)[i]) = n
        /\ \A g : Has(SetToSeq(S), g) <=> g \in S
    BY <2>1, TurnInOrder
  <2>3. QED
    BY <2>2 DEF S, n
<1>6. /\ d \in Seq(GraphRows) /\ Sorted(want, d) /\ \A i \in DOMAIN d : Turn(want, d[i]) = 4
      /\ \A g : Has(d, g) <=> g \in Gone(want, Entities)
  <2> DEFINE S == Gone(want, Entities)
             n == 4
  <2>1. S \subseteq GraphRows /\ n \in 1..4 /\ \A g \in S : Turn(want, g) = n
    BY <1>2
  <2> HIDE DEF S, n
  <2>2. /\ SetToSeq(S) \in Seq(GraphRows) /\ Sorted(want, SetToSeq(S))
        /\ \A i \in DOMAIN SetToSeq(S) : Turn(want, SetToSeq(S)[i]) = n
        /\ \A g : Has(SetToSeq(S), g) <=> g \in S
    BY <2>1, TurnInOrder
  <2>3. QED
    BY <2>2 DEF S, n
<1> HIDE DEF a, b, c, d
<1>7. UpTo(want, a, 1)
  BY <1>3 DEF UpTo
<1>8. /\ a \o b \in Seq(GraphRows) /\ Sorted(want, a \o b) /\ UpTo(want, a \o b, 1 + 1)
      /\ \A g : Has(a \o b, g) <=> Has(a, g) \/ Has(b, g)
  BY <1>3, <1>4, <1>7, TurnsJoined
<1> DEFINE ab == a \o b
<1>9. ab \in Seq(GraphRows) /\ Sorted(want, ab) /\ UpTo(want, ab, 2)
  BY <1>8
<1> HIDE DEF ab
<1>10. /\ ab \o c \in Seq(GraphRows) /\ Sorted(want, ab \o c) /\ UpTo(want, ab \o c, 2 + 1)
       /\ \A g : Has(ab \o c, g) <=> Has(ab, g) \/ Has(c, g)
  BY <1>5, <1>9, TurnsJoined
<1> DEFINE abc == ab \o c
<1>11. abc \in Seq(GraphRows) /\ Sorted(want, abc) /\ UpTo(want, abc, 3)
  BY <1>10
<1> HIDE DEF abc
<1>12. /\ abc \o d \in Seq(GraphRows) /\ Sorted(want, abc \o d)
       /\ \A g : Has(abc \o d, g) <=> Has(abc, g) \/ Has(d, g)
  BY <1>6, <1>11, TurnsJoined
<1>13. Operations(want) = abc \o d
  BY <1>1 DEF abc, ab
<1>14. ASSUME NEW g \in GraphRows PROVE rows[g].value # want[g] <=> Has(abc \o d, g)
  <2>1. Has(abc \o d, g) <=> Has(a, g) \/ Has(b, g) \/ Has(c, g) \/ Has(d, g)
    BY <1>8, <1>10, <1>12 DEF abc, ab
  <2>2. Has(a, g) \/ Has(b, g) <=> want[g] # {} /\ rows[g].value # want[g]
    BY <1>3, <1>4, RowSets DEF Changed
  <2>3. Has(c, g) \/ Has(d, g) <=> want[g] = {} /\ rows[g].value # {}
    BY <1>5, <1>6, RowSets DEF Gone
  <2>4. QED
    BY <2>1, <2>2, <2>3
<1>15. QED
  BY <1>12, <1>13, <1>14 DEF Rest

-----------------------------------------------------------------------------
(* The projection.                                                           *)

LEMMA ProjectionHangs ==
    ASSUME NEW facts \in [GraphFacts -> 0..MaxRevisions]
    PROVE  /\ deriveMemoryGraphProjection(facts) \in Projections
           /\ Hangs(deriveMemoryGraphProjection(facts))
<1> DEFINE want == deriveMemoryGraphProjection(facts)
<1>1. /\ \A f \in GraphFacts : want[f] = {<<h, facts[h]>> : h \in Backing(facts) \cap {f}}
      /\ \A e \in Entities : want[e] = {<<h, facts[h]>> : h \in {k \in Backing(facts) : e \in FactEnds[k]}}
  BY RowSets DEF deriveMemoryGraphProjection
<1>2. \A h \in Backing(facts) : h \in GraphFacts /\ facts[h] \in 1..MaxRevisions
  BY GraphShape DEF Backing
<1>3. want \in Projections
  <2>1. \A g \in GraphRows : want[g] \in Edges
    BY <1>1, <1>2, RowSets DEF Edges
  <2>2. QED
    BY <2>1 DEF Projections, deriveMemoryGraphProjection
<1>4. ASSUME NEW f \in GraphFacts, want[f] # {}, NEW e \in FactEnds[f] PROVE want[e] # {}
  <2>1. f \in Backing(facts)
    BY <1>1, <1>4
  <2>2. <<f, facts[f]>> \in want[e]
    BY <1>1, <2>1, RowSets
  <2>3. QED
    BY <2>2
<1>5. QED
  BY <1>3, <1>4 DEF Hangs

-----------------------------------------------------------------------------
(* The tasks.                                                                *)
Tasks == Resting \cup Reading \cup Writing

LEMMA TaskFacts ==
    ASSUME NEW t \in Tasks
    PROVE  /\ t.pc \in {"idle", "queued", "facts", "rows", "write"}
           /\ t.pc \in {"idle", "queued", "facts"} => t \in Resting
           /\ t.pc = "rows" => t \in Reading /\ t.want \in Projections /\ t.try \in 0..1
           /\ t.pc = "write" => /\ t \in Writing /\ t.want \in Projections /\ t.try \in 0..1
                                /\ t.seen \in StoredRows /\ t.left \in Seq(GraphRows)
<1>1. CASE t \in Resting
  BY <1>1 DEF Resting
<1>2. CASE t \in Reading
  BY <1>2 DEF Reading
<1>3. CASE t \in Writing
  BY <1>3 DEF Writing
<1>4. QED
  BY <1>1, <1>2, <1>3 DEF Tasks

LEMMA TasksThere ==
    ASSUME StateShape, NEW b \in Rebuilders
    PROVE  graphTasks[b] \in Tasks /\ Rebuilders = {"scheduled", "user"}
  BY DEF StateShape, Tasks, Rebuilders

(* The two rebuilders. *)
LEMMA TheOther ==
    ASSUME NEW b \in Rebuilders
    PROVE  /\ Others(b) = {IF b = "user" THEN "scheduled" ELSE "user"}
           /\ \A c \in Rebuilders : c = b \/ c \in Others(b)
  BY DEF Others, Rebuilders

-----------------------------------------------------------------------------
LEMMA InitGraph == GraphInit => GraphInv
<1> SUFFICES ASSUME GraphInit PROVE GraphInv
  OBVIOUS
<1>1. /\ graphTasks = [b \in Rebuilders |-> [pc |-> "idle"]] /\ rows = [g \in GraphRows |-> [value |-> {}, writes |-> 0]]
      /\ \A b \in Rebuilders : graphTasks[b].pc = "idle"
  BY DEF GraphInit, AtRest, NoRow
<1>2. StateShape
  <2>1. rows \in StoredRows
    BY <1>1 DEF StoredRows, Edges
  <2>2. graphTasks \in [Rebuilders -> Resting \cup Reading \cup Writing]
    BY <1>1 DEF Resting
  <2>3. revisions \in [GraphFacts -> 0..MaxRevisions]
    BY GraphShape DEF GraphInit
  <2>4. "scheduled" \in Rebuilders /\ "user" \in Rebuilders
    BY DEF Rebuilders
  <2>5. QED
    BY <1>1, <2>1, <2>2, <2>3, <2>4 DEF StateShape, GraphInit
<1>3. "scheduled" \in Rebuilders /\ "user" \in Rebuilders
  BY DEF Rebuilders
<1>4. OneInFlight /\ WantsHang /\ LeftIsRest
  BY <1>1, <1>3 DEF OneInFlight, InFlight, WantsHang, LeftIsRest
<1>5. NoDanglingEdge
  BY <1>1, RowSets DEF NoDanglingEdge
<1>6. Promised
  BY <1>1 DEF Promised, Quiet, GraphInit
<1>7. QED
  BY <1>2, <1>4, <1>5, <1>6 DEF GraphInv

LEMMA GraphInvSuffices == GraphInv => GraphFollowsFacts
<1> SUFFICES ASSUME GraphInv PROVE GraphTypeOK /\ ReadyIsCurrent
  BY DEF GraphFollowsFacts, GraphInv
<1>1. GraphTypeOK
  <2>1. \A g \in GraphRows : rows[g].value \subseteq GraphFacts \X (1..MaxRevisions)
    BY DEF GraphInv, StateShape, StoredRows, Edges
  <2>2. \A b \in Rebuilders : graphTasks[b].pc \in {"idle", "queued", "facts", "rows", "write"}
    BY TasksThere, TaskFacts DEF GraphInv
  <2>3. QED
    BY <2>1, <2>2 DEF GraphInv, StateShape, GraphTypeOK
<1>2. ASSUME phase = "ready", enabled, ~unannounced, ~overlapped, \A b \in Rebuilders : graphTasks[b].pc = "idle"
      PROVE  Shows
  <2>1. ~Due /\ ~\E b \in Rebuilders : KnowsFacts(b)
    BY <1>2 DEF Due, KnowsFacts, Rebuilders
  <2>2. QED
    BY <1>2, <2>1 DEF GraphInv, Promised
<1>3. QED
  BY <1>1, <1>2 DEF ReadyIsCurrent, Shows

-----------------------------------------------------------------------------
(* Steps that leave the rows alone.                                          *)

(* One task takes another step. *)
LEMMA TaskSet ==
    ASSUME GraphInv, NEW b \in Rebuilders, NEW t \in Tasks,
           graphTasks' = [graphTasks EXCEPT ![b] = t], rows' = rows, overlapped => overlapped',
           b = "user" => t.pc # "queued",
           t.pc \in {"rows", "write"} => Hangs(t.want),
           t.pc = "write" /\ ~overlapped' => Sorted(t.want, t.left) /\ Rest(t.want, t.left),
           t.pc \notin {"idle", "queued"} /\ ~overlapped' => InFlight(b) \/ \A c \in Others(b) : ~InFlight(c)
    PROVE  /\ graphTasks' \in [Rebuilders -> Tasks] /\ graphTasks'[b] = t
           /\ \A c \in Rebuilders \ {b} : graphTasks'[c] = graphTasks[c]
           /\ graphTasks'["user"].pc # "queued"
           /\ OneInFlight' /\ WantsHang' /\ LeftIsRest' /\ NoDanglingEdge'
<1>1. graphTasks \in [Rebuilders -> Tasks]
  BY DEF GraphInv, StateShape, Tasks
<1>2. /\ graphTasks' \in [Rebuilders -> Tasks] /\ graphTasks'[b] = t
      /\ \A c \in Rebuilders \ {b} : graphTasks'[c] = graphTasks[c]
  BY <1>1
<1>3. "user" \in Rebuilders /\ "scheduled" \in Rebuilders /\ b \in {"user", "scheduled"}
  BY DEF Rebuilders
<1>4. graphTasks'["user"].pc # "queued"
  BY <1>2, <1>3 DEF GraphInv, StateShape
<1>5. ASSUME ~overlapped' PROVE ~(InFlight("scheduled") /\ InFlight("user"))'
  <2>1. /\ InFlight(b)' => InFlight(b) \/ \A c \in Others(b) : ~InFlight(c)
        /\ \A c \in Rebuilders \ {b} : InFlight(c)' <=> InFlight(c)
    BY <1>2, <1>5 DEF InFlight
  <2>2. ~overlapped /\ ~(InFlight("scheduled") /\ InFlight("user"))
    BY <1>5 DEF GraphInv, OneInFlight
  <2>3. QED
    BY <1>3, <2>1, <2>2, TheOther DEF Rebuilders
<1>6. WantsHang'
  <2>1. SUFFICES ASSUME NEW c \in Rebuilders, graphTasks'[c].pc \in {"rows", "write"}
                 PROVE  Hangs(graphTasks'[c].want)
    BY DEF WantsHang, Hangs
  <2>2. CASE c = b
    BY <1>2, <2>1, <2>2
  <2>3. CASE c # b
    BY <1>2, <2>1, <2>3 DEF GraphInv, WantsHang
  <2>4. QED
    BY <2>2, <2>3
<1>7. \A want, s : Rest(want, s)' <=> Rest(want, s)
  BY DEF Rest
<1>8. LeftIsRest'
  <2>1. SUFFICES ASSUME ~overlapped', NEW c \in Rebuilders, graphTasks'[c].pc = "write"
                 PROVE  /\ Sorted(graphTasks'[c].want, graphTasks'[c].left)
                        /\ Rest(graphTasks'[c].want, graphTasks'[c].left)
    BY DEF LeftIsRest, Sorted, Turn, Rest
  <2>2. CASE c = b
    BY <1>2, <2>1, <2>2
  <2>3. CASE c # b
    BY <1>2, <2>1, <2>3 DEF GraphInv, LeftIsRest
  <2>4. QED
    BY <2>2, <2>3
<1>9. NoDanglingEdge'
  BY DEF GraphInv, NoDanglingEdge
<1>10. QED
  BY <1>2, <1>4, <1>5, <1>6, <1>8, <1>9 DEF OneInFlight

LEMMA TasksStay ==
    ASSUME GraphInv, UNCHANGED <<graphTasks, rows, overlapped>>
    PROVE  OneInFlight' /\ WantsHang' /\ LeftIsRest' /\ NoDanglingEdge'
  BY DEF GraphInv, OneInFlight, InFlight, WantsHang, Hangs, LeftIsRest, Sorted, Turn, Rest, NoDanglingEdge

LEMMA ChangesFacts ==
    ASSUME GraphInv, NEW f \in GraphFacts, ChangeFacts(f) PROVE GraphInv'
<1>1. /\ changes < MaxRevisions /\ changes' = changes + 1 /\ unannounced' = TRUE
      /\ UNCHANGED <<rows, scheduled, dirty, enabled, phase, graphTasks, overlapped>>
  BY DEF ChangeFacts
<1>2. PICK r \in {0, changes + 1} \ {revisions[f]} : revisions' = [revisions EXCEPT ![f] = r]
  BY DEF ChangeFacts
<1>3. r \in 0..MaxRevisions
  BY <1>1, <1>2, GraphShape DEF GraphInv, StateShape
<1>4. revisions' \in [GraphFacts -> 0..MaxRevisions]
  BY <1>2, <1>3 DEF GraphInv, StateShape
<1>5. StateShape'
  BY <1>1, <1>4 DEF GraphInv, StateShape
<1>6. Promised'
  BY <1>1 DEF Promised
<1>7. QED
  BY <1>1, <1>5, <1>6, TasksStay DEF GraphInv

(* Scheduling leaves a rebuild due.                                          *)
LEMMA Schedules ==
    ASSUME GraphInv, Scheduled, UNCHANGED <<revisions, rows, overlapped, changes>>,
           enabled' \in BOOLEAN, unannounced' \in BOOLEAN
    PROVE  GraphInv'
<1>1. CASE scheduled
  <2>1. dirty' = TRUE /\ UNCHANGED <<scheduled, phase, graphTasks>>
    BY <1>1 DEF Scheduled
  <2>2. StateShape'
    BY <2>1 DEF GraphInv, StateShape
  <2>3. Due'
    BY <1>1, <2>1 DEF Due, GraphInv, StateShape
  <2>4. QED
    BY <2>1, <2>2, <2>3, TasksStay DEF GraphInv, Promised
<1>2. CASE ~scheduled
  <2> DEFINE t == [pc |-> "queued"]
  <2>1. /\ scheduled' = TRUE /\ phase' = "queued" /\ dirty' = dirty
        /\ graphTasks' = [graphTasks EXCEPT !["scheduled"] = t]
    BY <1>2 DEF Scheduled, Queued
  <2>2. "scheduled" \in Rebuilders /\ t \in Tasks /\ t.pc = "queued"
    BY DEF Rebuilders, Tasks, Resting
  <2> HIDE DEF t
  <2>3. /\ graphTasks' \in [Rebuilders -> Tasks] /\ graphTasks'["scheduled"] = t
        /\ graphTasks'["user"].pc # "queued"
        /\ OneInFlight' /\ WantsHang' /\ LeftIsRest' /\ NoDanglingEdge'
    BY <2>1, <2>2, TaskSet
  <2>4. StateShape'
    BY <2>1, <2>2, <2>3 DEF GraphInv, StateShape, Tasks
  <2>5. Due'
    BY <2>2, <2>3 DEF Due
  <2>6. QED
    BY <2>3, <2>4, <2>5 DEF GraphInv, Promised
<1>3. QED
  BY <1>1, <1>2

(* Nothing is due of a graph that is switched off.                           *)
LEMMA Disables ==
    ASSUME GraphInv, dirty' = FALSE, ~enabled', enabled' \in BOOLEAN, unannounced' \in BOOLEAN,
           UNCHANGED <<revisions, rows, scheduled, phase, graphTasks, overlapped, changes>>
    PROVE  GraphInv'
<1>1. StateShape'
  BY DEF GraphInv, StateShape
<1>2. Promised'
  BY DEF Promised
<1>3. QED
  BY <1>1, <1>2, TasksStay DEF GraphInv

LEMMA SchedulesGraph == ASSUME GraphInv, ScheduleGraph PROVE GraphInv'
<1>1. enabled \in BOOLEAN
  BY DEF GraphInv, StateShape
<1>2. /\ unannounced' = FALSE /\ UNCHANGED <<revisions, changes, rows, enabled, overlapped>>
      /\ IF enabled THEN Scheduled ELSE dirty' = FALSE /\ UNCHANGED <<scheduled, phase, graphTasks>>
  BY DEF ScheduleGraph
<1>3. QED
  BY <1>1, <1>2, Schedules, Disables

LEMMA SetsGraphEnabled == ASSUME GraphInv, SetGraphEnabled PROVE GraphInv'
<1>1. enabled' \in BOOLEAN /\ unannounced' \in BOOLEAN
  BY DEF GraphInv, StateShape, SetGraphEnabled
<1>2. /\ UNCHANGED <<revisions, changes, rows, overlapped>>
      /\ IF enabled' THEN Scheduled ELSE dirty' = FALSE /\ UNCHANGED <<scheduled, phase, graphTasks>>
  BY DEF SetGraphEnabled
<1>3. QED
  BY <1>1, <1>2, Schedules, Disables

(* Whoever starts will read the facts as they are then.                      *)
LEMMA Starts ==
    ASSUME GraphInv, NEW b \in Rebuilders, Started(b), ~InFlight(b), b = "scheduled" => scheduled,
           UNCHANGED <<revisions, changes, rows, scheduled, dirty, enabled, unannounced>>
    PROVE  GraphInv'
<1> DEFINE t == [pc |-> "facts"]
<1>1. /\ phase' = "rebuilding" /\ graphTasks' = [graphTasks EXCEPT ![b] = t]
      /\ overlapped' = (overlapped \/ \E c \in Others(b) : InFlight(c))
  BY DEF Started
<1>2. t \in Tasks /\ t.pc = "facts"
  BY DEF Tasks, Resting
<1> HIDE DEF t
<1>3. /\ graphTasks' \in [Rebuilders -> Tasks] /\ graphTasks'[b] = t
      /\ \A c \in Rebuilders \ {b} : graphTasks'[c] = graphTasks[c]
      /\ graphTasks'["user"].pc # "queued"
      /\ OneInFlight' /\ WantsHang' /\ LeftIsRest' /\ NoDanglingEdge'
  BY <1>1, <1>2, TaskSet
<1>4. StateShape'
  <2>1. "scheduled" \in Rebuilders /\ b \in {"scheduled", "user"} /\ overlapped' \in BOOLEAN
    BY <1>1 DEF Rebuilders, GraphInv, StateShape
  <2>2. scheduled' <=> graphTasks'["scheduled"].pc # "idle"
    BY <1>2, <1>3, <2>1 DEF GraphInv, StateShape
  <2>3. QED
    BY <1>1, <1>3, <2>1, <2>2 DEF GraphInv, StateShape, Tasks
<1>5. KnowsFacts(b)'
  BY <1>2, <1>3 DEF KnowsFacts
<1>6. QED
  BY <1>3, <1>4, <1>5 DEF GraphInv, Promised

LEMMA UserRebuilds == ASSUME GraphInv, RebuildByUser PROVE GraphInv'
<1>1. "user" \in Rebuilders /\ ~InFlight("user") /\ Started("user")
  BY DEF RebuildByUser, Rebuilders, InFlight, AtRest
<1>2. QED
  BY <1>1, Starts DEF RebuildByUser

-----------------------------------------------------------------------------
(* A rebuild.                                                                *)

(* The end of a task: a follow-up of the scheduled one, or rest.             *)
LEMMA Ends ==
    ASSUME GraphInv, NEW b \in Rebuilders, NEW after \in {"idle", "queued", "rebuilding", "ready", "degraded"},
           EndsGraph(b, after), UNCHANGED <<revisions, changes, rows, enabled, unannounced, overlapped>>,
           InFlight(b) \/ (b = "scheduled" /\ scheduled /\ ~enabled),
           after = "ready" /\ ~overlapped /\ KnowsFacts(b) => Shows
    PROVE  GraphInv'
<1>1. b \in {"user", "scheduled"} /\ "user" \in Rebuilders /\ "scheduled" \in Rebuilders
  BY DEF Rebuilders
<1>2. /\ dirty \in BOOLEAN /\ enabled \in BOOLEAN /\ scheduled \in BOOLEAN
      /\ scheduled <=> graphTasks["scheduled"].pc # "idle"
  BY DEF GraphInv, StateShape
<1>3. CASE b = "scheduled" /\ dirty /\ enabled
  <2> DEFINE t == [pc |-> "queued"]
  <2>1. /\ dirty' = FALSE /\ phase' = "queued" /\ scheduled' = scheduled
        /\ graphTasks' = [graphTasks EXCEPT ![b] = t]
    BY <1>3 DEF EndsGraph
  <2>2. t \in Tasks /\ t.pc = "queued"
    BY DEF Tasks, Resting
  <2> HIDE DEF t
  <2>3. /\ graphTasks' \in [Rebuilders -> Tasks] /\ graphTasks'[b] = t
        /\ graphTasks'["user"].pc # "queued"
        /\ OneInFlight' /\ WantsHang' /\ LeftIsRest' /\ NoDanglingEdge'
    BY <1>3, <2>1, <2>2, TaskSet
  <2>4. scheduled
    BY <1>2, <1>3 DEF InFlight
  <2>5. StateShape'
    BY <1>3, <2>1, <2>2, <2>3, <2>4 DEF GraphInv, StateShape, Tasks
  <2>6. Due'
    BY <1>3, <2>2, <2>3 DEF Due
  <2>7. QED
    BY <2>3, <2>5, <2>6 DEF GraphInv, Promised
<1>4. CASE ~(b = "scheduled" /\ dirty /\ enabled)
  <2> DEFINE t == [pc |-> "idle"]
  <2>1. /\ graphTasks' = [graphTasks EXCEPT ![b] = t] /\ phase' = after
        /\ scheduled' = (scheduled /\ b # "scheduled") /\ dirty' = (dirty /\ b # "scheduled")
    BY <1>4 DEF EndsGraph, AtRest
  <2>2. t \in Tasks /\ t.pc = "idle"
    BY DEF Tasks, Resting
  <2> HIDE DEF t
  <2>3. /\ graphTasks' \in [Rebuilders -> Tasks] /\ graphTasks'[b] = t
        /\ \A c \in Rebuilders \ {b} : graphTasks'[c] = graphTasks[c]
        /\ graphTasks'["user"].pc # "queued"
        /\ OneInFlight' /\ WantsHang' /\ LeftIsRest' /\ NoDanglingEdge'
    BY <2>1, <2>2, TaskSet
  <2>4. scheduled' \in BOOLEAN /\ dirty' \in BOOLEAN
    BY <1>2, <2>1
  <2>5. scheduled' <=> graphTasks'["scheduled"].pc # "idle"
    BY <1>1, <1>2, <2>1, <2>2, <2>3
  <2>6. StateShape'
    BY <2>1, <2>3, <2>4, <2>5 DEF GraphInv, StateShape, Tasks
  <2>7. Promised'
    <3>1. SUFFICES ASSUME enabled, ~unannounced, ~overlapped
                   PROVE  Due' \/ (Quiet' /\ (Shows' \/ phase' # "ready"))
      BY DEF Promised
    <3>2. InFlight(b)
      BY <3>1
    <3>3. \A c \in Rebuilders \ {b} : ~InFlight(c)
      BY <1>1, <3>1, <3>2 DEF GraphInv, OneInFlight, Rebuilders
    <3>4. CASE graphTasks["scheduled"].pc = "queued"
      <4>1. b # "scheduled"
        BY <3>2, <3>4 DEF InFlight
      <4>2. graphTasks'["scheduled"].pc = "queued"
        BY <1>1, <2>3, <3>4, <4>1
      <4>3. QED
        BY <4>2 DEF Due
    <3>5. CASE graphTasks["scheduled"].pc # "queued"
      <4>1. \A c \in Rebuilders \ {b} : graphTasks[c].pc = "idle"
        <5>1. \A c \in Rebuilders \ {b} : graphTasks[c].pc \in {"idle", "queued"}
          BY <3>3 DEF InFlight
        <5>2. \A c \in Rebuilders : graphTasks[c].pc # "queued"
          BY <3>5 DEF GraphInv, StateShape, Rebuilders
        <5>3. QED
          BY <5>1, <5>2
      <4>2. Quiet'
        BY <2>2, <2>3, <4>1 DEF Quiet
      <4>3. ASSUME after = "ready" PROVE KnowsFacts(b)
        <5>1. CASE Due
          BY <1>1, <1>4, <3>1, <3>5, <4>1, <5>1 DEF Due, KnowsFacts
        <5>2. CASE \E c \in Rebuilders : KnowsFacts(c)
          BY <4>1, <5>2 DEF KnowsFacts
        <5>3. CASE Quiet
          BY <3>2, <5>3 DEF Quiet, InFlight
        <5>4. QED
          BY <3>1, <5>1, <5>2, <5>3 DEF GraphInv, Promised
      <4>4. Shows' <=> Shows
        BY DEF Shows, deriveMemoryGraphProjection, Backing
      <4>5. QED
        BY <2>1, <3>1, <4>2, <4>3, <4>4
    <3>6. QED
      BY <3>4, <3>5
  <2>8. QED
    BY <2>3, <2>6, <2>7 DEF GraphInv
<1>5. QED
  BY <1>3, <1>4

LEMMA Begins == ASSUME GraphInv, BeginScheduled PROVE GraphInv'
<1>1. /\ graphTasks["scheduled"].pc = "queued" /\ "scheduled" \in Rebuilders /\ ~InFlight("scheduled") /\ scheduled
      /\ UNCHANGED <<revisions, changes, rows, enabled, unannounced>>
  BY DEF BeginScheduled, Rebuilders, InFlight, GraphInv, StateShape
<1>2. CASE enabled
  <2>1. Started("scheduled") /\ UNCHANGED <<scheduled, dirty>>
    BY <1>2 DEF BeginScheduled
  <2>2. QED
    BY <1>1, <2>1, Starts
<1>3. CASE ~enabled
  <2>1. EndsGraph("scheduled", phase) /\ UNCHANGED overlapped
    BY <1>3 DEF BeginScheduled
  <2>2. phase \in {"idle", "queued", "rebuilding", "ready", "degraded"} /\ ~KnowsFacts("scheduled")
    BY <1>1 DEF GraphInv, StateShape, KnowsFacts
  <2>3. QED
    BY <1>1, <1>3, <2>1, <2>2, Ends
<1>4. QED
  BY <1>2, <1>3 DEF GraphInv, StateShape

LEMMA ReadsFacts ==
    ASSUME GraphInv, NEW b \in Rebuilders, ReadGraphFacts(b) PROVE GraphInv'
<1> DEFINE want == deriveMemoryGraphProjection(revisions)
           t == [pc |-> "rows", want |-> want, try |-> 0]
<1>1. /\ graphTasks[b].pc = "facts" /\ graphTasks' = [graphTasks EXCEPT ![b] = t]
      /\ UNCHANGED <<revisions, changes, rows, scheduled, dirty, enabled, phase, unannounced, overlapped>>
  BY DEF ReadGraphFacts
<1>2. want \in Projections /\ Hangs(want)
  BY ProjectionHangs DEF GraphInv, StateShape
<1> HIDE DEF want
<1>3. t \in Tasks /\ t.pc = "rows" /\ t.want = want
  BY <1>2 DEF Tasks, Reading
<1> HIDE DEF t
<1>4. InFlight(b)
  BY <1>1 DEF InFlight
<1>5. /\ graphTasks' \in [Rebuilders -> Tasks] /\ graphTasks'[b] = t
      /\ \A c \in Rebuilders \ {b} : graphTasks'[c] = graphTasks[c]
      /\ graphTasks'["user"].pc # "queued"
      /\ OneInFlight' /\ WantsHang' /\ LeftIsRest' /\ NoDanglingEdge'
  BY <1>1, <1>2, <1>3, <1>4, TaskSet
<1>6. "scheduled" \in Rebuilders
  BY DEF Rebuilders
<1>7. scheduled' <=> graphTasks'["scheduled"].pc # "idle"
  BY <1>1, <1>3, <1>5, <1>6 DEF GraphInv, StateShape
<1>8. StateShape'
  BY <1>1, <1>5, <1>7 DEF GraphInv, StateShape, Tasks
<1>9. want = deriveMemoryGraphProjection(revisions)'
  BY <1>1 DEF want, deriveMemoryGraphProjection, Backing
<1>10. KnowsFacts(b)'
  BY <1>3, <1>5, <1>9 DEF KnowsFacts
<1>11. QED
  BY <1>5, <1>8, <1>10 DEF GraphInv, Promised

(* A task that goes on with the same projection keeps what was promised.     *)
LEMMA GoesOn ==
    ASSUME GraphInv, NEW b \in Rebuilders, NEW t \in Tasks,
           graphTasks[b].pc \in {"rows", "write"}, t.pc \in {"rows", "write"}, t.want = graphTasks[b].want,
           graphTasks'[b] = t, \A c \in Rebuilders \ {b} : graphTasks'[c] = graphTasks[c],
           UNCHANGED <<revisions, dirty, enabled, unannounced, overlapped>>
    PROVE  Promised' /\ (scheduled' = scheduled => (scheduled' <=> graphTasks'["scheduled"].pc # "idle"))
<1>1. "scheduled" \in Rebuilders
  BY DEF Rebuilders
<1>2. graphTasks'["scheduled"].pc # "idle" <=> graphTasks["scheduled"].pc # "idle"
  BY <1>1
<1>3. SUFFICES ASSUME enabled, ~unannounced, ~overlapped
               PROVE  Due' \/ \E c \in Rebuilders : KnowsFacts(c)'
  BY <1>2 DEF Promised, GraphInv, StateShape
<1>4. ~Quiet
  BY DEF Quiet
<1>5. deriveMemoryGraphProjection(revisions)' = deriveMemoryGraphProjection(revisions)
  BY DEF deriveMemoryGraphProjection, Backing
<1>6. CASE Due
  BY <1>1, <1>2, <1>6 DEF Due
<1>7. CASE \E c \in Rebuilders : KnowsFacts(c)
  <2>1. PICK c \in Rebuilders : KnowsFacts(c)
    BY <1>7
  <2>2. KnowsFacts(c)'
    BY <1>5, <2>1 DEF KnowsFacts
  <2>3. QED
    BY <2>2
<1>8. QED
  BY <1>3, <1>4, <1>6, <1>7 DEF GraphInv, Promised

LEMMA ReadsRows ==
    ASSUME GraphInv, NEW b \in Rebuilders, ReadGraphRows(b) PROVE GraphInv'
<1> DEFINE want == graphTasks[b].want
           left == Operations(want)
           t == [pc |-> "write", want |-> want, try |-> graphTasks[b].try, seen |-> rows, left |-> left]
<1>1. /\ graphTasks[b].pc = "rows" /\ graphTasks' = [graphTasks EXCEPT ![b] = t]
      /\ UNCHANGED <<revisions, changes, rows, scheduled, dirty, enabled, phase, unannounced, overlapped>>
  BY DEF ReadGraphRows
<1>2. want \in Projections /\ graphTasks[b].try \in 0..1 /\ Hangs(want) /\ rows \in StoredRows
  BY <1>1, TasksThere, TaskFacts DEF GraphInv, StateShape, WantsHang
<1>3. left \in Seq(GraphRows) /\ Sorted(want, left) /\ Rest(want, left)
  BY OperationsFit
<1> HIDE DEF left
<1>4. t \in Tasks /\ t.pc = "write" /\ t.want = want /\ t.left = left
  BY <1>2, <1>3 DEF Tasks, Writing
<1> HIDE DEF t
<1>5. InFlight(b)
  BY <1>1 DEF InFlight
<1>6. /\ graphTasks' \in [Rebuilders -> Tasks] /\ graphTasks'[b] = t
      /\ \A c \in Rebuilders \ {b} : graphTasks'[c] = graphTasks[c]
      /\ graphTasks'["user"].pc # "queued"
      /\ OneInFlight' /\ WantsHang' /\ LeftIsRest' /\ NoDanglingEdge'
  BY <1>1, <1>2, <1>3, <1>4, <1>5, TaskSet
<1>7. Promised' /\ (scheduled' <=> graphTasks'["scheduled"].pc # "idle")
  BY <1>1, <1>4, <1>6, GoesOn
<1>8. StateShape'
  BY <1>1, <1>6, <1>7 DEF GraphInv, StateShape, Tasks
<1>9. QED
  BY <1>6, <1>7, <1>8 DEF GraphInv

LEMMA Conflicts ==
    ASSUME GraphInv, NEW b \in Rebuilders, BatchConflicts(b) PROVE GraphInv'
<1>1. /\ graphTasks[b].pc = "write" /\ InFlight(b)
      /\ UNCHANGED <<revisions, changes, rows, enabled, unannounced, overlapped>>
  BY DEF BatchConflicts, InFlight
<1>2. CASE graphTasks[b].try = 0
  <2> DEFINE want == graphTasks[b].want
             t == [pc |-> "rows", want |-> want, try |-> 1]
  <2>1. graphTasks' = [graphTasks EXCEPT ![b] = t] /\ UNCHANGED <<scheduled, dirty, phase>>
    BY <1>2 DEF BatchConflicts
  <2>2. want \in Projections /\ Hangs(want)
    BY <1>1, TasksThere, TaskFacts DEF GraphInv, WantsHang
  <2>3. t \in Tasks /\ t.pc = "rows" /\ t.want = want
    BY <2>2 DEF Tasks, Reading
  <2> HIDE DEF t
  <2>4. /\ graphTasks' \in [Rebuilders -> Tasks] /\ graphTasks'[b] = t
        /\ \A c \in Rebuilders \ {b} : graphTasks'[c] = graphTasks[c]
        /\ graphTasks'["user"].pc # "queued"
        /\ OneInFlight' /\ WantsHang' /\ LeftIsRest' /\ NoDanglingEdge'
    BY <1>1, <2>1, <2>2, <2>3, TaskSet
  <2>5. Promised' /\ (scheduled' <=> graphTasks'["scheduled"].pc # "idle")
    BY <1>1, <2>1, <2>3, <2>4, GoesOn
  <2>6. StateShape'
    BY <1>1, <2>1, <2>4, <2>5 DEF GraphInv, StateShape, Tasks
  <2>7. QED
    BY <2>4, <2>5, <2>6 DEF GraphInv
<1>3. CASE graphTasks[b].try # 0
  <2>1. EndsGraph(b, "degraded")
    BY <1>3 DEF BatchConflicts
  <2>2. QED
    BY <1>1, <2>1, Ends
<1>4. QED
  BY <1>2, <1>3

LEMMA Fails ==
    ASSUME GraphInv, NEW b \in Rebuilders, GraphFails(b) PROVE GraphInv'
  BY Ends DEF GraphFails

(* When nothing is left, the graph is what was wanted.                       *)
LEMMA Written ==
    ASSUME GraphInv, NEW b \in Rebuilders, GraphWritten(b) PROVE GraphInv'
<1> DEFINE after == IF enabled THEN "ready" ELSE phase
<1>1. /\ graphTasks[b].pc = "write" /\ graphTasks[b].left = << >> /\ InFlight(b) /\ EndsGraph(b, after)
      /\ UNCHANGED <<revisions, changes, rows, enabled, unannounced, overlapped>>
  BY DEF GraphWritten, InFlight
<1>2. after \in {"idle", "queued", "rebuilding", "ready", "degraded"}
  BY DEF GraphInv, StateShape
<1>3. ASSUME ~overlapped, KnowsFacts(b) PROVE Shows
  <2>1. graphTasks[b].want = deriveMemoryGraphProjection(revisions)
    BY <1>1, <1>3 DEF KnowsFacts
  <2>2. Rest(graphTasks[b].want, << >>)
    BY <1>1, <1>3 DEF GraphInv, LeftIsRest
  <2>3. \A g \in GraphRows : rows[g].value = graphTasks[b].want[g]
    BY <2>2 DEF Rest, Has
  <2>4. graphTasks[b].want \in Projections
    BY <1>1, TasksThere, TaskFacts DEF GraphInv
  <2>5. [g \in GraphRows |-> rows[g].value] = graphTasks[b].want
    BY <2>3, <2>4 DEF Projections
  <2>6. QED
    BY <2>1, <2>5 DEF Shows
<1> HIDE DEF after
<1>4. QED
  BY <1>1, <1>2, <1>3, Ends

-----------------------------------------------------------------------------
(* A transaction.                                                            *)
First(s) == {s[i] : i \in {j \in DOMAIN s : j <= GraphBatch}}

(* What is left after the first operations is in order, and comes after them. *)
Follows(want, s, rest) ==
    /\ Sorted(want, rest)
    /\ \A g : Has(rest, g) <=> Has(s, g) /\ g \notin First(s)
    /\ \A g \in First(s) : \A h : Has(rest, h) => Turn(want, g) <= Turn(want, h)

LEMMA BatchTaken ==
    ASSUME NEW want, NEW s \in Seq(GraphRows),
           NEW rest, rest = SubSeq(s, GraphBatch + 1, Len(s))
    PROVE  /\ rest \in Seq(GraphRows) /\ First(s) \subseteq GraphRows
           /\ Sorted(want, s) => Follows(want, s, rest)
<1> DEFINE n == GraphBatch
           m == IF Len(s) > n THEN Len(s) - n ELSE 0
<1>1. n \in Nat \ {0} /\ Len(s) \in Nat /\ DOMAIN s = 1..Len(s) /\ \A i \in 1..Len(s) : s[i] \in GraphRows
  BY GraphShape
<1>2. m \in Nat /\ \A i \in 1..m : i + n \in 1..Len(s)
  BY <1>1
<1>3. rest = [i \in 1..m |-> s[i + n]]
  BY <1>1
<1>4. \A i \in 1..Len(s) : i > n => i - n \in 1..m
  BY <1>1
<1> HIDE DEF m, n
<1>5. DOMAIN rest = 1..m /\ \A i \in 1..m : rest[i] = s[i + n]
  BY <1>3
<1>6. rest \in Seq(GraphRows)
  <2>1. \A i \in 1..m : s[i + n] \in GraphRows
    BY <1>1, <1>2
  <2>2. rest \in [1..m -> GraphRows]
    BY <1>3, <2>1
  <2>3. m \in Nat
    BY <1>2
  <2>4. \A u : u \in [1..m -> GraphRows] => u \in Seq(GraphRows)
    BY <2>3
  <2>5. QED
    BY <2>2, <2>4
<1>7. First(s) = {s[i] : i \in {j \in 1..Len(s) : j <= n}}
  BY <1>1 DEF First, n
<1>8. ASSUME Sorted(want, s)
      PROVE  /\ Sorted(want, rest)
             /\ \A g : Has(rest, g) <=> Has(s, g) /\ g \notin First(s)
             /\ \A g \in First(s) : \A h : Has(rest, h) => Turn(want, g) <= Turn(want, h)
  <2>1. \A i, j \in 1..Len(s) : i < j => s[i] # s[j] /\ Turn(want, s[i]) <= Turn(want, s[j])
    BY <1>1, <1>8 DEF Sorted
  <2>2. Sorted(want, rest)
    <3>1. SUFFICES ASSUME NEW i \in 1..m, NEW j \in 1..m, i < j
                   PROVE  rest[i] # rest[j] /\ Turn(want, rest[i]) <= Turn(want, rest[j])
      BY <1>5 DEF Sorted
    <3>2. i + n \in 1..Len(s) /\ j + n \in 1..Len(s) /\ i + n < j + n
      BY <1>1, <1>2, <3>1
    <3>3. QED
      BY <1>5, <2>1, <3>2
  <2>3. ASSUME NEW i \in 1..Len(s), NEW j \in 1..Len(s), i <= n, j > n
        PROVE  s[i] # s[j] /\ Turn(want, s[i]) <= Turn(want, s[j])
    BY <1>1, <2>1, <2>3
  <2>4. \A h : Has(rest, h) <=> \E j \in 1..Len(s) : j > n /\ s[j] = h
    <3>1. ASSUME NEW h, Has(rest, h) PROVE \E j \in 1..Len(s) : j > n /\ s[j] = h
      <4>1. PICK i \in 1..m : rest[i] = h
        BY <1>5, <3>1 DEF Has
      <4>2. i + n \in 1..Len(s) /\ s[i + n] = h
        BY <1>2, <1>5, <4>1
      <4>3. i + n > n
        BY <1>1
      <4>4. QED
        BY <4>2, <4>3
    <3>2. ASSUME NEW h, NEW j \in 1..Len(s), j > n, s[j] = h PROVE Has(rest, h)
      <4>1. j - n \in 1..m /\ (j - n) + n = j
        BY <1>1, <1>4, <3>2
      <4>2. rest[j - n] = h
        BY <1>5, <3>2, <4>1
      <4>3. QED
        BY <1>5, <4>1, <4>2 DEF Has
    <3>3. QED
      BY <3>1, <3>2
  <2>5. ASSUME NEW g PROVE Has(rest, g) <=> Has(s, g) /\ g \notin First(s)
    <3>1. ASSUME Has(rest, g) PROVE Has(s, g) /\ g \notin First(s)
      <4>1. PICK j \in 1..Len(s) : j > n /\ s[j] = g
        BY <2>4, <3>1
      <4>2. g \notin First(s)
        BY <1>7, <2>3, <4>1
      <4>3. QED
        BY <1>1, <4>1, <4>2 DEF Has
    <3>2. ASSUME Has(s, g), g \notin First(s) PROVE Has(rest, g)
      <4>1. PICK j \in 1..Len(s) : s[j] = g
        BY <1>1, <3>2 DEF Has
      <4>2. j > n
        BY <1>1, <1>7, <3>2, <4>1
      <4>3. QED
        BY <2>4, <4>1, <4>2
    <3>3. QED
      BY <3>1, <3>2
  <2>6. ASSUME NEW g \in First(s), NEW h, Has(rest, h) PROVE Turn(want, g) <= Turn(want, h)
    <3>1. PICK i \in 1..Len(s) : i <= n /\ s[i] = g
      BY <1>7
    <3>2. PICK j \in 1..Len(s) : j > n /\ s[j] = h
      BY <2>4, <2>6
    <3>3. QED
      BY <2>3, <3>1, <3>2
  <2>7. QED
    BY <2>2, <2>5, <2>6
<1>9. First(s) \subseteq GraphRows
  BY <1>1, <1>7
<1>10. QED
  BY <1>6, <1>8, <1>9 DEF Follows

(* A part of what is left, in its order, leaves the rest in order and no edge *)
(* without its ends.                                                         *)
LEMMA WritesBatch ==
    ASSUME GraphInv, NEW b \in Rebuilders, WriteBatch(b) PROVE GraphInv'
<1> DEFINE old == graphTasks[b]
<1>0. PICK want, s, rest : want = old.want /\ s = old.left /\ rest = SubSeq(s, GraphBatch + 1, Len(s))
  OBVIOUS
<1> DEFINE t == [old EXCEPT !.left = rest]
           N == First(s)
<1>1. /\ old.pc = "write"
      /\ rows' = [g \in GraphRows |-> IF g \notin N THEN rows[g]
                                      ELSE [value |-> want[g], writes |-> rows[g].writes + 1]]
      /\ graphTasks' = [graphTasks EXCEPT ![b] = t]
      /\ UNCHANGED <<revisions, changes, scheduled, dirty, enabled, phase, unannounced, overlapped>>
  BY <1>0 DEF WriteBatch, NextRows, First
<1>2. /\ old \in Writing /\ want \in Projections /\ s \in Seq(GraphRows) /\ Hangs(want)
      /\ graphTasks \in [Rebuilders -> Tasks] /\ rows \in StoredRows
  BY <1>0, <1>1, TasksThere, TaskFacts DEF GraphInv, WantsHang, StateShape, Tasks
<1>3. /\ rest \in Seq(GraphRows) /\ N \subseteq GraphRows
      /\ Sorted(want, s) => /\ Sorted(want, rest)
                            /\ \A g : Has(rest, g) <=> Has(s, g) /\ g \notin N
                            /\ \A g \in N : \A h : Has(rest, h) => Turn(want, g) <= Turn(want, h)
  <2>1. s \in Seq(GraphRows) /\ rest = SubSeq(s, GraphBatch + 1, Len(s))
    BY <1>0, <1>2
  <2>2. /\ rest \in Seq(GraphRows) /\ First(s) \subseteq GraphRows
        /\ Sorted(want, s) => Follows(want, s, rest)
    BY <2>1, BatchTaken
  <2>3. QED
    BY <2>2 DEF Follows
<1> HIDE DEF N
<1>4. t \in Writing /\ t.pc = "write" /\ t.want = want /\ t.left = rest
  BY <1>0, <1>1, <1>2, <1>3 DEF Writing
<1>5. /\ graphTasks' \in [Rebuilders -> Tasks] /\ graphTasks'[b] = t
      /\ \A c \in Rebuilders \ {b} : graphTasks'[c] = graphTasks[c]
  BY <1>1, <1>2, <1>4 DEF Tasks
<1>6. t \in Tasks
  BY <1>4 DEF Tasks
<1> HIDE DEF t
<1>7. b \in {"user", "scheduled"} /\ "user" \in Rebuilders /\ "scheduled" \in Rebuilders
  BY DEF Rebuilders
<1>8. graphTasks'["user"].pc # "queued"
  BY <1>4, <1>5, <1>7 DEF GraphInv, StateShape
<1>9. Promised' /\ (scheduled' <=> graphTasks'["scheduled"].pc # "idle")
  BY <1>0, <1>1, <1>4, <1>5, <1>6, GoesOn
<1>10. \A g \in GraphRows : rows'[g].value = IF g \in N THEN want[g] ELSE rows[g].value
  BY <1>1
<1>11. rows' \in StoredRows
  <2>1. ASSUME NEW g \in GraphRows PROVE rows'[g] \in [value : Edges, writes : Nat]
    BY <1>1, <1>2, <2>1 DEF StoredRows, Projections
  <2>2. QED
    BY <1>1, <2>1 DEF StoredRows
<1>12. StateShape'
  BY <1>1, <1>5, <1>8, <1>9, <1>11 DEF GraphInv, StateShape, Tasks
<1>13. OneInFlight'
  <2>1. \A c \in Rebuilders : InFlight(c)' <=> InFlight(c)
    BY <1>1, <1>4, <1>5 DEF InFlight
  <2>2. QED
    BY <1>1, <1>7, <2>1 DEF GraphInv, OneInFlight
<1>14. WantsHang'
  BY <1>1, <1>2, <1>4, <1>5 DEF GraphInv, WantsHang, Hangs
<1>15. ASSUME ~overlapped PROVE Sorted(want, s) /\ Rest(want, s)
  BY <1>0, <1>1, <1>15 DEF GraphInv, LeftIsRest
<1>16. ASSUME ~overlapped, NEW g \in GraphRows PROVE rows'[g].value # want[g] <=> Has(rest, g)
  <2>1. Has(rest, g) <=> Has(s, g) /\ g \notin N
    BY <1>3, <1>15, <1>16
  <2>2. rows[g].value # want[g] <=> Has(s, g)
    BY <1>15, <1>16 DEF Rest
  <2>3. QED
    BY <1>10, <2>1, <2>2
<1>17. LeftIsRest'
  <2>1. SUFFICES ASSUME ~overlapped, NEW c \in Rebuilders, graphTasks'[c].pc = "write"
                 PROVE  /\ Sorted(graphTasks'[c].want, graphTasks'[c].left)
                        /\ \A g \in GraphRows : rows'[g].value # graphTasks'[c].want[g]
                                                    <=> Has(graphTasks'[c].left, g)
    BY <1>1 DEF LeftIsRest, Sorted, Turn, Rest, Has
  <2>2. c = b
    <3>1. InFlight(b) /\ (c # b => InFlight(c))
      BY <1>1, <1>5, <2>1 DEF InFlight
    <3>2. QED
      BY <2>1, <3>1 DEF GraphInv, OneInFlight, Rebuilders
  <2>3. Sorted(want, rest)
    BY <1>3, <1>15, <2>1
  <2>4. QED
    BY <1>4, <1>5, <1>16, <2>1, <2>2, <2>3
<1>18. NoDanglingEdge'
  <2>1. SUFFICES ASSUME ~overlapped, NEW f \in GraphFacts, rows'[f].value # {}, NEW e \in FactEnds[f]
                 PROVE  rows'[e].value # {}
    BY <1>1 DEF NoDanglingEdge
  <2>2. f \in GraphRows /\ e \in GraphRows /\ e \in Entities /\ f \notin Entities
    BY RowSets
  <2>3. rows[f].value # {} => rows[e].value # {}
    BY <2>1 DEF GraphInv, NoDanglingEdge
  <2>4. \A g \in N : \A h : Has(rest, h) => Turn(want, g) <= Turn(want, h)
    BY <1>3, <1>15, <2>1
  <2>5. \A g \in N : ~Has(rest, g)
    BY <1>3, <1>15, <2>1
  <2>6. CASE want[f] # {}
    <3>1. want[e] # {}
      BY <1>2, <2>6 DEF Hangs
    <3>2. Turn(want, e) = 1 /\ Turn(want, f) = 2
      BY <2>2, <2>6, <3>1 DEF Turn
    <3>3. CASE e \in N
      BY <1>10, <2>2, <3>1, <3>3
    <3>4. CASE e \notin N /\ f \in N
      <4>1. ~Has(rest, e)
        BY <2>4, <3>2, <3>4
      <4>2. rows'[e].value = want[e]
        BY <1>16, <2>1, <2>2, <4>1
      <4>3. QED
        BY <3>1, <4>2
    <3>5. CASE e \notin N /\ f \notin N
      BY <1>10, <2>1, <2>2, <2>3, <3>5
    <3>6. QED
      BY <3>3, <3>4, <3>5
  <2>7. CASE want[f] = {}
    <3>1. Has(rest, f)
      BY <1>16, <2>1, <2>2, <2>7
    <3>2. f \notin N
      BY <2>5, <3>1
    <3>3. rows[e].value # {}
      BY <1>10, <2>1, <2>2, <2>3, <3>2
    <3>4. CASE e \notin N
      BY <1>10, <2>2, <3>3, <3>4
    <3>5. CASE e \in N
      <4>1. Turn(want, e) <= Turn(want, f)
        BY <2>4, <3>1, <3>5
      <4>2. Turn(want, f) = 3
        BY <2>2, <2>7 DEF Turn
      <4>3. want[e] # {}
        <5>1. e \notin GraphFacts
          BY <2>2, RowSets
        <5>2. want[e] = {} => Turn(want, e) = 4
          BY <5>1 DEF Turn
        <5>3. QED
          BY <4>1, <4>2, <5>2
      <4>4. QED
        BY <1>10, <2>2, <3>5, <4>3
    <3>6. QED
      BY <3>4, <3>5
  <2>8. QED
    BY <2>6, <2>7
<1>19. QED
  BY <1>9, <1>12, <1>13, <1>14, <1>17, <1>18 DEF GraphInv

-----------------------------------------------------------------------------
LEMMA GraphSteps == GraphInv /\ [GraphNext]_graphVars => GraphInv'
<1>1. ASSUME GraphInv, GraphNext PROVE GraphInv'
  <2>1. ASSUME NEW f \in GraphFacts, ChangeFacts(f) PROVE GraphInv'
    BY <1>1, <2>1, ChangesFacts
  <2>2. CASE ScheduleGraph
    BY <1>1, <2>2, SchedulesGraph
  <2>3. CASE SetGraphEnabled
    BY <1>1, <2>3, SetsGraphEnabled
  <2>4. CASE RebuildByUser
    BY <1>1, <2>4, UserRebuilds
  <2>5. CASE BeginScheduled
    BY <1>1, <2>5, Begins
  <2>6. ASSUME NEW b \in Rebuilders, GraphStep(b) \/ GraphFails(b) PROVE GraphInv'
    <3>1. CASE ReadGraphFacts(b)
      BY <1>1, <3>1, ReadsFacts
    <3>2. CASE ReadGraphRows(b)
      BY <1>1, <3>2, ReadsRows
    <3>3. CASE WriteBatch(b)
      BY <1>1, <3>3, WritesBatch
    <3>4. CASE BatchConflicts(b)
      BY <1>1, <3>4, Conflicts
    <3>5. CASE GraphWritten(b)
      BY <1>1, <3>5, Written
    <3>6. CASE GraphFails(b)
      BY <1>1, <3>6, Fails
    <3>7. QED
      BY <2>6, <3>1, <3>2, <3>3, <3>4, <3>5, <3>6 DEF GraphStep
  <2>7. QED
    BY <1>1, <2>1, <2>2, <2>3, <2>4, <2>5, <2>6 DEF GraphNext
<1>2. ASSUME GraphInv, UNCHANGED graphVars PROVE GraphInv'
  <2>1. UNCHANGED <<revisions, rows, scheduled, dirty, enabled, phase, graphTasks, unannounced, changes, overlapped>>
    BY <1>2 DEF graphVars
  <2>2. StateShape'
    BY <1>2, <2>1 DEF GraphInv, StateShape
  <2>3. Promised'
    <3>1. deriveMemoryGraphProjection(revisions)' = deriveMemoryGraphProjection(revisions)
      BY <2>1 DEF deriveMemoryGraphProjection, Backing
    <3>2. (Due' <=> Due) /\ (Quiet' <=> Quiet)
      BY <2>1 DEF Due, Quiet
    <3>3. Shows' <=> Shows
      BY <2>1, <3>1 DEF Shows
    <3>4. \A b \in Rebuilders : KnowsFacts(b)' <=> KnowsFacts(b)
      BY <2>1, <3>1 DEF KnowsFacts
    <3>5. QED
      BY <1>2, <2>1, <3>2, <3>3, <3>4 DEF GraphInv, Promised
  <2>4. QED
    BY <1>2, <2>1, <2>2, <2>3, TasksStay DEF GraphInv
<1>3. QED
  BY <1>1, <1>2

(* For any facts, entities and batch size, and any interleaving of changes,  *)
(* rebuilds, switches and failures: the stored graph never shows an edge     *)
(* without its ends, and a graph said to be ready shows the facts, until two *)
(* rebuilds cross (scheduleGraph, reconcileGraphProjection).                 *)
THEOREM GraphKeepsUp == GraphInit /\ [][GraphNext]_graphVars => []GraphFollowsFacts
<1>1. GraphInit /\ [][GraphNext]_graphVars => []GraphInv
  BY InitGraph, GraphSteps, PTL
<1>2. QED
  BY <1>1, GraphInvSuffices, PTL

-----------------------------------------------------------------------------
(* The directory of people.  A row is keyed by the owner it belongs to, unless *)
(* the user moved its name.                                                    *)
Keyed(a, moved) == a.key[2] = a.name /\ (a.name \notin moved => a.key[1] = a.owner)
Regular(r, moved) == r \in Registries /\ OneRowAKey(r) /\ \A a \in r.aliases : Keyed(a, moved)

(* A row stands for a name that its owner, who is there, has in the list.  *)
Firm(r, a) == a.owner \in Unmerged(r) /\ a.name \in r.owners[a.owner].aliases
Sound(r, lost) ==
    /\ \A a \in r.aliases : a.name \in lost \/ Firm(r, a)
    /\ \A c \in r.candidates : c.ref = NoOwner \/ c.ref \in Unmerged(r)
NoneMerged(r) == \A o \in OwnerIds : r.owners[o] # NoOwner => r.owners[o].status # "merged"

(* What is stored is behind the registry only by what was discovered since. *)
Covered(s, r) ==
    /\ ExistingOwners(s) \subseteq Unmerged(r)
    /\ \A a \in s.aliases : \E b \in r.aliases : b.key = a.key
Same(s, r) == s.aliases = r.aliases /\ s.owners = Listed(r).owners

CountsInv == /\ {unsaved, behind} \subseteq BOOLEAN /\ {corrected, adrift} \subseteq SUBSET Names
             /\ discoveries \in 0..MaxDiscoveries
             /\ trail \in Seq([before : Registries, undone : BOOLEAN]) /\ Len(trail) <= MaxCorrections
             /\ inflight \subseteq Writes
             /\ \A v, w \in inflight : v.kind = "capture" /\ w.kind = "capture" => v = w
RowsInv == /\ Regular(registry, corrected) /\ Regular(storedRegistry, corrected) /\ NoneMerged(storedRegistry)
           /\ \A w \in inflight : Regular(w.rows, corrected) /\ NoneMerged(w.rows)
           /\ \A i \in DOMAIN trail : Regular(trail[i].before, corrected)
(* The last correction writes what is listed. What a capture took before    *)
(* any correction holds all that is stored; only discoveries came after it. *)
Carried == {w \in inflight : w.kind = "capture" /\ ~w.old}
SoundInv == ~behind =>
           /\ Sound(registry, adrift)
           /\ \A i \in DOMAIN trail : Sound(trail[i].before, adrift)
           /\ \A w \in Latest : w.rows = Listed(registry)
           /\ \A w \in Carried :
                 /\ Covered(w.rows, registry) /\ Sound(w.rows, adrift)
                 /\ (~unsaved \/ Latest # {}) => Same(w.rows, registry)
                 /\ Latest = {} => Covered(storedRegistry, w.rows)
           /\ Latest = {} => Covered(storedRegistry, registry) /\ Sound(storedRegistry, adrift)
           /\ Latest = {} /\ Carried = {} /\ ~unsaved => Same(storedRegistry, registry)
NamesInv == CountsInv /\ RowsInv /\ SoundInv

-----------------------------------------------------------------------------
(* The operations, one after the other, as functions of the registry.       *)
LEMMA OwnersOf ==
  ASSUME RegistryShape, NEW r \in Registries, NEW o \in OwnerIds
  PROVE  /\ o \in ExistingOwners(r) => r.owners[o] \in People
         /\ o \in Unmerged(r) <=> r.owners[o] \in People /\ r.owners[o].status # "merged"
<1>1. r.owners[o] \in People \cup {NoOwner}
  BY DEF Registries
<1>2. NoOwner \notin People
  BY DEF RegistryShape
<1> QED
  BY <1>1, <1>2 DEF ExistingOwners, Unmerged

RowOf(r, o, n, status) == [key |-> <<o, n>>, owner |-> o, name |-> n, status |-> SureAs(r, o, n, status)]
Added(r, o, names, status, q) ==
    /\ q \in Registries
    /\ q.owners = [r.owners EXCEPT ![o] = [r.owners[o] EXCEPT !.aliases = @ \cup names]]
    /\ q.aliases = {a \in r.aliases : \A n \in names : a.key # <<o, n>>} \cup {RowOf(r, o, n, status) : n \in names}
    /\ q.candidates = r.candidates
LEMMA RowsAdded ==
  ASSUME NEW r \in Registries, NEW o \in OwnerIds, r.owners[o] \in People,
         NEW names \in SUBSET Names, NEW status \in {"pending", "confirmed"},
         NEW q, q = addAliases(r, o, names, status)
  PROVE  Added(r, o, names, status, q)
<1>1. /\ r.owners \in [OwnerIds -> People \cup {NoOwner}] /\ r.aliases \subseteq AliasRows /\ r.candidates \subseteq Candidates
      /\ r = [owners |-> r.owners, aliases |-> r.aliases, candidates |-> r.candidates]
  BY DEF Registries
<1> DEFINE owners == [r.owners EXCEPT ![o] = [r.owners[o] EXCEPT !.aliases = @ \cup names]]
           aliases == {a \in r.aliases : \A n \in names : a.key # <<o, n>>} \cup {RowOf(r, o, n, status) : n \in names}
<1>2. q = [owners |-> owners, aliases |-> aliases, candidates |-> r.candidates]
  <2>1. q = [r EXCEPT !.aliases = aliases, !.owners = owners]
    BY <1>1 DEF addAliases, RowOf
  <2> HIDE DEF owners, aliases
  <2> QED
    BY <1>1, <2>1
<1>3. \A n \in names : RowOf(r, o, n, status) \in AliasRows
  BY DEF RowOf, SureAs, AliasRows
<1>4. aliases \in SUBSET AliasRows
  BY <1>1, <1>3
<1>5. [r.owners[o] EXCEPT !.aliases = @ \cup names] \in People
  BY DEF People
<1>6. owners \in [OwnerIds -> People \cup {NoOwner}]
  BY <1>1, <1>5
<1> HIDE DEF owners, aliases
<1>7. q \in Registries
  BY <1>1, <1>2, <1>4, <1>6 DEF Registries
<1>8. q.owners = owners /\ q.aliases = aliases /\ q.candidates = r.candidates
  BY <1>2
<1> QED
  BY <1>7, <1>8 DEF owners, aliases, Added

(* An operation that only tells more of one owner: its rows grow, the rows of *)
(* others stay, and what it asks is asked for this owner.                     *)
RowsGrow(r, q, o) ==
    /\ \A a \in q.aliases : a \in r.aliases \/ (a.owner = o /\ a.key = <<o, a.name>> /\ a.name \in q.owners[o].aliases)
    /\ \A a \in r.aliases : \/ a \in q.aliases
                            \/ \E b \in q.aliases : /\ b.key = a.key /\ b.owner = o /\ b.key = <<o, b.name>>
                                                    /\ a.status = "confirmed" => b.status = "confirmed"
    /\ OneRowAKey(r) => OneRowAKey(q)
OthersStay(r, q, o) == \A x \in OwnerIds : x # o => q.owners[x] = r.owners[x]
Grows(r, q, o) ==
    /\ q \in Registries /\ q.owners[o] \in People /\ q.owners[o].status # "merged"
    /\ OthersStay(r, q, o) /\ RowsGrow(r, q, o)
    /\ \A c \in q.candidates : c \in r.candidates \/ c.ref = o

LEMMA AddedRowsGrow ==
  ASSUME NEW r \in Registries, NEW o \in OwnerIds, r.owners[o] \in People,
         NEW names \in SUBSET Names, NEW status \in {"pending", "confirmed"},
         NEW q, q = addAliases(r, o, names, status)
  PROVE  RowsGrow(r, q, o) /\ OthersStay(r, q, o)
<1>1. /\ r.owners \in [OwnerIds -> People \cup {NoOwner}] /\ r.aliases \subseteq AliasRows
  BY DEF Registries
<1>0. /\ q.owners = [r.owners EXCEPT ![o] = [r.owners[o] EXCEPT !.aliases = @ \cup names]]
      /\ q.aliases = {a \in r.aliases : \A n \in names : a.key # <<o, n>>} \cup {RowOf(r, o, n, status) : n \in names}
  <2>1. Added(r, o, names, status, q)
    BY RowsAdded, Zenon
  <2> QED
    BY <2>1 DEF Added
<1>2. q.owners[o].aliases = r.owners[o].aliases \cup names /\ OthersStay(r, q, o)
  BY <1>0, <1>1 DEF OthersStay, People
<1>3. \A n \in names : LET b == RowOf(r, o, n, status)
                       IN  b.owner = o /\ b.key = <<o, n>> /\ b.name = n /\ b.status = SureAs(r, o, n, status)
  BY DEF RowOf
<1>4. \A a \in q.aliases : a \in r.aliases \/ (a.owner = o /\ a.key = <<o, a.name>> /\ a.name \in q.owners[o].aliases)
  BY <1>0, <1>2, <1>3
<1>5. ASSUME NEW a \in r.aliases, a \notin q.aliases
      PROVE  \E b \in q.aliases : /\ b.key = a.key /\ b.owner = o /\ b.key = <<o, b.name>>
                                  /\ a.status = "confirmed" => b.status = "confirmed"
  <2>1. PICK n \in names : a.key = <<o, n>>
    BY <1>0, <1>5
  <2>2. a.status = "confirmed" => SureAs(r, o, n, status) = "confirmed"
    BY <2>1 DEF SureAs
  <2>3. RowOf(r, o, n, status) \in q.aliases
    BY <1>0
  <2> QED
    BY <1>3, <2>1, <2>2, <2>3
<1>6. ASSUME OneRowAKey(r), NEW a \in q.aliases, NEW b \in q.aliases, a.key = b.key
      PROVE  a = b
  <2>1. (a \in r.aliases /\ \A n \in names : a.key # <<o, n>>) \/ \E n \in names : a = RowOf(r, o, n, status)
    BY <1>0
  <2>2. (b \in r.aliases /\ \A n \in names : b.key # <<o, n>>) \/ \E n \in names : b = RowOf(r, o, n, status)
    BY <1>0
  <2>3. \A n, m \in names : <<o, n>> = <<o, m>> => n = m
    OBVIOUS
  <2>4. CASE a \in r.aliases /\ \A n \in names : a.key # <<o, n>>
    BY <1>3, <1>6, <2>2, <2>4 DEF OneRowAKey
  <2>5. CASE \E n \in names : a = RowOf(r, o, n, status)
    BY <1>3, <1>6, <2>2, <2>3, <2>5
  <2> QED
    BY <2>1, <2>4, <2>5
<1>7. OneRowAKey(r) => OneRowAKey(q)
  BY <1>6 DEF OneRowAKey
<1> QED
  BY <1>2, <1>4, <1>5, <1>7 DEF RowsGrow

Restated(r, o, status, q) ==
    /\ q \in Registries /\ q.aliases = r.aliases /\ q.candidates = r.candidates
    /\ q.owners = [r.owners EXCEPT ![o] = [r.owners[o] EXCEPT !.status = status]]
    /\ q.owners[o] \in People /\ q.owners[o].status = status /\ q.owners[o].aliases = r.owners[o].aliases
    /\ OthersStay(r, q, o)
LEMMA StatusGiven ==
  ASSUME NEW r \in Registries, NEW o \in OwnerIds, r.owners[o] \in People,
         NEW status \in {"pending", "confirmed", "merged"},
         NEW q, q = [r EXCEPT !.owners[o].status = status]
  PROVE  Restated(r, o, status, q)
<1>1. /\ r.owners \in [OwnerIds -> People \cup {NoOwner}] /\ r.aliases \subseteq AliasRows /\ r.candidates \subseteq Candidates
      /\ r = [owners |-> r.owners, aliases |-> r.aliases, candidates |-> r.candidates]
  BY DEF Registries
<1> DEFINE p == [r.owners[o] EXCEPT !.status = status]
           owners == [r.owners EXCEPT ![o] = p]
<1>2. p \in People /\ p.status = status /\ p.aliases = r.owners[o].aliases
  BY DEF People
<1>3. q = [r EXCEPT !.owners = owners]
  BY <1>1
<1>4. owners \in [OwnerIds -> People \cup {NoOwner}] /\ owners[o] = p /\ \A x \in OwnerIds : x # o => owners[x] = r.owners[x]
  BY <1>1, <1>2
<1> HIDE DEF owners
<1>5. q = [owners |-> owners, aliases |-> r.aliases, candidates |-> r.candidates]
  BY <1>1, <1>3
<1>6. q.owners = owners /\ q.aliases = r.aliases /\ q.candidates = r.candidates /\ q \in Registries
  BY <1>1, <1>4, <1>5 DEF Registries
<1> QED
  BY <1>2, <1>4, <1>6 DEF OthersStay, owners, Restated

\* What has grown by one owner may be asked about him, and settled.
LEMMA GrowsByRows ==
  ASSUME NEW r \in Registries, NEW s \in Registries, NEW o \in OwnerIds,
         s.aliases = r.aliases, s.candidates = r.candidates, OthersStay(r, s, o),
         s.owners[o] \in People, s.owners[o].status # "merged",
         NEW names \in SUBSET Names, NEW status \in {"pending", "confirmed"},
         NEW q, q = addAliases(s, o, names, status)
  PROVE  Grows(r, q, o) /\ q.candidates = r.candidates /\ q.owners[o].status = s.owners[o].status
<1>1. RowsGrow(s, q, o) /\ OthersStay(s, q, o)
  BY AddedRowsGrow, Zenon
<1>2. Added(s, o, names, status, q)
  BY RowsAdded, Zenon
<1>3. s.owners \in [OwnerIds -> People \cup {NoOwner}]
  BY DEF Registries
<1>4. /\ q \in Registries /\ q.candidates = r.candidates
      /\ q.owners[o] = [s.owners[o] EXCEPT !.aliases = @ \cup names]
  BY <1>2, <1>3 DEF Added
<1>5. q.owners[o] \in People /\ q.owners[o].status = s.owners[o].status
  BY <1>4 DEF People
<1>6. RowsGrow(r, q, o)
  BY <1>1 DEF RowsGrow, OneRowAKey
<1>7. OthersStay(r, q, o)
  BY <1>1 DEF OthersStay
<1> QED
  BY <1>4, <1>5, <1>6, <1>7 DEF Grows

\* What only asks: for ref, or for nobody yet.
Asks(r, q, ref) ==
    /\ q \in Registries /\ q.owners = r.owners /\ q.aliases = r.aliases
    /\ \A c \in q.candidates : c \in r.candidates \/ c.ref = ref

LEMMA Asked ==
  ASSUME RegistryShape, NEW r \in Registries, NEW n \in Names, NEW names \in SUBSET Names,
         NEW ref \in OwnerIds \cup {NoOwner}
  PROVE  Asks(r, upsertPendingCandidate(r, n, names, ref), ref)
<1> DEFINE q == upsertPendingCandidate(r, n, names, ref)
<1>1. /\ r.owners \in [OwnerIds -> People \cup {NoOwner}] /\ r.aliases \subseteq AliasRows /\ r.candidates \subseteq Candidates
      /\ r = [owners |-> r.owners, aliases |-> r.aliases, candidates |-> r.candidates]
  BY DEF Registries
<1> DEFINE old == CandidateOf(r, n, ref)
           id == IF ref # NoOwner THEN <<"owner", ref>> ELSE <<"name", n>>
           new == IF old = {} THEN [id |-> id, name |-> n, aliases |-> names, ref |-> ref]
                  ELSE [TheOne(old) EXCEPT !.aliases = @ \cup names]
           candidates == {c \in r.candidates : c.id # new.id} \cup {new}
<1>2. \A c \in old : c \in Candidates /\ c.ref = ref
  BY <1>1 DEF CandidateOf
<1>3. old # {} => TheOne(old) \in old
  BY DEF TheOne
<1>4. id \in {"owner", "name"} \X OwnerIds
  BY DEF OwnerIds
<1>5. new \in Candidates /\ new.ref = ref
  <2> HIDE DEF old, id
  <2>1. CASE old = {}
    BY <1>4, <2>1 DEF Candidates
  <2>2. CASE old # {}
    <3>1. TheOne(old) \in Candidates /\ TheOne(old).ref = ref /\ new = [TheOne(old) EXCEPT !.aliases = @ \cup names]
      BY <1>2, <1>3, <2>2
    <3> QED
      BY <3>1 DEF Candidates
  <2> QED
    BY <2>1, <2>2
<1>6. q = [r EXCEPT !.candidates = candidates]
  BY DEF upsertPendingCandidate
<1> HIDE DEF new
<1>7. candidates \subseteq Candidates /\ \A c \in candidates : c \in r.candidates \/ c.ref = ref
  BY <1>1, <1>5
<1> HIDE DEF candidates, q
<1>8. q = [owners |-> r.owners, aliases |-> r.aliases, candidates |-> candidates]
  BY <1>1, <1>6
<1>9. Asks(r, q, ref)
  BY <1>1, <1>7, <1>8 DEF Registries, Asks
<1> QED
  BY <1>9 DEF q

LEMMA Settled ==
  ASSUME NEW r \in Registries, NEW done, NEW q, q = WithoutCandidates(r, done)
  PROVE  q \in Registries /\ q.owners = r.owners /\ q.aliases = r.aliases /\ q.candidates = r.candidates \ done
<1>1. /\ r.owners \in [OwnerIds -> People \cup {NoOwner}] /\ r.aliases \subseteq AliasRows /\ r.candidates \subseteq Candidates
      /\ r = [owners |-> r.owners, aliases |-> r.aliases, candidates |-> r.candidates]
  BY DEF Registries
<1>2. q = [owners |-> r.owners, aliases |-> r.aliases, candidates |-> r.candidates \ done]
  BY <1>1 DEF WithoutCandidates
<1> QED
  BY <1>1, <1>2 DEF Registries

LEMMA AskedGrows ==
  ASSUME RegistryShape, NEW r, NEW o \in OwnerIds, NEW s, Grows(r, s, o),
         NEW n \in Names, NEW names \in SUBSET Names
  PROVE  Grows(r, upsertPendingCandidate(s, n, names, o), o)
<1> DEFINE q == upsertPendingCandidate(s, n, names, o)
<1>1. s \in Registries /\ o \in OwnerIds \cup {NoOwner}
  BY DEF Grows
<1>2. Asks(s, q, o)
  BY <1>1, Asked
<1> HIDE DEF q
<1>3. Grows(r, q, o)
  BY <1>2 DEF Grows, RowsGrow, OthersStay, OneRowAKey, Asks
<1> QED
  BY <1>3 DEF q

LEMMA SettledGrows ==
  ASSUME NEW r, NEW o \in OwnerIds, NEW s, Grows(r, s, o), NEW done
  PROVE  Grows(r, WithoutCandidates(s, done), o)
<1> DEFINE q == WithoutCandidates(s, done)
<1>1. s \in Registries
  BY DEF Grows
<1>2. q \in Registries /\ q.owners = s.owners /\ q.aliases = s.aliases /\ q.candidates = s.candidates \ done
  BY <1>1, Settled
<1> HIDE DEF q
<1> QED
  BY <1>2 DEF Grows, RowsGrow, OthersStay, OneRowAKey, q

LEMMA HeardGrows ==
  ASSUME RegistryShape, NEW r \in Registries, NEW o \in Unmerged(r), NEW n \in Names, NEW names \in SUBSET Names, NEW kind \in Kinds,
         NEW q, q = NamesHeard(r, o, n, names, kind)
  PROVE  Grows(r, q, o) /\ q.candidates = r.candidates /\ q.owners[o].status = StatusAfter(r, o, kind)
<1> DEFINE status == StatusAfter(r, o, kind)
           s == [r EXCEPT !.owners[o].status = status]
           known == addAliases(s, o, {n} \cup names, status)
<1>1. o \in OwnerIds /\ r.owners[o] \in People /\ r.owners[o].status # "merged"
  BY OwnersOf DEF Unmerged, ExistingOwners
<1>2. status \in {"pending", "confirmed"}
  BY <1>1 DEF StatusAfter, People
<1>3. /\ s \in Registries /\ s.aliases = r.aliases /\ s.candidates = r.candidates
      /\ s.owners[o] \in People /\ s.owners[o].status = status /\ OthersStay(r, s, o)
  <2>1. \A v \in {"pending", "confirmed", "merged"} : Restated(r, o, v, [r EXCEPT !.owners[o].status = v])
    BY <1>1, StatusGiven, Zenon
  <2>2. status \in {"pending", "confirmed", "merged"}
    BY <1>2
  <2> HIDE DEF status
  <2>3. Restated(r, o, status, s)
    BY <2>1, <2>2, Zenon
  <2> HIDE DEF s
  <2> QED
    BY <2>3 DEF Restated
<1>4. {n} \cup names \in SUBSET Names
  OBVIOUS
<1>5. q = known
  BY Zenon DEF NamesHeard
<1> HIDE DEF s, status
<1>6. s.owners[o].status # "merged"
  BY <1>2, <1>3
<1>7. Grows(r, known, o) /\ known.candidates = r.candidates /\ known.owners[o].status = s.owners[o].status
  BY <1>1, <1>2, <1>3, <1>4, <1>6, GrowsByRows
<1> HIDE DEF known
<1> QED
  BY <1>3, <1>5, <1>7 DEF status

LEMMA RecognizedGrows ==
  ASSUME RegistryShape, NEW r \in Registries, NEW o \in Unmerged(r), NEW n \in Names, NEW names \in SUBSET Names, NEW kind \in Kinds,
         NEW done
  PROVE  /\ Grows(r, Recognized(r, o, n, names, kind, done), o)
         /\ Grows(r, Addressed(r, o, n, names, kind), o)
         /\ Grows(r, upsertPendingCandidate(NamesHeard(r, o, n, names, kind), n, names, o), o)
<1>1. Grows(r, NamesHeard(r, o, n, names, kind), o) /\ Grows(r, NamesHeard(r, o, n, names, "confirmed"), o)
  BY HeardGrows DEF Kinds
<1>2. o \in OwnerIds
  BY DEF Unmerged, ExistingOwners
<1>3. Grows(r, upsertPendingCandidate(NamesHeard(r, o, n, names, kind), n, names, o), o)
  BY <1>1, <1>2, AskedGrows, Zenon
<1>4. \A gone : /\ Grows(r, WithoutCandidates(NamesHeard(r, o, n, names, kind), gone), o)
                /\ Grows(r, WithoutCandidates(NamesHeard(r, o, n, names, "confirmed"), gone), o)
  BY <1>1, <1>2, SettledGrows, Zenon
<1>5. Grows(r, Recognized(r, o, n, names, kind, done), o)
  BY <1>1, <1>3, <1>4, Zenon DEF Recognized
<1>6. Grows(r, Addressed(r, o, n, names, kind), o)
  BY <1>4, Zenon DEF Addressed
<1> QED
  BY <1>3, <1>5, <1>6

LEMMA CreatedGrows ==
  ASSUME RegistryShape, NEW r \in Registries, NEW id \in OwnerIds, NEW n \in Names, NEW names \in SUBSET Names, NEW kind \in Kinds
  PROVE  Grows(r, CreatedOwner(r, id, n, names, kind), id)
<1> DEFINE status == IF kind = "confirmed" THEN "confirmed" ELSE "pending"
           p == [name |-> n, aliases |-> {n}, status |-> status]
           s == [r EXCEPT !.owners[id] = p]
           new == addAliases(s, id, {n} \cup names, status)
<1>1. p \in People /\ p.status = status /\ status \in {"pending", "confirmed"}
  BY DEF People
<1>2. /\ r.owners \in [OwnerIds -> People \cup {NoOwner}] /\ r.aliases \subseteq AliasRows /\ r.candidates \subseteq Candidates
      /\ r = [owners |-> r.owners, aliases |-> r.aliases, candidates |-> r.candidates]
  BY DEF Registries
<1> HIDE DEF p, status
<1>3. s = [owners |-> [r.owners EXCEPT ![id] = p], aliases |-> r.aliases, candidates |-> r.candidates]
  BY <1>2
<1>4. /\ s \in Registries /\ s.aliases = r.aliases /\ s.candidates = r.candidates
      /\ s.owners[id] = p /\ OthersStay(r, s, id)
  BY <1>1, <1>2, <1>3 DEF Registries, OthersStay
<1>5. {n} \cup names \in SUBSET Names
  OBVIOUS
<1> HIDE DEF s
<1>6. s.owners[id] \in People /\ s.owners[id].status # "merged"
  BY <1>1, <1>4
<1>7. Grows(r, new, id)
  BY <1>1, <1>4, <1>5, <1>6, GrowsByRows, Zenon
<1>8. CreatedOwner(r, id, n, names, kind) = IF status = "pending" THEN upsertPendingCandidate(new, n, names, id) ELSE new
  BY Zenon DEF CreatedOwner, new, s, p, status
<1> HIDE DEF new
<1>9. Grows(r, upsertPendingCandidate(new, n, names, id), id)
  BY <1>7, AskedGrows, Zenon
<1> QED
  BY <1>7, <1>8, <1>9, Zenon

LEMMA TheOneIsOne ==
  ASSUME NEW S, S # {}
  PROVE  TheOne(S) \in S
BY DEF TheOne

LEMMA SoleIsOne ==
  ASSUME NEW S, Sole(S)
  PROVE  TheOne(S) \in S
BY TheOneIsOne DEF Sole

LEMMA ResolvableIsThere ==
  ASSUME NEW r \in Registries, NEW n
  PROVE  Resolvable(r, n) \subseteq Unmerged(r)
<1>1. r.aliases \subseteq AliasRows
  BY DEF Registries
<1>2. Named(r, n) \subseteq OwnerIds
  BY <1>1 DEF Named, AliasRows
<1> QED
  BY <1>2 DEF Resolvable, Unmerged, ExistingOwners

(* A discovery tells more of the owner it is for, or asks who it is for.     *)
Discovers(r, q, d) == (d \in OwnerIds /\ Grows(r, q, d)) \/ (d = NoOwner /\ Asks(r, q, NoOwner))
LEMMA DiscoverGrows ==
  ASSUME RegistryShape, NEW r \in Registries, NEW id \in OwnerIds, NEW n \in Names, NEW names \in SUBSET Names, NEW kind \in Kinds
  PROVE  Discovers(r, discover(r, id, n, names, kind), Discoverer(r, id, n, kind))
<1> DEFINE d == Discoverer(r, id, n, kind)
           q == discover(r, id, n, names, kind)
           known == TheOne(KnownAs(r, n))
           sure == TheOne(Resolvable(r, n))
           waiting == TheOne(Waiting(r, n))
           bearer == TheOne(Borne(r, n, kind))
<1>1. /\ KnownAs(r, n) \subseteq Unmerged(r) /\ Waiting(r, n) \subseteq Unmerged(r)
      /\ Borne(r, n, kind) \subseteq Unmerged(r) /\ Resolvable(r, n) \subseteq Unmerged(r)
      /\ Unmerged(r) \subseteq OwnerIds
  BY ResolvableIsThere DEF KnownAs, Waiting, Borne, Namesakes, Unmerged, ExistingOwners
<1>2. \A o \in Unmerged(r) : \A done :
          /\ Grows(r, Recognized(r, o, n, names, kind, done), o)
          /\ Grows(r, Addressed(r, o, n, names, kind), o)
          /\ Grows(r, upsertPendingCandidate(NamesHeard(r, o, n, names, kind), n, names, o), o)
  BY RecognizedGrows, Zenon
<1> SUFFICES Discovers(r, q, d)
  OBVIOUS
<1>3. CASE Sole(KnownAs(r, n))
  <2>1. known \in Unmerged(r) /\ known \in OwnerIds
    BY <1>1, <1>3, SoleIsOne
  <2>2. d = known /\ q = Recognized(r, known, n, names, kind, OfOwner(r, known) \cup {c \in r.candidates : c.name = n})
    BY <1>3, Zenon DEF Discoverer, discover
  <2> HIDE DEF d, q, known
  <2> QED
    BY <1>2, <2>1, <2>2, Zenon DEF Discovers
<1>4. CASE ~Sole(KnownAs(r, n)) /\ Sole(Resolvable(r, n))
  <2>1. sure \in Unmerged(r) /\ sure \in OwnerIds /\ Resolvable(r, n) # {}
    BY <1>1, <1>4, SoleIsOne
  <2>2. d = sure /\ q = Addressed(r, sure, n, names, kind)
    BY <1>4, <2>1, Zenon DEF Discoverer, discover, resolveMention
  <2> HIDE DEF d, q, sure
  <2> QED
    BY <1>2, <2>1, <2>2, Zenon DEF Discovers
<1>5. CASE ~Sole(KnownAs(r, n)) /\ ~Sole(Resolvable(r, n)) /\ Resolvable(r, n) # {}
  <2>1. d = NoOwner /\ q = r
    BY <1>5, Zenon DEF Discoverer, discover, resolveMention
  <2> HIDE DEF d, q
  <2> QED
    BY <2>1 DEF Asks, Discovers
<1> DEFINE Unsure == ~Sole(KnownAs(r, n)) /\ ~Sole(Resolvable(r, n)) /\ Resolvable(r, n) = {}
<1>6. CASE Unsure /\ Sole(Waiting(r, n))
  <2>1. waiting \in Unmerged(r) /\ waiting \in OwnerIds
    BY <1>1, <1>6, SoleIsOne
  <2>2. d = waiting /\ q = Recognized(r, waiting, n, names, kind, OfOwner(r, waiting))
    BY <1>6, Zenon DEF Discoverer, discover
  <2> HIDE DEF d, q, waiting
  <2> QED
    BY <1>2, <2>1, <2>2, Zenon DEF Discovers
<1>7. CASE Unsure /\ ~Sole(Waiting(r, n)) /\ Borne(r, n, kind) # {}
  <2>1. bearer \in Unmerged(r) /\ bearer \in OwnerIds
    BY <1>1, <1>7, TheOneIsOne
  <2>2. d = bearer
    BY <1>7, Zenon DEF Discoverer
  <2>3. \/ q = Recognized(r, bearer, n, names, kind, OfOwner(r, bearer))
        \/ q = upsertPendingCandidate(NamesHeard(r, bearer, n, names, kind), n, names, bearer)
    BY <1>7, Zenon DEF discover
  <2> HIDE DEF d, q, bearer
  <2> QED
    BY <1>2, <2>1, <2>2, <2>3, Zenon DEF Discovers
<1> DEFINE Nobody == Unsure /\ ~Sole(Waiting(r, n)) /\ Borne(r, n, kind) = {}
<1>8. CASE Nobody /\ Namesakes(r, n) # {} /\ ~Sole(Namesakes(r, n))
  <2>1. d = NoOwner /\ q = upsertPendingCandidate(r, n, names, NoOwner)
    BY <1>8, Zenon DEF Discoverer, discover
  <2> HIDE DEF d, q
  <2>2. Asks(r, q, NoOwner)
    BY <2>1, Asked
  <2> QED
    BY <2>1, <2>2 DEF Discovers
<1>9. CASE Nobody /\ ~(Namesakes(r, n) # {} /\ ~Sole(Namesakes(r, n)))
  <2>1. d = id /\ q = CreatedOwner(r, id, n, names, kind)
    BY <1>9, Zenon DEF Discoverer, discover
  <2> HIDE DEF d, q
  <2> QED
    BY <2>1, CreatedGrows, Zenon DEF Discovers
<1> QED
  BY <1>3, <1>4, <1>5, <1>6, <1>7, <1>8, <1>9, Zenon

-----------------------------------------------------------------------------
(* What a discovery leaves as it was.                                        *)
LEMMA FirmUnlessAstray ==
  ASSUME NEW q, NEW a \in q.aliases, a.owner \in Unmerged(q), a.name \notin Astray(q)
  PROVE  Firm(q, a)
BY DEF Firm, Astray, Unmerged

LEMMA DiscoveredRegular ==
  ASSUME NEW r, NEW moved, Regular(r, moved), NEW q, NEW d, Discovers(r, q, d)
  PROVE  Regular(q, moved)
<1>1. CASE d = NoOwner /\ Asks(r, q, NoOwner)
  BY <1>1 DEF Asks, Regular, OneRowAKey
<1>2. CASE d \in OwnerIds /\ Grows(r, q, d)
  <2>1. \A a \in q.aliases : a \in r.aliases \/ (a.owner = d /\ a.key = <<d, a.name>>)
    BY <1>2 DEF Grows, RowsGrow
  <2>2. \A a \in q.aliases : Keyed(a, moved)
    BY <2>1 DEF Regular, Keyed
  <2>3. q \in Registries /\ OneRowAKey(q)
    BY <1>2 DEF Grows, RowsGrow, Regular
  <2> QED
    BY <2>2, <2>3 DEF Regular
<1> QED
  BY <1>1, <1>2 DEF Discovers

LEMMA DiscoveredOwners ==
  ASSUME RegistryShape, NEW r \in Registries, NEW q, NEW d, Discovers(r, q, d)
  PROVE  /\ Unmerged(r) \subseteq Unmerged(q)
         /\ d = NoOwner \/ d \in Unmerged(q)
         /\ \A a \in r.aliases : \E b \in q.aliases : b.key = a.key
<1>1. CASE d = NoOwner /\ Asks(r, q, NoOwner)
  BY <1>1 DEF Asks, Unmerged, ExistingOwners
<1>2. CASE d \in OwnerIds /\ Grows(r, q, d)
  <2>1. d \in Unmerged(q)
    BY <1>2, OwnersOf DEF Grows
  <2>2. \A x \in OwnerIds : x # d => q.owners[x] = r.owners[x]
    BY <1>2 DEF Grows, OthersStay
  <2>3. Unmerged(r) \subseteq Unmerged(q)
    BY <2>1, <2>2 DEF Unmerged, ExistingOwners
  <2>4. \A a \in r.aliases : \E b \in q.aliases : b.key = a.key
    BY <1>2 DEF Grows, RowsGrow
  <2> QED
    BY <2>1, <2>3, <2>4
<1> QED
  BY <1>1, <1>2 DEF Discovers

\* The rows belong to owners that are there, and the candidates wait for such.
Held(r, lost) ==
    /\ \A a \in r.aliases : a.name \in lost \/ a.owner \in Unmerged(r)
    /\ \A c \in r.candidates : c.ref = NoOwner \/ c.ref \in Unmerged(r)

LEMMA SoundIsHeld ==
  ASSUME NEW r, NEW lost, Sound(r, lost)
  PROVE  Held(r, lost)
BY DEF Sound, Held, Firm

LEMMA HeldIsSound ==
  ASSUME NEW q, NEW lost, Held(q, lost)
  PROVE  Sound(q, lost \cup Astray(q))
<1>1. ASSUME NEW a \in q.aliases, a.name \notin lost \cup Astray(q)
      PROVE  Firm(q, a)
  BY <1>1, FirmUnlessAstray DEF Held
<1> QED
  BY <1>1 DEF Sound, Held

LEMMA DiscoveredHeld ==
  ASSUME RegistryShape, NEW r \in Registries, NEW q, NEW d, Discovers(r, q, d),
         NEW lost, Held(r, lost)
  PROVE  Held(q, lost)
<1>1. Unmerged(r) \subseteq Unmerged(q) /\ (d = NoOwner \/ d \in Unmerged(q))
  BY DiscoveredOwners
<1>2. \A a \in q.aliases : a \in r.aliases \/ a.owner \in Unmerged(q)
  BY <1>1 DEF Discovers, Grows, RowsGrow, Asks, RegistryShape
<1>3. \A c \in q.candidates : c \in r.candidates \/ c.ref = NoOwner \/ c.ref \in Unmerged(q)
  BY <1>1 DEF Discovers, Grows, Asks, RegistryShape
<1> QED
  BY <1>1, <1>2, <1>3 DEF Held

(* A name that has one meaning keeps it, or becomes unclear.                *)
LEMMA ResolveMeans ==
  ASSUME RegistryShape, NEW r \in Registries, NEW n
  PROVE  \A o \in OwnerIds : resolveMention(r, n) = o <=> Resolvable(r, n) = {o}
<1>1. Resolvable(r, n) \subseteq OwnerIds
  BY ResolvableIsThere DEF Unmerged, ExistingOwners
<1>2. NoOwner \notin OwnerIds
  BY DEF RegistryShape
<1> QED
  BY <1>1, <1>2, SoleIsOne DEF resolveMention, Sole

LEMMA DiscoveredNames ==
  ASSUME RegistryShape, NEW r, NEW moved, Regular(r, moved), NEW q, NEW d, Discovers(r, q, d),
         NEW n, n \notin moved, resolveMention(r, n) # NoOwner
  PROVE  resolveMention(q, n) \in {resolveMention(r, n), NoOwner}
<1>0. r \in Registries /\ q \in Registries
  BY DEF Regular, Discovers, Grows, Asks
<1>1. CASE d = NoOwner /\ Asks(r, q, NoOwner)
  BY <1>1 DEF Asks, resolveMention, Resolvable, Named
<1>2. CASE d \in OwnerIds /\ Grows(r, q, d)
  <2>1. resolveMention(r, n) \in OwnerIds
    BY <1>0, ResolvableIsThere, SoleIsOne DEF resolveMention, Unmerged, ExistingOwners
  <2>2. PICK o \in OwnerIds : resolveMention(r, n) = o /\ Resolvable(r, n) = {o}
    BY <1>0, <2>1, ResolveMeans
  <2>3. \A x \in OwnerIds : x # d => q.owners[x] = r.owners[x]
    BY <1>2 DEF Grows, OthersStay
  <2>4. Named(q, n) \subseteq Named(r, n) \cup {d}
    BY <1>2 DEF Named, Grows, RowsGrow
  <2>5. Named(r, n) \subseteq Named(q, n) \cup {d}
    <3> SUFFICES ASSUME NEW a \in r.aliases, a.name = n, a.status = "confirmed", a \notin q.aliases
                 PROVE  a.owner = d
      BY DEF Named
    <3>1. PICK b \in q.aliases : b.key = a.key /\ b.key = <<d, b.name>>
      BY <1>2 DEF Grows, RowsGrow
    <3>2. a.key[1] = a.owner
      BY DEF Regular, Keyed
    <3> QED
      BY <3>1, <3>2
  <2>6. Resolvable(q, n) \subseteq {o, d} /\ (o # d => o \in Resolvable(q, n))
    <3>0. Resolvable(q, n) \subseteq OwnerIds
      BY <1>0, ResolvableIsThere DEF Unmerged, ExistingOwners
    <3>1. ASSUME NEW x \in Resolvable(q, n), x # d
          PROVE  x \in Resolvable(r, n)
      BY <2>3, <2>4, <3>0, <3>1 DEF Resolvable
    <3>2. ASSUME o # d
          PROVE  o \in Resolvable(q, n)
      <4>1. o \in Resolvable(r, n)
        BY <2>2
      <4> QED
        BY <2>3, <2>5, <3>2, <4>1 DEF Resolvable
    <3> QED
      BY <2>2, <3>1, <3>2
  <2>7. \A x \in OwnerIds : Resolvable(q, n) = {x} => x = o
    BY <2>6
  <2>8. \A x \in OwnerIds : resolveMention(q, n) = x => x = o
    BY <1>0, <2>7, ResolveMeans
  <2>9. resolveMention(q, n) \in OwnerIds \cup {NoOwner}
    BY <1>0, ResolvableIsThere, SoleIsOne DEF resolveMention, Unmerged, ExistingOwners
  <2> QED
    BY <2>2, <2>8, <2>9
<1> QED
  BY <1>1, <1>2 DEF Discovers

-----------------------------------------------------------------------------
(* The corrections of the user.                                              *)
Keeps(r, q, was, moved) ==
    /\ Regular(r, was) => Regular(q, moved)
    /\ \A lost : Sound(r, lost) => Sound(q, lost \cup Astray(q))

LEMMA GrownKeeps ==
  ASSUME RegistryShape, NEW r \in Registries, NEW q, NEW o \in OwnerIds, Grows(r, q, o), NEW moved
  PROVE  Keeps(r, q, moved, moved)
<1>1. Discovers(r, q, o)
  BY DEF Discovers
<1>2. Regular(r, moved) => Regular(q, moved)
  BY <1>1, DiscoveredRegular
<1>3. \A lost : Sound(r, lost) => Sound(q, lost \cup Astray(q))
  BY <1>1, SoundIsHeld, DiscoveredHeld, HeldIsSound, Zenon
<1> QED
  BY <1>2, <1>3 DEF Keeps

\* First rows go, then rows of one owner come.
LEMMA ThinnedThenGrown ==
  ASSUME RegistryShape, NEW r, NEW s \in Registries, s.aliases \subseteq r.aliases,
         NEW o \in OwnerIds, NEW q, Grows(s, q, o), NEW moved
  PROVE  /\ Regular(r, moved) => Regular(q, moved)
         /\ \A lost : Held(s, lost) => Sound(q, lost \cup Astray(q))
<1>1. Discovers(s, q, o)
  BY DEF Discovers
<1>2. Regular(r, moved) => Regular(s, moved)
  BY DEF Regular, OneRowAKey
<1>3. Regular(r, moved) => Regular(q, moved)
  BY <1>1, <1>2, DiscoveredRegular, Zenon
<1>4. \A lost : Held(s, lost) => Sound(q, lost \cup Astray(q))
  BY <1>1, DiscoveredHeld, HeldIsSound, Zenon
<1> QED
  BY <1>3, <1>4

LEMMA RenameKeeps ==
  ASSUME RegistryShape, NEW r \in Registries, NEW o \in Unmerged(r), NEW n \in Names, NEW moved
  PROVE  Renamed(r, o, n) \in Registries /\ Keeps(r, Renamed(r, o, n), moved, moved)
<1> DEFINE p == [r.owners[o] EXCEPT !.name = n]
           s == [r EXCEPT !.owners[o].name = n]
           q == addAliases(s, o, {n}, "confirmed")
<1>1. o \in OwnerIds /\ r.owners[o] \in People /\ r.owners[o].status # "merged"
  BY OwnersOf DEF Unmerged, ExistingOwners
<1>2. p \in People /\ p.status = r.owners[o].status
  BY <1>1 DEF People
<1>3. /\ r.owners \in [OwnerIds -> People \cup {NoOwner}] /\ r.aliases \subseteq AliasRows /\ r.candidates \subseteq Candidates
      /\ r = [owners |-> r.owners, aliases |-> r.aliases, candidates |-> r.candidates]
  BY DEF Registries
<1>4. s = [owners |-> [r.owners EXCEPT ![o] = p], aliases |-> r.aliases, candidates |-> r.candidates]
  BY <1>1, <1>3
<1> HIDE DEF p, s
<1>5. /\ s \in Registries /\ s.aliases = r.aliases /\ s.candidates = r.candidates
      /\ s.owners[o] = p /\ OthersStay(r, s, o)
  BY <1>1, <1>2, <1>3, <1>4 DEF Registries, OthersStay
<1>6. s.owners[o] \in People /\ s.owners[o].status # "merged" /\ {n} \in SUBSET Names
  BY <1>1, <1>2, <1>5
<1>7. Grows(r, q, o)
  BY <1>1, <1>5, <1>6, GrowsByRows
<1>8. q = Renamed(r, o, n)
  BY Zenon DEF Renamed, s
<1> HIDE DEF q
<1>9. q \in Registries
  BY <1>7 DEF Grows
<1> QED
  BY <1>1, <1>7, <1>8, <1>9, GrownKeeps, Zenon

LEMMA SplitKeeps ==
  ASSUME RegistryShape, NEW r \in Registries, NEW o \in Unmerged(r), NEW n \in Names,
         NEW new \in FreshOwners, r.owners[new] = NoOwner, NEW moved
  PROVE  Split(r, o, n, new) \in Registries /\ Keeps(r, Split(r, o, n, new), moved, moved)
<1> DEFINE p == [r.owners[o] EXCEPT !.aliases = @ \ {n}]
           fresh == [name |-> n, aliases |-> {n}, status |-> "confirmed"]
           owners == [r.owners EXCEPT ![o].aliases = r.owners[o].aliases \ {n}, ![new] = fresh]
           aliases == {a \in r.aliases : ~(a.owner = o /\ a.name = n)}
           s == [r EXCEPT !.owners = owners, !.aliases = aliases]
           q == addAliases(s, new, {n}, "confirmed")
<1>1. o \in OwnerIds /\ r.owners[o] \in People /\ r.owners[o].status # "merged" /\ new \in OwnerIds
  BY OwnersOf DEF Unmerged, ExistingOwners, OwnerIds
<1>2. p \in People /\ p.status = r.owners[o].status /\ fresh \in People /\ fresh.status # "merged"
  BY <1>1 DEF People
<1>3. /\ r.owners \in [OwnerIds -> People \cup {NoOwner}] /\ r.aliases \subseteq AliasRows /\ r.candidates \subseteq Candidates
      /\ r = [owners |-> r.owners, aliases |-> r.aliases, candidates |-> r.candidates]
  BY DEF Registries
<1> HIDE DEF fresh
<1>4. s = [owners |-> owners, aliases |-> aliases, candidates |-> r.candidates]
  <2>1. s = [r EXCEPT !.owners = owners, !.aliases = aliases]
    OBVIOUS
  <2> HIDE DEF aliases, owners, s
  <2> QED
    BY <1>3, <2>1
<1> HIDE DEF s
<1>5. /\ s \in Registries /\ s.aliases = aliases /\ s.candidates = r.candidates
      /\ s.owners[new] = fresh /\ Unmerged(r) \subseteq Unmerged(s)
  <2>1. owners \in [OwnerIds -> People \cup {NoOwner}] /\ owners[new] = fresh /\ (o # new => owners[o] = p)
        /\ \A x \in OwnerIds : x # o /\ x # new => owners[x] = r.owners[x]
    BY <1>1, <1>2, <1>3
  <2>2. aliases \subseteq AliasRows /\ p # NoOwner
    BY <1>2, <1>3 DEF RegistryShape
  <2> HIDE DEF owners, aliases
  <2>3. s \in Registries /\ s.aliases = aliases /\ s.candidates = r.candidates /\ s.owners = owners
    BY <1>3, <1>4, <2>1, <2>2 DEF Registries
  <2>4. Unmerged(r) \subseteq Unmerged(s)
    BY <1>1, <1>2, <2>1, <2>2, <2>3 DEF Unmerged, ExistingOwners
  <2> QED
    BY <2>1, <2>3, <2>4
<1>6. s.owners[new] \in People /\ s.owners[new].status # "merged" /\ {n} \in SUBSET Names
  BY <1>2, <1>5
<1>7. OthersStay(s, s, new)
  BY DEF OthersStay
<1>8. Grows(s, q, new)
  BY <1>1, <1>5, <1>6, <1>7, GrowsByRows
<1>9. q = Split(r, o, n, new)
  BY Zenon DEF Split, s, aliases, owners, fresh
<1>10. \A lost : Sound(r, lost) => Held(s, lost)
  BY <1>5 DEF Sound, Held, Firm
<1> HIDE DEF q
<1>11. q \in Registries /\ s.aliases \subseteq r.aliases
  BY <1>5, <1>8 DEF Grows
<1>12. /\ Regular(r, moved) => Regular(q, moved)
       /\ \A lost : Held(s, lost) => Sound(q, lost \cup Astray(q))
  BY <1>1, <1>5, <1>8, <1>11, ThinnedThenGrown, Zenon
<1>13. Keeps(r, q, moved, moved)
  BY <1>10, <1>12, Zenon DEF Keeps
<1> QED
  BY <1>9, <1>11, <1>13

LEMMA MergeKeeps ==
  ASSUME RegistryShape, NEW r \in Registries, NEW from \in Unmerged(r), NEW into \in Unmerged(r), from # into, NEW moved
  PROVE  MergedInto(r, from, into) \in Registries /\ Keeps(r, MergedInto(r, from, into), moved, moved)
<1> DEFINE p == [r.owners[from] EXCEPT !.status = "merged"]
           t == [r.owners[into] EXCEPT !.aliases = @ \cup r.owners[from].aliases]
           owners == [r.owners EXCEPT ![from].status = "merged", ![into].aliases = r.owners[into].aliases \cup r.owners[from].aliases]
           aliases == r.aliases \ AliasesOf(r, from)
           candidates == {IF c.ref = from THEN [c EXCEPT !.ref = into] ELSE c : c \in r.candidates}
           s == [r EXCEPT !.owners = owners, !.aliases = aliases, !.candidates = candidates]
           names == {a.name : a \in AliasesOf(r, from)}
           q == addAliases(s, into, names, "confirmed")
<1>1. /\ from \in OwnerIds /\ r.owners[from] \in People
      /\ into \in OwnerIds /\ r.owners[into] \in People /\ r.owners[into].status # "merged"
  BY OwnersOf DEF Unmerged, ExistingOwners
<1>2. p \in People /\ t \in People /\ t.status = r.owners[into].status
  BY <1>1 DEF People
<1>3. /\ r.owners \in [OwnerIds -> People \cup {NoOwner}] /\ r.aliases \subseteq AliasRows /\ r.candidates \subseteq Candidates
      /\ r = [owners |-> r.owners, aliases |-> r.aliases, candidates |-> r.candidates]
  BY DEF Registries
<1>4. s = [owners |-> owners, aliases |-> aliases, candidates |-> candidates]
  <2>1. s = [r EXCEPT !.owners = owners, !.aliases = aliases, !.candidates = candidates]
    OBVIOUS
  <2> HIDE DEF candidates, aliases, owners, s
  <2> QED
    BY <1>3, <2>1
<1>5. \A c \in candidates : c \in Candidates /\ (\/ c \in r.candidates /\ c.ref # from
                                                 \/ c.ref = into)
  BY <1>1, <1>3 DEF Candidates
<1>6. names \in SUBSET Names
  BY <1>3 DEF AliasesOf, AliasRows
<1> HIDE DEF s, names, candidates
<1>7. /\ s \in Registries /\ s.aliases = aliases /\ s.candidates = candidates
      /\ s.owners[into] = t /\ \A x \in OwnerIds : x # from /\ x # into => s.owners[x] = r.owners[x]
  <2>1. owners \in [OwnerIds -> People \cup {NoOwner}] /\ owners[into] = t
        /\ \A x \in OwnerIds : x # from /\ x # into => owners[x] = r.owners[x]
    BY <1>1, <1>2, <1>3
  <2>2. aliases \subseteq AliasRows
    BY <1>3
  <2> HIDE DEF owners, aliases
  <2> QED
    BY <1>3, <1>4, <1>5, <2>1, <2>2 DEF Registries
<1>8. s.owners[into] \in People /\ s.owners[into].status # "merged" /\ OthersStay(s, s, into)
  BY <1>1, <1>2, <1>7 DEF OthersStay
<1>9. Grows(s, q, into)
  BY <1>1, <1>6, <1>7, <1>8, GrowsByRows
<1>10. q = MergedInto(r, from, into)
  BY Zenon DEF MergedInto, s, names, owners, aliases, candidates
<1>11. Unmerged(r) \ {from} \subseteq Unmerged(s) /\ into \in Unmerged(s)
  BY <1>1, <1>2, <1>7, OwnersOf DEF Unmerged, ExistingOwners, RegistryShape
<1>12. \A lost : Sound(r, lost) => Held(s, lost)
  <2> TAKE lost
  <2> HAVE Sound(r, lost)
  <2>1. \A a \in s.aliases : a.name \in lost \/ a.owner \in Unmerged(s)
    BY <1>7, <1>11 DEF Sound, Firm, AliasesOf
  <2>2. \A c \in s.candidates : c.ref = NoOwner \/ c.ref \in Unmerged(s)
    BY <1>5, <1>7, <1>11 DEF Sound
  <2> QED
    BY <2>1, <2>2 DEF Held
<1> HIDE DEF q
<1>13. q \in Registries /\ s.aliases \subseteq r.aliases
  BY <1>7, <1>9 DEF Grows
<1>14. /\ Regular(r, moved) => Regular(q, moved)
       /\ \A lost : Held(s, lost) => Sound(q, lost \cup Astray(q))
  BY <1>1, <1>7, <1>9, <1>13, ThinnedThenGrown, Zenon
<1>15. Keeps(r, q, moved, moved)
  BY <1>12, <1>14, Zenon DEF Keeps
<1> QED
  BY <1>10, <1>13, <1>15

LEMMA GivenKeeps ==
  ASSUME RegistryShape, NEW r \in Registries, NEW a \in r.aliases, NEW o \in Unmerged(r), NEW moved
  PROVE  Given(r, a, o) \in Registries /\ Keeps(r, Given(r, a, o), moved, moved \cup {a.name})
<1> DEFINE loses == IF r.owners[a.owner] = NoOwner THEN r ELSE [r EXCEPT !.owners[a.owner].aliases = @ \ {a.name}]
           b == [a EXCEPT !.owner = o, !.status = "confirmed"]
           aliases == (r.aliases \ {a}) \cup {b}
           q == Given(r, a, o)
<1>1. /\ r.owners \in [OwnerIds -> People \cup {NoOwner}] /\ r.aliases \subseteq AliasRows /\ r.candidates \subseteq Candidates
      /\ r = [owners |-> r.owners, aliases |-> r.aliases, candidates |-> r.candidates]
  BY DEF Registries
<1>2. o \in OwnerIds /\ r.owners[o] \in People /\ r.owners[o].status # "merged" /\ a.owner \in OwnerIds
  BY <1>1, OwnersOf DEF Unmerged, ExistingOwners, AliasRows
<1>3. /\ loses \in Registries /\ loses.aliases = r.aliases /\ loses.candidates = r.candidates
      /\ Unmerged(r) \subseteq Unmerged(loses)
  <2>1. CASE r.owners[a.owner] = NoOwner
    BY <2>1
  <2>2. CASE r.owners[a.owner] # NoOwner
    <3> DEFINE p == [r.owners[a.owner] EXCEPT !.aliases = @ \ {a.name}]
               s == [r EXCEPT !.owners[a.owner].aliases = @ \ {a.name}]
    <3>1. r.owners[a.owner] \in People
      BY <1>2, <2>2, OwnersOf DEF ExistingOwners
    <3>2. p \in People /\ p.status = r.owners[a.owner].status
      BY <3>1 DEF People
    <3>3. s = [owners |-> [r.owners EXCEPT ![a.owner] = p], aliases |-> r.aliases, candidates |-> r.candidates]
      BY <1>1, <1>2
    <3> HIDE DEF p, s
    <3>4. s \in Registries /\ s.aliases = r.aliases /\ s.candidates = r.candidates
          /\ s.owners[a.owner] = p /\ \A x \in OwnerIds : x # a.owner => s.owners[x] = r.owners[x]
      BY <1>1, <1>2, <3>2, <3>3 DEF Registries
    <3>5. Unmerged(r) \subseteq Unmerged(s)
      BY <3>2, <3>4 DEF Unmerged, ExistingOwners, RegistryShape
    <3>6. loses = s
      BY <2>2, Zenon DEF s
    <3> HIDE DEF loses
    <3> QED
      BY <3>4, <3>5, <3>6
  <2> QED
    BY <2>1, <2>2
<1>4. b \in AliasRows /\ b.key = a.key /\ b.owner = o /\ b.name = a.name
  BY <1>1, <1>2 DEF AliasRows
<1> HIDE DEF loses
<1>5. loses.owners[o] \in People /\ loses.owners[o].status # "merged"
  BY <1>2, <1>3, OwnersOf
<1>6. loses.owners \in [OwnerIds -> People \cup {NoOwner}]
      /\ loses = [owners |-> loses.owners, aliases |-> r.aliases, candidates |-> r.candidates]
  BY <1>3 DEF Registries
<1> DEFINE t == [loses.owners[o] EXCEPT !.aliases = @ \cup {a.name}]
<1>7. t \in People /\ t.status = loses.owners[o].status
  BY <1>1, <1>5 DEF People, AliasRows
<1> HIDE DEF b
<1>8. q = [loses EXCEPT !.aliases = (@ \ {a}) \cup {b}, !.owners[o].aliases = @ \cup {a.name}]
  BY Zenon DEF Given, loses, b
<1> HIDE DEF q
<1>9. q = [owners |-> [loses.owners EXCEPT ![o] = t], aliases |-> aliases, candidates |-> r.candidates]
  <2> DEFINE owners == [loses.owners EXCEPT ![o] = t]
  <2>1. loses.aliases = r.aliases
    BY <1>3
  <2>2. q = [loses EXCEPT !.aliases = (loses.aliases \ {a}) \cup {b}, !.owners = owners]
    BY <1>2, <1>6, <1>8
  <2>3. q = [loses EXCEPT !.aliases = aliases, !.owners = owners]
    BY <2>1, <2>2
  <2> HIDE DEF owners, aliases
  <2>4. q = [owners |-> owners, aliases |-> aliases, candidates |-> r.candidates]
    <3> DEFINE l == loses
    <3>1. l \in Registries /\ l.candidates = r.candidates
      BY <1>3
    <3>2. q = [l EXCEPT !.aliases = aliases, !.owners = owners]
      BY <2>3
    <3> HIDE DEF l
    <3> QED
      BY <3>1, <3>2 DEF Registries
  <2> QED
    BY <2>4 DEF owners
<1> HIDE DEF t
<1>10. /\ q \in Registries /\ q.aliases = aliases /\ q.candidates = r.candidates /\ q.owners[o] = t
       /\ \A x \in OwnerIds : x # o => q.owners[x] = loses.owners[x]
  BY <1>1, <1>2, <1>4, <1>6, <1>7, <1>9 DEF Registries
<1>11. Unmerged(r) \subseteq Unmerged(q)
  BY <1>3, <1>5, <1>7, <1>10 DEF Unmerged, ExistingOwners, RegistryShape
<1>12. \A lost : Sound(r, lost) => Sound(q, lost \cup Astray(q))
  <2> TAKE lost
  <2> HAVE Sound(r, lost)
  <2>1. \A x \in q.aliases : x.name \in lost \/ x.owner \in Unmerged(q)
    BY <1>4, <1>10, <1>11 DEF Sound, Firm
  <2>2. \A c \in q.candidates : c.ref = NoOwner \/ c.ref \in Unmerged(q)
    BY <1>10, <1>11 DEF Sound
  <2> QED
    BY <2>1, <2>2, HeldIsSound DEF Held
<1>13. ASSUME Regular(r, moved)
       PROVE  Regular(q, moved \cup {a.name})
  <2>1. OneRowAKey(q)
    BY <1>4, <1>10, <1>13 DEF Regular, OneRowAKey
  <2>2. \A x \in q.aliases : Keyed(x, moved \cup {a.name})
    BY <1>4, <1>10, <1>13 DEF Regular, Keyed
  <2> QED
    BY <1>10, <2>1, <2>2 DEF Regular
<1> QED
  BY <1>10, <1>12, <1>13 DEF Keeps, q

LEMMA TakenThins ==
  ASSUME RegistryShape, NEW r \in Registries, NEW o \in OwnerIds, NEW names \in SUBSET Names,
         NEW q, q = Taken(r, o, names)
  PROVE  /\ q \in Registries /\ q.candidates = r.candidates
         /\ q.aliases = {a \in r.aliases : a.owner = o \/ a.name \notin names}
         /\ q.owners[o] = r.owners[o] /\ Unmerged(q) = Unmerged(r)
<1> DEFINE left(x) == [r.owners[x] EXCEPT !.aliases = r.owners[x].aliases \ Lost(r, x, names)]
           owners == [x \in OwnerIds |-> IF x = o \/ r.owners[x] = NoOwner THEN r.owners[x] ELSE left(x)]
           aliases == {a \in r.aliases : a.owner = o \/ a.name \notin names}
<1>1. /\ r.owners \in [OwnerIds -> People \cup {NoOwner}] /\ r.aliases \subseteq AliasRows /\ r.candidates \subseteq Candidates
      /\ r = [owners |-> r.owners, aliases |-> r.aliases, candidates |-> r.candidates]
  BY DEF Registries
<1>2. ASSUME NEW x \in OwnerIds, r.owners[x] # NoOwner
      PROVE  left(x) \in People /\ left(x).status = r.owners[x].status
  <2>1. r.owners[x] \in People
    BY <1>1, <1>2
  <2> QED
    BY <2>1 DEF People
<1> HIDE DEF left
<1>3. \A x \in OwnerIds : /\ owners[x] \in People \cup {NoOwner}
                          /\ owners[x] = NoOwner <=> r.owners[x] = NoOwner
                          /\ r.owners[x] # NoOwner => owners[x].status = r.owners[x].status
  BY <1>1, <1>2 DEF RegistryShape
<1>4. q = [r EXCEPT !.aliases = aliases, !.owners = owners]
  BY Zenon DEF Taken, left
<1>5. owners \in [OwnerIds -> People \cup {NoOwner}] /\ owners[o] = r.owners[o]
  BY <1>3
<1>6. aliases \subseteq AliasRows
  BY <1>1
<1> HIDE DEF owners, aliases
<1>7. q = [owners |-> owners, aliases |-> aliases, candidates |-> r.candidates]
  BY <1>1, <1>4
<1>8. q \in Registries /\ q.owners = owners /\ q.aliases = aliases /\ q.candidates = r.candidates
  BY <1>1, <1>5, <1>6, <1>7 DEF Registries
<1>9. Unmerged(q) = Unmerged(r)
  BY <1>3, <1>8 DEF Unmerged, ExistingOwners
<1> QED
  BY <1>5, <1>8, <1>9 DEF aliases

LEMMA AllSureKeeps ==
  ASSUME NEW r \in Registries, NEW o, NEW moved, NEW q, q = AllSure(r, o)
  PROVE  /\ q \in Registries /\ q.owners = r.owners /\ q.candidates = r.candidates
         /\ \A a \in q.aliases : \E b \in r.aliases : a.owner = b.owner /\ a.name = b.name
         /\ Regular(r, moved) => Regular(q, moved)
<1> DEFINE sure(a) == IF a.owner = o THEN [a EXCEPT !.status = "confirmed"] ELSE a
           aliases == {sure(a) : a \in r.aliases}
<1>1. /\ r.owners \in [OwnerIds -> People \cup {NoOwner}] /\ r.aliases \subseteq AliasRows /\ r.candidates \subseteq Candidates
      /\ r = [owners |-> r.owners, aliases |-> r.aliases, candidates |-> r.candidates]
  BY DEF Registries
<1>2. \A a \in AliasRows : sure(a) \in AliasRows /\ sure(a).key = a.key /\ sure(a).owner = a.owner /\ sure(a).name = a.name
  BY DEF AliasRows
<1>3. q = [r EXCEPT !.aliases = aliases]
  BY Zenon DEF AllSure
<1> HIDE DEF sure
<1>4. aliases \subseteq AliasRows
  BY <1>1, <1>2
<1>5. \A a \in aliases : \E b \in r.aliases : a = sure(b) /\ a.key = b.key /\ a.owner = b.owner /\ a.name = b.name
  BY <1>1, <1>2
<1> HIDE DEF aliases
<1>6. q = [owners |-> r.owners, aliases |-> aliases, candidates |-> r.candidates]
  BY <1>1, <1>3
<1>7. q \in Registries /\ q.owners = r.owners /\ q.aliases = aliases /\ q.candidates = r.candidates
  BY <1>1, <1>4, <1>6 DEF Registries
<1>8. Regular(r, moved) => Regular(q, moved)
  <2> HAVE Regular(r, moved)
  <2>1. OneRowAKey(q)
    BY <1>5, <1>7 DEF Regular, OneRowAKey
  <2>2. \A a \in q.aliases : Keyed(a, moved)
    BY <1>5, <1>7 DEF Regular, Keyed
  <2> QED
    BY <1>7, <2>1, <2>2 DEF Regular
<1> QED
  BY <1>5, <1>7, <1>8

(* A confirmation follows on the registry as it was, or on one that a       *)
(* discovery of the confirmed owner has grown.                              *)
FollowsOn(before, r, o) ==
    /\ r \in Registries /\ o \in Unmerged(r) /\ Unmerged(before) \subseteq Unmerged(r)
    /\ OthersStay(before, r, o)
    /\ \A a \in r.aliases : a \in before.aliases \/ a.owner = o
    /\ \A k \in r.candidates : k \in before.candidates \/ k.ref = o

LEMMA FollowsItself ==
  ASSUME NEW r \in Registries, NEW o \in Unmerged(r)
  PROVE  FollowsOn(r, r, o)
BY DEF FollowsOn, OthersStay

LEMMA FollowsDiscovery ==
  ASSUME RegistryShape, NEW r \in Registries, NEW q, NEW o \in OwnerIds, Grows(r, q, o)
  PROVE  FollowsOn(r, q, o)
<1>1. Discovers(r, q, o) /\ o # NoOwner
  BY DEF Discovers, RegistryShape
<1>2. Unmerged(r) \subseteq Unmerged(q) /\ o \in Unmerged(q)
  BY <1>1, DiscoveredOwners
<1> QED
  BY <1>2 DEF Grows, RowsGrow, FollowsOn

LEMMA ConfirmKeeps ==
  ASSUME RegistryShape, NEW before \in Registries, NEW o, NEW r, FollowsOn(before, r, o), NEW c \in before.candidates,
         NEW moved
  PROVE  LET q == Confirmed(before, r, c, o)
         IN  /\ q \in Registries
             /\ Regular(r, moved) => Regular(q, moved)
             /\ \A lost : Sound(before, lost) => Sound(q, lost \cup Astray(q))
<1> DEFINE held == c.ref \in ExistingOwners(before)
           waits == held /\ c.ref # o /\ before.owners[c.ref].status = "pending"
           gone == [r EXCEPT !.owners[c.ref].status = "merged"]
           away == IF waits THEN gone ELSE r
           names == {c.name} \cup c.aliases \cup (IF held THEN before.owners[c.ref].aliases ELSE {})
           asked == IF held THEN c.ref ELSE NoOwner
           done == {d \in r.candidates : d.id = c.id \/ d.ref = asked \/ d.name = c.name}
           s1 == [away EXCEPT !.owners[o].status = "confirmed"]
           s2 == Taken(s1, o, names)
           s3 == addAliases(s2, o, names, "confirmed")
           s4 == AllSure(s3, o)
           q == WithoutCandidates(s4, done)
           x == c.ref
<1>1. c \in Candidates /\ r \in Registries /\ o \in OwnerIds /\ r.owners[o] \in People /\ r.owners[o].status # "merged"
  BY OwnersOf DEF FollowsOn, Unmerged, ExistingOwners, Registries
<1>2. held => before.owners[x] \in People /\ x \in OwnerIds
  BY OwnersOf DEF ExistingOwners
<1>3. names \in SUBSET Names
  BY <1>1, <1>2 DEF Candidates, People
<1>4. waits => x \in OwnerIds /\ x # o /\ r.owners[x] = before.owners[x] /\ r.owners[x] \in People
  BY <1>2 DEF FollowsOn, OthersStay
<1>5. /\ away \in Registries /\ away.aliases = r.aliases /\ away.candidates = r.candidates
      /\ away.owners[o] \in People
      /\ Unmerged(r) \ (IF waits THEN {x} ELSE {}) \subseteq Unmerged(away)
  <2>1. CASE ~waits
    BY <1>1, <2>1
  <2>2. CASE waits
    <3>1. Restated(r, x, "merged", gone)
      BY <1>1, <1>4, <2>2, StatusGiven
    <3>2. away = gone
      BY <2>2
    <3> HIDE DEF gone, away
    <3>3. \A y \in OwnerIds : y # x => gone.owners[y] = r.owners[y]
      BY <3>1 DEF Restated, OthersStay
    <3>4. Unmerged(r) \ {x} \subseteq Unmerged(gone)
      BY <3>3 DEF Unmerged, ExistingOwners
    <3>5. gone.owners[o] \in People
      BY <1>1, <1>4, <2>2, <3>3
    <3> QED
      BY <2>2, <3>1, <3>2, <3>4, <3>5 DEF Restated
  <2> QED
    BY <2>1, <2>2
<1> HIDE DEF away
<1>6. Restated(away, o, "confirmed", s1)
  BY <1>1, <1>5, StatusGiven
<1> HIDE DEF s1, names
<1>7. /\ s1 \in Registries /\ s1.aliases = r.aliases /\ s1.candidates = r.candidates
      /\ s1.owners[o] \in People /\ s1.owners[o].status = "confirmed"
      /\ Unmerged(r) \ (IF waits THEN {x} ELSE {}) \subseteq Unmerged(s1)
  <2>1. \A y \in OwnerIds : y # o => s1.owners[y] = away.owners[y]
    BY <1>6 DEF Restated, OthersStay
  <2>2. s1.owners[o] \in People /\ s1.owners[o].status = "confirmed"
    BY <1>6 DEF Restated
  <2>3. Unmerged(away) \subseteq Unmerged(s1)
    BY <2>1, <2>2 DEF Unmerged, ExistingOwners, RegistryShape
  <2> QED
    BY <1>5, <1>6, <2>2, <2>3 DEF Restated
<1>8. /\ s2 \in Registries /\ s2.candidates = s1.candidates
      /\ s2.aliases = {a \in s1.aliases : a.owner = o \/ a.name \notin names}
      /\ s2.owners[o] = s1.owners[o] /\ Unmerged(s2) = Unmerged(s1)
  BY <1>1, <1>3, <1>7, TakenThins
<1> HIDE DEF s2
<1>9. s2.owners[o] \in People /\ s2.owners[o].status # "merged" /\ OthersStay(s2, s2, o)
  BY <1>7, <1>8 DEF OthersStay
<1>10. Grows(s2, s3, o) /\ s3.candidates = s2.candidates
  BY <1>1, <1>3, <1>8, <1>9, GrowsByRows
<1> HIDE DEF s3
<1>11. s3 \in Registries /\ Discovers(s2, s3, o)
  BY <1>1, <1>10 DEF Grows, Discovers
<1>12. /\ s4 \in Registries /\ s4.owners = s3.owners /\ s4.candidates = s3.candidates
       /\ \A a \in s4.aliases : \E b \in s3.aliases : a.owner = b.owner /\ a.name = b.name
       /\ Regular(s3, moved) => Regular(s4, moved)
  BY <1>11, AllSureKeeps
<1> HIDE DEF s4
<1>13. q \in Registries /\ q.owners = s4.owners /\ q.aliases = s4.aliases /\ q.candidates = s4.candidates \ done
  <2> HIDE DEF done
  <2> QED
    BY <1>12, Settled
<1> HIDE DEF q
<1>14. Regular(r, moved) => Regular(q, moved)
  <2>1. Regular(r, moved) => Regular(s2, moved)
    BY <1>7, <1>8 DEF Regular, OneRowAKey
  <2>2. Regular(s2, moved) => Regular(s3, moved)
    BY <1>11, DiscoveredRegular
  <2>3. Regular(s4, moved) => Regular(q, moved)
    BY <1>13 DEF Regular, OneRowAKey
  <2> QED
    BY <1>12, <2>1, <2>2, <2>3
<1>15. Unmerged(r) \ (IF waits THEN {x} ELSE {}) \subseteq Unmerged(q) /\ Unmerged(s2) \subseteq Unmerged(q) /\ o \in Unmerged(q)
  <2>1. Unmerged(s2) \subseteq Unmerged(s3) /\ o \in Unmerged(s3)
    BY <1>1, <1>8, <1>11, DiscoveredOwners DEF RegistryShape
  <2>2. Unmerged(q) = Unmerged(s3)
    BY <1>12, <1>13 DEF Unmerged, ExistingOwners
  <2> QED
    BY <1>7, <1>8, <2>1, <2>2
<1>16. ASSUME NEW lost, Sound(before, lost)
       PROVE  Sound(q, lost \cup Astray(q))
  <2>1. ASSUME NEW a \in s2.aliases, a.name \notin lost
        PROVE  a.owner \in Unmerged(q)
    <3>1. CASE a.owner = o
      BY <1>15, <3>1
    <3>2. CASE a.owner # o
      <4>1. a \in before.aliases /\ a.name \notin names
        BY <1>7, <1>8, <3>2 DEF FollowsOn
      <4>2. a.owner \in Unmerged(before) /\ a.name \in before.owners[a.owner].aliases
        BY <1>16, <2>1, <4>1 DEF Sound, Firm
      <4>3. ~(waits /\ a.owner = x)
        BY <4>1, <4>2 DEF names
      <4> QED
        BY <1>15, <4>2, <4>3 DEF FollowsOn
    <3> QED
      BY <3>1, <3>2
  <2>2. \A a \in s3.aliases : a.name \in lost \/ a.owner \in Unmerged(q)
    BY <1>10, <1>15, <2>1 DEF Grows, RowsGrow
  <2>3. \A a \in q.aliases : a.name \in lost \/ a.owner \in Unmerged(q)
    BY <1>12, <1>13, <2>2
  <2>4. ASSUME NEW k \in q.candidates, k.ref # NoOwner
        PROVE  k.ref \in Unmerged(q)
    <3>1. k \in r.candidates /\ k.ref # asked
      BY <1>7, <1>8, <1>10, <1>12, <1>13, <2>4
    <3>2. ~(waits /\ k.ref = x)
      BY <3>1
    <3>3. k.ref \in Unmerged(r)
      BY <1>16, <2>4, <3>1 DEF FollowsOn, Sound
    <3> QED
      BY <1>15, <3>2, <3>3
  <2> QED
    BY <2>3, <2>4, HeldIsSound DEF Held
<1>17. Confirmed(before, r, c, o) = q
  BY Zenon DEF Confirmed, q, s4, s3, s2, s1, away, names
<1> QED
  BY <1>13, <1>14, <1>16, <1>17

-----------------------------------------------------------------------------
(* The steps.                                                                *)
LEMMA StillTrue ==
  ASSUME NEW r, NEW moved, NEW more, moved \subseteq more
  PROVE  /\ Regular(r, moved) => Regular(r, more)
         /\ Sound(r, moved) => Sound(r, more)
BY DEF Regular, Keyed, Sound

LEMMA AstrayNames ==
  ASSUME NEW r \in Registries
  PROVE  Astray(r) \subseteq Names
BY DEF Registries, Astray, AliasRows

LEMMA ListedKeeps ==
  ASSUME RegistryShape, NEW r \in Registries, NEW q, q = Listed(r)
  PROVE  /\ q \in Registries /\ q.aliases = r.aliases /\ q.candidates = r.candidates
         /\ \A o \in OwnerIds : q.owners[o] = IF o \in Unmerged(r) THEN r.owners[o] ELSE NoOwner
         /\ Unmerged(q) = Unmerged(r) /\ NoneMerged(q)
         /\ \A moved : Regular(r, moved) => Regular(q, moved)
         /\ \A lost : Sound(r, lost) => Sound(q, lost)
<1> DEFINE owners == [o \in OwnerIds |-> IF o \in Unmerged(r) THEN r.owners[o] ELSE NoOwner]
<1>1. /\ r.owners \in [OwnerIds -> People \cup {NoOwner}] /\ r.aliases \subseteq AliasRows /\ r.candidates \subseteq Candidates
      /\ r = [owners |-> r.owners, aliases |-> r.aliases, candidates |-> r.candidates]
  BY DEF Registries
<1>2. owners \in [OwnerIds -> People \cup {NoOwner}]
      /\ \A o \in OwnerIds : owners[o] = IF o \in Unmerged(r) THEN r.owners[o] ELSE NoOwner
  BY <1>1
<1>3. q = [r EXCEPT !.owners = owners]
  BY Zenon DEF Listed
<1> HIDE DEF owners
<1>4. q = [owners |-> owners, aliases |-> r.aliases, candidates |-> r.candidates]
  BY <1>1, <1>3
<1>5. q \in Registries /\ q.owners = owners /\ q.aliases = r.aliases /\ q.candidates = r.candidates
  BY <1>1, <1>2, <1>4 DEF Registries
<1>6. Unmerged(q) = Unmerged(r) /\ NoneMerged(q)
  BY <1>2, <1>5 DEF Unmerged, ExistingOwners, NoneMerged
<1>7. \A moved : Regular(r, moved) => Regular(q, moved)
  BY <1>5 DEF Regular, OneRowAKey
<1>8. \A o \in Unmerged(r) : q.owners[o] = r.owners[o]
  BY <1>2, <1>5 DEF Unmerged, ExistingOwners
<1>9. \A lost : Sound(r, lost) => Sound(q, lost)
  BY <1>5, <1>6, <1>8 DEF Sound, Firm
<1> QED
  BY <1>2, <1>5, <1>6, <1>7, <1>9

LEMMA NamesInvInit ==
  ASSUME RegistryShape, RegistryInit
  PROVE  NamesInv
<1>1. /\ EmptyRegistry \in Registries /\ EmptyRegistry.aliases = {} /\ EmptyRegistry.candidates = {}
      /\ \A o \in OwnerIds : EmptyRegistry.owners[o] = NoOwner
  BY DEF EmptyRegistry, Registries
<1>2. \A moved : Regular(EmptyRegistry, moved) /\ Sound(EmptyRegistry, moved)
  BY <1>1 DEF Regular, OneRowAKey, Sound
<1>3. NoneMerged(EmptyRegistry) /\ Covered(EmptyRegistry, EmptyRegistry)
  BY <1>1 DEF NoneMerged, Covered, ExistingOwners
<1>4. Same(EmptyRegistry, EmptyRegistry)
  <2>1. Listed(EmptyRegistry).owners = EmptyRegistry.owners
    BY <1>1 DEF Listed, EmptyRegistry, Unmerged, ExistingOwners
  <2> QED
    BY <2>1 DEF Same
<1>5. /\ registry = EmptyRegistry /\ storedRegistry = EmptyRegistry /\ trail = << >> /\ inflight = {}
      /\ unsaved = FALSE /\ behind = FALSE /\ corrected = {} /\ adrift = {} /\ discoveries = 0
  BY DEF RegistryInit
<1>6. CountsInv
  <2>1. << >> \in Seq([before : Registries, undone : BOOLEAN]) /\ Len(<< >>) = 0
    OBVIOUS
  <2>2. MaxDiscoveries \in Nat /\ MaxCorrections \in Nat
    BY DEF RegistryShape
  <2>3. 0 \in 0..MaxDiscoveries /\ 0 <= MaxCorrections
    BY <2>2
  <2> QED
    BY <1>5, <2>1, <2>3 DEF CountsInv
<1>7. RowsInv
  BY <1>2, <1>3, <1>5 DEF RowsInv
<1>8. SoundInv
  BY <1>2, <1>3, <1>4, <1>5 DEF SoundInv, Carried, Latest, Corrections
<1> QED
  BY <1>6, <1>7, <1>8 DEF NamesInv

LEMMA DiscoveredStep ==
  ASSUME RegistryShape, NamesInv, NEW q, NEW d, Discovers(registry, q, d), Discovered(q)
  PROVE  NamesInv'
<1>1. /\ discoveries < MaxDiscoveries /\ discoveries' = discoveries + 1 /\ registry' = q
      /\ unsaved' = TRUE /\ behind' = (behind \/ Corrections(inflight) # {}) /\ adrift' = adrift \cup Astray(q)
      /\ UNCHANGED <<trail, storedRegistry, inflight, corrected>>
  BY DEF Discovered
<1>2. registry \in Registries /\ Regular(registry, corrected)
  BY DEF NamesInv, RowsInv, Regular
<1>3. q \in Registries /\ Regular(q, corrected)
  BY <1>2, DiscoveredRegular DEF Regular
<1>4. Astray(q) \subseteq Names
  BY <1>3, AstrayNames
<1>5. CountsInv'
  BY <1>1, <1>4 DEF NamesInv, CountsInv, RegistryShape
<1>6. RowsInv'
  BY <1>1, <1>3 DEF NamesInv, RowsInv
<1>7. ASSUME ~behind'
      PROVE  SoundInv'
  <2>1. ~behind /\ Latest = {} /\ Latest' = {} /\ Carried' = Carried
    BY <1>1, <1>7 DEF Latest, Corrections, Carried
  <2>2. /\ Sound(registry, adrift) /\ \A i \in DOMAIN trail : Sound(trail[i].before, adrift)
        /\ Covered(storedRegistry, registry) /\ Sound(storedRegistry, adrift)
        /\ \A w \in Carried : Covered(w.rows, registry) /\ Sound(w.rows, adrift) /\ Covered(storedRegistry, w.rows)
    BY <2>1 DEF NamesInv, SoundInv
  <2>3. Sound(q, adrift')
    BY <1>1, <1>2, <2>2, SoundIsHeld, DiscoveredHeld, HeldIsSound
  <2>4. /\ \A i \in DOMAIN trail : Sound(trail[i].before, adrift')
        /\ Sound(storedRegistry, adrift') /\ \A w \in Carried : Sound(w.rows, adrift')
    BY <1>1, <2>2, StillTrue
  <2>5. ASSUME NEW t, Covered(t, registry)
        PROVE  Covered(t, q)
    <3>1. Unmerged(registry) \subseteq Unmerged(q) /\ \A a \in registry.aliases : \E b \in q.aliases : b.key = a.key
      BY <1>2, DiscoveredOwners
    <3>2. ExistingOwners(t) \subseteq Unmerged(q)
      BY <2>5, <3>1 DEF Covered
    <3>3. \A a \in t.aliases : \E b \in q.aliases : b.key = a.key
      BY <2>5, <3>1 DEF Covered
    <3> QED
      BY <3>2, <3>3 DEF Covered
  <2> QED
    BY <1>1, <2>1, <2>2, <2>3, <2>4, <2>5 DEF SoundInv
<1> QED
  BY <1>5, <1>6, <1>7 DEF NamesInv, SoundInv

(* A correction that begins to be written is the last, and nothing a        *)
(* capture took is as new.                                                  *)
LEMMA OvertakingIsLast ==
  ASSUME RegistryShape, NamesInv, NEW kind \in {"correction", "undo"}, NEW i \in 1..MaxCorrections,
         NEW q \in Registries, NEW moved, corrected \subseteq moved, Regular(q, moved),
         inflight' = Overtaking(kind, i, q)
  PROVE  /\ inflight' \subseteq Writes /\ \A v, w \in inflight' : v.kind = "capture" /\ w.kind = "capture" => v = w
         /\ \A w \in inflight' : Regular(w.rows, moved) /\ NoneMerged(w.rows)
         /\ Carried' = {} /\ Latest' # {} /\ \A w \in Latest' : w.rows = Listed(q)
<1> DEFINE is == Listed(q)
           new == [kind |-> kind, audit |-> i, rows |-> is, old |-> FALSE]
           older == {[w EXCEPT !.old = TRUE] : w \in inflight}
<1>1. is \in Registries /\ Regular(is, moved) /\ NoneMerged(is)
  BY ListedKeeps
<1>2. inflight' = older \cup {new} /\ is = Listed(q)
  BY DEF Overtaking
<1> HIDE DEF is
<1>3. new \in Writes /\ new.kind = kind /\ new.rows = is /\ ~new.old
  BY <1>1 DEF Writes, RegistryShape
<1>4. /\ inflight \subseteq Writes /\ \A v, w \in inflight : v.kind = "capture" /\ w.kind = "capture" => v = w
      /\ \A w \in inflight : Regular(w.rows, corrected) /\ NoneMerged(w.rows)
  BY DEF NamesInv, CountsInv, RowsInv
<1>5. ASSUME NEW w \in inflight
      PROVE  /\ [w EXCEPT !.old = TRUE] \in Writes /\ [w EXCEPT !.old = TRUE].old
             /\ [w EXCEPT !.old = TRUE].kind = w.kind /\ [w EXCEPT !.old = TRUE].rows = w.rows
  BY <1>4 DEF Writes
<1>6. \A w \in older : \E v \in inflight : w = [v EXCEPT !.old = TRUE] /\ w \in Writes /\ w.old /\ w.kind = v.kind /\ w.rows = v.rows
  BY <1>5
<1> HIDE DEF new, older
<1>7. inflight' \subseteq Writes
  BY <1>2, <1>3, <1>6
<1>8. \A v, w \in inflight' : v.kind = "capture" /\ w.kind = "capture" => v = w
  <2> SUFFICES ASSUME NEW v \in inflight', NEW w \in inflight', v.kind = "capture", w.kind = "capture" PROVE v = w
    OBVIOUS
  <2>1. v \in older /\ w \in older
    BY <1>2, <1>3
  <2>2. PICK x \in inflight : v = [x EXCEPT !.old = TRUE] /\ v.kind = x.kind
    BY <1>6, <2>1
  <2>3. PICK y \in inflight : w = [y EXCEPT !.old = TRUE] /\ w.kind = y.kind
    BY <1>6, <2>1
  <2>4. x = y
    BY <1>4, <2>2, <2>3
  <2> QED
    BY <2>2, <2>3, <2>4
<1>9. \A w \in inflight' : Regular(w.rows, moved) /\ NoneMerged(w.rows)
  BY <1>1, <1>2, <1>3, <1>4, <1>6, StillTrue
<1>10. Carried' = {}
  BY <1>2, <1>3, <1>6 DEF Carried
<1>11. Latest' = {new}
  BY <1>2, <1>3, <1>6 DEF Latest, Corrections
<1> QED
  BY <1>2, <1>3, <1>7, <1>8, <1>9, <1>10, <1>11

LEMMA CorrectsStep ==
  ASSUME RegistryShape, NamesInv, NEW q \in Registries, Keeps(registry, q, corrected, corrected'), Corrects(q),
         corrected \subseteq corrected', corrected' \subseteq Names
  PROVE  NamesInv'
<1>1. /\ Len(trail) < MaxCorrections /\ registry' = q /\ inflight' = Overtaking("correction", Len(trail) + 1, q)
      /\ trail' = Append(trail, [before |-> Listed(registry), undone |-> FALSE])
      /\ adrift' = adrift \cup Astray(q) /\ UNCHANGED <<storedRegistry, unsaved, behind, discoveries>>
  BY DEF Corrects
<1>2. /\ registry \in Registries /\ Regular(registry, corrected) /\ Regular(q, corrected')
  BY DEF NamesInv, RowsInv, Regular, Keeps
<1> DEFINE was == Listed(registry)
<1>3. was \in Registries /\ Regular(was, corrected) /\ \A lost : Sound(registry, lost) => Sound(was, lost)
  BY <1>2, ListedKeeps
<1>4. trail' = Append(trail, [before |-> was, undone |-> FALSE])
  BY <1>1
<1> HIDE DEF was
<1>5. /\ inflight' \subseteq Writes /\ \A v, w \in inflight' : v.kind = "capture" /\ w.kind = "capture" => v = w
      /\ \A w \in inflight' : Regular(w.rows, corrected') /\ NoneMerged(w.rows)
      /\ Carried' = {} /\ Latest' # {} /\ \A w \in Latest' : w.rows = Listed(q)
  <2>1. Len(trail) \in Nat /\ MaxCorrections \in Nat
    BY DEF NamesInv, CountsInv, RegistryShape
  <2>2. Len(trail) + 1 \in 1..MaxCorrections
    BY <1>1, <2>1
  <2>3. Regular(q, corrected')
    BY <1>2
  <2> QED
    BY <1>1, <2>2, <2>3, OvertakingIsLast
<1>6. /\ trail \in Seq([before : Registries, undone : BOOLEAN]) /\ Len(trail) <= MaxCorrections
      /\ {unsaved, behind} \subseteq BOOLEAN /\ {corrected, adrift} \subseteq SUBSET Names /\ discoveries \in 0..MaxDiscoveries
  BY DEF NamesInv, CountsInv
<1>7. /\ trail' \in Seq([before : Registries, undone : BOOLEAN]) /\ Len(trail') = Len(trail) + 1
      /\ \A i \in DOMAIN trail' : (i \in DOMAIN trail /\ trail'[i] = trail[i]) \/ trail'[i].before = was
  BY <1>3, <1>4, <1>6
<1>8. CountsInv'
  <2>1. Astray(q) \subseteq Names
    BY AstrayNames
  <2>2. Len(trail) \in Nat /\ MaxCorrections \in Nat
    BY <1>6 DEF RegistryShape
  <2>3. Len(trail') <= MaxCorrections
    BY <1>1, <1>7, <2>2
  <2> QED
    BY <1>1, <1>5, <1>6, <1>7, <2>1, <2>3 DEF CountsInv
<1>9. RowsInv'
  <2>1. \A i \in DOMAIN trail : Regular(trail[i].before, corrected)
    BY DEF NamesInv, RowsInv
  <2>2. \A i \in DOMAIN trail' : Regular(trail'[i].before, corrected')
    BY <1>3, <1>7, <2>1, StillTrue
  <2>3. Regular(storedRegistry, corrected) /\ NoneMerged(storedRegistry)
    BY DEF NamesInv, RowsInv
  <2>4. Regular(storedRegistry, corrected')
    BY <2>3, StillTrue
  <2> QED
    BY <1>1, <1>2, <1>5, <2>2, <2>3, <2>4 DEF RowsInv
<1>10. ASSUME ~behind
       PROVE  SoundInv'
  <2>1. Sound(registry, adrift) /\ \A i \in DOMAIN trail : Sound(trail[i].before, adrift)
    BY <1>10 DEF NamesInv, SoundInv
  <2>2. Sound(q, adrift')
    BY <1>1, <2>1 DEF Keeps
  <2>3. \A i \in DOMAIN trail' : Sound(trail'[i].before, adrift')
    <3>1. Sound(was, adrift)
      BY <1>3, <2>1
    <3>2. \A i \in DOMAIN trail' : Sound(trail'[i].before, adrift)
      BY <1>7, <2>1, <3>1
    <3> QED
      BY <1>1, <3>2, StillTrue
  <2> QED
    BY <1>1, <1>5, <2>2, <2>3 DEF SoundInv
<1> QED
  BY <1>1, <1>8, <1>9, <1>10 DEF NamesInv, SoundInv

LEMMA UndoStep ==
  ASSUME RegistryShape, NamesInv, NEW i \in DOMAIN trail, UndoCorrection(i)
  PROVE  NamesInv'
<1> DEFINE b == trail[i].before
<1>1. /\ registry' = b /\ inflight' = Overtaking("undo", i, b)
      /\ trail' = [trail EXCEPT ![i].undone = TRUE]
      /\ UNCHANGED <<storedRegistry, unsaved, behind, corrected, adrift, discoveries>>
  BY DEF UndoCorrection
<1>2. /\ trail \in Seq([before : Registries, undone : BOOLEAN]) /\ Len(trail) <= MaxCorrections
      /\ {unsaved, behind} \subseteq BOOLEAN /\ {corrected, adrift} \subseteq SUBSET Names /\ discoveries \in 0..MaxDiscoveries
  BY DEF NamesInv, CountsInv
<1>3. b \in Registries /\ Regular(b, corrected)
  BY DEF NamesInv, RowsInv, Regular
<1>4. /\ inflight' \subseteq Writes /\ \A v, w \in inflight' : v.kind = "capture" /\ w.kind = "capture" => v = w
      /\ \A w \in inflight' : Regular(w.rows, corrected) /\ NoneMerged(w.rows)
      /\ Carried' = {} /\ Latest' # {} /\ \A w \in Latest' : w.rows = Listed(b)
  <2>1. i \in 1..MaxCorrections
    BY <1>2 DEF RegistryShape
  <2> HIDE DEF b
  <2> QED
    BY <1>1, <1>3, <2>1, OvertakingIsLast
<1>5. /\ trail' \in Seq([before : Registries, undone : BOOLEAN]) /\ Len(trail') = Len(trail) /\ DOMAIN trail' = DOMAIN trail
      /\ \A j \in DOMAIN trail : trail'[j].before = trail[j].before
  <2> DEFINE Audits == [before : Registries, undone : BOOLEAN]
             done == [trail[i] EXCEPT !.undone = TRUE]
  <2>1. trail[i] \in Audits
    <3>1. trail \in Seq(Audits)
      BY <1>2
    <3> HIDE DEF Audits
    <3> QED
      BY <3>1
  <2>2. done \in Audits /\ done.before = trail[i].before
    BY <2>1
  <2>3. trail \in Seq(Audits) /\ trail' = [trail EXCEPT ![i] = done]
    BY <1>1, <1>2
  <2> HIDE DEF Audits, done
  <2>4. trail' \in Seq(Audits) /\ Len(trail') = Len(trail)
    BY <2>2, <2>3
  <2>5. DOMAIN trail' = DOMAIN trail /\ \A j \in DOMAIN trail : trail'[j] = IF j = i THEN done ELSE trail[j]
    BY <2>3
  <2> QED
    BY <2>2, <2>4, <2>5 DEF Audits
<1>6. CountsInv'
  BY <1>1, <1>2, <1>4, <1>5 DEF CountsInv
<1>7. RowsInv'
  <2>1. /\ \A j \in DOMAIN trail : Regular(trail[j].before, corrected)
        /\ Regular(storedRegistry, corrected) /\ NoneMerged(storedRegistry)
    BY DEF NamesInv, RowsInv
  <2> HIDE DEF b
  <2> QED
    BY <1>1, <1>3, <1>4, <1>5, <2>1 DEF RowsInv
<1>8. ASSUME ~behind
      PROVE  SoundInv'
  <2>1. \A j \in DOMAIN trail : Sound(trail[j].before, adrift)
    BY <1>8 DEF NamesInv, SoundInv
  <2>2. Sound(b, adrift)
    BY <2>1
  <2> HIDE DEF b
  <2> QED
    BY <1>1, <1>4, <1>5, <2>1, <2>2 DEF SoundInv
<1> QED
  BY <1>1, <1>6, <1>7, <1>8 DEF NamesInv, SoundInv

LEMMA ListedIsItself ==
  ASSUME NEW r \in Registries, NoneMerged(r)
  PROVE  Listed(r).owners = r.owners /\ ExistingOwners(r) \subseteq Unmerged(r)
<1>1. ExistingOwners(r) \subseteq Unmerged(r)
  BY DEF NoneMerged, ExistingOwners, Unmerged
<1>2. r.owners \in [OwnerIds -> People \cup {NoOwner}] /\ r = [owners |-> r.owners, aliases |-> r.aliases, candidates |-> r.candidates]
  BY DEF Registries
<1> DEFINE owners == [o \in OwnerIds |-> IF o \in Unmerged(r) THEN r.owners[o] ELSE NoOwner]
<1>3. owners = r.owners
  BY <1>1, <1>2 DEF ExistingOwners
<1>4. Listed(r) = [r EXCEPT !.owners = owners]
  BY Zenon DEF Listed
<1> HIDE DEF owners
<1>5. Listed(r).owners = owners
  BY <1>2, <1>4
<1> QED
  BY <1>1, <1>3, <1>5

LEMMA ReloadStep ==
  ASSUME RegistryShape, NamesInv, ReloadRegistry
  PROVE  NamesInv'
<1>1. /\ registry' = storedRegistry /\ unsaved' = FALSE /\ behind' = (behind \/ inflight # {})
      /\ UNCHANGED <<trail, storedRegistry, inflight, corrected, adrift, discoveries>>
  BY DEF ReloadRegistry
<1>2. CountsInv'
  BY <1>1 DEF NamesInv, CountsInv
<1>3. RowsInv'
  BY <1>1 DEF NamesInv, RowsInv
<1>4. ASSUME ~behind, inflight = {}
      PROVE  SoundInv'
  <2>1. Latest = {} /\ Latest' = {} /\ Carried' = {}
    BY <1>1, <1>4 DEF Latest, Corrections, Carried
  <2>2. /\ Sound(storedRegistry, adrift) /\ \A i \in DOMAIN trail : Sound(trail[i].before, adrift)
        /\ storedRegistry \in Registries /\ NoneMerged(storedRegistry)
    BY <1>4, <2>1 DEF NamesInv, SoundInv, RowsInv, Regular
  <2>3. Listed(storedRegistry).owners = storedRegistry.owners /\ ExistingOwners(storedRegistry) \subseteq Unmerged(storedRegistry)
    BY <2>2, ListedIsItself
  <2>4. Same(storedRegistry, storedRegistry) /\ Covered(storedRegistry, storedRegistry)
    BY <2>3 DEF Same, Covered
  <2> QED
    BY <1>1, <2>1, <2>2, <2>4 DEF SoundInv
<1> QED
  BY <1>1, <1>2, <1>3, <1>4 DEF NamesInv, SoundInv

(* What the rows of a capture leave of those that are stored: nothing but   *)
(* themselves when they hold all of them.                                   *)
LEMMA UpsertedKeeps ==
  ASSUME RegistryShape, NEW r, NEW t, NEW moved,
         Regular(r, moved), Regular(t, moved), NoneMerged(r), NoneMerged(t), NEW u, u = Upserted(t, r)
  PROVE  /\ Regular(u, moved) /\ NoneMerged(u)
         /\ Covered(t, r) => u.aliases = r.aliases /\ u.owners = r.owners
         /\ \A lost : Covered(t, r) /\ Sound(r, lost) /\ Sound(t, lost) => Sound(u, lost)
<1> DEFINE owners == [o \in OwnerIds |-> IF o \in ExistingOwners(r) THEN r.owners[o] ELSE t.owners[o]]
           aliases == r.aliases \cup {a \in t.aliases : \A b \in r.aliases : b.key # a.key}
           candidates == r.candidates \cup
                         {c \in t.candidates :
                            /\ \A d \in r.candidates : d.id # c.id
                            /\ c.ref = NoOwner \/ c.ref \notin ExistingOwners(r) \/ r.owners[c.ref].status # "confirmed"}
<1>1. u = [owners |-> owners, aliases |-> aliases, candidates |-> candidates]
  BY DEF Upserted
<1>2. r \in Registries /\ t \in Registries
  BY DEF Regular
<1>3. /\ r.owners \in [OwnerIds -> People \cup {NoOwner}] /\ r.aliases \subseteq AliasRows /\ r.candidates \subseteq Candidates
      /\ t.owners \in [OwnerIds -> People \cup {NoOwner}] /\ t.aliases \subseteq AliasRows /\ t.candidates \subseteq Candidates
  BY <1>2 DEF Registries
<1>4. owners \in [OwnerIds -> People \cup {NoOwner}]
      /\ \A o \in OwnerIds : owners[o] = IF o \in ExistingOwners(r) THEN r.owners[o] ELSE t.owners[o]
  BY <1>3
<1>5. aliases \subseteq AliasRows /\ candidates \subseteq Candidates
  BY <1>3
<1>6. /\ \A a \in aliases : a \in r.aliases \/ (a \in t.aliases /\ \A b \in r.aliases : b.key # a.key)
      /\ r.aliases \subseteq aliases
  OBVIOUS
<1>7. \A c \in candidates : c \in r.candidates \/ c \in t.candidates
  OBVIOUS
<1> HIDE DEF owners, aliases, candidates
<1>8. u \in Registries /\ u.owners = owners /\ u.aliases = aliases /\ u.candidates = candidates
  BY <1>1, <1>4, <1>5 DEF Registries
<1>9. NoneMerged(u)
  BY <1>4, <1>8 DEF NoneMerged, ExistingOwners
<1>10. OneRowAKey(u)
  <2>1. OneRowAKey(r) /\ OneRowAKey(t)
    BY DEF Regular
  <2> SUFFICES ASSUME NEW a \in aliases, NEW b \in aliases, a.key = b.key PROVE a = b
    BY <1>8 DEF OneRowAKey
  <2>2. a \in r.aliases <=> b \in r.aliases
    BY <1>6
  <2> QED
    BY <1>6, <2>1, <2>2 DEF OneRowAKey
<1>11. Regular(u, moved)
  BY <1>6, <1>8, <1>10 DEF Regular
<1>12. ASSUME Covered(t, r)
       PROVE  u.aliases = r.aliases /\ u.owners = r.owners
  <2>1. aliases = r.aliases
    BY <1>6, <1>12 DEF Covered
  <2>2. \A o \in OwnerIds : owners[o] = r.owners[o]
    BY <1>4, <1>12 DEF Covered, ExistingOwners, Unmerged
  <2> QED
    BY <1>3, <1>4, <1>8, <2>1, <2>2
<1>13. ASSUME NEW lost, Covered(t, r), Sound(r, lost), Sound(t, lost)
       PROVE  Sound(u, lost)
  <2>1. u.aliases = r.aliases /\ u.owners = r.owners /\ Unmerged(u) = Unmerged(r)
    BY <1>12, <1>13 DEF Unmerged, ExistingOwners
  <2>2. \A c \in t.candidates : c.ref = NoOwner \/ c.ref \in Unmerged(r)
    BY <1>13 DEF Sound, Covered, Unmerged
  <2> QED
    BY <1>7, <1>8, <1>13, <2>1, <2>2 DEF Sound, Firm
<1> QED
  BY <1>9, <1>11, <1>12, <1>13

LEMMA LandsStep ==
  ASSUME RegistryShape, NamesInv, NEW w \in inflight, WriteLands(w)
  PROVE  NamesInv'
<1>1. /\ inflight' = inflight \ {w} /\ unsaved' = (unsaved /\ w.kind = "capture")
      /\ storedRegistry' = IF w.kind = "capture" THEN Upserted(storedRegistry, w.rows) ELSE w.rows
      /\ behind' = (behind \/ (w.old /\ Latest = {}))
      /\ UNCHANGED <<registry, trail, corrected, adrift, discoveries>>
  BY DEF WriteLands
<1>2. /\ Regular(w.rows, corrected) /\ NoneMerged(w.rows) /\ Regular(storedRegistry, corrected) /\ NoneMerged(storedRegistry)
      /\ w.rows \in Registries /\ registry \in Registries
  BY DEF NamesInv, RowsInv, Regular
<1>3. w.old \in BOOLEAN /\ w.kind \in {"capture", "correction", "undo"}
  BY DEF NamesInv, CountsInv, Writes
<1>4. CountsInv'
  BY <1>1 DEF NamesInv, CountsInv
<1>5. Regular(storedRegistry', corrected) /\ NoneMerged(storedRegistry')
  BY <1>1, <1>2, UpsertedKeeps
<1>6. RowsInv'
  BY <1>1, <1>5 DEF NamesInv, RowsInv
<1>7. /\ Latest' = Latest \ {w} /\ Carried' = Carried \ {w}
  BY <1>1 DEF Latest, Corrections, Carried
<1>8. CASE w.old /\ Latest # {}
  <2>1. w \notin Latest
    BY <1>8 DEF Latest
  <2>2. Latest' # {}
    BY <1>7, <1>8, <2>1
  <2>3. SoundInv'
    BY <1>1, <1>7, <1>8, <2>2 DEF NamesInv, SoundInv
  <2> QED
    BY <1>4, <1>6, <2>3 DEF NamesInv
<1>9. CASE w.old /\ Latest = {}
  BY <1>1, <1>4, <1>6, <1>9 DEF NamesInv, SoundInv
<1>10. CASE ~w.old /\ w.kind = "capture"
  <2>1. w \in Carried /\ w \notin Latest /\ Latest' = Latest /\ Carried' = {}
    <3>1. \A v \in Carried : v = w
      BY <1>10 DEF NamesInv, CountsInv, Carried
    <3> QED
      BY <1>7, <1>10, <3>1 DEF Carried, Latest, Corrections
  <2>2. ASSUME ~behind, Latest = {}
        PROVE  /\ Covered(storedRegistry', registry) /\ Sound(storedRegistry', adrift)
               /\ ~unsaved => Same(storedRegistry', registry)
    <3>1. /\ Covered(w.rows, registry) /\ Sound(w.rows, adrift) /\ (~unsaved => Same(w.rows, registry))
          /\ Covered(storedRegistry, w.rows) /\ Sound(storedRegistry, adrift)
      BY <2>1, <2>2 DEF NamesInv, SoundInv
    <3>2. /\ storedRegistry'.aliases = w.rows.aliases /\ storedRegistry'.owners = w.rows.owners
          /\ Sound(storedRegistry', adrift)
      BY <1>1, <1>2, <1>10, <3>1, UpsertedKeeps
    <3> QED
      BY <3>1, <3>2 DEF Covered, Same, ExistingOwners
  <2>3. SoundInv'
    BY <1>1, <1>10, <2>1, <2>2 DEF NamesInv, SoundInv
  <2> QED
    BY <1>4, <1>6, <2>3 DEF NamesInv
<1>11. CASE ~w.old /\ w.kind # "capture"
  <2>1. w \in Latest /\ w \notin Carried /\ Carried' = Carried
    BY <1>7, <1>11 DEF Latest, Corrections, Carried
  <2>2. ASSUME ~behind
        PROVE  SoundInv'
    <3>1. /\ w.rows = Listed(registry) /\ Sound(registry, adrift)
          /\ \A v \in Carried : Covered(v.rows, registry) /\ Sound(v.rows, adrift) /\ Same(v.rows, registry)
      BY <2>1, <2>2 DEF NamesInv, SoundInv
    <3>2. storedRegistry' = w.rows
      BY <1>1, <1>11
    <3>3. /\ w.rows.aliases = registry.aliases /\ Sound(w.rows, adrift)
          /\ \A o \in OwnerIds : w.rows.owners[o] = IF o \in Unmerged(registry) THEN registry.owners[o] ELSE NoOwner
          /\ Unmerged(w.rows) = Unmerged(registry) /\ NoneMerged(w.rows)
      BY <1>2, <3>1, ListedKeeps
    <3>4. Covered(w.rows, registry) /\ Same(w.rows, registry)
      BY <3>1, <3>3 DEF Covered, ExistingOwners, Same
    <3>5. \A v \in Carried : Covered(w.rows, v.rows)
      <4> SUFFICES ASSUME NEW v \in Carried PROVE Covered(w.rows, v.rows)
        OBVIOUS
      <4>1. v.rows.aliases = w.rows.aliases /\ v.rows.owners = w.rows.owners
        BY <3>1, <3>3 DEF Same
      <4> QED
        BY <3>3, <4>1 DEF Covered, NoneMerged, Unmerged, ExistingOwners
    <3> QED
      BY <1>1, <1>7, <2>1, <2>2, <3>1, <3>2, <3>3, <3>4, <3>5 DEF NamesInv, SoundInv
  <2>3. SoundInv'
    BY <1>1, <2>2 DEF SoundInv
  <2> QED
    BY <1>4, <1>6, <2>3 DEF NamesInv
<1> QED
  BY <1>3, <1>8, <1>9, <1>10, <1>11

LEMMA FailsStep ==
  ASSUME RegistryShape, NamesInv, NEW w \in inflight, WriteIsLost(w)
  PROVE  NamesInv'
<1>1. /\ inflight' = inflight \ {w} /\ unsaved' = (unsaved \/ w.kind = "capture") /\ behind' = (behind \/ w.kind # "capture")
      /\ UNCHANGED <<registry, trail, storedRegistry, corrected, adrift, discoveries>>
  BY DEF WriteIsLost
<1>2. CountsInv'
  BY <1>1 DEF NamesInv, CountsInv
<1>3. RowsInv'
  BY <1>1 DEF NamesInv, RowsInv
<1>4. ASSUME ~behind, w.kind = "capture"
      PROVE  SoundInv'
  <2>1. Latest' = Latest /\ Carried' = {} /\ unsaved'
    <3>1. \A v \in Carried : v = w
      BY <1>4 DEF NamesInv, CountsInv, Carried
    <3> QED
      BY <1>1, <1>4, <3>1 DEF Carried, Latest, Corrections
  <2> QED
    BY <1>1, <1>4, <2>1 DEF NamesInv, SoundInv
<1> QED
  BY <1>1, <1>2, <1>3, <1>4 DEF NamesInv, SoundInv

LEMMA BeginCommitStep ==
  ASSUME RegistryShape, NamesInv, BeginCommit
  PROVE  NamesInv'
<1> DEFINE is == Listed(registry)
           new == [kind |-> "capture", audit |-> 0, rows |-> is, old |-> FALSE]
<1>1. /\ unsaved' = FALSE /\ inflight = Corrections(inflight) /\ inflight' = inflight \cup {new} /\ is = Listed(registry)
      /\ UNCHANGED <<registry, trail, storedRegistry, behind, corrected, adrift, discoveries>>
  BY DEF BeginCommit
<1>2. registry \in Registries /\ Regular(registry, corrected)
  BY DEF NamesInv, RowsInv, Regular
<1> HIDE DEF is
<1>3. /\ is \in Registries /\ Regular(is, corrected) /\ NoneMerged(is) /\ is.aliases = registry.aliases
      /\ \A lost : Sound(registry, lost) => Sound(is, lost)
      /\ Unmerged(is) = Unmerged(registry)
  BY <1>1, <1>2, ListedKeeps
<1>4. new \in Writes /\ new.kind = "capture" /\ new.rows = is /\ ~new.old
  BY <1>3 DEF Writes, RegistryShape
<1> HIDE DEF new
<1>5. \A w \in inflight : w.kind # "capture"
  BY <1>1 DEF Corrections
<1>6. CountsInv'
  BY <1>1, <1>4, <1>5 DEF NamesInv, CountsInv
<1>7. RowsInv'
  BY <1>1, <1>3, <1>4 DEF NamesInv, RowsInv
<1>8. Latest' = Latest /\ Carried' = {new}
  BY <1>1, <1>4, <1>5 DEF Latest, Corrections, Carried
<1>9. Same(is, registry) /\ Covered(is, registry)
  BY <1>1, <1>3 DEF Same, Covered, NoneMerged, Unmerged, ExistingOwners
<1>10. Covered(storedRegistry, registry) => Covered(storedRegistry, is)
  BY <1>3 DEF Covered
<1>11. SoundInv'
  BY <1>1, <1>3, <1>4, <1>8, <1>9, <1>10 DEF NamesInv, SoundInv
<1> QED
  BY <1>6, <1>7, <1>11 DEF NamesInv

LEMMA DiscoveryDiscovers ==
  ASSUME RegistryShape, NamesInv, DiscoveryStep
  PROVE  \E q, d : Discovers(registry, q, d) /\ Discovered(q)
<1>1. registry \in Registries
  BY DEF NamesInv, RowsInv, Regular
<1>2. PICK n \in Names : \/ \E names \in {{}} \cup {{m} : m \in Names} : DiscoverCandidate(n, names)
                         \/ DiscoverTrusted(n)
                         \/ \E id \in FreshOwners : Materialize(n, id)
  BY DEF DiscoveryStep
<1>3. ASSUME NEW id \in OwnerIds, NEW m \in Names, NEW names \in SUBSET Names, NEW kind \in Kinds,
             Discovered(discover(registry, id, m, names, kind))
      PROVE  \E q, d : Discovers(registry, q, d) /\ Discovered(q)
  <2>1. Discovers(registry, discover(registry, id, m, names, kind), Discoverer(registry, id, m, kind))
    BY <1>1, DiscoverGrows
  <2> QED
    BY <1>3, <2>1
<1>4. n \in OwnerIds /\ "confirmed" \in Kinds /\ "unsure" \in Kinds
  BY DEF OwnerIds, Kinds
<1>5. ASSUME NEW names \in {{}} \cup {{m} : m \in Names}, DiscoverCandidate(n, names)
      PROVE  \E q, d : Discovers(registry, q, d) /\ Discovered(q)
  <2> DEFINE o == resolveMention(registry, n)
             m == registry.owners[o].name
  <2>1. names \in SUBSET Names /\ names \cup {n} \in SUBSET Names
    OBVIOUS
  <2>2. CASE o = NoOwner
    <3>1. Discovered(discover(registry, n, n, names, "unsure"))
      BY <1>5, <2>2, Zenon DEF DiscoverCandidate
    <3> QED
      BY <1>3, <1>4, <2>1, <3>1
  <2>3. CASE o # NoOwner
    <3>1. o \in Unmerged(registry)
      BY <1>1, <2>3, SoleIsOne, ResolvableIsThere DEF resolveMention
    <3>2. m \in Names /\ m \in OwnerIds
      BY <1>1, <3>1, OwnersOf DEF People, OwnerIds, Unmerged, ExistingOwners
    <3>3. Discovered(discover(registry, m, m, names \cup {n}, "confirmed"))
      BY <1>5, <2>3, Zenon DEF DiscoverCandidate
    <3> QED
      BY <1>3, <1>4, <2>1, <3>2, <3>3
  <2> QED
    BY <2>2, <2>3
<1>6. ASSUME DiscoverTrusted(n)
      PROVE  \E q, d : Discovers(registry, q, d) /\ Discovered(q)
  <2>1. Discovered(discover(registry, n, n, {n}, "confirmed")) /\ {n} \in SUBSET Names
    BY <1>6 DEF DiscoverTrusted
  <2> QED
    BY <1>3, <1>4, <2>1
<1>7. ASSUME NEW id \in FreshOwners, Materialize(n, id)
      PROVE  \E q, d : Discovers(registry, q, d) /\ Discovered(q)
  <2>1. Discovered(discover(registry, id, n, {}, "unsure")) /\ id \in OwnerIds /\ {} \in SUBSET Names
    BY <1>7 DEF Materialize, OwnerIds
  <2> QED
    BY <1>3, <1>4, <2>1
<1> QED
  BY <1>2, <1>5, <1>6, <1>7

LEMMA DiscoveryKeepsInv ==
  ASSUME RegistryShape, NamesInv, DiscoveryStep
  PROVE  NamesInv' /\ DiscoveryKeepsNames
<1>1. PICK q, d : Discovers(registry, q, d) /\ Discovered(q)
  BY DiscoveryDiscovers
<1>2. registry' = q
  BY <1>1 DEF Discovered
<1>3. Regular(registry, corrected)
  BY DEF NamesInv, RowsInv
<1>4. ASSUME NEW n \in Names \ corrected, resolveMention(registry, n) # NoOwner
      PROVE  resolveMention(registry', n) \in {resolveMention(registry, n), NoOwner}
  <2>1. resolveMention(q, n) \in {resolveMention(registry, n), NoOwner}
    BY <1>1, <1>3, <1>4, DiscoveredNames
  <2> QED
    BY <1>2, <2>1
<1> QED
  BY <1>1, <1>4, DiscoveredStep DEF DiscoveryKeepsNames

LEMMA ConfirmedIsKept ==
  ASSUME RegistryShape, NEW before \in Registries, NEW o, NEW r, FollowsOn(before, r, o), NEW c \in before.candidates,
         NEW moved, Regular(before, moved) => Regular(r, moved)
  PROVE  Confirmed(before, r, c, o) \in Registries /\ Keeps(before, Confirmed(before, r, c, o), moved, moved)
BY ConfirmKeeps DEF Keeps

LEMMA CorrectionKeepsInv ==
  ASSUME RegistryShape, NamesInv, CorrectionStep
  PROVE  NamesInv'
<1>1. registry \in Registries /\ corrected \subseteq Names
  BY DEF NamesInv, RowsInv, Regular, CountsInv
<1>2. ASSUME NEW q, q \in Registries, Keeps(registry, q, corrected, corrected), Corrects(q), UNCHANGED corrected
      PROVE  NamesInv'
  BY <1>1, <1>2, CorrectsStep
<1>3. ASSUME NEW c \in registry.candidates, NEW o, ConfirmExisting(c, o)
      PROVE  NamesInv'
  <2>1. o \in Unmerged(registry) /\ Corrects(Confirmed(registry, registry, c, o)) /\ UNCHANGED corrected
    BY <1>3 DEF ConfirmExisting
  <2>2. FollowsOn(registry, registry, o)
    BY <1>1, <2>1, FollowsItself
  <2> QED
    BY <1>1, <1>2, <2>1, <2>2, ConfirmedIsKept
<1>4. ASSUME NEW c \in registry.candidates, NEW n \in Names, ConfirmNew(c, n)
      PROVE  NamesInv'
  <2> DEFINE d == Discoverer(registry, n, n, "confirmed")
             names == {c.name} \cup c.aliases
             q == discover(registry, n, n, names, "confirmed")
  <2>1. CASE c.ref \in Namesakes(registry, n) /\ registry.owners[c.ref].status = "pending"
    <3>1. Corrects(Confirmed(registry, registry, c, c.ref)) /\ UNCHANGED corrected
      BY <1>4, <2>1 DEF ConfirmNew
    <3>2. FollowsOn(registry, registry, c.ref)
      BY <1>1, <2>1, FollowsItself DEF Namesakes
    <3> QED
      BY <1>1, <1>2, <3>1, <3>2, ConfirmedIsKept
  <2>2. CASE ~(c.ref \in Namesakes(registry, n) /\ registry.owners[c.ref].status = "pending")
    <3>1. d # NoOwner /\ Corrects(Confirmed(registry, q, c, d)) /\ UNCHANGED corrected
      BY <1>4, <2>2, Zenon DEF ConfirmNew
    <3>2. names \in SUBSET Names
      BY <1>1 DEF Registries, Candidates
    <3>3. Discovers(registry, q, d)
      <4> HIDE DEF names
      <4> QED
        BY <1>1, <3>2, DiscoverGrows DEF OwnerIds, Kinds
    <3> HIDE DEF names, d, q
    <3>4. FollowsOn(registry, q, d)
      BY <1>1, <3>1, <3>3, FollowsDiscovery DEF Discovers
    <3>5. Regular(registry, corrected) => Regular(q, corrected)
      BY <3>3, DiscoveredRegular
    <3> QED
      BY <1>1, <1>2, <3>1, <3>4, <3>5, ConfirmedIsKept
  <2> QED
    BY <2>1, <2>2
<1>5. ASSUME NEW from, NEW into, mergeActors(from, into)
      PROVE  NamesInv'
  <2>1. from # into /\ from \in Unmerged(registry) /\ into \in Unmerged(registry)
        /\ Corrects(MergedInto(registry, from, into)) /\ UNCHANGED corrected
    BY <1>5 DEF mergeActors
  <2> QED
    BY <1>1, <1>2, <2>1, MergeKeeps
<1>6. ASSUME NEW o, NEW n \in Names, renameActor(o, n)
      PROVE  NamesInv'
  <2>1. o \in Unmerged(registry) /\ Corrects(Renamed(registry, o, n)) /\ UNCHANGED corrected
    BY <1>6 DEF renameActor
  <2> QED
    BY <1>1, <1>2, <2>1, RenameKeeps
<1>7. ASSUME NEW o, NEW n \in Names, NEW new \in FreshOwners, splitActor(o, n, new)
      PROVE  NamesInv'
  <2>1. o \in Unmerged(registry) /\ registry.owners[new] = NoOwner
        /\ Corrects(Split(registry, o, n, new)) /\ UNCHANGED corrected
    BY <1>7 DEF splitActor
  <2> QED
    BY <1>1, <1>2, <2>1, SplitKeeps
<1>8. ASSUME NEW a \in registry.aliases, NEW o, correctAlias(a, o)
      PROVE  NamesInv'
  <2>1. o \in Unmerged(registry) /\ Corrects(Given(registry, a, o)) /\ corrected' = corrected \cup {a.name}
    BY <1>8 DEF correctAlias
  <2>2. a.name \in Names
    BY <1>1 DEF Registries, AliasRows
  <2>3. Given(registry, a, o) \in Registries /\ Keeps(registry, Given(registry, a, o), corrected, corrected')
    BY <1>1, <2>1, GivenKeeps
  <2> QED
    BY <1>1, <2>1, <2>2, <2>3, CorrectsStep
<1> QED
  BY <1>3, <1>4, <1>5, <1>6, <1>7, <1>8 DEF CorrectionStep

LEMMA NamesInvStep ==
  ASSUME RegistryShape, NamesInv, [RegistryNext]_registryVars
  PROVE  NamesInv'
<1>1. CASE DiscoveryStep
  BY <1>1, DiscoveryKeepsInv
<1>2. CASE BeginCommit
  BY <1>2, BeginCommitStep
<1>3. CASE CorrectionStep
  BY <1>3, CorrectionKeepsInv
<1>4. CASE \E i \in DOMAIN trail : UndoCorrection(i)
  BY <1>4, UndoStep
<1>5. CASE \E w \in inflight : WriteLands(w)
  BY <1>5, LandsStep
<1>6. CASE \E w \in inflight : WriteIsLost(w)
  BY <1>6, FailsStep
<1>7. CASE ReloadRegistry
  BY <1>7, ReloadStep
<1>8. CASE UNCHANGED registryVars
  BY <1>8 DEF registryVars, NamesInv, CountsInv, RowsInv, SoundInv, Latest, Corrections, Carried
<1> QED
  BY <1>1, <1>2, <1>3, <1>4, <1>5, <1>6, <1>7, <1>8 DEF RegistryNext

LEMMA NamesInvMeans ==
  ASSUME RegistryShape, NamesInv
  PROVE  RegistryTypeOK /\ NothingDangles /\ ReloadKeepsNames
<1>1. /\ registry \in Registries /\ storedRegistry \in Registries /\ OneRowAKey(registry) /\ NoneMerged(storedRegistry)
      /\ inflight \subseteq Writes
  BY DEF NamesInv, CountsInv, RowsInv, Regular
<1>2. RegistryTypeOK
  <2>1. Len(trail) \in Nat /\ Len(trail) <= MaxCorrections /\ MaxCorrections \in Nat
    BY DEF NamesInv, CountsInv, RegistryShape
  <2>2. Len(trail) \in 0..MaxCorrections
    BY <2>1
  <2>3. /\ {unsaved, behind} \subseteq BOOLEAN /\ {corrected, adrift} \subseteq SUBSET Names /\ discoveries \in 0..MaxDiscoveries
    BY DEF NamesInv, CountsInv
  <2> QED
    BY <1>1, <2>2, <2>3 DEF RegistryTypeOK
<1>3. NothingDangles
  BY DEF NamesInv, SoundInv, Sound, Firm, NothingDangles
<1>4. ASSUME inflight = {}, ~unsaved, ~behind, NEW n \in Names
      PROVE  resolveMention(storedRegistry, n) = resolveMention(registry, n)
  <2>1. storedRegistry.aliases = registry.aliases /\ storedRegistry.owners = Listed(registry).owners
    BY <1>4 DEF NamesInv, SoundInv, Same, Latest, Corrections, Carried
  <2>2. \A o \in OwnerIds : storedRegistry.owners[o] = IF o \in Unmerged(registry) THEN registry.owners[o] ELSE NoOwner
    BY <1>1, <2>1, ListedKeeps
  <2>3. Named(storedRegistry, n) = Named(registry, n) /\ Named(registry, n) \subseteq OwnerIds
    BY <1>1, <2>1 DEF Named, Registries, AliasRows
  <2>4. \A o \in Named(registry, n) : o \in Resolvable(storedRegistry, n) <=> o \in Resolvable(registry, n)
    BY <2>2, <2>3 DEF Resolvable, Unmerged, ExistingOwners
  <2>5. Resolvable(storedRegistry, n) = Resolvable(registry, n)
    BY <2>3, <2>4 DEF Resolvable
  <2> QED
    BY <2>5, Zenon DEF resolveMention
<1> QED
  BY <1>2, <1>3, <1>4 DEF ReloadKeepsNames

LEMMA OthersDiscoverNothing ==
  ASSUME NamesInv, [RegistryNext]_registryVars, ~DiscoveryStep
  PROVE  DiscoveryKeepsNames
<1>1. discoveries \in Nat
  BY DEF NamesInv, CountsInv
<1>2. discoveries' = discoveries
  <2>1. CASE CorrectionStep
    BY <2>1 DEF CorrectionStep, ConfirmExisting, ConfirmNew, mergeActors, renameActor, splitActor, correctAlias, Corrects
  <2>2. CASE ~CorrectionStep
    BY <2>2 DEF RegistryNext, BeginCommit, UndoCorrection, WriteLands, WriteIsLost, ReloadRegistry, registryVars
  <2> QED
    BY <2>1, <2>2
<1> QED
  BY <1>1, <1>2 DEF DiscoveryKeepsNames

(* The directory of people: its types, that no row and no candidate belongs *)
(* to an owner who is gone, that a reload keeps what every name means once  *)
(* every write has ended, and that what a capture discovers gives no name   *)
(* to another person, but one the user moved: for every number of           *)
(* discoveries, commits, corrections, undos and reloads, and however their  *)
(* writes overlap and fail.                                                 *)
THEOREM NamesAlwaysStand == RegistrySpec => NamesStand
<1> USE RegistryShape
<1>1. RegistryInit => NamesInv
  BY NamesInvInit
<1>2. NamesInv /\ [RegistryNext]_registryVars => NamesInv'
  BY NamesInvStep
<1>3. NamesInv => RegistryTypeOK /\ NothingDangles /\ ReloadKeepsNames
  BY NamesInvMeans
<1>4. NamesInv /\ [RegistryNext]_registryVars => [DiscoveryKeepsNames]_registryVars
  <2> SUFFICES ASSUME NamesInv, [RegistryNext]_registryVars PROVE DiscoveryKeepsNames
    OBVIOUS
  <2> QED
    BY DiscoveryKeepsInv, OthersDiscoverNothing
<1> QED
  BY <1>1, <1>2, <1>3, <1>4, PTL DEF RegistrySpec, NamesStand
=============================================================================
