---------------------------- MODULE MemoryGraph ----------------------------
(***************************************************************************)
(* The relation graph of a chat: a cache derived from its facts, rebuilt   *)
(* by one scheduled task with at most one follow-up, and by the user. The  *)
(* rows are reconciled in transactions of GraphBatch operations.           *)
(* A fact is its revision, 0 while it backs no edge.                       *)
(***************************************************************************)
EXTENDS Naturals, FiniteSets, Sequences, SequencesExt

CONSTANTS GraphFacts, FactEnds,    \* the two entities of each fact
          GraphBatch,
          MaxRevisions, MaxRebuilds, MaxGraphFaults

ASSUME GraphShape ==
    /\ IsFiniteSet(GraphFacts)
    /\ \A f \in GraphFacts : /\ IsFiniteSet(FactEnds[f]) /\ Cardinality(FactEnds[f]) \in 1..2
                              /\ FactEnds[f] \cap GraphFacts = {}
    /\ GraphBatch \in Nat \ {0} /\ MaxRevisions \in Nat

VARIABLES revisions,       \* the facts
          rows,            \* graph-nodes and graph-edges; a row counts its writes
          scheduled,       \* pending: a task is there for the chat
          dirty, enabled, phase,
          graphTasks,      \* the scheduled rebuild and the user's
          unannounced,     \* a change of facts whose scheduleGraph is still to come
          changes, rebuilds, graphFaults,
          overlapped       \* history: two rebuilds were in flight together
graphVars == <<revisions, rows, scheduled, dirty, enabled, phase, graphTasks, unannounced,
               changes, rebuilds, graphFaults, overlapped>>

Entities == UNION {FactEnds[f] : f \in GraphFacts}
GraphRows == GraphFacts \cup Entities
Rebuilders == {"scheduled", "user"}
NoRow == [value |-> {}, writes |-> 0]
AtRest == [pc |-> "idle"]

GraphTypeOK ==
    /\ revisions \in [GraphFacts -> 0..MaxRevisions]
    /\ \A g \in GraphRows : rows[g].value \subseteq GraphFacts \X (1..MaxRevisions)
    /\ \A b \in Rebuilders : graphTasks[b].pc \in {"idle", "queued", "facts", "rows", "write"}
    /\ scheduled <=> graphTasks["scheduled"].pc # "idle"
    /\ phase \in {"idle", "queued", "rebuilding", "ready", "degraded"}
    /\ {dirty, enabled, unannounced, overlapped} \subseteq BOOLEAN

(* deriveMemoryGraphProjection: an edge for each fact that backs one, and  *)
(* the entities of those facts; a node's times come from all its facts.    *)
Backing(facts) == {f \in GraphFacts : facts[f] > 0}
deriveMemoryGraphProjection(facts) ==
    [g \in GraphRows |-> IF g \in GraphFacts THEN {<<f, facts[f]>> : f \in Backing(facts) \cap {g}}
                         ELSE {<<f, facts[f]>> : f \in {h \in Backing(facts) : g \in FactEnds[h]}}]

GraphInit ==
    /\ revisions = [f \in GraphFacts |-> 0] /\ rows = [g \in GraphRows |-> NoRow]
    /\ scheduled = FALSE /\ dirty = FALSE /\ enabled = TRUE /\ phase = "idle"
    /\ graphTasks = [b \in Rebuilders |-> AtRest]
    /\ unannounced = FALSE /\ changes = 0 /\ rebuilds = 0 /\ graphFaults = 0 /\ overlapped = FALSE

-----------------------------------------------------------------------------
ChangeFacts(f) ==
    /\ changes < MaxRevisions /\ changes' = changes + 1 /\ ~unannounced
    /\ \E r \in {0, changes + 1} \ {revisions[f]} : revisions' = [revisions EXCEPT ![f] = r]
    /\ unannounced' = TRUE
    /\ UNCHANGED <<rows, scheduled, dirty, enabled, phase, graphTasks, rebuilds, graphFaults, overlapped>>

(* schedule: coalesced into one follow-up while a task is there. *)
Queued == /\ scheduled' = TRUE /\ phase' = "queued"
          /\ graphTasks' = [graphTasks EXCEPT !["scheduled"] = [pc |-> "queued"]]
Scheduled ==
    IF scheduled THEN dirty' = TRUE /\ UNCHANGED <<scheduled, phase, graphTasks>>
    ELSE Queued /\ UNCHANGED dirty
ScheduleGraph ==
    /\ unannounced /\ unannounced' = FALSE
    /\ IF enabled THEN Scheduled ELSE dirty' = FALSE /\ UNCHANGED <<scheduled, phase, graphTasks>>
    /\ UNCHANGED <<revisions, changes, rows, enabled, rebuilds, graphFaults, overlapped>>
SetGraphEnabled ==
    /\ rebuilds < MaxRebuilds /\ rebuilds' = rebuilds + 1 /\ enabled' = ~enabled
    /\ IF enabled' THEN Scheduled ELSE dirty' = FALSE /\ UNCHANGED <<scheduled, phase, graphTasks>>
    /\ UNCHANGED <<revisions, changes, rows, unannounced, graphFaults, overlapped>>

Others(b) == Rebuilders \ {b}
InFlight(b) == graphTasks[b].pc \notin {"idle", "queued"}
Started(b) == /\ phase' = "rebuilding"
              /\ graphTasks' = [graphTasks EXCEPT ![b] = [pc |-> "facts"]]
              /\ overlapped' = (overlapped \/ \E c \in Others(b) : InFlight(c))
RebuildByUser ==
    /\ enabled /\ graphTasks["user"] = AtRest
    /\ rebuilds < MaxRebuilds /\ rebuilds' = rebuilds + 1
    /\ Started("user")
    /\ UNCHANGED <<revisions, changes, rows, scheduled, dirty, enabled, unannounced, graphFaults>>

(* The end of a scheduled task starts its follow-up. *)
EndsGraph(b, after) ==
    IF b = "scheduled" /\ dirty /\ enabled
    THEN /\ dirty' = FALSE /\ phase' = "queued" /\ UNCHANGED scheduled
         /\ graphTasks' = [graphTasks EXCEPT ![b] = [pc |-> "queued"]]
    ELSE /\ graphTasks' = [graphTasks EXCEPT ![b] = AtRest] /\ phase' = after
         /\ scheduled' = (scheduled /\ b # "scheduled")
         /\ dirty' = (dirty /\ b # "scheduled")

BeginScheduled ==
    /\ graphTasks["scheduled"].pc = "queued"
    /\ IF enabled THEN Started("scheduled") /\ UNCHANGED <<scheduled, dirty>>
       ELSE EndsGraph("scheduled", phase) /\ UNCHANGED overlapped
    /\ UNCHANGED <<revisions, changes, rows, enabled, unannounced, rebuilds, graphFaults>>
ReadGraphFacts(b) ==
    /\ graphTasks[b].pc = "facts"
    /\ graphTasks' = [graphTasks EXCEPT ![b] = [pc |-> "rows", want |-> deriveMemoryGraphProjection(revisions), try |-> 0]]
    /\ UNCHANGED <<revisions, changes, rows, scheduled, dirty, enabled, phase, unannounced, rebuilds, graphFaults, overlapped>>

(* reconcileGraphProjection: nodes before edges, and both before what is   *)
(* to go, edges first.                                                     *)
\* Mutant: nodes are deleted before the edges.
NodesGoFirst(want) ==
    LET changed(set) == SetToSeq({g \in set : want[g] # {} /\ rows[g].value # want[g]})
        gone(set)    == SetToSeq({g \in set : want[g] = {} /\ rows[g].value # {}})
    IN  changed(Entities) \o changed(GraphFacts) \o gone(Entities) \o gone(GraphFacts)
Operations(want) ==
    LET changed(set) == SetToSeq({g \in set : want[g] # {} /\ rows[g].value # want[g]})
        gone(set)    == SetToSeq({g \in set : want[g] = {} /\ rows[g].value # {}})
    IN  changed(Entities) \o changed(GraphFacts) \o gone(GraphFacts) \o gone(Entities)
ReadGraphRows(b) ==
    /\ graphTasks[b].pc = "rows"
    /\ graphTasks' = [graphTasks EXCEPT ![b] = [pc |-> "write", want |-> @.want, try |-> @.try, seen |-> rows,
                                                left |-> Operations(@.want)]]
    /\ UNCHANGED <<revisions, changes, rows, scheduled, dirty, enabled, phase, unannounced, rebuilds, graphFaults, overlapped>>

(* One transaction, over the versions that were read; a conflict is tried *)
(* again once, with the same projection.                                   *)
NextRows(b) == {graphTasks[b].left[i] : i \in {j \in DOMAIN graphTasks[b].left : j <= GraphBatch}}
Unconflicted(b) == \A g \in NextRows(b) : rows[g] = graphTasks[b].seen[g]
WriteBatch(b) ==
    /\ graphTasks[b].pc = "write" /\ graphTasks[b].left # << >> /\ Unconflicted(b)
    /\ rows' = [g \in GraphRows |-> IF g \notin NextRows(b) THEN rows[g]
                                    ELSE [value |-> graphTasks[b].want[g], writes |-> rows[g].writes + 1]]
    /\ graphTasks' = [graphTasks EXCEPT ![b].left = SubSeq(@, GraphBatch + 1, Len(@))]
    /\ UNCHANGED <<revisions, changes, scheduled, dirty, enabled, phase, unannounced, rebuilds, graphFaults, overlapped>>
BatchConflicts(b) ==
    /\ graphTasks[b].pc = "write" /\ graphTasks[b].left # << >> /\ ~Unconflicted(b)
    /\ IF graphTasks[b].try = 0
       THEN /\ graphTasks' = [graphTasks EXCEPT ![b] = [pc |-> "rows", want |-> @.want, try |-> 1]]
            /\ UNCHANGED <<scheduled, dirty, phase>>
       ELSE EndsGraph(b, "degraded")
    /\ UNCHANGED <<revisions, changes, rows, enabled, unannounced, rebuilds, graphFaults, overlapped>>
GraphWritten(b) ==
    /\ graphTasks[b].pc = "write" /\ graphTasks[b].left = << >>
    /\ EndsGraph(b, IF enabled THEN "ready" ELSE phase)
    /\ UNCHANGED <<revisions, changes, rows, enabled, unannounced, rebuilds, graphFaults, overlapped>>
(* A read or a transaction fails, or the chat is no longer bound. *)
GraphFails(b) ==
    /\ InFlight(b) /\ graphFaults < MaxGraphFaults /\ graphFaults' = graphFaults + 1
    /\ EndsGraph(b, "degraded")
    /\ UNCHANGED <<revisions, changes, rows, enabled, unannounced, rebuilds, overlapped>>

GraphStep(b) == ReadGraphFacts(b) \/ ReadGraphRows(b) \/ WriteBatch(b) \/ BatchConflicts(b) \/ GraphWritten(b)
GraphNext ==
    \/ \E f \in GraphFacts : ChangeFacts(f)
    \/ ScheduleGraph \/ SetGraphEnabled \/ RebuildByUser \/ BeginScheduled
    \/ \E b \in Rebuilders : GraphStep(b) \/ GraphFails(b)

-----------------------------------------------------------------------------
(* At every moment, also between two transactions and after a failed one,  *)
(* both ends of a stored edge are stored, unless two rebuilds crossed.     *)
NoDanglingEdge ==
    overlapped \/ \A f \in GraphFacts : rows[f].value # {} => \A e \in FactEnds[f] : rows[e].value # {}

(* A graph that is said to be ready shows the facts, once no rebuild is    *)
(* under way and every change was announced, unless two rebuilds crossed.  *)
ReadyIsCurrent ==
    (phase = "ready" /\ enabled /\ ~unannounced /\ ~overlapped /\ \A b \in Rebuilders : graphTasks[b].pc = "idle")
        => [g \in GraphRows |-> rows[g].value] = deriveMemoryGraphProjection(revisions)

(* The stored graph hangs together, and follows the facts. *)
GraphFollowsFacts == GraphTypeOK /\ NoDanglingEdge /\ ReadyIsCurrent
=============================================================================
