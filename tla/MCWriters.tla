----------------------------- MODULE MCWriters -----------------------------
(* One window whose batches are written beside other writers, and the graph  *)
(* that follows the facts.  They are kept apart, so a behaviour follows one  *)
(* of them (part) and leaves the other as it is.                              *)
EXTENDS MCChangeSets, MemoryGraph

VARIABLE part
writerVars == <<vars, graphVars, part>>

EntitiesOf == [f \in {"f", "g"} |-> IF f = "f" THEN {"x", "y"} ELSE {"y", "z"}]

MCInit == /\ Init /\ GraphInit
          /\ part \in {"batches", "graph"}
MCNext == \/ part = "batches" /\ Next /\ UNCHANGED <<graphVars, part>>
          \/ part = "graph" /\ GraphNext /\ UNCHANGED <<vars, part>>
\* As in FairSpec.
MCSpec == /\ MCInit /\ [][MCNext]_writerVars
          /\ \A c \in Clients : WF_vars(part = "batches" /\ Advance(c))
=============================================================================
