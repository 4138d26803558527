---------------------------- MODULE MCBackground ----------------------------
(* The background work of a chat, and the searches that use what it keeps.  *)
(* The components keep their own rows, so a behaviour follows one of them   *)
(* (part) and leaves the others as they are.                               *)
EXTENDS RepairQueue, DreamJobs, VectorSync, MCRecall

VARIABLE part
backgroundVars == <<repairVars, dreamVars, vectorVars, semanticVars, part>>

FirstRepair == CHOOSE r \in Repairs : TRUE
FirstChat == CHOOSE c \in VectorChats : TRUE
FirstInquest == CHOOSE q \in Inquests : TRUE
OwnerOfEach == [d \in Dreams |-> "maid"]

(* One row may be out of the ordinary at first, in one way: of a later     *)
(* stage, a duplicate or without a source; none is for the other parts.    *)
Odd(r) == queue[r].stage = 1 \/ queue[r].twin \/ evidence[r] = 0
MCInit == /\ part \in {"repair", "dream", "vector", "recall"}
          /\ RepairInit
          /\ \A r \in Repairs : Odd(r) => part = "repair" /\ r = FirstRepair
          /\ \A r \in Repairs : ~(queue[r].twin /\ (queue[r].stage = 1 \/ evidence[r] = 0))
                               /\ ~(queue[r].stage = 1 /\ evidence[r] = 0)
          /\ shown = FirstChat
          /\ DreamInit /\ VectorInit
          /\ question \in IF part = "recall" THEN Inquests ELSE {FirstInquest}
          /\ library \in {ById(facts) : facts \in IF part = "recall" THEN Libraries ELSE {{}}}
          /\ SemanticInit
MCNext == \/ part = "repair" /\ RepairNext /\ UNCHANGED <<dreamVars, vectorVars, semanticVars, part>>
          \/ part = "dream" /\ DreamNext /\ UNCHANGED <<repairVars, vectorVars, semanticVars, part>>
          \/ part = "vector" /\ VectorNext /\ UNCHANGED <<repairVars, dreamVars, semanticVars, part>>
          \/ part = "recall" /\ SemanticNext /\ UNCHANGED <<repairVars, dreamVars, vectorVars, part>>

(* A started repair goes on; a bound chat keeps generating, quiet moments  *)
(* come again and again, and calls that were begun go on.                  *)
RepairGoesOn == WF_repairVars(part = "repair" /\ RepairStep)
DreamGoesOn ==
    /\ WF_dreamVars(part = "dream" /\ GenerationStarts) /\ WF_dreamVars(part = "dream" /\ GenerationEnds)
    /\ WF_dreamVars(part = "dream" /\ RecordUndone) /\ WF_dreamVars(part = "dream" /\ Bind)
    /\ \A r \in DreamRuns : WF_dreamVars(part = "dream" /\ DreamRunStep(r))
    /\ \A o \in DreamOwners : SF_dreamVars(part = "dream" /\ TimerRuns(o))
VectorGoesOn ==
    /\ WF_vectorVars(part = "vector" /\ ClearVectors)
    /\ \A t \in TaskNames : WF_vectorVars(part = "vector" /\ TaskStep(t))
MCSpec == MCInit /\ [][MCNext]_backgroundVars /\ RepairGoesOn /\ DreamGoesOn /\ VectorGoesOn
=============================================================================
