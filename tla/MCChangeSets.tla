---------------------------- MODULE MCChangeSets ----------------------------
(* A small instance of ChangeSets: batches of one job that share its job row *)
(* and a fact, as two windows of one chat do.                                *)
EXTENDS ChangeSets, TLC

CONSTANTS b1, b2, fact, job, cand, row, x, y

\* Batch 1 writes the fact and a candidate, batch 2 the fact and the job row.
MCTouches == [b \in Batches |-> IF b = b1 THEN {fact, cand} \cap Recs ELSE {fact, job}]
MCDependsOn == [d \in Derived |-> {fact}]

Saying(b, content) == [r \in Recs |-> IF r \in MCTouches[b] THEN content ELSE NoContent]
\* Batch 2 has two possible extractions; one of them drops the fact.
TwoResults ==
    [b \in Batches |-> IF b = b1 THEN {Saying(b, x)}
                       ELSE {Saying(b, x), [Saying(b, y) EXCEPT ![fact] = NoContent]}]
\* The windows are interchangeable.
Windows == Permutations(Clients)

OneResult == [b \in Batches |-> {Saying(b, IF b = b1 THEN x ELSE y)}]
=============================================================================
