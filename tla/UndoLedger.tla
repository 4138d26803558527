------------------------------ MODULE UndoLedger ------------------------------
(***************************************************************************)
(* What the repository promises about change sets, without storage          *)
(* revisions, idempotency keys or interleaved reads: a memory of records,   *)
(* and for each capture batch at most one live change set.  A commit writes *)
(* the records of its batch and remembers exactly the values it replaced;   *)
(* an undo happens only while every one of those records still holds what   *)
(* the change set wrote, and puts the remembered values back.               *)
(*                                                                         *)
(* ChangeSets implements this specification.                                *)
(***************************************************************************)
CONSTANTS
    Batches,        \* capture batches
    Recs,           \* business records of one chat
    JobRecs,        \* the capture-jobs rows among them
    CandidateRecs,  \* the memory-candidates rows among them
    Touches,        \* the records each batch writes
    Absent,         \* the value of a record that does not exist
    None            \* no live change set

VARIABLES
    mem,     \* the value of every record
    ledger   \* the live change set of every batch, or None

vars == <<mem, ledger>>

Init ==
    /\ mem = [r \in Recs |-> Absent]
    /\ ledger = [b \in Batches |-> None]

\* Only the records of S may differ after the step.
OnlyWrites(S) == \A r \in Recs \ S : mem'[r] = mem[r]

Commit(b) ==
    /\ ledger[b] = None
    /\ OnlyWrites(Touches[b])
    /\ ledger' = [ledger EXCEPT ![b] =
                    [before |-> [r \in Touches[b] |-> mem[r]],
                     after  |-> [r \in Touches[b] |-> mem'[r]]]]

\* A job comes back paused, so only its content is the old one; a candidate that
\* is still there keeps its content and is marked; every other record is restored
\* exactly.
Reverted(r, before) ==
    CASE r \in CandidateRecs /\ mem[r] # Absent -> mem'[r].content = mem[r].content
      [] r \in JobRecs       -> mem'[r].content = before.content
      [] OTHER               -> mem'[r] = before

Undo(b) ==
    /\ ledger[b] # None
    /\ \A r \in Touches[b] :
          /\ mem[r] = ledger[b].after[r]
          /\ Reverted(r, ledger[b].before[r])
    /\ OnlyWrites(Touches[b])
    /\ ledger' = [ledger EXCEPT ![b] = None]

\* A write of one record from outside the capture path.
Edit(r) ==
    /\ OnlyWrites({r})
    /\ UNCHANGED ledger

\* Settling the rejected items of a change set rewrites the job row; the change
\* set stays undoable only if the row was still the one it had written.
Settle(b, j) ==
    /\ ledger[b] # None
    /\ OnlyWrites({j})
    /\ mem'[j].content = mem[j].content
    /\ LET moves == j \in Touches[b] /\ ledger[b].after[j] = mem[j] IN
       ledger' = IF moves THEN [ledger EXCEPT ![b].after[j] = mem'[j]] ELSE ledger

Next ==
    \/ \E b \in Batches : Commit(b) \/ Undo(b)
    \/ \E r \in Recs \ JobRecs : Edit(r)
    \/ \E j \in JobRecs : Edit(j) \/ \E b \in Batches : Settle(b, j)

Spec == Init /\ [][Next]_vars
=============================================================================
