----------------------------- MODULE RepairQueue -----------------------------
(***************************************************************************)
(* The repair phase of a capture job: rejected items wait in a queue, are  *)
(* claimed in groups, sent to the model once more, and settled first in    *)
(* the queue and then in the audit the user sees. A repair that failed is  *)
(* quarantined until its evidence changes and is then tried one last time. *)
(***************************************************************************)
EXTENDS Naturals, FiniteSets

CONSTANTS Repairs,      \* the queue rows of one job, each for one rejection
          MaxGroup,     \* structuredRepairMaxItems
          MaxEvidence, MaxTroubles   \* bounds on edits of the sources, on failures and reloads
ASSUME RepairBounds == MaxEvidence \in Nat \ {0} /\ MaxTroubles \in Nat

VARIABLES queue,      \* capture-repair-queue
          rejections, \* statuses in the capture's audit
          evidence,   \* what the sources of each row say now; 0 when they are gone
          jobStatus, repair,
          stored,     \* history: <<group, attempt>> of the repairs that were committed
          answers,    \* history: how often a row's repair came back with an answer
          troubles
repairVars == <<queue, rejections, evidence, jobStatus, repair, stored, answers, troubles>>

(* stage: the rank of the row's collection; what is extracted first is 0.  *)
(* twin: whether the classifier takes the row for a duplicate.             *)
Row == [stage : 0..1, twin : BOOLEAN, status : {"queued", "running", "unresolved", "resolved", "ignored"},
        attempts : Nat, max : Nat, waiting : BOOLEAN, lastChance : BOOLEAN, seen : 0..MaxEvidence]
Resting == [pc |-> "idle"]

RepairTypeOK ==
    /\ queue \in [Repairs -> Row]
    /\ rejections \in [Repairs -> {"unresolved", "repaired", "ignored"}]
    /\ evidence \in [Repairs -> 0..MaxEvidence]
    /\ jobStatus \in {"needs_repair", "paused", "completed"}
    /\ repair.pc \in {"idle", "classify", "pick", "running", "record", "audit"}
    /\ troubles \in 0..MaxTroubles

Open(row) == row.status \in {"queued", "running", "unresolved"}
Active(row) == Open(row) /\ ~row.waiting /\ row.attempts < row.max
Settled(row) == row.status \in {"resolved", "ignored"}
(* The rows of one job share their sources, so an earlier stage blocks.   *)
DependencyPending(q, r) == \E s \in Repairs : q[s].stage < q[r].stage /\ Active(q[s])
Retryable(q) == {r \in Repairs : Active(q[r]) /\ ~DependencyPending(q, r)}
ProjectedStatus(q) == IF jobStatus = "paused" THEN "paused"
                      ELSE IF Retryable(q) # {} THEN "needs_repair" ELSE "completed"
\* Mutant: a row that was still running counts as repaired.
RowReconciledWhenRunning(q) ==
    [r \in Repairs |-> IF q[r].status \in {"resolved", "running"} THEN "repaired" ELSE rejections[r]]
(* reconcileCaptureRepairQueue: what the queue settled is settled in the audit. *)
RowReconciled(q) == [r \in Repairs |-> IF q[r].status = "resolved" THEN "repaired"
                                    ELSE IF q[r].status = "ignored" THEN "ignored" ELSE rejections[r]]

RepairInit ==
    /\ \E stage \in [Repairs -> 0..1], twin \in [Repairs -> BOOLEAN] :
          queue = [r \in Repairs |-> [stage |-> stage[r], twin |-> twin[r], status |-> "queued", attempts |-> 0, max |-> 1,
                                      waiting |-> FALSE, lastChance |-> FALSE, seen |-> 0]]
    /\ rejections = [r \in Repairs |-> "unresolved"]
    /\ evidence \in [Repairs -> {0, 1}]
    /\ jobStatus = "needs_repair" /\ repair = Resting
    /\ stored = {} /\ answers = [r \in Repairs |-> 0] /\ troubles = 0

(* retry() and the end of a capture begin the phase for a job that has    *)
(* work; the sources are collected once, here.                             *)
BeginRepair ==
    /\ repair.pc = "idle" /\ jobStatus \in {"needs_repair", "paused"}
    /\ repair' = [pc |-> "classify", ofJob |-> TRUE, seen |-> evidence]
    /\ jobStatus' = "needs_repair"
    /\ UNCHANGED <<queue, rejections, evidence, stored, answers, troubles>>

(* retryEvidenceChangedCaptureRepairs, before every capture: quarantined  *)
(* rows whose evidence is another now get their last chance.              *)
Released == {r \in Repairs : /\ queue[r].status = "unresolved" /\ queue[r].waiting /\ ~queue[r].lastChance
                             /\ evidence[r] # 0 /\ evidence[r] # queue[r].seen}
ReleaseRow(row) == [row EXCEPT !.status = "queued", !.max = row.attempts + 1,
                               !.lastChance = TRUE, !.waiting = FALSE]
ReleaseChanged ==
    /\ repair.pc = "idle" /\ Released # {}
    /\ queue' = [r \in Repairs |-> IF r \in Released THEN ReleaseRow(queue[r]) ELSE queue[r]]
    /\ repair' = [pc |-> "classify", ofJob |-> FALSE, seen |-> evidence]
    /\ UNCHANGED <<rejections, evidence, jobStatus, stored, answers, troubles>>

(* Deterministic failures never go to the model: duplicates are dismissed, *)
(* rows without a source are quarantined.                                  *)
Classified(r) ==
    IF ~Open(queue[r]) \/ queue[r].waiting THEN queue[r]
    ELSE IF queue[r].twin THEN [queue[r] EXCEPT !.status = "ignored"]
    ELSE IF repair.seen[r] = 0 THEN [queue[r] EXCEPT !.status = "unresolved", !.waiting = TRUE, !.seen = 0]
    ELSE queue[r]
Classify ==
    /\ repair.pc = "classify"
    /\ LET q == [r \in Repairs |-> Classified(r)]
       IN  /\ queue' = q /\ rejections' = RowReconciled(q) /\ jobStatus' = ProjectedStatus(q)
    /\ repair' = [repair EXCEPT !.pc = "pick"]
    /\ UNCHANGED <<evidence, stored, answers, troubles>>

(* A group shares the stage, the attempt and the kind of attempt; attempts *)
(* stay as they are while the group is under way.                          *)
Compatible(r, s) == /\ queue[s].stage = queue[r].stage /\ queue[s].attempts = queue[r].attempts
                    /\ queue[s].max = queue[r].max /\ queue[s].lastChance = queue[r].lastChance
ClaimedRow(r) == [queue[r] EXCEPT !.status = "running", !.seen = repair.seen[r], !.waiting = FALSE]
Claim ==
    /\ repair.pc = "pick"
    /\ \E group \in SUBSET Retryable(queue), r \in Retryable(queue) :
          /\ r \in group /\ Cardinality(group) <= MaxGroup /\ \A s \in group : Compatible(r, s)
          /\ queue' = [s \in Repairs |-> IF s \in group THEN ClaimedRow(s) ELSE queue[s]]
          /\ repair' = [pc |-> "running", ofJob |-> repair.ofJob, seen |-> repair.seen,
                        group |-> group, rows |-> [s \in group |-> queue[s]]]
    /\ UNCHANGED <<rejections, evidence, jobStatus, stored, answers, troubles>>

(* The capture commits what it accepted under a key made of the group and *)
(* the attempt and decides on each row.                                    *)
Attempt(r) == repair.rows[r].attempts + 1
Answer ==
    /\ repair.pc = "running"
    /\ \E decided \in [repair.group -> {"emit", "drop", "fail"}] :
          /\ stored' = IF \E r \in repair.group : decided[r] = "emit"
                       THEN stored \cup {<<repair.group, Attempt(CHOOSE r \in repair.group : TRUE)>>} ELSE stored
          /\ repair' = [pc |-> "record", ofJob |-> repair.ofJob, seen |-> repair.seen, group |-> repair.group,
                        rows |-> repair.rows, todo |-> repair.group, decided |-> decided]
    /\ answers' = [r \in Repairs |-> IF r \in repair.group THEN answers[r] + 1 ELSE answers[r]]
    /\ UNCHANGED <<queue, rejections, evidence, jobStatus, troubles>>

(* Retryable errors, timeouts and cancels put the group back and end the  *)
(* phase; the attempt is not used up.                                      *)
Requeued(r) == [repair.rows[r] EXCEPT !.status = "queued", !.seen = repair.seen[r], !.waiting = FALSE]
Interrupt ==
    /\ repair.pc = "running" /\ troubles < MaxTroubles
    /\ queue' = [r \in Repairs |-> IF r \in repair.group THEN Requeued(r) ELSE queue[r]]
    /\ jobStatus' = IF repair.ofJob THEN "paused" ELSE jobStatus
    /\ repair' = Resting /\ troubles' = troubles + 1
    /\ UNCHANGED <<rejections, evidence, stored, answers>>

(* Row by row: the queue first, ...                                        *)
FinalFailure(r) == repair.decided[r] = "fail" /\ repair.rows[r].lastChance
Outcome(r) == IF repair.decided[r] = "emit" THEN "repaired"
              ELSE IF repair.decided[r] = "drop" \/ FinalFailure(r) THEN "ignored" ELSE "unresolved"
DecidedRow(r) ==
    [repair.rows[r] EXCEPT
        !.status = IF Outcome(r) = "repaired" THEN "running" ELSE Outcome(r),
        !.attempts = Attempt(r), !.seen = repair.seen[r], !.waiting = Outcome(r) = "unresolved"]
WriteRow ==
    /\ repair.pc = "record"
    /\ \E r \in repair.todo :
          /\ queue' = [queue EXCEPT ![r] = DecidedRow(r)]
          /\ repair' = [pc |-> "audit", ofJob |-> repair.ofJob, seen |-> repair.seen, group |-> repair.group,
                        rows |-> repair.rows, todo |-> repair.todo, decided |-> repair.decided, row |-> r]
    /\ UNCHANGED <<rejections, evidence, jobStatus, stored, answers, troubles>>

(* ... then the audit, which settles the linked row in the same write.    *)
SettledRow(r) == IF Outcome(r) = "unresolved" THEN queue[r]
                 ELSE [queue[r] EXCEPT !.status = IF Outcome(r) = "repaired" THEN "resolved" ELSE "ignored"]
WriteAudit ==
    /\ repair.pc = "audit"
    /\ LET r == repair.row
           q == [queue EXCEPT ![r] = SettledRow(r)]
       IN  /\ queue' = q /\ rejections' = [rejections EXCEPT ![r] = Outcome(r)]
           /\ jobStatus' = ProjectedStatus(q)
           /\ repair' = IF repair.todo = {r} THEN [pc |-> "pick", ofJob |-> repair.ofJob, seen |-> repair.seen]
                        ELSE [pc |-> "record", ofJob |-> repair.ofJob, seen |-> repair.seen, group |-> repair.group,
                              rows |-> repair.rows, todo |-> repair.todo \ {r}, decided |-> repair.decided]
    /\ UNCHANGED <<evidence, stored, answers, troubles>>

(* A failed audit write puts a settled row back and ends the phase.       *)
AuditFails ==
    /\ repair.pc = "audit" /\ troubles < MaxTroubles
    /\ LET r == repair.row
       IN  queue' = IF Outcome(r) = "unresolved" THEN queue
                    ELSE [queue EXCEPT ![r] = [repair.rows[r] EXCEPT !.status = "queued"]]
    /\ jobStatus' = IF repair.ofJob THEN "paused" ELSE jobStatus
    /\ repair' = Resting /\ troubles' = troubles + 1
    /\ UNCHANGED <<rejections, evidence, stored, answers>>

\* Mutant: the phase waits until nothing is open.
FinishWhenSettled ==
    /\ repair.pc = "pick" /\ \A r \in Repairs : ~Open(queue[r])
    /\ jobStatus' = IF repair.ofJob THEN "completed" ELSE jobStatus
    /\ repair' = Resting
    /\ UNCHANGED <<queue, rejections, evidence, stored, answers, troubles>>
Finish ==
    /\ repair.pc = "pick" /\ Retryable(queue) = {}
    /\ jobStatus' = IF repair.ofJob THEN "completed" ELSE jobStatus
    /\ repair' = Resting
    /\ UNCHANGED <<queue, rejections, evidence, stored, answers, troubles>>

(* A reload; the next binding reconciles the audit with the queue and      *)
(* projects a job that was being repaired.                                 *)
Reload ==
    /\ troubles < MaxTroubles
    /\ repair' = Resting /\ rejections' = RowReconciled(queue)
    /\ jobStatus' = IF jobStatus = "completed" THEN jobStatus ELSE ProjectedStatus(queue)
    /\ troubles' = troubles + 1
    /\ UNCHANGED <<queue, evidence, stored, answers>>

(* ignoreCaptureRejections, from the audit page.                           *)
UserIgnore(r) ==
    /\ rejections[r] = "unresolved"
    /\ rejections' = [rejections EXCEPT ![r] = "ignored"]
    /\ queue' = [queue EXCEPT ![r].status = "ignored"]
    /\ jobStatus' = ProjectedStatus(queue')
    /\ UNCHANGED <<evidence, repair, stored, answers, troubles>>

EditSource(r) ==
    /\ \A s \in Repairs : evidence[s] < MaxEvidence
    /\ evidence' = [evidence EXCEPT ![r] = @ + 1]
    /\ UNCHANGED <<queue, rejections, jobStatus, repair, stored, answers, troubles>>

RepairStep == BeginRepair \/ Classify \/ Claim \/ Answer \/ WriteRow \/ WriteAudit \/ Finish
RepairNext ==
    \/ RepairStep \/ ReleaseChanged \/ Interrupt \/ AuditFails \/ Reload
    \/ \E r \in Repairs : UserIgnore(r) \/ EditSource(r)
RepairSpec == RepairInit /\ [][RepairNext]_repairVars /\ WF_repairVars(RepairStep)

-----------------------------------------------------------------------------
(* A repaired rejection is backed by a stored repair and by its row, at    *)
(* every point of the two-step settlement and of its failures.             *)
RepairedIsStored ==
    \A r \in Repairs : rejections[r] = "repaired" =>
        queue[r].status = "resolved" /\ \E k \in stored : r \in k[1]

(* An item is answered by the model twice at most, plus once for each      *)
(* failure or reload that lost an answer.                                  *)
AnswersBounded == \A r \in Repairs : answers[r] <= 2 + troubles

(* A capture's repair phase ends, whatever is put back into the queue.     *)
PhaseEnds == repair.pc # "idle" ~> repair.pc = "idle"

(* What is shown as repaired stays repaired.                               *)
RepairedStays == \A r \in Repairs : rejections[r] = "repaired" => rejections'[r] = "repaired"

(* What the audit page shows of repairs is true and stays so, and it was   *)
(* not asked for more often than it may be.                                *)
RepairsSound == /\ [](RepairTypeOK /\ RepairedIsStored /\ AnswersBounded)
                /\ [][RepairedStays]_repairVars
=============================================================================
