--------------------------- MODULE Background_proofs --------------------------
(* What a chat does in the background, for any rows, jobs, runs, chats and    *)
(* bounds: repairs show what is stored, one dream applies at a time and what  *)
(* is shown as applied stands, and vectors belong to the text of their facts. *)
EXTENDS RepairQueue, DreamJobs, VectorSync, FiniteSetTheorems, TLAPS

-----------------------------------------------------------------------------
(* The inductive invariant of the repair phase.                              *)
RowStatus == {"queued", "running", "unresolved", "resolved", "ignored"}
Snapshot == [Repairs -> 0..MaxEvidence]
SomeRows == UNION {[group -> Row] : group \in SUBSET Repairs}
Verdicts == UNION {[group -> {"emit", "drop", "fail"}] : group \in SUBSET Repairs}
Before == [pc : {"classify", "pick"}, ofJob : BOOLEAN, seen : Snapshot]
Asking == [pc : {"running"}, ofJob : BOOLEAN, seen : Snapshot, group : SUBSET Repairs, rows : SomeRows]
Noting == [pc : {"record"}, ofJob : BOOLEAN, seen : Snapshot, group : SUBSET Repairs, rows : SomeRows,
           todo : SUBSET Repairs, decided : Verdicts]
Telling == [pc : {"audit"}, ofJob : BOOLEAN, seen : Snapshot, group : SUBSET Repairs, rows : SomeRows,
            todo : SUBSET Repairs, decided : Verdicts, row : Repairs]

QueueShape ==
    /\ queue \in [Repairs -> Row]
    /\ rejections \in [Repairs -> {"unresolved", "repaired", "ignored"}]
    /\ evidence \in [Repairs -> 0..MaxEvidence]
    /\ jobStatus \in {"needs_repair", "paused", "completed"}
    /\ answers \in [Repairs -> Nat]
    /\ troubles \in 0..MaxTroubles
PhaseShape ==
    /\ repair \in {Resting} \cup Before \cup Asking \cup Noting \cup Telling
    /\ repair.pc \in {"running", "record", "audit"} => repair.rows \in [repair.group -> Row]
    /\ repair.pc \in {"record", "audit"} =>
          repair.decided \in [repair.group -> {"emit", "drop", "fail"}] /\ repair.todo \subseteq repair.group
    /\ repair.pc = "audit" => repair.row \in repair.todo

(* Rows of the group that nobody settled yet, those not written yet, and   *)
(* among these the ones the model has answered.                             *)
Held == IF repair.pc = "running" THEN repair.group
        ELSE IF repair.pc \in {"record", "audit"} THEN repair.todo ELSE {}
Unwritten == IF repair.pc = "audit" THEN repair.todo \ {repair.row} ELSE Held
Answered == IF repair.pc = "running" THEN {} ELSE Unwritten

StoredFor(r) == \E k \in stored : r \in k[1]
ResolvedIsStored == \A r \in Repairs : queue[r].status = "resolved" => StoredFor(r)
HeldIsOpen == \A r \in Held : queue[r].status # "resolved"
DecidedIsStored ==
    repair.pc \in {"record", "audit"} => \A r \in repair.group : repair.decided[r] = "emit" => StoredFor(r)

(* One attempt, and one more in a last chance. *)
Within(row) == row.attempts <= row.max /\ row.max <= (IF row.lastChance THEN 2 ELSE 1)
AttemptsCounted ==
    /\ \A r \in Repairs : Within(queue[r])
    /\ \A r \in Held : Within(repair.rows[r]) /\ repair.rows[r].attempts < repair.rows[r].max
    /\ \A r \in Unwritten : queue[r].attempts = repair.rows[r].attempts
    /\ repair.pc = "audit" => queue[repair.row].attempts = repair.rows[repair.row].attempts + 1
AnswersCounted ==
    \A r \in Repairs : answers[r] <= queue[r].attempts + troubles + (IF r \in Answered THEN 1 ELSE 0)

RepairInv == /\ QueueShape /\ PhaseShape
             /\ ResolvedIsStored /\ HeldIsOpen /\ DecidedIsStored /\ RepairedIsStored
             /\ AttemptsCounted /\ AnswersCounted

-----------------------------------------------------------------------------
(* What the shapes say.                                                      *)

(* The record of a phase has the fields of its step.                         *)
LEMMA PhaseFacts ==
    ASSUME PhaseShape
    PROVE  /\ repair.pc \in {"idle", "classify", "pick", "running", "record", "audit"}
           /\ repair.pc # "idle" => repair.seen \in Snapshot /\ repair.ofJob \in BOOLEAN
           /\ repair.pc \in {"running", "record", "audit"} =>
                 repair.group \in SUBSET Repairs /\ repair.rows \in [repair.group -> Row]
           /\ repair.pc \in {"record", "audit"} =>
                 /\ repair.decided \in [repair.group -> {"emit", "drop", "fail"}]
                 /\ repair.todo \subseteq repair.group
           /\ repair.pc = "audit" => repair.row \in repair.todo
<1>1. CASE repair = Resting
  BY <1>1 DEF Resting
<1>2. CASE repair \in Before
  BY <1>2 DEF Before
<1>3. CASE repair \in Asking
  BY <1>3 DEF Asking, PhaseShape
<1>4. CASE repair \in Noting
  BY <1>4 DEF Noting, PhaseShape
<1>5. CASE repair \in Telling
  BY <1>5 DEF Telling, PhaseShape
<1>6. QED
  BY <1>1, <1>2, <1>3, <1>4, <1>5 DEF PhaseShape

(* The fields of a row.                                                      *)
LEMMA RowFields ==
    ASSUME NEW row \in Row
    PROVE  /\ row.stage \in 0..1 /\ row.twin \in BOOLEAN
           /\ row.status \in {"queued", "running", "unresolved", "resolved", "ignored"}
           /\ row.attempts \in Nat /\ row.max \in Nat
           /\ row.waiting \in BOOLEAN /\ row.lastChance \in BOOLEAN /\ row.seen \in 0..MaxEvidence
  BY DEF Row

LEMMA Statuses == {"queued", "running", "unresolved", "resolved", "ignored"} = RowStatus
                 /\ "queued" \in RowStatus /\ "running" \in RowStatus /\ "unresolved" \in RowStatus
                 /\ "resolved" \in RowStatus /\ "ignored" \in RowStatus
  BY DEF RowStatus

(* A row that only changes its status keeps its count. *)
LEMMA RestatedRow ==
    ASSUME NEW row \in Row, NEW s \in RowStatus
    PROVE  LET new == [row EXCEPT !.status = s]
           IN  new \in Row /\ new.status = s /\ new.attempts = row.attempts /\ new.max = row.max
               /\ new.lastChance = row.lastChance
  BY DEF Row, RowStatus

LEMMA Projected ==
    ASSUME NEW q, jobStatus \in {"needs_repair", "paused", "completed"}
    PROVE  ProjectedStatus(q) \in {"needs_repair", "paused", "completed"}
  BY DEF ProjectedStatus

(* Reconciling shows as repaired what the queue has resolved, or what was   *)
(* shown before.                                                             *)
LEMMA Reconciled ==
    ASSUME NEW q, rejections \in [Repairs -> {"unresolved", "repaired", "ignored"}]
    PROVE  /\ RowReconciled(q) \in [Repairs -> {"unresolved", "repaired", "ignored"}]
           /\ \A r \in Repairs : RowReconciled(q)[r] = "repaired" =>
                 q[r].status = "resolved" \/ rejections[r] = "repaired"
           /\ \A r \in Repairs : rejections[r] = "repaired" /\ q[r].status = "resolved" =>
                 RowReconciled(q)[r] = "repaired"
  BY DEF RowReconciled

-----------------------------------------------------------------------------
(* The steps that touch no row in hand.                                      *)

LEMMA InitRepairs == RepairInit => RepairInv
<1> SUFFICES ASSUME RepairInit PROVE RepairInv
  OBVIOUS
<1> USE RepairBounds
<1>1. PICK stage \in [Repairs -> 0..1], twin \in [Repairs -> BOOLEAN] :
          queue = [r \in Repairs |-> [stage |-> stage[r], twin |-> twin[r], status |-> "queued", attempts |-> 0,
                                      max |-> 1, waiting |-> FALSE, lastChance |-> FALSE, seen |-> 0]]
  BY DEF RepairInit
<1>2. \A r \in Repairs : queue[r] \in Row /\ queue[r].status = "queued" /\ queue[r].attempts = 0
                         /\ queue[r].max = 1 /\ queue[r].lastChance = FALSE
  BY <1>1 DEF Row
<1>3. queue \in [Repairs -> Row]
  BY <1>1, <1>2
<1>4. evidence \in [Repairs -> 0..MaxEvidence]
  BY DEF RepairInit
<1>5. QueueShape
  BY <1>3, <1>4 DEF RepairInit, QueueShape
<1>6. PhaseShape /\ Held = {} /\ Unwritten = {} /\ Answered = {}
  BY DEF RepairInit, PhaseShape, Resting, Held, Unwritten, Answered
<1>7. ResolvedIsStored /\ HeldIsOpen /\ DecidedIsStored /\ RepairedIsStored
  BY <1>2, <1>6 DEF RepairInit, Resting, ResolvedIsStored, HeldIsOpen, DecidedIsStored, RepairedIsStored
<1>8. AttemptsCounted
  BY <1>2, <1>6 DEF RepairInit, Resting, AttemptsCounted, Within
<1>9. AnswersCounted
  BY <1>2, <1>6 DEF RepairInit, AnswersCounted
<1>10. QED
  BY <1>5, <1>6, <1>7, <1>8, <1>9 DEF RepairInv
(* Between groups, and when the phase is over, no row is in hand.            *)
LEMMA NoneInHand ==
    ASSUME repair.pc \in {"idle", "classify", "pick"}
    PROVE  /\ Held = {} /\ Unwritten = {} /\ Answered = {} /\ HeldIsOpen /\ DecidedIsStored
           /\ (\A r \in Repairs : Within(queue[r])) => AttemptsCounted
  BY DEF Held, Unwritten, Answered, HeldIsOpen, DecidedIsStored, AttemptsCounted

LEMMA NoneInHandNext ==
    ASSUME repair'.pc \in {"idle", "classify", "pick"}
    PROVE  /\ Held' = {} /\ Unwritten' = {} /\ Answered' = {} /\ HeldIsOpen' /\ DecidedIsStored'
           /\ (\A r \in Repairs : Within(queue'[r])) => AttemptsCounted'
  BY DEF Held, Unwritten, Answered, HeldIsOpen, DecidedIsStored, AttemptsCounted, Within

(* A phase that begins, before anything is in hand. *)
LEMMA BeginsRepair ==
    ASSUME RepairInv, BeginRepair PROVE RepairInv' /\ RepairedStays
<1> USE DEF RepairInv
<1>1. repair' \in Before /\ repair'.pc = "classify"
  BY DEF BeginRepair, Before, QueueShape, Snapshot
<1>2. QueueShape' /\ PhaseShape' /\ RepairedStays
  BY <1>1 DEF BeginRepair, QueueShape, PhaseShape, RepairedStays
<1>3. ResolvedIsStored' /\ RepairedIsStored' /\ \A r \in Repairs : Within(queue'[r])
  BY DEF BeginRepair, ResolvedIsStored, RepairedIsStored, StoredFor, AttemptsCounted
<1>4. AnswersCounted'
  BY <1>1, NoneInHand, NoneInHandNext DEF BeginRepair, AnswersCounted
<1>5. QED
  BY <1>1, <1>2, <1>3, <1>4, NoneInHandNext

(* A released row has one attempt more, and never again.                     *)
LEMMA ReleasesRow ==
    ASSUME NEW row \in Row, Within(row), ~row.lastChance, row.status = "unresolved"
    PROVE  /\ ReleaseRow(row) \in Row /\ Within(ReleaseRow(row))
           /\ ReleaseRow(row).status = "queued" /\ ReleaseRow(row).attempts = row.attempts
<1>1. row.attempts \in Nat /\ row.max \in Nat
  BY RowFields
<1>2. ReleaseRow(row) = [row EXCEPT !.status = "queued", !.max = row.attempts + 1,
                                    !.lastChance = TRUE, !.waiting = FALSE]
  BY DEF ReleaseRow
<1>3. ReleaseRow(row) \in Row
  <2> DEFINE a == [row EXCEPT !.status = "queued"]
             b == [a EXCEPT !.max = row.attempts + 1]
             c == [b EXCEPT !.lastChance = TRUE]
  <2>1. a \in Row
    BY DEF Row
  <2> HIDE DEF a
  <2>2. b \in Row
    BY <1>1, <2>1 DEF Row
  <2> HIDE DEF b
  <2>3. c \in Row
    BY <2>2 DEF Row
  <2> HIDE DEF c
  <2>4. [c EXCEPT !.waiting = FALSE] \in Row
    BY <2>3 DEF Row
  <2>5. QED
    BY <1>2, <2>4 DEF a, b, c
<1>4. /\ ReleaseRow(row).status = "queued" /\ ReleaseRow(row).attempts = row.attempts
      /\ ReleaseRow(row).max = row.attempts + 1 /\ ReleaseRow(row).lastChance
  BY <1>2 DEF Row
<1>5. row.attempts <= 1
  BY <1>1 DEF Within
<1>6. Within(ReleaseRow(row))
  BY <1>1, <1>4, <1>5 DEF Within
<1>7. QED
  BY <1>3, <1>4, <1>6

LEMMA ReleasesChanged ==
    ASSUME RepairInv, ReleaseChanged PROVE RepairInv' /\ RepairedStays
<1> USE DEF RepairInv
<1>1. repair' \in Before /\ repair'.pc = "classify" /\ repair.pc = "idle"
  BY DEF ReleaseChanged, Before, QueueShape, Snapshot
<1>2. ASSUME NEW r \in Repairs
      PROVE  /\ queue'[r] \in Row /\ Within(queue'[r]) /\ queue'[r].attempts = queue[r].attempts
             /\ queue[r].status = "resolved" => queue'[r].status = "resolved"
             /\ queue'[r].status = "resolved" => queue[r].status = "resolved"
  <2>1. queue[r] \in Row /\ Within(queue[r])
    BY DEF QueueShape, AttemptsCounted
  <2>2. CASE r \in Released
    <3>1. queue'[r] = ReleaseRow(queue[r])
      BY <2>2 DEF ReleaseChanged
    <3>2. ~queue[r].lastChance /\ queue[r].status = "unresolved"
      BY <2>2 DEF Released
    <3>3. QED
      BY <2>1, <3>1, <3>2, ReleasesRow
  <2>3. CASE r \notin Released
    BY <2>1, <2>3 DEF ReleaseChanged
  <2>4. QED
    BY <2>2, <2>3
<1>3. queue' \in [Repairs -> Row]
  BY <1>2 DEF ReleaseChanged
<1>4. QueueShape' /\ PhaseShape' /\ RepairedStays
  BY <1>1, <1>3 DEF ReleaseChanged, QueueShape, PhaseShape, RepairedStays
<1>5. ResolvedIsStored' /\ RepairedIsStored'
  BY <1>2 DEF ReleaseChanged, ResolvedIsStored, RepairedIsStored, StoredFor
<1>6. AnswersCounted'
  BY <1>1, <1>2, NoneInHand, NoneInHandNext DEF ReleaseChanged, AnswersCounted
<1>7. QED
  BY <1>1, <1>2, <1>4, <1>5, <1>6, NoneInHandNext

(* The classifier settles no row as repaired and takes no attempt.           *)
LEMMA ClassifiesRow ==
    ASSUME RepairInv, repair.pc = "classify", NEW r \in Repairs
    PROVE  /\ Classified(r) \in Row /\ Within(Classified(r)) /\ Classified(r).attempts = queue[r].attempts
           /\ queue[r].status = "resolved" => Classified(r) = queue[r]
           /\ Classified(r).status = "resolved" => queue[r].status = "resolved"
<1>1. queue[r] \in Row /\ Within(queue[r])
  BY DEF RepairInv, QueueShape, AttemptsCounted
<1>2. CASE ~Open(queue[r]) \/ queue[r].waiting
  BY <1>1, <1>2 DEF Classified
<1>3. CASE Open(queue[r]) /\ ~queue[r].waiting /\ queue[r].twin
  <2>1. Classified(r) = [queue[r] EXCEPT !.status = "ignored"]
    BY <1>3 DEF Classified
  <2>2. /\ Classified(r) \in Row /\ Classified(r).status = "ignored"
        /\ Classified(r).attempts = queue[r].attempts /\ Classified(r).max = queue[r].max
        /\ Classified(r).lastChance = queue[r].lastChance
    BY <1>1, <2>1 DEF Row
  <2>3. QED
    BY <1>1, <1>3, <2>2 DEF Open, Within
<1>4. CASE Open(queue[r]) /\ ~queue[r].waiting /\ ~queue[r].twin /\ repair.seen[r] = 0
  <2>1. Classified(r) = [queue[r] EXCEPT !.status = "unresolved", !.waiting = TRUE, !.seen = 0]
    BY <1>4 DEF Classified
  <2>2. /\ Classified(r) \in Row /\ Classified(r).status = "unresolved"
        /\ Classified(r).attempts = queue[r].attempts /\ Classified(r).max = queue[r].max
        /\ Classified(r).lastChance = queue[r].lastChance
    <3> DEFINE a == [queue[r] EXCEPT !.status = "unresolved"]
               b == [a EXCEPT !.waiting = TRUE]
    <3>1. a \in Row
      BY <1>1 DEF Row
    <3> HIDE DEF a
    <3>2. b \in Row
      BY <3>1 DEF Row
    <3> HIDE DEF b
    <3>3. [b EXCEPT !.seen = 0] \in Row
      BY <3>2, RepairBounds DEF Row
    <3>4. Classified(r) \in Row
      BY <2>1, <3>3 DEF a, b
    <3>5. QED
      BY <1>1, <2>1, <3>4 DEF Row
  <2>3. QED
    BY <1>1, <1>4, <2>2 DEF Open, Within
<1>5. CASE Open(queue[r]) /\ ~queue[r].waiting /\ ~queue[r].twin /\ repair.seen[r] # 0
  BY <1>1, <1>5 DEF Classified
<1>6. QED
  BY <1>2, <1>3, <1>4, <1>5

LEMMA Classifies ==
    ASSUME RepairInv, Classify PROVE RepairInv' /\ RepairedStays
<1> USE DEF RepairInv
<1>1. /\ repair.pc = "classify" /\ queue' = [r \in Repairs |-> Classified(r)]
      /\ rejections' = RowReconciled(queue') /\ jobStatus' = ProjectedStatus(queue')
      /\ repair' = [repair EXCEPT !.pc = "pick"]
      /\ UNCHANGED <<evidence, stored, answers, troubles>>
  BY DEF Classify
<1>2. repair \in Before
  BY <1>1 DEF PhaseShape, Resting, Asking, Noting, Telling
<1>3. repair' \in Before /\ repair'.pc = "pick"
  BY <1>1, <1>2 DEF Before
<1>4. \A r \in Repairs : /\ queue'[r] \in Row /\ Within(queue'[r]) /\ queue'[r].attempts = queue[r].attempts
                         /\ queue[r].status = "resolved" => queue'[r].status = "resolved"
                         /\ queue'[r].status = "resolved" => queue[r].status = "resolved"
  BY <1>1, ClassifiesRow
<1>5. rejections \in [Repairs -> {"unresolved", "repaired", "ignored"}]
      /\ jobStatus \in {"needs_repair", "paused", "completed"}
  BY DEF QueueShape
<1>6. /\ rejections' \in [Repairs -> {"unresolved", "repaired", "ignored"}]
      /\ \A r \in Repairs : rejections'[r] = "repaired" =>
            queue'[r].status = "resolved" \/ rejections[r] = "repaired"
      /\ \A r \in Repairs : rejections[r] = "repaired" /\ queue'[r].status = "resolved" =>
            rejections'[r] = "repaired"
  BY <1>1, <1>5, Reconciled
<1>7. jobStatus' \in {"needs_repair", "paused", "completed"}
  BY <1>1, <1>5, Projected
<1>8. QueueShape' /\ PhaseShape'
  BY <1>1, <1>3, <1>4, <1>6, <1>7 DEF QueueShape, PhaseShape
<1>9. ResolvedIsStored' /\ RepairedIsStored' /\ RepairedStays
  BY <1>1, <1>4, <1>6 DEF ResolvedIsStored, RepairedIsStored, StoredFor, RepairedStays
<1>10. AnswersCounted'
  BY <1>1, <1>3, <1>4, NoneInHand, NoneInHandNext DEF AnswersCounted
<1>11. QED
  BY <1>3, <1>4, <1>8, <1>9, <1>10, NoneInHandNext

(* The phase ends when nothing is retryable.                                 *)
LEMMA FinishesPhase ==
    ASSUME RepairInv, Finish PROVE RepairInv' /\ RepairedStays
<1> USE DEF RepairInv
<1>1. repair' = Resting /\ repair'.pc = "idle" /\ repair.pc = "pick"
  BY DEF Finish, Resting
<1>2. QueueShape' /\ PhaseShape' /\ RepairedStays
  BY <1>1 DEF Finish, QueueShape, PhaseShape, RepairedStays
<1>3. ResolvedIsStored' /\ RepairedIsStored' /\ \A r \in Repairs : Within(queue'[r])
  BY DEF Finish, ResolvedIsStored, RepairedIsStored, StoredFor, AttemptsCounted
<1>4. AnswersCounted'
  BY <1>1, NoneInHand, NoneInHandNext DEF Finish, AnswersCounted
<1>5. QED
  BY <1>1, <1>2, <1>3, <1>4, NoneInHandNext

LEMMA EditsSource ==
    ASSUME RepairInv, NEW s \in Repairs, EditSource(s) PROVE RepairInv' /\ RepairedStays
<1> USE DEF RepairInv
<1>1. evidence[s] \in 0..MaxEvidence /\ evidence[s] < MaxEvidence
  BY DEF EditSource, QueueShape
<1>2. evidence' \in [Repairs -> 0..MaxEvidence]
  BY <1>1, RepairBounds DEF EditSource, QueueShape
<1>3. QueueShape' /\ PhaseShape' /\ RepairedStays
  BY <1>2 DEF EditSource, QueueShape, PhaseShape, RepairedStays
<1>4. Held' = Held /\ Unwritten' = Unwritten /\ Answered' = Answered
  BY DEF EditSource, Held, Unwritten, Answered
<1>5. ResolvedIsStored' /\ RepairedIsStored' /\ HeldIsOpen' /\ DecidedIsStored'
  BY <1>4 DEF EditSource, ResolvedIsStored, RepairedIsStored, StoredFor, HeldIsOpen, DecidedIsStored
<1>6. AttemptsCounted' /\ AnswersCounted'
  BY <1>4 DEF EditSource, AttemptsCounted, AnswersCounted
<1>7. QED
  BY <1>3, <1>5, <1>6
-----------------------------------------------------------------------------
(* A group in hand.                                                          *)

(* Rows as the phase rewrites them: claimed or put back, and decided.        *)
Reset(row, s, e) == [row EXCEPT !.status = s, !.seen = e, !.waiting = FALSE]
Rewritten(row, s, n, e, w) == [row EXCEPT !.status = s, !.attempts = n, !.seen = e, !.waiting = w]

LEMMA ResetRow ==
    ASSUME NEW row \in Row, NEW s \in RowStatus,
           NEW e \in 0..MaxEvidence
    PROVE  /\ Reset(row, s, e) \in Row /\ Reset(row, s, e).status = s
           /\ Reset(row, s, e).attempts = row.attempts /\ Reset(row, s, e).max = row.max
           /\ Reset(row, s, e).lastChance = row.lastChance
<1> DEFINE a == [row EXCEPT !.status = s]
           b == [a EXCEPT !.seen = e]
<1>1. a \in Row
  BY DEF Row, RowStatus
<1> HIDE DEF a
<1>2. b \in Row
  BY <1>1 DEF Row
<1> HIDE DEF b
<1>3. [b EXCEPT !.waiting = FALSE] \in Row
  BY <1>2 DEF Row
<1>4. Reset(row, s, e) \in Row
  BY <1>3 DEF Reset, a, b
<1>5. QED
  BY <1>4 DEF Reset, Row

LEMMA RewrittenRow ==
    ASSUME NEW row \in Row, NEW s \in RowStatus,
           NEW n \in Nat, NEW e \in 0..MaxEvidence, NEW w \in BOOLEAN
    PROVE  LET new == Rewritten(row, s, n, e, w)
           IN  /\ new \in Row /\ new.status = s /\ new.attempts = n /\ new.max = row.max
               /\ new.lastChance = row.lastChance
<1> DEFINE a == [row EXCEPT !.status = s]
           b == [a EXCEPT !.attempts = n]
           c == [b EXCEPT !.seen = e]
<1>1. a \in Row
  BY DEF Row, RowStatus
<1> HIDE DEF a
<1>2. b \in Row
  BY <1>1 DEF Row
<1> HIDE DEF b
<1>3. c \in Row
  BY <1>2 DEF Row
<1> HIDE DEF c
<1>4. [c EXCEPT !.waiting = w] \in Row
  BY <1>3 DEF Row
<1>5. Rewritten(row, s, n, e, w) \in Row
  BY <1>4 DEF Rewritten, a, b, c
<1>6. QED
  BY <1>5 DEF Rewritten, Row

LEMMA Claims ==
    ASSUME RepairInv, Claim PROVE RepairInv' /\ RepairedStays
<1> USE DEF RepairInv
<1>1. repair.pc = "pick" /\ repair \in Before
  BY DEF Claim, PhaseShape, Resting, Asking, Noting, Telling
<1>2. PICK group \in SUBSET Retryable(queue) :
          /\ queue' = [s \in Repairs |-> IF s \in group THEN ClaimedRow(s) ELSE queue[s]]
          /\ repair' = [pc |-> "running", ofJob |-> repair.ofJob, seen |-> repair.seen,
                        group |-> group, rows |-> [s \in group |-> queue[s]]]
  BY DEF Claim
<1>3. UNCHANGED <<rejections, evidence, jobStatus, stored, answers, troubles>>
  BY DEF Claim
<1>4. group \subseteq Repairs /\ \A s \in group : Active(queue[s])
  BY <1>2 DEF Retryable
<1>5. ASSUME NEW r \in Repairs
      PROVE  /\ queue'[r] \in Row /\ Within(queue'[r]) /\ queue'[r].attempts = queue[r].attempts
             /\ r \in group => queue'[r].status = "running" /\ queue[r].status # "resolved"
             /\ r \notin group => queue'[r] = queue[r]
  <2>1. queue[r] \in Row /\ Within(queue[r]) /\ repair.seen[r] \in 0..MaxEvidence
    BY <1>1 DEF QueueShape, AttemptsCounted, Before, Snapshot
  <2>2. CASE r \in group
    <3>1. queue'[r] = Reset(queue[r], "running", repair.seen[r])
      BY <1>2, <2>2 DEF ClaimedRow, Reset
    <3>2. /\ queue'[r] \in Row /\ queue'[r].status = "running" /\ queue'[r].attempts = queue[r].attempts
          /\ queue'[r].max = queue[r].max /\ queue'[r].lastChance = queue[r].lastChance
      BY <2>1, <3>1, Statuses, ResetRow
    <3>3. Within(queue'[r])
      BY <2>1, <3>2 DEF Within
    <3>4. queue[r].status # "resolved"
      BY <1>4, <2>2 DEF Active, Open
    <3>5. QED
      BY <2>2, <3>2, <3>3, <3>4
  <2>3. CASE r \notin group
    BY <1>2, <2>1, <2>3
  <2>4. QED
    BY <2>2, <2>3
<1>6. queue' \in [Repairs -> Row]
  BY <1>2, <1>5
<1>7. QueueShape'
  BY <1>3, <1>6 DEF QueueShape
<1>8. [s \in group |-> queue[s]] \in [group -> Row]
  BY <1>4 DEF QueueShape
<1>9. repair' \in Asking /\ repair'.pc = "running" /\ repair'.group = group
      /\ repair'.rows = [s \in group |-> queue[s]]
  <2>1. [s \in group |-> queue[s]] \in SomeRows
    BY <1>4, <1>8 DEF SomeRows
  <2>2. QED
    BY <1>1, <1>2, <1>4, <2>1 DEF Asking, Before
<1>10. PhaseShape'
  BY <1>8, <1>9 DEF PhaseShape
<1>11. Held' = group /\ Unwritten' = group /\ Answered' = {} /\ Answered = {}
  BY <1>1, <1>9 DEF Held, Unwritten, Answered
<1>12. ResolvedIsStored' /\ RepairedIsStored' /\ HeldIsOpen' /\ DecidedIsStored' /\ RepairedStays
  BY <1>3, <1>4, <1>5, <1>9, <1>11
     DEF ResolvedIsStored, RepairedIsStored, StoredFor, HeldIsOpen, DecidedIsStored, RepairedStays
<1>13. AttemptsCounted'
  <2>1. \A r \in group : repair'.rows[r] = queue[r] /\ Within(queue[r]) /\ queue[r].attempts < queue[r].max
    BY <1>4, <1>9 DEF AttemptsCounted, Active
  <2>2. \A r \in group : Within(repair'.rows[r]) /\ repair'.rows[r].attempts < repair'.rows[r].max
    BY <2>1
  <2>3. QED
    BY <1>4, <1>5, <1>9, <1>11, <2>1, <2>2 DEF AttemptsCounted, Within
<1>14. AnswersCounted'
  BY <1>3, <1>5, <1>11 DEF AnswersCounted
<1>15. QED
  BY <1>7, <1>10, <1>12, <1>13, <1>14

(* An answer commits what is emitted before anything is decided on.          *)
LEMMA Answers ==
    ASSUME RepairInv, Answer PROVE RepairInv' /\ RepairedStays
<1> USE DEF RepairInv
<1>1. /\ repair.pc = "running" /\ repair.group \in SUBSET Repairs /\ repair.rows \in [repair.group -> Row]
      /\ repair.seen \in Snapshot /\ repair.ofJob \in BOOLEAN
  BY PhaseFacts DEF Answer
<1>2. PICK decided \in [repair.group -> {"emit", "drop", "fail"}] :
          /\ stored' = IF \E r \in repair.group : decided[r] = "emit"
                       THEN stored \cup {<<repair.group, Attempt(CHOOSE r \in repair.group : TRUE)>>} ELSE stored
          /\ repair' = [pc |-> "record", ofJob |-> repair.ofJob, seen |-> repair.seen, group |-> repair.group,
                        rows |-> repair.rows, todo |-> repair.group, decided |-> decided]
  BY DEF Answer
<1>3. /\ answers' = [r \in Repairs |-> IF r \in repair.group THEN answers[r] + 1 ELSE answers[r]]
      /\ UNCHANGED <<queue, rejections, evidence, jobStatus, troubles>>
  BY DEF Answer
<1>4. QueueShape'
  <2>1. answers' \in [Repairs -> Nat]
    BY <1>3 DEF QueueShape
  <2>2. QED
    BY <1>3, <2>1 DEF QueueShape
<1>5. /\ repair'.pc = "record" /\ repair'.group = repair.group /\ repair'.rows = repair.rows
      /\ repair'.todo = repair.group /\ repair'.decided = decided
  BY <1>2
<1>6. repair' \in Noting
  <2>1. repair.rows \in SomeRows /\ decided \in Verdicts
    BY <1>1, <1>2 DEF SomeRows, Verdicts
  <2>2. QED
    BY <1>1, <1>2, <2>1 DEF Noting
<1>7. PhaseShape'
  BY <1>1, <1>2, <1>5, <1>6 DEF PhaseShape
<1>8. /\ Held = repair.group /\ Unwritten = repair.group /\ Answered = {}
      /\ Held' = repair.group /\ Unwritten' = repair.group /\ Answered' = repair.group
  BY <1>1, <1>5 DEF Held, Unwritten, Answered
<1>9. \A r : StoredFor(r) => StoredFor(r)'
  BY <1>2 DEF StoredFor
<1>10. DecidedIsStored'
  <2>1. SUFFICES ASSUME NEW r \in repair.group, decided[r] = "emit" PROVE StoredFor(r)'
    BY <1>5 DEF DecidedIsStored
  <2>2. <<repair.group, Attempt(CHOOSE s \in repair.group : TRUE)>> \in stored'
    BY <1>2, <2>1
  <2>3. QED
    BY <2>2 DEF StoredFor
<1>11. ResolvedIsStored' /\ HeldIsOpen' /\ RepairedStays
  BY <1>3, <1>8, <1>9 DEF ResolvedIsStored, HeldIsOpen, RepairedStays
<1>12. RepairedIsStored'
  BY <1>3, <1>9 DEF RepairedIsStored, StoredFor
<1>13. AttemptsCounted'
  BY <1>1, <1>3, <1>5, <1>8 DEF AttemptsCounted, Within
<1>14. AnswersCounted'
  <2>1. SUFFICES ASSUME NEW r \in Repairs
                 PROVE  answers'[r] <= queue[r].attempts + troubles + (IF r \in repair.group THEN 1 ELSE 0)
    BY <1>3, <1>8 DEF AnswersCounted
  <2>2. /\ answers[r] \in Nat /\ queue[r].attempts \in Nat /\ troubles \in Nat
        /\ answers[r] <= queue[r].attempts + troubles
    BY <1>8, RowFields, RepairBounds DEF AnswersCounted, QueueShape
  <2>3. QED
    BY <1>3, <2>2
<1>15. QED
  BY <1>4, <1>7, <1>10, <1>11, <1>12, <1>13, <1>14

(* Putting the group back loses no attempt: none was written yet.            *)
LEMMA Interrupts ==
    ASSUME RepairInv, Interrupt PROVE RepairInv' /\ RepairedStays
<1> USE DEF RepairInv
<1>1. /\ repair.pc = "running" /\ repair.group \in SUBSET Repairs /\ repair.rows \in [repair.group -> Row]
      /\ repair.seen \in Snapshot
  BY PhaseFacts DEF Interrupt
<1>2. /\ queue' = [r \in Repairs |-> IF r \in repair.group THEN Requeued(r) ELSE queue[r]]
      /\ jobStatus' \in {"paused", jobStatus} /\ repair' = Resting
      /\ troubles < MaxTroubles /\ troubles' = troubles + 1
      /\ UNCHANGED <<rejections, evidence, stored, answers>>
  BY DEF Interrupt
<1>3. Held = repair.group /\ Unwritten = repair.group /\ Answered = {}
  BY <1>1 DEF Held, Unwritten, Answered
<1>4. ASSUME NEW r \in Repairs
      PROVE  /\ queue'[r] \in Row /\ Within(queue'[r]) /\ queue'[r].attempts = queue[r].attempts
             /\ r \in repair.group => queue'[r].status = "queued"
             /\ r \notin repair.group => queue'[r] = queue[r]
  <2>1. CASE r \in repair.group
    <3>1. repair.rows[r] \in Row /\ Within(repair.rows[r]) /\ repair.rows[r].attempts = queue[r].attempts
      BY <1>1, <1>3, <2>1 DEF AttemptsCounted
    <3>2. queue'[r] = Reset(repair.rows[r], "queued", repair.seen[r])
      BY <1>2, <2>1 DEF Requeued, Reset
    <3>3. repair.seen[r] \in 0..MaxEvidence
      BY <1>1 DEF Snapshot
    <3>4. /\ queue'[r] \in Row /\ queue'[r].status = "queued"
          /\ queue'[r].attempts = repair.rows[r].attempts
          /\ queue'[r].max = repair.rows[r].max /\ queue'[r].lastChance = repair.rows[r].lastChance
      <4>1. repair.rows[r] \in Row /\ "queued" \in RowStatus
        BY <3>1, Statuses
      <4>2. LET new == Reset(repair.rows[r], "queued", repair.seen[r])
            IN  /\ new \in Row /\ new.status = "queued" /\ new.attempts = repair.rows[r].attempts
                /\ new.max = repair.rows[r].max /\ new.lastChance = repair.rows[r].lastChance
        BY <3>3, <4>1, ResetRow
      <4>3. QED
        BY <3>2, <4>2
    <3>5. Within(queue'[r])
      BY <3>1, <3>4 DEF Within
    <3>6. QED
      BY <2>1, <3>1, <3>4, <3>5
  <2>2. CASE r \notin repair.group
    BY <1>2, <2>2 DEF QueueShape, AttemptsCounted
  <2>3. QED
    BY <2>1, <2>2
<1>5. queue' \in [Repairs -> Row]
  BY <1>2, <1>4
<1>6. repair'.pc = "idle"
  BY <1>2 DEF Resting
<1>7. QueueShape' /\ PhaseShape'
  BY <1>2, <1>5, <1>6, RepairBounds DEF QueueShape, PhaseShape
<1>8. ResolvedIsStored' /\ RepairedIsStored' /\ RepairedStays
  <2>1. \A r \in repair.group : queue[r].status # "resolved"
    BY <1>3 DEF HeldIsOpen
  <2>2. QED
    BY <1>2, <1>4, <2>1 DEF ResolvedIsStored, RepairedIsStored, StoredFor, RepairedStays
<1>9. AnswersCounted'
  <2>0. Answered' = {}
    BY <1>6, NoneInHandNext
  <2>1. SUFFICES ASSUME NEW r \in Repairs
                 PROVE  answers'[r] <= queue'[r].attempts + troubles' + 0
    BY <2>0 DEF AnswersCounted
  <2>2. /\ answers[r] \in Nat /\ queue[r].attempts \in Nat /\ troubles \in Nat
        /\ answers[r] <= queue[r].attempts + troubles /\ queue'[r].attempts = queue[r].attempts
    BY <1>3, <1>4, RowFields, RepairBounds DEF AnswersCounted, QueueShape
  <2>3. QED
    BY <1>2, <2>2
<1>10. QED
  BY <1>4, <1>6, <1>7, <1>8, <1>9, NoneInHandNext
(* What is decided of a row is one attempt more, and not settled yet.        *)
LEMMA DecidesRow ==
    ASSUME RepairInv, repair.pc = "record", NEW r \in repair.todo
    PROVE  /\ DecidedRow(r) \in Row /\ Within(DecidedRow(r)) /\ DecidedRow(r).status # "resolved"
           /\ DecidedRow(r).attempts = repair.rows[r].attempts + 1
           /\ repair.rows[r].attempts = queue[r].attempts
<1>1. /\ r \in repair.group /\ r \in Repairs /\ repair.rows[r] \in Row /\ repair.seen[r] \in 0..MaxEvidence
      /\ repair.decided[r] \in {"emit", "drop", "fail"}
  BY PhaseFacts DEF RepairInv, Snapshot
<1>2. /\ Within(repair.rows[r]) /\ repair.rows[r].attempts < repair.rows[r].max
      /\ repair.rows[r].attempts = queue[r].attempts
  BY DEF RepairInv, AttemptsCounted, Held, Unwritten
<1>3. repair.rows[r].attempts \in Nat /\ repair.rows[r].max \in Nat
  BY <1>1, RowFields
<1> DEFINE s == IF Outcome(r) = "repaired" THEN "running" ELSE Outcome(r)
           w == Outcome(r) = "unresolved"
<1>4. s \in RowStatus /\ s # "resolved" /\ w \in BOOLEAN
  BY DEF Outcome, RowStatus
<1>5. Attempt(r) = repair.rows[r].attempts + 1 /\ Attempt(r) \in Nat
  BY <1>3 DEF Attempt
<1>6. DecidedRow(r) = Rewritten(repair.rows[r], s, Attempt(r), repair.seen[r], w)
  BY DEF DecidedRow, Rewritten
<1> HIDE DEF s, w
<1>7. LET new == Rewritten(repair.rows[r], s, Attempt(r), repair.seen[r], w)
      IN  /\ new \in Row /\ new.status = s /\ new.attempts = Attempt(r) /\ new.max = repair.rows[r].max
          /\ new.lastChance = repair.rows[r].lastChance
  BY <1>1, <1>4, <1>5, RewrittenRow
<1>8. Within(DecidedRow(r))
  BY <1>2, <1>3, <1>5, <1>6, <1>7 DEF Within
<1>9. QED
  BY <1>2, <1>4, <1>5, <1>6, <1>7, <1>8

LEMMA WritesRow ==
    ASSUME RepairInv, WriteRow PROVE RepairInv' /\ RepairedStays
<1> USE DEF RepairInv
<1>1. /\ repair.pc = "record" /\ repair.group \in SUBSET Repairs /\ repair.rows \in [repair.group -> Row]
      /\ repair.seen \in Snapshot /\ repair.ofJob \in BOOLEAN /\ repair.todo \subseteq repair.group
      /\ repair.decided \in [repair.group -> {"emit", "drop", "fail"}]
  BY PhaseFacts DEF WriteRow
<1>2. PICK r \in repair.todo :
          /\ queue' = [queue EXCEPT ![r] = DecidedRow(r)]
          /\ repair' = [pc |-> "audit", ofJob |-> repair.ofJob, seen |-> repair.seen, group |-> repair.group,
                        rows |-> repair.rows, todo |-> repair.todo, decided |-> repair.decided, row |-> r]
  BY DEF WriteRow
<1>3. UNCHANGED <<rejections, evidence, jobStatus, stored, answers, troubles>>
  BY DEF WriteRow
<1>4. /\ r \in Repairs /\ DecidedRow(r) \in Row /\ Within(DecidedRow(r)) /\ DecidedRow(r).status # "resolved"
      /\ DecidedRow(r).attempts = repair.rows[r].attempts + 1 /\ repair.rows[r].attempts = queue[r].attempts
  BY <1>1, DecidesRow
<1>5. queue \in [Repairs -> Row]
  BY DEF QueueShape
<1>6. /\ queue' \in [Repairs -> Row] /\ queue'[r] = DecidedRow(r)
      /\ \A s \in Repairs : s # r => queue'[s] = queue[s]
  BY <1>2, <1>4, <1>5
<1>7. QueueShape'
  BY <1>3, <1>6 DEF QueueShape
<1>8. /\ repair'.pc = "audit" /\ repair'.group = repair.group /\ repair'.rows = repair.rows
      /\ repair'.todo = repair.todo /\ repair'.decided = repair.decided /\ repair'.row = r
  BY <1>2
<1>9. repair' \in Telling
  <2>1. repair.rows \in SomeRows /\ repair.decided \in Verdicts
    BY <1>1 DEF SomeRows, Verdicts
  <2>2. QED
    BY <1>1, <1>2, <1>4, <2>1 DEF Telling
<1>10. PhaseShape'
  BY <1>1, <1>8, <1>9 DEF PhaseShape
<1>11. /\ Held = repair.todo /\ Unwritten = repair.todo /\ Answered = repair.todo
       /\ Held' = repair.todo /\ Unwritten' = repair.todo \ {r} /\ Answered' = repair.todo \ {r}
  BY <1>1, <1>8 DEF Held, Unwritten, Answered
<1>12. queue[r].status # "resolved"
  BY <1>11 DEF HeldIsOpen
<1>13. ResolvedIsStored' /\ RepairedIsStored' /\ HeldIsOpen' /\ RepairedStays
  BY <1>1, <1>3, <1>4, <1>6, <1>11, <1>12
     DEF ResolvedIsStored, RepairedIsStored, StoredFor, HeldIsOpen, RepairedStays
<1>14. DecidedIsStored'
  BY <1>1, <1>3, <1>8 DEF DecidedIsStored, StoredFor
<1>15. AttemptsCounted'
  <2>1. \A s \in Repairs : Within(queue'[s])
    BY <1>4, <1>6 DEF AttemptsCounted
  <2>2. \A s \in repair.todo : Within(repair.rows[s]) /\ repair.rows[s].attempts < repair.rows[s].max
    BY <1>11 DEF AttemptsCounted
  <2>3. \A s \in repair.todo \ {r} : queue'[s].attempts = repair.rows[s].attempts
    BY <1>1, <1>6, <1>11 DEF AttemptsCounted
  <2>4. queue'[r].attempts = repair.rows[r].attempts + 1
    BY <1>4, <1>6
  <2>5. QED
    BY <1>8, <1>11, <2>1, <2>2, <2>3, <2>4 DEF AttemptsCounted, Within
<1>16. AnswersCounted'
  <2>1. SUFFICES ASSUME NEW s \in Repairs
                 PROVE  answers[s] <= queue'[s].attempts + troubles
                                      + (IF s \in repair.todo \ {r} THEN 1 ELSE 0)
    BY <1>3, <1>11 DEF AnswersCounted
  <2>2. /\ answers[s] \in Nat /\ queue[s].attempts \in Nat /\ troubles \in Nat
        /\ answers[s] <= queue[s].attempts + troubles + (IF s \in repair.todo THEN 1 ELSE 0)
    BY <1>11, RowFields, RepairBounds DEF AnswersCounted, QueueShape
  <2>3. CASE s = r
    BY <1>4, <1>6, <2>2, <2>3
  <2>4. CASE s # r
    BY <1>6, <2>2, <2>4
  <2>5. QED
    BY <2>3, <2>4
<1>17. QED
  BY <1>7, <1>10, <1>13, <1>14, <1>15, <1>16

(* Settling a row changes its status only, and to resolved only if its      *)
(* repair was stored.                                                        *)
LEMMA SettlesRow ==
    ASSUME RepairInv, repair.pc = "audit"
    PROVE  LET r == repair.row
           IN  /\ SettledRow(r) \in Row /\ Within(SettledRow(r))
               /\ SettledRow(r).attempts = queue[r].attempts
               /\ SettledRow(r).status = "resolved" => StoredFor(r)
               /\ Outcome(r) \in {"unresolved", "repaired", "ignored"}
               /\ Outcome(r) = "repaired" => SettledRow(r).status = "resolved"
<1> DEFINE r == repair.row
<1>1. r \in repair.group /\ r \in Repairs /\ r \in repair.todo /\ repair.decided[r] \in {"emit", "drop", "fail"}
  BY PhaseFacts DEF RepairInv
<1>2. queue[r] \in Row /\ Within(queue[r]) /\ queue[r].status # "resolved"
  BY <1>1 DEF RepairInv, QueueShape, AttemptsCounted, HeldIsOpen, Held
<1>3. /\ Outcome(r) \in {"unresolved", "repaired", "ignored"}
      /\ Outcome(r) = "repaired" => StoredFor(r)
  BY <1>1 DEF RepairInv, Outcome, DecidedIsStored
<1>4. CASE Outcome(r) = "unresolved"
  BY <1>2, <1>3, <1>4 DEF SettledRow
<1>5. CASE Outcome(r) # "unresolved"
  <2> DEFINE s == IF Outcome(r) = "repaired" THEN "resolved" ELSE "ignored"
  <2>1. SettledRow(r) = [queue[r] EXCEPT !.status = s]
    BY <1>5 DEF SettledRow
  <2>2. s \in RowStatus
    BY Statuses
  <2> HIDE DEF s
  <2>3. /\ SettledRow(r) \in Row /\ SettledRow(r).status = s /\ SettledRow(r).attempts = queue[r].attempts
        /\ SettledRow(r).max = queue[r].max /\ SettledRow(r).lastChance = queue[r].lastChance
    BY <1>2, <2>1, <2>2 DEF Row, RowStatus
  <2>4. Within(SettledRow(r))
    BY <1>2, <2>3 DEF Within
  <2>5. QED
    BY <1>3, <1>5, <2>3, <2>4 DEF s
<1>6. QED
  BY <1>4, <1>5

LEMMA WritesAudit ==
    ASSUME RepairInv, WriteAudit PROVE RepairInv' /\ RepairedStays
<1> USE DEF RepairInv
<1> DEFINE r == repair.row
<1>1. /\ repair.pc = "audit" /\ repair.group \in SUBSET Repairs /\ repair.rows \in [repair.group -> Row]
      /\ repair.seen \in Snapshot /\ repair.ofJob \in BOOLEAN /\ repair.todo \subseteq repair.group
      /\ repair.decided \in [repair.group -> {"emit", "drop", "fail"}] /\ r \in repair.todo /\ r \in Repairs
  BY PhaseFacts DEF WriteAudit
<1>2. /\ queue' = [queue EXCEPT ![r] = SettledRow(r)]
      /\ rejections' = [rejections EXCEPT ![r] = Outcome(r)]
      /\ jobStatus' = ProjectedStatus(queue')
      /\ repair' = IF repair.todo = {r} THEN [pc |-> "pick", ofJob |-> repair.ofJob, seen |-> repair.seen]
                   ELSE [pc |-> "record", ofJob |-> repair.ofJob, seen |-> repair.seen, group |-> repair.group,
                         rows |-> repair.rows, todo |-> repair.todo \ {r}, decided |-> repair.decided]
      /\ UNCHANGED <<evidence, stored, answers, troubles>>
  BY DEF WriteAudit
<1>3. /\ SettledRow(r) \in Row /\ Within(SettledRow(r)) /\ SettledRow(r).attempts = queue[r].attempts
      /\ SettledRow(r).status = "resolved" => StoredFor(r)
      /\ Outcome(r) \in {"unresolved", "repaired", "ignored"}
      /\ Outcome(r) = "repaired" => SettledRow(r).status = "resolved"
  BY <1>1, SettlesRow
<1>4. /\ queue \in [Repairs -> Row] /\ rejections \in [Repairs -> {"unresolved", "repaired", "ignored"}]
      /\ jobStatus \in {"needs_repair", "paused", "completed"}
  BY DEF QueueShape
<1>5. /\ queue' \in [Repairs -> Row] /\ queue'[r] = SettledRow(r)
      /\ \A s \in Repairs : s # r => queue'[s] = queue[s]
  BY <1>1, <1>2, <1>3, <1>4
<1>6. /\ rejections' \in [Repairs -> {"unresolved", "repaired", "ignored"}] /\ rejections'[r] = Outcome(r)
      /\ \A s \in Repairs : s # r => rejections'[s] = rejections[s]
  BY <1>1, <1>2, <1>3, <1>4
<1>7. jobStatus' \in {"needs_repair", "paused", "completed"}
  BY <1>2, <1>4, Projected
<1>8. QueueShape'
  BY <1>2, <1>5, <1>6, <1>7 DEF QueueShape
<1>9. ASSUME repair.todo = {r}
      PROVE  /\ PhaseShape' /\ DecidedIsStored' /\ AttemptsCounted'
             /\ Held' = repair.todo \ {r} /\ Answered' = repair.todo \ {r}
  <2>1. repair' \in Before /\ repair'.pc = "pick"
    BY <1>1, <1>2, <1>9 DEF Before
  <2>2. PhaseShape'
    BY <2>1 DEF PhaseShape
  <2>3. Held' = repair.todo \ {r} /\ Unwritten' = repair.todo \ {r} /\ Answered' = repair.todo \ {r}
    BY <1>9, <2>1, NoneInHandNext
  <2>4. DecidedIsStored'
    BY <2>1, NoneInHandNext
  <2>5. \A s \in Repairs : Within(queue'[s])
    BY <1>3, <1>5 DEF AttemptsCounted
  <2>6. AttemptsCounted'
    BY <2>1, <2>5, NoneInHandNext
  <2>7. QED
    BY <2>2, <2>3, <2>4, <2>6
<1>10. ASSUME repair.todo # {r}
      PROVE  /\ PhaseShape' /\ DecidedIsStored' /\ AttemptsCounted'
             /\ Held' = repair.todo \ {r} /\ Answered' = repair.todo \ {r}
  <2>1. /\ repair'.pc = "record" /\ repair'.group = repair.group /\ repair'.rows = repair.rows
        /\ repair'.todo = repair.todo \ {r} /\ repair'.decided = repair.decided
    BY <1>2, <1>10
  <2>2. repair' \in Noting
    <3>1. repair.rows \in SomeRows /\ repair.decided \in Verdicts /\ repair.todo \ {r} \in SUBSET Repairs
      BY <1>1 DEF SomeRows, Verdicts
    <3>2. QED
      BY <1>1, <1>2, <1>10, <3>1 DEF Noting
  <2>3. PhaseShape'
    BY <1>1, <2>1, <2>2 DEF PhaseShape
  <2>4. Held' = repair.todo \ {r} /\ Unwritten' = repair.todo \ {r} /\ Answered' = repair.todo \ {r}
    BY <2>1 DEF Held, Unwritten, Answered
  <2>5. DecidedIsStored'
    BY <1>1, <1>2, <2>1 DEF DecidedIsStored, StoredFor
  <2>6. AttemptsCounted'
    <3>1. \A s \in Repairs : Within(queue'[s])
      BY <1>3, <1>5 DEF AttemptsCounted
    <3>2. \A s \in repair.todo \ {r} : /\ Within(repair.rows[s]) /\ repair.rows[s].attempts < repair.rows[s].max
                                       /\ queue'[s].attempts = repair.rows[s].attempts
      BY <1>1, <1>5 DEF AttemptsCounted, Held, Unwritten
    <3>3. QED
      BY <2>1, <2>4, <3>1, <3>2 DEF AttemptsCounted, Within
  <2>7. QED
    BY <2>3, <2>4, <2>5, <2>6
<1>11. /\ PhaseShape' /\ DecidedIsStored' /\ AttemptsCounted'
       /\ Held' = repair.todo \ {r} /\ Answered' = repair.todo \ {r}
       /\ Held = repair.todo /\ Unwritten = repair.todo \ {r} /\ Answered = repair.todo \ {r}
  BY <1>1, <1>9, <1>10 DEF Held, Unwritten, Answered
<1>12. queue[r].status # "resolved" /\ rejections[r] # "repaired"
  BY <1>1, <1>11 DEF HeldIsOpen, RepairedIsStored
<1>13. ResolvedIsStored' /\ RepairedIsStored' /\ RepairedStays
  <2>1. \A s : StoredFor(s)' <=> StoredFor(s)
    BY <1>2 DEF StoredFor
  <2>2. ResolvedIsStored'
    BY <1>3, <1>5, <2>1 DEF ResolvedIsStored
  <2>3. \A s \in Repairs : rejections'[s] = "repaired" => queue'[s].status = "resolved"
    BY <1>3, <1>5, <1>6 DEF RepairedIsStored
  <2>4. RepairedIsStored'
    BY <2>2, <2>3 DEF ResolvedIsStored, RepairedIsStored, StoredFor
  <2>5. RepairedStays
    BY <1>6, <1>12 DEF RepairedStays
  <2>6. QED
    BY <2>2, <2>4, <2>5
<1>14. HeldIsOpen'
  BY <1>1, <1>5, <1>11 DEF HeldIsOpen
<1>15. AnswersCounted'
  BY <1>2, <1>3, <1>5, <1>11 DEF AnswersCounted
<1>16. QED
  BY <1>8, <1>11, <1>13, <1>14, <1>15
LEMMA AuditFailing ==
    ASSUME RepairInv, AuditFails PROVE RepairInv' /\ RepairedStays
<1> USE DEF RepairInv
<1> DEFINE r == repair.row
<1>1. /\ repair.pc = "audit" /\ repair.group \in SUBSET Repairs /\ repair.rows \in [repair.group -> Row]
      /\ repair.todo \subseteq repair.group /\ r \in repair.todo /\ r \in Repairs
  BY PhaseFacts DEF AuditFails
<1>2. /\ queue' = IF Outcome(r) = "unresolved" THEN queue
                  ELSE [queue EXCEPT ![r] = [repair.rows[r] EXCEPT !.status = "queued"]]
      /\ jobStatus' \in {"paused", jobStatus} /\ repair' = Resting
      /\ troubles < MaxTroubles /\ troubles' = troubles + 1
      /\ UNCHANGED <<rejections, evidence, stored, answers>>
  BY DEF AuditFails
<1>3. repair'.pc = "idle"
  BY <1>2 DEF Resting
<1>4. /\ Held = repair.todo /\ Unwritten = repair.todo \ {r} /\ Answered = repair.todo \ {r}
  BY <1>1 DEF Held, Unwritten, Answered
<1>5. /\ queue \in [Repairs -> Row] /\ queue[r] \in Row /\ repair.rows[r] \in Row
      /\ queue[r].attempts \in Nat /\ repair.rows[r].attempts \in Nat
      /\ queue[r].attempts = repair.rows[r].attempts + 1 /\ Within(repair.rows[r]) /\ Within(queue[r])
      /\ queue[r].status # "resolved"
  BY <1>1, <1>4, RowFields DEF QueueShape, AttemptsCounted, HeldIsOpen
<1>6. /\ queue' \in [Repairs -> Row] /\ queue'[r].status # "resolved" /\ Within(queue'[r])
      /\ queue'[r].attempts \in {queue[r].attempts, repair.rows[r].attempts}
      /\ \A s \in Repairs : s # r => queue'[s] = queue[s]
  <2>1. CASE Outcome(r) = "unresolved"
    BY <1>2, <1>5, <2>1
  <2>2. CASE Outcome(r) # "unresolved"
    <3> DEFINE new == [repair.rows[r] EXCEPT !.status = "queued"]
    <3>1. /\ new \in Row /\ new.status = "queued" /\ new.attempts = repair.rows[r].attempts
          /\ new.max = repair.rows[r].max /\ new.lastChance = repair.rows[r].lastChance
      BY <1>5 DEF Row
    <3>2. queue' = [queue EXCEPT ![r] = new]
      BY <1>2, <2>2
    <3> HIDE DEF new
    <3>3. Within(new)
      BY <1>5, <3>1 DEF Within
    <3>4. QED
      BY <1>1, <1>5, <3>1, <3>2, <3>3
  <2>3. QED
    BY <2>1, <2>2
<1>7. QueueShape' /\ PhaseShape'
  BY <1>2, <1>3, <1>6, RepairBounds DEF QueueShape, PhaseShape
<1>8. rejections[r] # "repaired"
  BY <1>1, <1>5 DEF RepairedIsStored
<1>9. ResolvedIsStored' /\ RepairedIsStored' /\ RepairedStays
  BY <1>2, <1>6, <1>8 DEF ResolvedIsStored, RepairedIsStored, StoredFor, RepairedStays
<1>10. \A s \in Repairs : Within(queue'[s])
  BY <1>6 DEF AttemptsCounted
<1>11. AnswersCounted'
  <2>1. Answered' = {}
    BY <1>3, NoneInHandNext
  <2>2. SUFFICES ASSUME NEW s \in Repairs PROVE answers'[s] <= queue'[s].attempts + troubles' + 0
    BY <2>1 DEF AnswersCounted
  <2>3. /\ answers[s] \in Nat /\ queue[s].attempts \in Nat /\ troubles \in Nat
        /\ answers[s] <= queue[s].attempts + troubles + (IF s \in repair.todo \ {r} THEN 1 ELSE 0)
    BY <1>4, RowFields, RepairBounds DEF AnswersCounted, QueueShape
  <2>4. CASE s = r
    BY <1>2, <1>5, <1>6, <2>3, <2>4
  <2>5. CASE s # r
    BY <1>2, <1>6, <2>3, <2>5
  <2>6. QED
    BY <2>4, <2>5
<1>12. QED
  BY <1>3, <1>7, <1>9, <1>10, <1>11, NoneInHandNext

-----------------------------------------------------------------------------
(* Reloads, and the user.                                                    *)

(* A reload loses what the answers in hand said, and at most one of each.    *)
LEMMA Reloads ==
    ASSUME RepairInv, Reload PROVE RepairInv' /\ RepairedStays
<1> USE DEF RepairInv
<1>1. /\ repair' = Resting /\ rejections' = RowReconciled(queue) /\ jobStatus' \in {jobStatus, ProjectedStatus(queue)}
      /\ troubles < MaxTroubles /\ troubles' = troubles + 1
      /\ UNCHANGED <<queue, evidence, stored, answers>>
  BY DEF Reload
<1>2. repair'.pc = "idle"
  BY <1>1 DEF Resting
<1>3. rejections \in [Repairs -> {"unresolved", "repaired", "ignored"}]
      /\ jobStatus \in {"needs_repair", "paused", "completed"}
  BY DEF QueueShape
<1>4. /\ rejections' \in [Repairs -> {"unresolved", "repaired", "ignored"}]
      /\ \A r \in Repairs : rejections'[r] = "repaired" =>
            queue[r].status = "resolved" \/ rejections[r] = "repaired"
      /\ \A r \in Repairs : rejections[r] = "repaired" /\ queue[r].status = "resolved" =>
            rejections'[r] = "repaired"
  BY <1>1, <1>3, Reconciled
<1>5. jobStatus' \in {"needs_repair", "paused", "completed"}
  BY <1>1, <1>3, Projected
<1>6. QueueShape' /\ PhaseShape'
  BY <1>1, <1>2, <1>4, <1>5, RepairBounds DEF QueueShape, PhaseShape
<1>7. ResolvedIsStored' /\ RepairedIsStored' /\ RepairedStays
  BY <1>1, <1>4 DEF ResolvedIsStored, RepairedIsStored, StoredFor, RepairedStays
<1>8. \A r \in Repairs : Within(queue'[r])
  BY <1>1 DEF AttemptsCounted
<1>9. AnswersCounted'
  <2>1. Answered' = {}
    BY <1>2, NoneInHandNext
  <2>2. SUFFICES ASSUME NEW s \in Repairs PROVE answers'[s] <= queue'[s].attempts + troubles' + 0
    BY <2>1 DEF AnswersCounted
  <2>3. /\ answers[s] \in Nat /\ queue[s].attempts \in Nat /\ troubles \in Nat
        /\ answers[s] <= queue[s].attempts + troubles + (IF s \in Answered THEN 1 ELSE 0)
    BY RowFields, RepairBounds DEF AnswersCounted, QueueShape
  <2>4. QED
    BY <1>1, <2>3
<1>10. QED
  BY <1>2, <1>6, <1>7, <1>8, <1>9, NoneInHandNext

LEMMA UserIgnores ==
    ASSUME RepairInv, NEW u \in Repairs, UserIgnore(u) PROVE RepairInv' /\ RepairedStays
<1> USE DEF RepairInv
<1>1. /\ rejections[u] = "unresolved" /\ rejections' = [rejections EXCEPT ![u] = "ignored"]
      /\ queue' = [queue EXCEPT ![u].status = "ignored"] /\ jobStatus' = ProjectedStatus(queue')
      /\ UNCHANGED <<evidence, repair, stored, answers, troubles>>
  BY DEF UserIgnore
<1>2. /\ queue \in [Repairs -> Row] /\ rejections \in [Repairs -> {"unresolved", "repaired", "ignored"}]
      /\ jobStatus \in {"needs_repair", "paused", "completed"} /\ queue[u] \in Row /\ Within(queue[u])
  BY DEF QueueShape, AttemptsCounted
<1> DEFINE new == [queue[u] EXCEPT !.status = "ignored"]
<1>3. /\ new \in Row /\ new.status = "ignored" /\ new.attempts = queue[u].attempts
      /\ new.max = queue[u].max /\ new.lastChance = queue[u].lastChance
  BY <1>2 DEF Row
<1>4. queue' = [queue EXCEPT ![u] = new]
  BY <1>1
<1> HIDE DEF new
<1>5. Within(new)
  BY <1>2, <1>3 DEF Within
<1>6. /\ queue' \in [Repairs -> Row] /\ queue'[u] = new /\ \A s \in Repairs : s # u => queue'[s] = queue[s]
  BY <1>2, <1>3, <1>4
<1>7. \A s \in Repairs : /\ queue'[s].attempts = queue[s].attempts /\ Within(queue'[s])
                         /\ queue'[s].status # queue[s].status => s = u
                         /\ queue'[s].status = "resolved" => queue[s].status = "resolved"
  BY <1>3, <1>5, <1>6 DEF AttemptsCounted
<1>8. jobStatus' \in {"needs_repair", "paused", "completed"}
  BY <1>1, <1>2, Projected
<1>9. QueueShape' /\ PhaseShape'
  BY <1>1, <1>2, <1>6, <1>8 DEF QueueShape, PhaseShape
<1>10. /\ Held' = Held /\ Unwritten' = Unwritten /\ Answered' = Answered
       /\ Held \subseteq Repairs /\ Unwritten \subseteq Repairs
  BY <1>1, PhaseFacts DEF Held, Unwritten, Answered
<1>11. ResolvedIsStored' /\ RepairedIsStored' /\ HeldIsOpen' /\ DecidedIsStored' /\ RepairedStays
  <2>1. ResolvedIsStored' /\ DecidedIsStored'
    BY <1>1, <1>7 DEF ResolvedIsStored, DecidedIsStored, StoredFor
  <2>2. RepairedIsStored' /\ RepairedStays
    BY <1>1, <1>2, <1>6 DEF RepairedIsStored, RepairedStays
  <2>3. HeldIsOpen'
    BY <1>7, <1>10 DEF HeldIsOpen
  <2>4. QED
    BY <2>1, <2>2, <2>3
<1>12. AttemptsCounted'
  <2>1. repair.pc = "audit" => repair.row \in Repairs
    BY PhaseFacts
  <2>2. QED
    BY <1>1, <1>7, <1>10, <2>1 DEF AttemptsCounted, Within
<1>13. AnswersCounted'
  BY <1>1, <1>7, <1>10 DEF AnswersCounted
<1>14. QED
  BY <1>9, <1>11, <1>12, <1>13

-----------------------------------------------------------------------------
LEMMA RepairStutters ==
    ASSUME RepairInv, UNCHANGED repairVars PROVE RepairInv' /\ RepairedStays
  BY DEF repairVars, RepairInv, QueueShape, PhaseShape, Held, Unwritten, Answered, StoredFor, ResolvedIsStored,
         HeldIsOpen, DecidedIsStored, RepairedIsStored, Within, AttemptsCounted, AnswersCounted, RepairedStays,
         Before, Asking, Noting, Telling

LEMMA RepairSteps == RepairInv /\ [RepairNext]_repairVars => RepairInv' /\ RepairedStays
<1> SUFFICES ASSUME RepairInv, [RepairNext]_repairVars PROVE RepairInv' /\ RepairedStays
  OBVIOUS
<1>1. CASE BeginRepair
  BY <1>1, BeginsRepair
<1>2. CASE Classify
  BY <1>2, Classifies
<1>3. CASE Claim
  BY <1>3, Claims
<1>4. CASE Answer
  BY <1>4, Answers
<1>5. CASE WriteRow
  BY <1>5, WritesRow
<1>6. CASE WriteAudit
  BY <1>6, WritesAudit
<1>7. CASE Finish
  BY <1>7, FinishesPhase
<1>8. CASE ReleaseChanged
  BY <1>8, ReleasesChanged
<1>9. CASE Interrupt
  BY <1>9, Interrupts
<1>10. CASE AuditFails
  BY <1>10, AuditFailing
<1>11. CASE Reload
  BY <1>11, Reloads
<1>12. CASE \E r \in Repairs : UserIgnore(r) \/ EditSource(r)
  BY <1>12, UserIgnores, EditsSource
<1>13. CASE UNCHANGED repairVars
  BY <1>13, RepairStutters
<1>14. QED
  BY <1>1, <1>2, <1>3, <1>4, <1>5, <1>6, <1>7, <1>8, <1>9, <1>10, <1>11, <1>12, <1>13 DEF RepairNext, RepairStep

(* Two attempts at most, and an answer lost for each failure.                *)
LEMMA RepairInvSuffices == RepairInv => RepairTypeOK /\ RepairedIsStored /\ AnswersBounded
<1> SUFFICES ASSUME RepairInv PROVE RepairTypeOK /\ AnswersBounded
  BY DEF RepairInv
<1>1. RepairTypeOK
  BY PhaseFacts DEF RepairInv, QueueShape, RepairTypeOK
<1>2. ASSUME NEW r \in Repairs PROVE answers[r] <= 2 + troubles
  <2>1. /\ answers[r] \in Nat /\ troubles \in Nat /\ queue[r].attempts \in Nat /\ queue[r].max \in Nat
        /\ Within(queue[r])
    BY RowFields, RepairBounds DEF RepairInv, QueueShape, AttemptsCounted
  <2>2. answers[r] <= queue[r].attempts + troubles + (IF r \in Answered THEN 1 ELSE 0)
    BY DEF RepairInv, AnswersCounted
  <2>3. CASE r \in Answered
    <3>1. /\ r \in repair.group /\ repair.rows[r] \in Row /\ r \in Held /\ r \in Unwritten
      BY <2>3, PhaseFacts DEF RepairInv, Answered, Unwritten, Held
    <3>2. /\ queue[r].attempts = repair.rows[r].attempts /\ Within(repair.rows[r])
          /\ repair.rows[r].attempts < repair.rows[r].max
      BY <3>1 DEF RepairInv, AttemptsCounted
    <3>3. repair.rows[r].attempts \in Nat /\ repair.rows[r].max \in Nat
      BY <3>1, RowFields
    <3>4. queue[r].attempts <= 1
      BY <3>2, <3>3 DEF Within
    <3>5. QED
      BY <2>1, <2>2, <3>4
  <2>4. CASE r \notin Answered
    BY <2>1, <2>2, <2>4 DEF Within
  <2>5. QED
    BY <2>3, <2>4
<1>3. QED
  BY <1>1, <1>2 DEF AnswersBounded

(* Whatever fails, is cancelled, edited, dismissed or cut off by a reload:   *)
(* what the audit shows as repaired is stored and stays repaired, and no row *)
(* is answered more often than its two attempts and the losses explain.      *)
THEOREM RepairsAreSound == RepairSpec => RepairsSound
<1>1. RepairSpec => []RepairInv
  BY InitRepairs, RepairSteps, PTL DEF RepairSpec
<1>2. RepairInv /\ [RepairNext]_repairVars => RepairedStays
  BY RepairSteps
<1>3. QED
  BY <1>1, <1>2, RepairInvSuffices, PTL DEF RepairSpec, RepairsSound

-----------------------------------------------------------------------------
(* The inductive invariant.                                                  *)
Attempts == 0..MaxDreamFailures - 1
Timers == [DreamOwners -> {NoTimer} \cup [job : Dreams, attempt : Attempts]]
Reading == [pc : {"reading", "applying"}, job : Dreams, auto : BOOLEAN, attempt : Attempts]
Settling == [pc : {"settling", "writing"}, job : Dreams, auto : BOOLEAN, attempt : Attempts,
             set : 1..MaxSets]
Runs == {NoRun} \cup Reading \cup Settling

DreamShape ==
    /\ dreams \in [Dreams -> DreamStatus]
    /\ dreamRows \in [Dreams -> [status : DreamStatus, set : 0..MaxSets]]
    /\ timers \in Timers
    /\ dreamRuns \in [DreamRuns -> Runs]
    /\ sets \in [Dreams -> Seq({"live", "undone"})]
    /\ \A d \in Dreams : Len(sets[d]) <= MaxSets
    /\ undo \in {NoRun} \cup [pc : {"recording"}, job : Dreams]
    /\ {applyLock, workspaceLock, here, bound, generating} \subseteq BOOLEAN

(* A run has its change set in view. *)
SetsThere ==
    \A r \in DreamRuns : dreamRuns[r] \in Settling => dreamRuns[r].set <= Len(sets[dreamRuns[r].job])

(* The lock of the workspace outlives a reset of the coordinator. *)
Locked ==
    /\ \A r \in DreamRuns : dreamRuns[r].pc = "applying" => workspaceLock
    /\ \A r, s \in DreamRuns : dreamRuns[r].pc = "applying" /\ dreamRuns[s].pc = "applying" => r = s

HasLive(d) == \E n \in DOMAIN sets[d] : sets[d][n] = "live"
Undoing(d) == undo.pc = "recording" /\ undo.job = d
Touched(d) ==
    \/ dreams[d] # "none" \/ sets[d] # << >>
    \/ \E o \in DreamOwners : timers[o] # NoTimer /\ timers[o].job = d
    \/ \E r \in DreamRuns : dreamRuns[r].pc # "idle" /\ dreamRuns[r].job = d

(* Whatever is known of a job has left a row, or an undo is about to write *)
(* one; a bound coordinator knows every row.                               *)
RowsTell ==
    /\ \A d \in Dreams : Touched(d) => dreamRows[d].status # "none" \/ Undoing(d)
    /\ \A d \in Dreams : here /\ bound /\ dreams[d] = "none" => dreamRows[d].status = "none"
    /\ \A d \in Dreams : Undoing(d) => dreams[d] # "none"

(* Who says applied, or is about to, is backed or being taken back.        *)
Backed ==
    \A d \in Dreams :
        /\ dreamRows[d].status = "applied" => HasLive(d) \/ Undoing(d)
        /\ dreams[d] = "applied" => HasLive(d)
        /\ \A r \in DreamRuns : dreamRuns[r].pc = "writing" /\ dreamRuns[r].job = d => HasLive(d) \/ Undoing(d)

DreamInv == DreamShape /\ SetsThere /\ Locked /\ (~undoCut => RowsTell /\ Backed)

-----------------------------------------------------------------------------
(* Shapes.                                                                   *)

LEMMA RunFacts ==
  ASSUME DreamShape, NEW r \in DreamRuns
  PROVE  /\ dreamRuns[r] \in Runs
         /\ dreamRuns[r].pc \in {"reading", "applying"} => dreamRuns[r] \in Reading
         /\ dreamRuns[r].pc \in {"settling", "writing"} => dreamRuns[r] \in Settling
         /\ dreamRuns[r].pc # "idle" => /\ dreamRuns[r] \in Reading \cup Settling
                                        /\ dreamRuns[r].job \in Dreams
                                        /\ dreamRuns[r].attempt \in Attempts
         /\ dreamRuns[r] \in Settling => dreamRuns[r].pc \in {"settling", "writing"}
         /\ dreamRuns[r] \in Reading => dreamRuns[r].pc \in {"reading", "applying"}
         /\ dreamRuns[r].pc = "idle" => dreamRuns[r] = NoRun
  BY DEF DreamShape, Runs, Reading, Settling, NoRun

LEMMA NoTimersIsTimers == NoTimers \in Timers
  BY DEF NoTimers, Timers

LEMMA ScheduledIsTimers ==
  ASSUME DreamShape, NEW d \in Dreams, NEW n \in Attempts
  PROVE  Scheduled(d, n) \in Timers
  BY OwnerOfDreams DEF DreamShape, Scheduled, Timers

LEMMA ZeroIsAttempt == 0 \in Attempts
  BY DreamBounds DEF Attempts

LEMMA AllScheduledIsTimers ==
  ASSUME NEW jobs \in SUBSET Dreams, NEW before \in Timers, NEW after \in AllScheduled(jobs, before)
  PROVE  after \in Timers
<1>1. \A o \in DreamOwners : before[o] \in {NoTimer} \cup [job : Dreams, attempt : Attempts]
  BY DEF Timers
<1>2. [job : Dreams, attempt : {0}] \subseteq [job : Dreams, attempt : Attempts]
  BY ZeroIsAttempt
<1> QED
  BY <1>1, <1>2 DEF AllScheduled, Timers

LEMMA RetriedIsTimers ==
  ASSUME DreamShape, NEW r \in DreamRuns, dreamRuns[r].pc # "idle"
  PROVE  Retried(r) \in Timers
<1>1. dreamRuns[r].job \in Dreams /\ dreamRuns[r].attempt \in Attempts
  BY RunFacts
<1>2. dreamRuns[r].attempt + 1 < MaxDreamFailures => dreamRuns[r].attempt + 1 \in Attempts
  BY <1>1, DreamBounds DEF Attempts
<1> QED
  BY <1>1, <1>2, ScheduledIsTimers DEF Retried, DreamShape

LEMMA ThrowsShape ==
  ASSUME DreamShape, NEW r \in DreamRuns, dreamRuns[r].pc # "idle", Throws(r)
  PROVE  timers' \in Timers /\ dreamRuns' \in [DreamRuns -> Runs]
  BY RetriedIsTimers DEF Throws, DreamShape, Runs

LEMMA RecordedShape ==
  ASSUME DreamShape, NEW d \in Dreams, NEW status \in DreamStatus
  PROVE  Recorded(d, status) \in [Dreams -> [status : DreamStatus, set : 0..MaxSets]]
  BY DreamBounds DEF Recorded, DreamShape

LEMMA StartsShape ==
  ASSUME DreamShape, NEW d \in Dreams, NEW auto \in BOOLEAN, NEW n \in Attempts, Starts(d, auto, n)
  PROVE  /\ dreamRuns' \in [DreamRuns -> Runs]
         /\ \E r \in DreamRuns :
               /\ dreamRuns[r].pc = "idle"
               /\ dreamRuns' = [dreamRuns EXCEPT ![r] = [pc |-> "reading", job |-> d, auto |-> auto, attempt |-> n]]
<1> DEFINE r == CHOOSE x \in FreeRuns : TRUE
<1>1. r \in DreamRuns /\ dreamRuns[r].pc = "idle"
  BY DEF Starts, FreeRuns
<1>2. [pc |-> "reading", job |-> d, auto |-> auto, attempt |-> n] \in Runs
  BY DEF Runs, Reading
<1> QED
  BY <1>1, <1>2 DEF Starts, DreamShape

-----------------------------------------------------------------------------
(* The shape of the state, and of the change sets runs have in view.         *)

LEMMA ShapeInit == DreamInit => DreamShape /\ SetsThere
<1> SUFFICES ASSUME DreamInit PROVE DreamShape /\ SetsThere
  OBVIOUS
<1>1. dreamRows \in [Dreams -> [status : DreamStatus, set : 0..MaxSets]]
  BY DreamBounds DEF DreamInit, NoRow, DreamStatus
<1>2. \A r \in DreamRuns : dreamRuns[r] \notin Settling
  BY DEF DreamInit, NoRun, Settling
<1>3. sets \in [Dreams -> Seq({"live", "undone"})] /\ \A d \in Dreams : Len(sets[d]) <= MaxSets
  BY DreamBounds DEF DreamInit
<1>4. dreams \in [Dreams -> DreamStatus] /\ dreamRuns \in [DreamRuns -> Runs]
  BY DEF DreamInit, DreamStatus, Runs
<1> QED
  BY <1>1, <1>2, <1>3, <1>4, NoTimersIsTimers DEF DreamInit, DreamShape, SetsThere

\* A new change set is the last one of its job, and no other goes.
LEMMA NewSetFacts ==
  ASSUME DreamShape, NEW d \in Dreams
  PROVE  /\ WithNewSet(d) \in Seq({"live", "undone"})
         /\ Len(WithNewSet(d)) \in 1..MaxSets /\ Len(WithNewSet(d)) >= Len(sets[d])
         /\ \E n \in DOMAIN WithNewSet(d) : WithNewSet(d)[n] = "live"
<1>1. sets[d] \in Seq({"live", "undone"}) /\ Len(sets[d]) <= MaxSets /\ Len(sets[d]) \in Nat
  BY DEF DreamShape
<1>2. CASE Len(sets[d]) < MaxSets
  <2>1. WithNewSet(d) = Append(sets[d], "live")
    BY <1>2 DEF WithNewSet
  <2>2. Append(sets[d], "live") \in Seq({"live", "undone"}) /\ Len(Append(sets[d], "live")) = Len(sets[d]) + 1
    BY <1>1
  <2>3. Append(sets[d], "live")[Len(sets[d]) + 1] = "live"
    BY <1>1
  <2> QED
    BY <1>1, <1>2, <2>1, <2>2, <2>3, DreamBounds
<1>3. CASE Len(sets[d]) = MaxSets
  <2>1. WithNewSet(d) = [sets[d] EXCEPT ![MaxSets] = "live"]
    BY <1>3, DreamBounds DEF WithNewSet
  <2>2. MaxSets \in 1..Len(sets[d])
    BY <1>3, DreamBounds
  <2>3. [sets[d] EXCEPT ![MaxSets] = "live"] \in Seq({"live", "undone"})
    BY <1>1, <2>2
  <2>4. Len([sets[d] EXCEPT ![MaxSets] = "live"]) = Len(sets[d])
    BY <1>1
  <2>5. [sets[d] EXCEPT ![MaxSets] = "live"][MaxSets] = "live"
    BY <1>1, <2>2
  <2> QED
    BY <1>1, <1>3, <2>1, <2>2, <2>3, <2>4, <2>5
<1> QED
  BY <1>1, <1>2, <1>3, DreamBounds

LEMMA ShapeStep ==
  ASSUME DreamShape, SetsThere, [DreamNext]_dreamVars
  PROVE  DreamShape' /\ SetsThere'
<1> USE DEF DreamShape
<1>1. CASE UNCHANGED dreamVars
  BY <1>1 DEF dreamVars, SetsThere
<1>2. CASE GenerationStarts
  BY <1>2, NoTimersIsTimers DEF GenerationStarts, SetsThere
<1>3. CASE GenerationEnds
  <2>1. timers' \in Timers
    BY <1>3, AllScheduledIsTimers DEF GenerationEnds
  <2> QED
    BY <1>3, <2>1 DEF GenerationEnds, SetsThere
<1>4. ASSUME NEW d \in Dreams, Queue(d)
      PROVE  /\ dreams' \in [Dreams -> DreamStatus]
             /\ dreamRows' \in [Dreams -> [status : DreamStatus, set : 0..MaxSets]]
  BY <1>4, DreamBounds DEF Queue, DreamStatus
<1>5. CASE CaptureFinished
  <2>1. /\ timers' \in Timers
        /\ dreams' \in [Dreams -> DreamStatus]
        /\ dreamRows' \in [Dreams -> [status : DreamStatus, set : 0..MaxSets]]
    BY <1>5, <1>4, ScheduledIsTimers, ZeroIsAttempt DEF CaptureFinished, OpenRows
  <2> QED
    BY <1>5, <2>1 DEF CaptureFinished, SetsThere
<1>6. ASSUME NEW d \in Dreams, Enqueue(d) PROVE DreamShape' /\ SetsThere'
  BY <1>6, <1>4 DEF Enqueue, SetsThere
<1>7. ASSUME NEW d \in Dreams, RunByUser(d) PROVE DreamShape' /\ SetsThere'
  <2>1. PICK r \in DreamRuns :
           dreamRuns' = [dreamRuns EXCEPT ![r] = [pc |-> "reading", job |-> d, auto |-> FALSE, attempt |-> 0]]
    BY <1>7, StartsShape, ZeroIsAttempt DEF RunByUser
  <2>2. dreamRuns' \in [DreamRuns -> Runs]
    BY <1>7, StartsShape, ZeroIsAttempt DEF RunByUser
  <2>3. [pc |-> "reading", job |-> d, auto |-> FALSE, attempt |-> 0] \notin Settling
    BY DEF Settling
  <2> QED
    BY <1>7, <2>1, <2>2, <2>3 DEF RunByUser, SetsThere
<1>8. ASSUME NEW o \in DreamOwners, TimerRuns(o) PROVE DreamShape' /\ SetsThere'
  <2>1. timers[o] \in [job : Dreams, attempt : Attempts]
    BY <1>8 DEF TimerRuns, Timers
  <2> DEFINE start == [pc |-> "reading", job |-> timers[o].job, auto |-> TRUE, attempt |-> timers[o].attempt]
  <2>2. PICK r \in DreamRuns : dreamRuns' = [dreamRuns EXCEPT ![r] = start]
    BY <1>8, <2>1, StartsShape DEF TimerRuns
  <2>3. dreamRuns' \in [DreamRuns -> Runs]
    BY <1>8, <2>1, StartsShape DEF TimerRuns
  <2>4. start \notin Settling
    BY DEF Settling
  <2>5. timers' \in Timers
    BY <1>8 DEF TimerRuns, Timers
  <2> QED
    BY <1>8, <2>2, <2>3, <2>4, <2>5 DEF TimerRuns, SetsThere
<1>9. ASSUME NEW o \in DreamOwners, TimerPassed(o) PROVE DreamShape' /\ SetsThere'
  <2>1. timers[o] \in [job : Dreams, attempt : Attempts]
    BY <1>9 DEF TimerPassed, Timers
  <2>2. timers' \in Timers
    BY <1>9, <2>1, ScheduledIsTimers, ZeroIsAttempt DEF TimerPassed, Timers
  <2> QED
    BY <1>9, <2>2 DEF TimerPassed, SetsThere
<1>10. ASSUME NEW r \in DreamRuns, Throws(r), dreamRuns[r].pc # "idle", sets' = sets
       PROVE  /\ timers' \in Timers /\ dreamRuns' \in [DreamRuns -> Runs] /\ SetsThere'
  <2>1. NoRun \notin Settling
    BY DEF NoRun, Settling
  <2> QED
    BY <1>10, <2>1, ThrowsShape DEF Throws, SetsThere
<1>11. ASSUME NEW r \in DreamRuns, TakeLock(r) PROVE DreamShape' /\ SetsThere'
  <2>1. dreamRuns[r] \in Reading /\ dreamRuns[r].job \in Dreams /\ dreamRuns[r].pc = "reading"
    BY <1>11, RunFacts DEF TakeLock
  <2>2. CASE dreams[dreamRuns[r].job] # "none" /\ LockFree
    <3>1. [dreamRuns[r] EXCEPT !.pc = "applying"] \in Reading
      BY <2>1 DEF Reading
    <3>2. [dreamRuns[r] EXCEPT !.pc = "applying"] \notin Settling
      BY <3>1 DEF Reading, Settling
    <3>3. dreamRuns' = [dreamRuns EXCEPT ![r] = [dreamRuns[r] EXCEPT !.pc = "applying"]] /\ sets' = sets
      BY <1>11, <2>2 DEF TakeLock
    <3>4. dreamRuns' \in [DreamRuns -> Runs]
      BY <3>1, <3>3 DEF Runs
    <3>5. SetsThere'
      BY <3>2, <3>3 DEF SetsThere
    <3> QED
      BY <1>11, <2>1, <2>2, <3>4, <3>5 DEF TakeLock, DreamStatus
  <2>3. CASE ~(dreams[dreamRuns[r].job] # "none" /\ LockFree)
    <3>1. dreamRows' \in [Dreams -> [status : DreamStatus, set : 0..MaxSets]]
      BY <1>11, <2>1, <2>3, RecordedShape DEF TakeLock
    <3>2. timers' \in Timers /\ dreamRuns' \in [DreamRuns -> Runs] /\ SetsThere'
      BY <1>11, <1>10, <2>1, <2>3 DEF TakeLock
    <3> QED
      BY <1>11, <2>1, <2>3, <3>1, <3>2 DEF TakeLock
  <2> QED
    BY <2>2, <2>3
<1>12. ASSUME NEW r \in DreamRuns, Apply(r) PROVE DreamShape' /\ SetsThere'
  <2> DEFINE d == dreamRuns[r].job
             settled == [pc |-> "settling", job |-> d, auto |-> dreamRuns[r].auto,
                         attempt |-> dreamRuns[r].attempt, set |-> Len(WithNewSet(d))]
  <2>1. dreamRuns[r] \in Reading /\ d \in Dreams
    BY <1>12, RunFacts DEF Apply
  <2>2. WithNewSet(d) \in Seq({"live", "undone"}) /\ Len(WithNewSet(d)) \in 1..MaxSets /\ Len(WithNewSet(d)) >= Len(sets[d])
    BY <2>1, NewSetFacts
  <2>3. settled \in Settling
    BY <2>1, <2>2 DEF Reading, Settling
  <2>4. dreamRuns' = [dreamRuns EXCEPT ![r] = settled] /\ sets' = [sets EXCEPT ![d] = WithNewSet(d)]
    BY <1>12 DEF Apply
  <2> HIDE DEF settled, d
  <2>5. dreamRuns' \in [DreamRuns -> Runs]
    BY <2>3, <2>4 DEF Runs
  <2>6. /\ sets' \in [Dreams -> Seq({"live", "undone"})]
        /\ \A e \in Dreams : Len(sets'[e]) <= MaxSets /\ Len(sets'[e]) >= Len(sets[e])
    BY <2>1, <2>2, <2>4, DreamBounds
  <2>7. ASSUME NEW s \in DreamRuns, dreamRuns'[s] \in Settling
        PROVE  dreamRuns'[s].set <= Len(sets'[dreamRuns'[s].job])
    <3>1. CASE s = r
      <4>1. dreamRuns'[s].set = Len(WithNewSet(d)) /\ dreamRuns'[s].job = d
        BY <2>4, <3>1 DEF settled
      <4> QED
        BY <4>1, <2>1, <2>2, <2>4
    <3>2. CASE s # r
      <4>1. dreamRuns'[s] = dreamRuns[s] /\ dreamRuns[s].job \in Dreams /\ dreamRuns[s].set \in 1..MaxSets
        BY <2>4, <2>7, <3>2 DEF Settling
      <4>2. dreamRuns[s].set <= Len(sets[dreamRuns[s].job])
        BY <2>7, <4>1 DEF SetsThere
      <4> QED
        BY <2>6, <4>1, <4>2
    <3> QED
      BY <3>1, <3>2
  <2>8. dreams' \in [Dreams -> DreamStatus]
    BY <1>12 DEF Apply, DreamStatus
  <2> QED
    BY <1>12, <2>5, <2>6, <2>7, <2>8 DEF Apply, Unlock, SetsThere
<1>13. ASSUME NEW r \in DreamRuns, ApplyFails(r) PROVE DreamShape' /\ SetsThere'
  <2>1. dreamRuns[r].job \in Dreams /\ dreamRuns[r].pc # "idle"
    BY <1>13, RunFacts DEF ApplyFails
  <2>2. dreamRows' \in [Dreams -> [status : DreamStatus, set : 0..MaxSets]]
    BY <1>13, <2>1, RecordedShape DEF ApplyFails, DreamStatus
  <2>3. timers' \in Timers /\ dreamRuns' \in [DreamRuns -> Runs] /\ SetsThere'
    BY <1>10, <1>13, <2>1 DEF ApplyFails
  <2> QED
    BY <1>13, <2>2, <2>3 DEF ApplyFails, Unlock, DreamStatus
<1>14. ASSUME NEW r \in DreamRuns, Settle(r) PROVE DreamShape' /\ SetsThere'
  <2>1. dreamRuns[r] \in Settling /\ dreamRuns[r].pc = "settling"
    BY <1>14, RunFacts DEF Settle
  <2>2. CASE sets[dreamRuns[r].job][dreamRuns[r].set] = "live"
    <3>1. /\ [dreamRuns[r] EXCEPT !.pc = "writing"] \in Settling
          /\ [dreamRuns[r] EXCEPT !.pc = "writing"].set = dreamRuns[r].set
          /\ [dreamRuns[r] EXCEPT !.pc = "writing"].job = dreamRuns[r].job
      BY <2>1 DEF Settling
    <3> QED
      BY <1>14, <2>1, <2>2, <3>1 DEF Settle, SetsThere, Runs
  <2>3. CASE sets[dreamRuns[r].job][dreamRuns[r].set] # "live"
    <3>1. timers' \in Timers /\ dreamRuns' \in [DreamRuns -> Runs] /\ SetsThere'
      BY <1>10, <1>14, <2>1, <2>3 DEF Settle
    <3> QED
      BY <1>14, <3>1 DEF Settle
  <2> QED
    BY <2>2, <2>3
<1>15. ASSUME NEW r \in DreamRuns, WriteSettled(r) PROVE DreamShape' /\ SetsThere'
  <2>1. dreamRuns[r].job \in Dreams /\ dreamRuns[r].set \in 0..MaxSets
    BY <1>15, RunFacts DEF WriteSettled, Settling
  <2>2. dreamRows' \in [Dreams -> [status : DreamStatus, set : 0..MaxSets]]
    BY <1>15, <2>1 DEF WriteSettled, DreamStatus
  <2>3. NoRun \in Runs /\ NoRun \notin Settling
    BY DEF NoRun, Runs, Settling
  <2> QED
    BY <1>15, <2>2, <2>3 DEF WriteSettled, SetsThere
<1>16. ASSUME NEW r \in DreamRuns, SettleFails(r) PROVE DreamShape' /\ SetsThere'
  <2>1. timers' \in Timers /\ dreamRuns' \in [DreamRuns -> Runs] /\ SetsThere'
    BY <1>10, <1>16 DEF SettleFails
  <2> QED
    BY <1>16, <2>1 DEF SettleFails
<1>17. ASSUME NEW d \in Dreams, NEW n \in DOMAIN sets[d], UndoDream(d, n) PROVE DreamShape' /\ SetsThere'
  <2>1. sets' = [sets EXCEPT ![d] = [sets[d] EXCEPT ![n] = "undone"]]
    BY <1>17 DEF UndoDream
  <2>2. sets' \in [Dreams -> Seq({"live", "undone"})] /\ \A e \in Dreams : Len(sets'[e]) = Len(sets[e])
    BY <2>1
  <2>3. dreamRows' \in [Dreams -> [status : DreamStatus, set : 0..MaxSets]]
    BY <1>17, DreamBounds DEF UndoDream, NoRow, DreamStatus
  <2>4. SetsThere'
    BY <1>17, <2>2 DEF UndoDream, SetsThere, Settling
  <2> QED
    BY <1>17, <2>2, <2>3, <2>4 DEF UndoDream, DreamStatus
<1>18. CASE RecordUndone
  <2>1. undo.job \in Dreams
    BY <1>18 DEF RecordUndone, NoRun
  <2>2. dreamRows' \in [Dreams -> [status : DreamStatus, set : 0..MaxSets]]
    BY <1>18, <2>1, RecordedShape DEF RecordUndone, DreamStatus
  <2> QED
    BY <1>18, <2>2 DEF RecordUndone, SetsThere
<1>19. CASE DreamSwitch
  BY <1>19 DEF DreamSwitch, SetsThere
<1>20. CASE Bind
  <2>1. timers' \in Timers
    BY <1>20, AllScheduledIsTimers, NoTimersIsTimers DEF Bind
  <2>2. dreams' \in [Dreams -> DreamStatus]
    BY <1>20 DEF Bind, DreamStatus
  <2> QED
    BY <1>20, <2>1, <2>2 DEF Bind, SetsThere
<1>21. CASE DreamReload
  <2>1. NoRun \in Runs /\ NoRun \notin Settling
    BY DEF NoRun, Runs, Settling
  <2> QED
    BY <1>21, <2>1, NoTimersIsTimers DEF DreamReload, Unlock, SetsThere, DreamStatus
<1> QED
  BY <1>1, <1>2, <1>3, <1>5, <1>6, <1>7, <1>8, <1>9, <1>11, <1>12, <1>13, <1>14, <1>15, <1>16, <1>17,
     <1>18, <1>19, <1>20, <1>21 DEF DreamNext, DreamRunStep

-----------------------------------------------------------------------------
(* The lock.                                                                 *)

LEMMA LockStep ==
  ASSUME DreamShape, Locked, [DreamNext]_dreamVars
  PROVE  Locked'
<1>1. CASE UNCHANGED dreamVars
  BY <1>1 DEF dreamVars, Locked
<1>2. ASSUME UNCHANGED <<dreamRuns, workspaceLock>> PROVE Locked'
  BY <1>2 DEF Locked
\* A run that leaves the application, or never was in it.
<1>3. ASSUME NEW r \in DreamRuns, NEW next, next.pc # "applying",
             dreamRuns' = [dreamRuns EXCEPT ![r] = next], workspaceLock' = workspaceLock
      PROVE  Locked'
  BY <1>3 DEF Locked, DreamShape
<1>4. ASSUME NEW d \in Dreams, NEW auto \in BOOLEAN, NEW n \in Attempts, Starts(d, auto, n),
             workspaceLock' = workspaceLock
      PROVE  Locked'
  <2>1. PICK r \in DreamRuns :
           dreamRuns' = [dreamRuns EXCEPT ![r] = [pc |-> "reading", job |-> d, auto |-> auto, attempt |-> n]]
    BY <1>4, StartsShape
  <2> QED
    BY <1>3, <1>4, <2>1
<1>5. ASSUME NEW d \in Dreams, RunByUser(d) PROVE Locked'
  BY <1>4, <1>5, ZeroIsAttempt DEF RunByUser
<1>6. ASSUME NEW o \in DreamOwners, TimerRuns(o) PROVE Locked'
  <2>1. timers[o].job \in Dreams /\ timers[o].attempt \in Attempts
    BY <1>6 DEF TimerRuns, DreamShape, Timers
  <2> QED
    BY <1>4, <1>6, <2>1 DEF TimerRuns
<1>7. NoRun.pc # "applying"
  BY DEF NoRun
<1>8. ASSUME NEW r \in DreamRuns, TakeLock(r) PROVE Locked'
  <2>1. CASE dreams[dreamRuns[r].job] # "none" /\ LockFree
    <3>1. /\ ~workspaceLock /\ workspaceLock'
          /\ \A s \in DreamRuns : s # r => dreamRuns'[s] = dreamRuns[s]
      BY <1>8, <2>1 DEF TakeLock, LockFree, DreamShape
    <3> QED
      BY <3>1 DEF Locked
  <2>2. CASE ~(dreams[dreamRuns[r].job] # "none" /\ LockFree)
    BY <1>3, <1>7, <1>8, <2>2 DEF TakeLock, Throws
  <2> QED
    BY <2>1, <2>2
\* The one run that applies opens the lock when it is done.
<1>9. ASSUME NEW r \in DreamRuns, NEW next, next.pc # "applying", dreamRuns[r].pc = "applying",
             dreamRuns' = [dreamRuns EXCEPT ![r] = next]
      PROVE  Locked'
  <2>1. \A s \in DreamRuns : dreamRuns'[s].pc # "applying"
    BY <1>9 DEF Locked, DreamShape
  <2> QED
    BY <2>1 DEF Locked
<1>10. ASSUME NEW r \in DreamRuns, Apply(r) PROVE Locked'
  BY <1>9, <1>10 DEF Apply
<1>11. ASSUME NEW r \in DreamRuns, ApplyFails(r) PROVE Locked'
  BY <1>7, <1>9, <1>11 DEF ApplyFails, Throws
<1>12. ASSUME NEW r \in DreamRuns, Settle(r) PROVE Locked'
  <2>1. [dreamRuns[r] EXCEPT !.pc = "writing"].pc = "writing"
    BY <1>12, RunFacts DEF Settle, Settling
  <2> QED
    BY <1>3, <1>7, <1>12, <2>1 DEF Settle, Throws
<1>13. ASSUME NEW r \in DreamRuns, WriteSettled(r) PROVE Locked'
  BY <1>3, <1>7, <1>13 DEF WriteSettled
<1>14. ASSUME NEW r \in DreamRuns, SettleFails(r) PROVE Locked'
  BY <1>3, <1>7, <1>14 DEF SettleFails, Throws
<1>15. CASE DreamReload
  BY <1>7, <1>15 DEF DreamReload, Locked
<1>16. CASE GenerationStarts \/ GenerationEnds \/ CaptureFinished \/ RecordUndone \/ DreamSwitch \/ Bind
  BY <1>2, <1>16 DEF GenerationStarts, GenerationEnds, CaptureFinished, RecordUndone, DreamSwitch, Bind
<1>17. ASSUME NEW d \in Dreams, Enqueue(d) \/ \E n \in DOMAIN sets[d] : UndoDream(d, n) PROVE Locked'
  BY <1>2, <1>17 DEF Enqueue, UndoDream
<1>18. ASSUME NEW o \in DreamOwners, TimerPassed(o) PROVE Locked'
  BY <1>2, <1>18 DEF TimerPassed
<1> QED
  BY <1>1, <1>5, <1>6, <1>8, <1>10, <1>11, <1>12, <1>13, <1>14, <1>15, <1>16, <1>17, <1>18
  DEF DreamNext, DreamRunStep

-----------------------------------------------------------------------------
(* Rows, and what backs them.                                                *)

\* A run that throws leaves, and may leave a timer for its job.
LEMMA ThrowsFacts ==
  ASSUME DreamShape, NEW r \in DreamRuns, dreamRuns[r].pc # "idle", Throws(r)
  PROVE  /\ \A s \in DreamRuns : dreamRuns'[s].pc # "idle" => dreamRuns'[s] = dreamRuns[s]
         /\ \A o \in DreamOwners : timers'[o] = timers[o] \/ timers'[o].job = dreamRuns[r].job
<1>1. \A s \in DreamRuns : dreamRuns'[s].pc # "idle" => dreamRuns'[s] = dreamRuns[s]
  BY DEF Throws, NoRun, DreamShape
<1>2. dreamRuns[r].job \in Dreams
  BY RunFacts
<1> QED
  BY <1>1, <1>2, OwnerOfDreams DEF Throws, Retried, Scheduled, DreamShape, Timers

LEMMA AllScheduledFacts ==
  ASSUME NEW jobs \in SUBSET Dreams, NEW before, NEW after \in AllScheduled(jobs, before), NEW o \in DreamOwners
  PROVE  after[o] = before[o] \/ after[o].job \in jobs
  BY DEF AllScheduled

\* Throwing mentions no new job.
LEMMA ThrowsTouches ==
  ASSUME DreamShape, NEW r \in DreamRuns, dreamRuns[r].pc # "idle", Throws(r), sets' = sets,
         NEW d \in Dreams, dreams[d] = "none" => dreams'[d] = "none", Touched(d)'
  PROVE  Touched(d)
<1>1. CASE dreams'[d] # "none" \/ sets'[d] # << >>
  BY <1>1 DEF Touched
<1>2. CASE \E o \in DreamOwners : timers'[o] # NoTimer /\ timers'[o].job = d
  BY <1>2, ThrowsFacts DEF Touched
<1>3. CASE \E s \in DreamRuns : dreamRuns'[s].pc # "idle" /\ dreamRuns'[s].job = d
  BY <1>3, ThrowsFacts DEF Touched
<1> QED
  BY <1>1, <1>2, <1>3 DEF Touched

\* Starting a known job mentions no new one.
LEMMA StartsTouches ==
  ASSUME DreamShape, NEW e \in Dreams, NEW auto \in BOOLEAN, NEW n \in Attempts, Starts(e, auto, n), Touched(e),
         UNCHANGED <<dreams, sets>>, \A o \in DreamOwners : timers'[o] \in {timers[o], NoTimer},
         NEW d \in Dreams, Touched(d)'
  PROVE  Touched(d)
<1>1. PICK r \in DreamRuns :
         dreamRuns' = [dreamRuns EXCEPT ![r] = [pc |-> "reading", job |-> e, auto |-> auto, attempt |-> n]]
  BY StartsShape
<1>2. \A s \in DreamRuns : dreamRuns'[s].job = e \/ dreamRuns'[s] = dreamRuns[s]
  BY <1>1 DEF DreamShape
<1> QED
  BY <1>2 DEF Touched

\* What a step must keep for the rows to go on telling.
LEMMA RowsKept ==
  ASSUME RowsTell, undo' = undo, here' = here, bound' = bound,
         \A d \in Dreams : Touched(d)' => Touched(d),
         \A d \in Dreams : dreamRows[d].status # "none" => dreamRows'[d].status # "none",
         \A d \in Dreams : dreams'[d] = "none" => dreams[d] = "none" /\ dreamRows'[d].status = dreamRows[d].status
  PROVE  RowsTell'
  BY DEF RowsTell, Undoing

LEMMA RowsStep ==
  ASSUME DreamShape, SetsThere, ~undoCut => RowsTell /\ Backed, [DreamNext]_dreamVars, ~undoCut'
  PROVE  RowsTell' /\ Backed'
<1> USE DEF HasLive, Undoing
<1>1. ~undoCut
  BY DEF DreamNext, DreamRunStep, dreamVars, GenerationStarts, GenerationEnds, CaptureFinished, RecordUndone,
     Enqueue, RunByUser, UndoDream, TimerRuns, TimerPassed, TakeLock, Apply, ApplyFails, Settle, WriteSettled,
     SettleFails, DreamSwitch, Bind, DreamReload
<1>2. RowsTell /\ Backed
  BY <1>1
<1>3. CASE UNCHANGED dreamVars
  BY <1>2, <1>3 DEF dreamVars, RowsTell, Backed, Touched
\* Steps that change timers only.
<1>4. ASSUME UNCHANGED <<dreams, dreamRows, dreamRuns, sets, here, bound, undo>>,
             \A o \in DreamOwners : timers'[o] = timers[o] \/ timers'[o] = NoTimer
                                    \/ (timers'[o].job \in Dreams /\ Touched(timers'[o].job))
      PROVE  RowsTell' /\ Backed'
  <2>1. \A d \in Dreams : Touched(d)' => Touched(d)
    BY <1>4 DEF Touched
  <2>2. /\ dreams' = dreams /\ dreamRows' = dreamRows /\ dreamRuns' = dreamRuns /\ sets' = sets
        /\ here' = here /\ bound' = bound /\ undo' = undo
    BY <1>4
  <2>3. RowsTell'
    BY <1>2, <2>1, <2>2, RowsKept
  <2>4. Backed'
    BY <1>2, <2>2 DEF Backed
  <2> QED
    BY <2>3, <2>4
<1>5. CASE GenerationStarts
  <2>1. \A o \in DreamOwners : timers'[o] = NoTimer
    BY <1>5 DEF GenerationStarts, NoTimers
  <2> QED
    BY <1>4, <1>5, <2>1 DEF GenerationStarts
<1>6. CASE GenerationEnds
  <2> DEFINE jobs == IF here THEN {d \in Dreams : Unfinished(dreams[d])} ELSE {}
  <2>1. jobs \in SUBSET Dreams /\ timers' \in AllScheduled(jobs, timers)
    BY <1>6 DEF GenerationEnds
  <2>2. \A d \in jobs : d \in Dreams /\ Touched(d)
    BY DEF Unfinished, Touched
  <2> HIDE DEF jobs
  <2>3. \A o \in DreamOwners : timers'[o] = timers[o] \/ timers'[o].job \in jobs
    BY <2>1, AllScheduledFacts
  <2>4. \A o \in DreamOwners : timers'[o] = timers[o] \/ timers'[o] = NoTimer
                               \/ (timers'[o].job \in Dreams /\ Touched(timers'[o].job))
    BY <2>2, <2>3
  <2>5. UNCHANGED <<dreams, dreamRows, dreamRuns, sets, here, bound, undo>>
    BY <1>6 DEF GenerationEnds
  <2> QED
    BY <1>4, <2>4, <2>5
<1>7. ASSUME NEW o \in DreamOwners, TimerPassed(o) PROVE RowsTell' /\ Backed'
  <2>1. timers[o].job \in Dreams /\ Touched(timers[o].job)
    BY <1>7 DEF TimerPassed, DreamShape, Timers, Touched
  <2>2. \A p \in DreamOwners : timers'[p] = timers[p] \/ timers'[p] = NoTimer \/ timers'[p].job = timers[o].job
    BY <1>7, OwnerOfDreams DEF TimerPassed, Scheduled, DreamShape, Timers
  <2>3. \A p \in DreamOwners : timers'[p] = timers[p] \/ timers'[p] = NoTimer
                               \/ (timers'[p].job \in Dreams /\ Touched(timers'[p].job))
    BY <2>1, <2>2
  <2>4. UNCHANGED <<dreams, dreamRows, dreamRuns, sets, here, bound, undo>>
    BY <1>7 DEF TimerPassed
  <2> QED
    BY <1>4, <2>3, <2>4
\* A job is queued.
<1>8. ASSUME NEW d \in Dreams, Fresh(d), Queue(d), UNCHANGED <<dreamRuns, sets, here, bound, undo>>,
             \A o \in DreamOwners : timers'[o] = timers[o] \/ timers'[o].job = d
      PROVE  RowsTell' /\ Backed'
  <2>0. \A e \in Dreams \ {d} : dreams'[e] = dreams[e] /\ dreamRows'[e] = dreamRows[e]
    BY <1>8 DEF Queue, DreamShape
  <2>1. \A e \in Dreams \ {d} : /\ dreams'[e] = dreams[e] /\ dreamRows'[e] = dreamRows[e]
                                /\ Touched(e)' => Touched(e)
    BY <1>8, <2>0 DEF Touched
  <2>2. dreams'[d] = "queued" /\ dreamRows'[d].status = "queued"
    BY <1>8 DEF Queue, DreamShape
  <2>3. RowsTell'
    BY <1>2, <1>8, <2>1, <2>2 DEF RowsTell
  <2>4. Backed'
    BY <1>2, <1>8, <2>1, <2>2 DEF Backed
  <2> QED
    BY <2>3, <2>4
<1>9. CASE CaptureFinished
  <2>1. PICK o \in DreamOwners :
          \/ \E d \in OpenRows(o) : timers' = Scheduled(d, 0) /\ UNCHANGED <<dreams, dreamRows>>
          \/ /\ OpenRows(o) = {}
             /\ \E d \in Dreams : DreamOwner[d] = o /\ Fresh(d) /\ Queue(d) /\ timers' = Scheduled(d, 0)
    BY <1>9 DEF CaptureFinished
  <2>2. \A d \in Dreams : timers' = Scheduled(d, 0) => \A p \in DreamOwners : timers'[p] = timers[p] \/ timers'[p].job = d
    BY DEF Scheduled, DreamShape, Timers
  <2>3. CASE \E d \in OpenRows(o) : timers' = Scheduled(d, 0) /\ UNCHANGED <<dreams, dreamRows>>
    <3>1. PICK d \in OpenRows(o) : timers' = Scheduled(d, 0) /\ UNCHANGED <<dreams, dreamRows>>
      BY <2>3
    <3>2. d \in Dreams /\ Touched(d)
      BY <1>2, <1>9 DEF OpenRows, Unfinished, CaptureFinished, RowsTell, Touched
    <3>3. \A p \in DreamOwners : timers'[p] = timers[p] \/ timers'[p] = NoTimer
                                 \/ (timers'[p].job \in Dreams /\ Touched(timers'[p].job))
      BY <2>2, <3>1, <3>2
    <3>4. UNCHANGED <<dreams, dreamRows, dreamRuns, sets, here, bound, undo>>
      BY <1>9, <3>1 DEF CaptureFinished
    <3> QED
      BY <1>4, <3>3, <3>4
  <2>4. CASE \E d \in Dreams : Fresh(d) /\ Queue(d) /\ timers' = Scheduled(d, 0)
    BY <1>8, <1>9, <2>2, <2>4 DEF CaptureFinished
  <2> QED
    BY <2>1, <2>3, <2>4
<1>10. ASSUME NEW d \in Dreams, Enqueue(d) PROVE RowsTell' /\ Backed'
  BY <1>8, <1>10 DEF Enqueue
\* A run of a known job starts.
<1>11. ASSUME NEW e \in Dreams, NEW auto \in BOOLEAN, NEW n \in Attempts, Starts(e, auto, n), Touched(e),
              UNCHANGED <<dreams, dreamRows, sets, here, bound, undo>>,
              \A o \in DreamOwners : timers'[o] \in {timers[o], NoTimer}
       PROVE  RowsTell' /\ Backed'
  <2>1. \A d \in Dreams : Touched(d)' => Touched(d)
    BY <1>11, StartsTouches
  <2>2. RowsTell'
    BY <1>2, <1>11, <2>1, RowsKept
  <2>3. PICK r \in DreamRuns :
          dreamRuns' = [dreamRuns EXCEPT ![r] = [pc |-> "reading", job |-> e, auto |-> auto, attempt |-> n]]
    BY <1>11, StartsShape
  <2>4. \A s \in DreamRuns : dreamRuns'[s].pc = "writing" => dreamRuns'[s] = dreamRuns[s]
    BY <2>3 DEF DreamShape
  <2>5. Backed'
    BY <1>2, <1>11, <2>4 DEF Backed
  <2> QED
    BY <2>2, <2>5
<1>12. ASSUME NEW d \in Dreams, RunByUser(d) PROVE RowsTell' /\ Backed'
  BY <1>11, <1>12, ZeroIsAttempt DEF RunByUser, Touched
<1>13. ASSUME NEW o \in DreamOwners, TimerRuns(o) PROVE RowsTell' /\ Backed'
  <2>1. timers[o].job \in Dreams /\ timers[o].attempt \in Attempts /\ Touched(timers[o].job)
    BY <1>13 DEF TimerRuns, DreamShape, Timers, Touched
  <2>2. \A p \in DreamOwners : timers'[p] \in {timers[p], NoTimer}
    BY <1>13 DEF TimerRuns, DreamShape, Timers
  <2> QED
    BY <1>11, <1>13, <2>1, <2>2 DEF TimerRuns
\* A run throws, and the job's row says how the coordinator has it.
<1>14. ASSUME NEW r \in DreamRuns, dreamRuns[r].pc # "idle", Throws(r), UNCHANGED <<sets, here, bound, undo>>,
              NEW status \in DreamStatus, dreamRows' = Recorded(dreamRuns[r].job, status),
              dreams' = [dreams EXCEPT ![dreamRuns[r].job] = status],
              status = "none" => dreams[dreamRuns[r].job] = "none",
              status = "applied" => HasLive(dreamRuns[r].job),
              dreams[dreamRuns[r].job] = "none" => status = "none" \/ dreamRuns[r].pc = "applying"
       PROVE  RowsTell' /\ Backed'
  <2> DEFINE d == dreamRuns[r].job
  <2>1. d \in Dreams /\ Touched(d)
    BY <1>14, RunFacts DEF Touched
  <2>2. \A e \in Dreams : e # d => dreams'[e] = dreams[e] /\ dreamRows'[e] = dreamRows[e]
    BY <1>14, <2>1 DEF Recorded, DreamShape
  <2>3. dreams'[d] = status /\ (status # "none" => dreamRows'[d].status = status)
        /\ (status = "none" => dreamRows'[d] = dreamRows[d])
    BY <1>14, <2>1 DEF Recorded, DreamShape
  <2>4. \A s \in DreamRuns : dreamRuns'[s].pc # "idle" => dreamRuns'[s] = dreamRuns[s]
    BY <1>14, ThrowsFacts
  <2>5. \A o \in DreamOwners : timers'[o] = timers[o] \/ timers'[o].job = d
    BY <1>14, ThrowsFacts
  <2>6. \A e \in Dreams : Touched(e)' => Touched(e)
    BY <1>14, <2>1, <2>2, <2>4, <2>5 DEF Touched
  <2> HIDE DEF d
  <2>7. RowsTell'
    BY <1>2, <1>14, <2>2, <2>3, <2>6, RowsKept DEF d
  <2>8. Backed'
    <3>1. \A e \in Dreams : HasLive(e)' <=> HasLive(e)
      BY <1>14
    <3>2. \A e \in Dreams : \A s \in DreamRuns :
             dreamRuns'[s].pc = "writing" /\ dreamRuns'[s].job = e => HasLive(e) \/ Undoing(e)
      BY <1>2, <2>4 DEF Backed
    <3>3. \A e \in Dreams : dreams'[e] = "applied" => HasLive(e)
      BY <1>2, <1>14, <2>1, <2>2, <2>3 DEF Backed, d
    <3>4. \A e \in Dreams : dreamRows'[e].status = "applied" => HasLive(e) \/ Undoing(e)
      BY <1>2, <1>14, <2>1, <2>2, <2>3 DEF Backed, d
    <3> QED
      BY <1>14, <3>1, <3>2, <3>3, <3>4 DEF Backed
  <2> QED
    BY <2>7, <2>8
<1>15. ASSUME NEW r \in DreamRuns, TakeLock(r) PROVE RowsTell' /\ Backed'
  <2> DEFINE d == dreamRuns[r].job
  <2>1. d \in Dreams /\ Touched(d) /\ dreamRuns[r].pc = "reading"
    BY <1>15, RunFacts DEF TakeLock, Touched
  <2>2. CASE dreams[d] # "none" /\ LockFree
    <3>1. dreams' = [dreams EXCEPT ![d] = "running"] /\ timers' = timers /\ dreamRows' = dreamRows
      BY <1>15, <2>2 DEF TakeLock
    <3>2. \A s \in DreamRuns : /\ dreamRuns'[s].pc # "idle" => dreamRuns[s].pc # "idle"
                               /\ dreamRuns'[s].pc # "idle" => dreamRuns'[s].job = dreamRuns[s].job
                               /\ dreamRuns'[s].pc = "writing" => dreamRuns[s].pc = "writing"
      <4>1. dreamRuns' = [dreamRuns EXCEPT ![r] = [dreamRuns[r] EXCEPT !.pc = "applying"]]
        BY <1>15, <2>2 DEF TakeLock
      <4>2. [dreamRuns[r] EXCEPT !.pc = "applying"].pc = "applying"
            /\ [dreamRuns[r] EXCEPT !.pc = "applying"].job = dreamRuns[r].job
        BY <2>1, RunFacts DEF Reading
      <4> QED
        BY <2>1, <4>1, <4>2 DEF DreamShape
    <3>3. \A e \in Dreams : /\ dreams'[e] = "none" => dreams[e] = "none"
                            /\ dreams[e] = "none" => dreams'[e] = "none"
                            /\ dreams'[e] = "applied" => dreams[e] = "applied"
      BY <2>2, <3>1 DEF DreamShape
    <3>4. \A e \in Dreams : Touched(e)' => Touched(e)
      BY <1>15, <3>1, <3>2, <3>3 DEF Touched, TakeLock
    <3>5. RowsTell'
      BY <1>2, <1>15, <3>1, <3>3, <3>4, RowsKept DEF TakeLock
    <3>6. Backed'
      BY <1>2, <1>15, <3>1, <3>2, <3>3 DEF Backed, TakeLock
    <3> QED
      BY <3>5, <3>6
  <2>3. CASE ~(dreams[d] # "none" /\ LockFree)
    <3>1. Throws(r) /\ dreamRows' = Recorded(d, dreams[d]) /\ dreams' = dreams
      BY <1>15, <2>3 DEF TakeLock
    <3>2. dreams' = [dreams EXCEPT ![d] = dreams[d]] /\ dreams[d] \in DreamStatus
      BY <2>1, <3>1 DEF DreamShape
    <3>3. dreams[d] = "applied" => HasLive(d)
      BY <1>2, <2>1 DEF Backed
    <3> QED
      BY <1>14, <1>15, <2>1, <3>1, <3>2, <3>3 DEF TakeLock
  <2> QED
    BY <2>2, <2>3
<1>16. ASSUME NEW r \in DreamRuns, Apply(r) PROVE RowsTell' /\ Backed'
  <2>0. PICK d \in Dreams : d = dreamRuns[r].job
    BY <1>16, RunFacts DEF Apply
  <2>1. Touched(d) /\ dreamRuns[r] \in Reading
    BY <1>16, <2>0, RunFacts DEF Apply, Touched
  <2>2. /\ dreams' = [dreams EXCEPT ![d] = "applied"] /\ sets' = [sets EXCEPT ![d] = WithNewSet(d)]
        /\ dreamRows' = dreamRows /\ timers' = timers /\ undo' = undo /\ here' = here /\ bound' = bound
    BY <1>16, <2>0 DEF Apply
  <2>3. \A s \in DreamRuns : /\ dreamRuns'[s].pc # "idle" => dreamRuns[s].pc # "idle"
                             /\ dreamRuns'[s].pc # "idle" => dreamRuns'[s].job = dreamRuns[s].job
                             /\ dreamRuns'[s].pc = "writing" => dreamRuns[s].pc = "writing"
    BY <1>16 DEF Apply, DreamShape
  <2>4. \A e \in Dreams : e # d => dreams'[e] = dreams[e] /\ sets'[e] = sets[e]
    BY <2>1, <2>2 DEF DreamShape
  <2>5. \A e \in Dreams : dreams'[e] = "none" => dreams[e] = "none"
    BY <2>1, <2>2 DEF DreamShape
  <2>6. \A e \in Dreams : Touched(e)' => Touched(e)
    BY <2>1, <2>2, <2>3, <2>4 DEF Touched
  <2>7. RowsTell'
    BY <1>2, <2>2, <2>5, <2>6, RowsKept
  <2>8. dreams'[d] = "applied" /\ HasLive(d)'
    BY <2>1, <2>2, NewSetFacts DEF DreamShape
  <2>9. \A e \in Dreams : HasLive(e) => HasLive(e)'
    BY <2>4, <2>8
  <2>10. Backed'
    BY <1>2, <2>2, <2>3, <2>4, <2>8, <2>9 DEF Backed
  <2> QED
    BY <2>7, <2>10
<1>17. ASSUME NEW r \in DreamRuns, ApplyFails(r) PROVE RowsTell' /\ Backed'
  <2>1. "failed" \in DreamStatus
    BY DEF DreamStatus
  <2> QED
    BY <1>14, <1>17, <2>1 DEF ApplyFails
\* A run that throws without a row.
<1>18. ASSUME NEW r \in DreamRuns, dreamRuns[r].pc # "idle", Throws(r),
              UNCHANGED <<dreams, dreamRows, sets, here, bound, undo>>
       PROVE  RowsTell' /\ Backed'
  <2>1. \A d \in Dreams : Touched(d)' => Touched(d)
    BY <1>18, ThrowsTouches
  <2>2. RowsTell'
    BY <1>2, <1>18, <2>1, RowsKept
  <2>3. \A s \in DreamRuns : dreamRuns'[s].pc # "idle" => dreamRuns'[s] = dreamRuns[s]
    BY <1>18, ThrowsFacts
  <2>4. Backed'
    BY <1>2, <1>18, <2>3 DEF Backed
  <2> QED
    BY <2>2, <2>4
<1>19. ASSUME NEW r \in DreamRuns, Settle(r) PROVE RowsTell' /\ Backed'
  <2> DEFINE d == dreamRuns[r].job
  <2>1. dreamRuns[r] \in Settling /\ dreamRuns[r].pc = "settling" /\ d \in Dreams
    BY <1>19, RunFacts DEF Settle
  <2>2. UNCHANGED <<dreams, dreamRows, sets, here, bound, undo>>
    BY <1>19 DEF Settle
  <2>3. CASE sets[d][dreamRuns[r].set] = "live"
    <3>1. dreamRuns[r].set \in DOMAIN sets[d]
      BY <2>1 DEF SetsThere, DreamShape, Settling
    <3>2. HasLive(d)
      BY <2>3, <3>1
    <3>3. \A s \in DreamRuns : /\ dreamRuns'[s].pc # "idle" => dreamRuns[s].pc # "idle"
                               /\ dreamRuns'[s].pc # "idle" => dreamRuns'[s].job = dreamRuns[s].job
                               /\ dreamRuns'[s].pc = "writing" => dreamRuns[s].pc = "writing" \/ s = r
      BY <1>19, <2>1, <2>3, RunFacts DEF Settle, DreamShape, Settling
    <3>4. timers' = timers
      BY <1>19, <2>3 DEF Settle
    <3>5. \A e \in Dreams : Touched(e)' => Touched(e)
      BY <2>2, <3>3, <3>4 DEF Touched
    <3>6. RowsTell'
      BY <1>2, <2>2, <3>5, RowsKept
    <3>7. Backed'
      BY <1>2, <2>2, <3>2, <3>3 DEF Backed
    <3> QED
      BY <3>6, <3>7
  <2>4. CASE sets[d][dreamRuns[r].set] # "live"
    BY <1>18, <1>19, <2>1, <2>2, <2>4 DEF Settle
  <2> QED
    BY <2>3, <2>4
<1>20. ASSUME NEW r \in DreamRuns, WriteSettled(r) PROVE RowsTell' /\ Backed'
  <2> DEFINE d == dreamRuns[r].job
  <2>1. d \in Dreams /\ Touched(d) /\ dreamRuns[r].pc = "writing" /\ dreamRuns[r].set \in 1..MaxSets
    BY <1>20, RunFacts DEF WriteSettled, Touched, Settling
  <2>2. /\ UNCHANGED <<dreams, timers, sets, here, bound, undo>>
        /\ dreamRows' = [dreamRows EXCEPT ![d] = [status |-> "applied", set |-> dreamRuns[r].set]]
    BY <1>20 DEF WriteSettled
  <2>3. \A s \in DreamRuns : dreamRuns'[s].pc # "idle" => dreamRuns'[s] = dreamRuns[s]
    BY <1>20 DEF WriteSettled, NoRun, DreamShape
  <2>4. \A e \in Dreams : Touched(e)' => Touched(e)
    BY <2>2, <2>3 DEF Touched
  <2>5. HasLive(d) \/ Undoing(d)
    BY <1>2, <2>1 DEF Backed
  \* While the row is missing, an undo is under way, and the coordinator has the job.
  <2>6. here /\ bound => dreams[d] # "none"
    BY <1>2, <2>1 DEF RowsTell
  <2>7. dreamRows'[d].status = "applied" /\ \A e \in Dreams : e # d => dreamRows'[e] = dreamRows[e]
    BY <2>1, <2>2 DEF DreamShape
  <2> HIDE DEF d
  <2>8. RowsTell'
    BY <1>2, <2>2, <2>4, <2>6, <2>7 DEF RowsTell
  <2>9. Backed'
    BY <1>2, <2>2, <2>3, <2>5, <2>7 DEF Backed
  <2> QED
    BY <2>8, <2>9
<1>21. ASSUME NEW r \in DreamRuns, SettleFails(r) PROVE RowsTell' /\ Backed'
  BY <1>18, <1>21 DEF SettleFails
\* The user takes a change set back: the row says so in the next step.
<1>22. ASSUME NEW d \in Dreams, NEW n \in DOMAIN sets[d], UndoDream(d, n) PROVE RowsTell' /\ Backed'
  <2>1. here /\ bound /\ \A e \in Dreams : ~Undoing(e)
    BY <1>22 DEF UndoDream
  <2>2. Touched(d)
    BY <1>22 DEF UndoDream, Touched, DreamShape
  <2>3. dreams[d] # "none"
    BY <1>2, <2>1, <2>2 DEF RowsTell
  <2>4. /\ dreams' = [dreams EXCEPT ![d] = "rolled-back"] /\ UNCHANGED <<timers, dreamRuns, here, bound>>
        /\ sets' = [sets EXCEPT ![d] = [sets[d] EXCEPT ![n] = "undone"]] /\ Undoing(d)'
    BY <1>22, <2>3 DEF UndoDream
  <2>5. \A e \in Dreams : e # d => /\ dreams'[e] = dreams[e] /\ sets'[e] = sets[e] /\ dreamRows'[e] = dreamRows[e]
    BY <1>22, <2>4 DEF UndoDream, DreamShape
  <2>6. dreams'[d] = "rolled-back"
    BY <2>4 DEF DreamShape
  <2>7. \A e \in Dreams : Undoing(e)' => e = d
    BY <1>22 DEF UndoDream
  <2>8. \A e \in Dreams : e # d /\ Touched(e)' => Touched(e)
    BY <2>4, <2>5 DEF Touched
  <2>9. RowsTell'
    BY <1>2, <2>1, <2>4, <2>5, <2>6, <2>7, <2>8 DEF RowsTell
  <2>10. Backed'
    BY <1>2, <2>1, <2>4, <2>5, <2>6 DEF Backed
  <2> QED
    BY <2>9, <2>10
<1>23. CASE RecordUndone
  <2> DEFINE d == undo.job
  <2>1. Undoing(d) /\ d \in Dreams /\ \A r \in DreamRuns : dreamRuns[r].pc # "writing"
    BY <1>23 DEF RecordUndone, RowsAreFree, DreamShape, NoRun
  <2>2. dreams[d] # "none"
    BY <1>2, <2>1 DEF RowsTell
  <2>3. /\ UNCHANGED <<dreams, timers, dreamRuns, sets, here, bound>>
        /\ dreamRows' = [dreamRows EXCEPT ![d] = [status |-> "rolled-back", set |-> 0]]
    BY <1>23, <2>2 DEF RecordUndone, Recorded
  <2>4. dreamRows'[d].status = "rolled-back" /\ \A e \in Dreams : e # d => dreamRows'[e] = dreamRows[e]
    BY <2>1, <2>3 DEF DreamShape
  <2>5. \A e \in Dreams : Undoing(e) => e = d
    OBVIOUS
  <2>6. \A e \in Dreams : Touched(e)' <=> Touched(e)
    BY <2>3 DEF Touched
  <2>7. \A e \in Dreams : ~Undoing(e)'
    BY <1>23 DEF RecordUndone, NoRun
  <2> HIDE DEF d
  <2>8. RowsTell'
    BY <1>2, <2>2, <2>3, <2>4, <2>5, <2>6, <2>7 DEF RowsTell
  <2>9. Backed'
    BY <1>2, <2>1, <2>3, <2>4, <2>5, <2>7 DEF Backed
  <2> QED
    BY <2>8, <2>9
<1>24. CASE DreamSwitch
  <2>1. ~bound' /\ UNCHANGED <<dreams, dreamRows, timers, dreamRuns, sets, undo>>
    BY <1>24 DEF DreamSwitch
  <2>2. \A e \in Dreams : Touched(e)' <=> Touched(e)
    BY <2>1 DEF Touched
  <2>3. RowsTell'
    BY <1>2, <2>1, <2>2 DEF RowsTell
  <2>4. Backed'
    BY <1>2, <2>1 DEF Backed
  <2> QED
    BY <2>3, <2>4
\* The coordinator of a bound chat knows what its rows say.
<1>25. CASE Bind
  <2>1. UNCHANGED <<dreamRows, dreamRuns, sets, here, undo>> /\ \A e \in Dreams : ~Undoing(e)
    BY <1>25 DEF Bind, rollbackActive
  <2>2. \A e \in Dreams : dreams'[e] = IF here THEN dreamRows[e].status ELSE "none"
    BY <1>25 DEF Bind
  <2> DEFINE jobs == {d \in Dreams : here /\ Unfinished(dreamRows[d].status)}
  <2>3. jobs \in SUBSET Dreams /\ timers' \in AllScheduled(jobs, NoTimers)
    BY <1>25 DEF Bind
  <2>4. \A d \in jobs : dreamRows[d].status # "none"
    BY DEF Unfinished
  <2> HIDE DEF jobs
  <2>5. \A o \in DreamOwners : timers'[o] = NoTimers[o] \/ timers'[o].job \in jobs
    BY <2>3, AllScheduledFacts
  <2>6. \A o \in DreamOwners : timers'[o] # NoTimer => dreamRows[timers'[o].job].status # "none"
    BY <2>4, <2>5 DEF NoTimers
  <2>7. ASSUME NEW e \in Dreams, Touched(e)' PROVE dreamRows[e].status # "none"
    <3>1. CASE dreams'[e] # "none" \/ \E o \in DreamOwners : timers'[o] # NoTimer /\ timers'[o].job = e
      BY <2>2, <2>6, <3>1
    <3>2. CASE sets'[e] # << >> \/ \E r \in DreamRuns : dreamRuns'[r].pc # "idle" /\ dreamRuns'[r].job = e
      <4>1. Touched(e)
        BY <2>1, <3>2 DEF Touched
      <4> QED
        BY <1>2, <2>1, <4>1 DEF RowsTell
    <3> QED
      BY <2>7, <3>1, <3>2 DEF Touched
  <2>8. RowsTell'
    BY <2>1, <2>2, <2>7 DEF RowsTell
  <2>9. Backed'
    BY <1>2, <2>1, <2>2 DEF Backed
  <2> QED
    BY <2>8, <2>9
<1>26. CASE DreamReload
  <2>1. UNCHANGED <<dreamRows, sets>> /\ ~bound' /\ \A e \in Dreams : ~Undoing(e) /\ ~Undoing(e)' /\ dreams'[e] = "none"
    BY <1>26 DEF DreamReload, rollbackActive, NoRun
  <2>2. /\ \A r \in DreamRuns : dreamRuns'[r].pc = "idle"
        /\ \A o \in DreamOwners : timers'[o] = NoTimer
    BY <1>26 DEF DreamReload, NoRun, NoTimers
  <2>3. \A e \in Dreams : Touched(e)' => Touched(e)
    BY <2>1, <2>2 DEF Touched
  <2>4. RowsTell'
    BY <1>2, <2>1, <2>3 DEF RowsTell
  <2>5. Backed'
    BY <1>2, <2>1, <2>2 DEF Backed
  <2> QED
    BY <2>4, <2>5
<1> QED
  BY <1>3, <1>5, <1>6, <1>7, <1>9, <1>10, <1>12, <1>13, <1>15, <1>16, <1>17, <1>19, <1>20, <1>21, <1>22, <1>23,
     <1>24, <1>25, <1>26 DEF DreamNext, DreamRunStep

-----------------------------------------------------------------------------
(* The theorem.                                                              *)

LEMMA DreamInvInit == DreamInit => DreamInv
<1> SUFFICES ASSUME DreamInit PROVE DreamInv
  OBVIOUS
<1>1. Locked
  BY DEF DreamInit, NoRun, Locked
<1>2. \A d \in Dreams : ~Touched(d) /\ ~Undoing(d)
  BY DEF DreamInit, NoRun, NoTimers, Touched, Undoing
<1>3. RowsTell /\ Backed
  BY <1>2 DEF DreamInit, NoRow, NoRun, RowsTell, Backed
<1> QED
  BY <1>1, <1>3, ShapeInit DEF DreamInv

LEMMA DreamInvSound == DreamInv => DreamsSound
<1> SUFFICES ASSUME DreamInv PROVE DreamsSound
  OBVIOUS
<1>1. DreamTypeOK
  <2>1. \A r \in DreamRuns : dreamRuns[r].pc \in {"idle", "reading", "applying", "settling", "writing"}
    BY DEF DreamInv, DreamShape, Runs, Reading, Settling, NoRun
  <2>2. undo.pc \in {"idle", "recording"}
    BY DEF DreamInv, DreamShape, NoRun
  <2> QED
    BY <2>1, <2>2 DEF DreamInv, DreamShape, DreamTypeOK, Timers, Attempts
<1>2. OneDreamApplies
  <2> DEFINE applying == {r \in DreamRuns : dreamRuns[r].pc = "applying"}
  <2>1. CASE applying = {}
    BY <2>1, FS_EmptySet DEF OneDreamApplies
  <2>2. CASE applying # {}
    <3>1. PICK r \in DreamRuns : applying = {r}
      BY <2>2 DEF DreamInv, Locked
    <3>2. Cardinality(applying) = 1
      BY <3>1, FS_Singleton
    <3> QED
      BY <3>2 DEF OneDreamApplies
  <2> QED
    BY <2>1, <2>2
<1>3. AppliedIsBacked
  BY DEF DreamInv, Backed, HasLive, Undoing, AppliedIsBacked
<1> QED
  BY <1>1, <1>2, <1>3 DEF DreamsSound

(* For any jobs, owners and runs, however often bindings reset the           *)
(* coordinator: one dream applies at a time, and what is shown as applied    *)
(* rests on a change set that stands (runActorDream, rollbackActorDream).    *)
THEOREM DreamsAreSound == DreamSpec => []DreamsSound
<1>1. DreamInv /\ [DreamNext]_dreamVars => DreamInv'
  BY ShapeStep, LockStep, RowsStep DEF DreamInv
<1> QED
  BY <1>1, DreamInvInit, DreamInvSound, PTL DEF DreamSpec

-----------------------------------------------------------------------------
(* The inductive invariant: the service's bookkeeping.                       *)
AChat == VectorChats \cup {NoChat}
Tasks(pcs) == [pc : pcs, chat : AChat, life : Nat, seen : 0..MaxTexts]
Working == {"route", "scan", "embed", "write"}
SyncTasks == Tasks({"idle", "cover"} \cup Working)
RebuildTasks == Tasks({"idle", "wait", "clear", "cover"} \cup Working)
RepairTasks == Tasks({"idle", "waitRebuild", "wait"} \cup Working)
Services == [sync : SyncTasks, rebuild : RebuildTasks, repair : RepairTasks,
             current : {"none", "sync", "repair"}, pending : AChat, active : BOOLEAN, life : Nat]

(* The promise of syncs and repairs names the one in flight; a rebuild that  *)
(* is under way has seen the sync before it end.                             *)
Booked(x) ==
    /\ x \in Services
    /\ x.current = "sync" <=> x.sync.pc # "idle"
    /\ x.current = "repair" <=> x.repair.pc \in Working
    /\ x.rebuild.pc \notin {"idle", "wait"} => x.sync.pc = "idle"

(* What is embedded is the text of its chat, or was edited under way. *)
SeenOf(task) == Embeds(task) => task.chat \in VectorChats /\ (task.seen = text[task.chat] \/ task.chat \in raced)

VectorShape ==
    /\ text \in [VectorChats -> 0..MaxTexts] /\ vectors \in [VectorChats -> 0..MaxTexts]
    /\ shown \in VectorChats /\ barrier \in BOOLEAN /\ owed \in AChat /\ buffered \in Seq(VectorChats)
    /\ raced \in SUBSET VectorChats /\ leaving \in [VectorChats -> Nat]

VectorInv ==
    /\ VectorShape /\ Booked(index) /\ VectorsMatch
    /\ SeenOf(index.sync) /\ SeenOf(index.rebuild) /\ SeenOf(index.repair)

(* Bookkeeping starts no embedding. *)
Calm(x, y) ==
    /\ Embeds(y.sync) => y.sync = x.sync
    /\ Embeds(y.rebuild) => y.rebuild = x.rebuild
    /\ Embeds(y.repair) => y.repair = x.repair

-----------------------------------------------------------------------------
(* The bookkeeping of the service.                                           *)

LEMMA NoTaskFits == NoTask \in SyncTasks /\ NoTask \in RebuildTasks /\ NoTask \in RepairTasks
  BY VectorBounds DEF NoTask, SyncTasks, RebuildTasks, RepairTasks, Tasks, AChat

LEMMA BegunFits ==
  ASSUME NEW x \in Services, NEW c \in AChat
  PROVE  /\ Begun(x, "route", c) \in SyncTasks
         /\ \A pc \in {"wait", "route"} : Begun(x, pc, c) \in RebuildTasks
         /\ \A pc \in {"waitRebuild", "wait", "route"} : Begun(x, pc, c) \in RepairTasks
  BY VectorBounds DEF Begun, Services, SyncTasks, RebuildTasks, RepairTasks, Tasks, Working

LEMMA CalmTrans ==
  ASSUME NEW x, NEW y, NEW z, Calm(x, y), Calm(y, z)
  PROVE  Calm(x, z)
  BY DEF Calm

LEMMA ScheduleBooks ==
  ASSUME NEW x, Booked(x), NEW c \in VectorChats
  PROVE  Booked(scheduleSync(x, c)) /\ Calm(x, scheduleSync(x, c))
<1> DEFINE waits == [x EXCEPT !.pending = c]
           syncs == [x EXCEPT !.sync = Begun(x, "route", c), !.current = "sync"]
<1>1. x \in Services /\ c \in AChat
  BY DEF Booked, AChat
<1>2. Booked(waits) /\ Calm(x, waits)
  BY <1>1 DEF Booked, Services, Calm
<1>3. ASSUME ~Rebuilding(x), x.current = "none" PROVE Booked(syncs) /\ Calm(x, syncs)
  BY <1>1, <1>3, BegunFits DEF Booked, Services, Calm, Begun, Rebuilding, Embeds
<1> QED
  BY <1>2, <1>3 DEF scheduleSync, Calm

LEMMA PromotedBooks ==
  ASSUME NEW x, Booked(x)
  PROVE  Booked(Promoted(x)) /\ Calm(x, Promoted(x))
<1> DEFINE rest == [x EXCEPT !.pending = NoChat]
<1>1. Booked(rest) /\ Calm(x, rest)
  BY DEF Booked, Services, Calm, AChat
<1>2. x.pending # NoChat => x.pending \in VectorChats
  BY DEF Booked, Services, AChat
<1> QED
  BY <1>1, <1>2, ScheduleBooks, CalmTrans DEF Promoted

LEMMA WokenBooks ==
  ASSUME NEW x, Booked(x)
  PROVE  Booked(Woken(x)) /\ Calm(x, Woken(x))
<1> DEFINE y == IF x.rebuild.pc = "wait" THEN [x EXCEPT !.rebuild.pc = "clear"] ELSE x
           z == [y EXCEPT !.repair = Begun(y, "route", y.repair.chat), !.current = "repair"]
<1>1. x.current # "none" => Woken(x) = x
  BY DEF Woken
<1>2. ASSUME x.current = "none" PROVE Booked(y) /\ Calm(x, y) /\ y.current = "none"
  BY <1>2 DEF Booked, Services, RebuildTasks, Tasks, Calm, Embeds
<1>3. ASSUME x.current = "none", y.repair.pc = "wait" PROVE Booked(z) /\ Calm(y, z)
  <2>1. y \in Services /\ y.repair.chat \in AChat
    BY <1>2, <1>3 DEF Booked, Services, RepairTasks, Tasks
  <2> HIDE DEF y
  <2>2. Begun(y, "route", y.repair.chat) \in RepairTasks
    BY <2>1, BegunFits
  <2> QED
    BY <1>2, <1>3, <2>1, <2>2 DEF Booked, Services, Calm, Begun, Embeds, Working
<1>4. x.current = "none" => Woken(x) = IF y.repair.pc = "wait" THEN z ELSE y
  BY DEF Woken
<1>5. Calm(x, x)
  BY DEF Calm
<1> HIDE DEF y, z
<1> QED
  BY <1>1, <1>2, <1>3, <1>4, <1>5, CalmTrans

LEMMA FinishSyncBooks ==
  ASSUME NEW x, Booked(x), NEW t \in {"sync", "repair"}, x.current = t
  PROVE  Booked(finishSync(x, t)) /\ Calm(x, finishSync(x, t))
<1> DEFINE y == [x EXCEPT ![t] = NoTask, !.current = "none"]
<1>1. Booked(y) /\ Calm(x, y)
  BY NoTaskFits DEF Booked, Services, Calm, NoTask, Embeds, Working
<1> HIDE DEF y
<1>2. finishSync(x, t) = Woken(IF Rebuilding(y) THEN y ELSE Promoted(y))
  BY DEF finishSync, y
<1> QED
  BY <1>1, <1>2, PromotedBooks, WokenBooks, CalmTrans

LEMMA FinishRebuildBooks ==
  ASSUME NEW x, Booked(x)
  PROVE  Booked(finishRebuild(x)) /\ Calm(x, finishRebuild(x))
<1> DEFINE ended == [x EXCEPT !.rebuild = NoTask]
           y == Promoted(ended)
           waits == [y EXCEPT !.repair.pc = "wait"]
<1>1. Booked(ended) /\ Calm(x, ended)
  BY NoTaskFits DEF Booked, Services, Calm, NoTask, Embeds
<1>2. Booked(y) /\ Calm(x, y)
  BY <1>1, PromotedBooks, CalmTrans
<1> HIDE DEF y
<1>3. ASSUME y.repair.pc = "waitRebuild" PROVE Booked(waits) /\ Calm(y, waits)
  BY <1>2, <1>3 DEF Booked, Services, RepairTasks, Tasks, Calm, Embeds, Working
<1>4. finishRebuild(x) = IF y.repair.pc = "waitRebuild" THEN Woken(waits) ELSE y
  BY DEF finishRebuild, y
<1> QED
  BY <1>2, <1>3, <1>4, WokenBooks, CalmTrans

LEMMA CoveredBooks ==
  ASSUME NEW x, Booked(x)
  PROVE  Booked(Covered(x)) /\ Calm(x, Covered(x))
  BY DEF Covered, Booked, Services, AChat, Calm

LEMMA HandedOverBooks ==
  ASSUME NEW x, Booked(x), NEW chats \in Seq(VectorChats)
  PROVE  Booked(HandedOver(x, chats)) /\ Calm(x, HandedOver(x, chats))
<1>1. CASE chats = << >>
  BY <1>1 DEF HandedOver, Calm
<1>2. CASE chats # << >>
  <2>1. Head(chats) \in VectorChats /\ chats[Len(chats)] \in VectorChats
    BY <1>2
  <2> QED
    BY <1>2, <2>1, ScheduleBooks, CalmTrans DEF HandedOver
<1> QED
  BY <1>1, <1>2

-----------------------------------------------------------------------------
(* The steps.                                                                *)

LEMMA SeenKept ==
  ASSUME SeenOf(index.sync), SeenOf(index.rebuild), SeenOf(index.repair), Calm(index, index'),
         text' = text, raced' = raced
  PROVE  SeenOf(index.sync)' /\ SeenOf(index.rebuild)' /\ SeenOf(index.repair)'
  BY DEF SeenOf, Calm

LEMMA RequestFacts ==
  ASSUME VectorShape, NEW x, Booked(x), Calm(index, x), NEW c \in VectorChats, Request(x, c)
  PROVE  Booked(index') /\ Calm(index, index') /\ buffered' \in Seq(VectorChats) /\ owed' \in AChat
<1>1. CASE barrier
  <2>1. index' = x /\ owed' = owed /\ (buffered' = buffered \/ buffered' = Append(buffered, c))
    BY <1>1 DEF Request
  <2>2. buffered \in Seq(VectorChats) /\ Append(buffered, c) \in Seq(VectorChats)
    BY DEF VectorShape
  <2> QED
    BY <2>1, <2>2 DEF VectorShape
<1>2. CASE ~barrier
  <2>1. index' = scheduleSync(x, c) /\ owed' = OwedAfter(x, c) /\ buffered' = buffered
    BY <1>2 DEF Request
  <2>2. owed' \in AChat
    BY <2>1 DEF OwedAfter, VectorShape, AChat
  <2> QED
    BY <2>1, <2>2, ScheduleBooks, CalmTrans DEF VectorShape
<1> QED
  BY <1>1, <1>2

LEMMA CalmRefl == \A x : Calm(x, x)
  BY DEF Calm

\* A task that ends leaves the books in order.
LEMMA EndsFacts ==
  ASSUME VectorShape, Booked(index), NEW t \in TaskNames, index[t].pc \in Working \cup {"cover"}, Ends(t)
  PROVE  Booked(index') /\ Calm(index, index') /\ buffered' \in Seq(VectorChats) /\ owed' \in AChat
<1>1. CASE t = "sync"
  <2>1. index' = finishSync(index, "sync") /\ UNCHANGED <<buffered, owed>>
    BY <1>1 DEF Ends
  <2>2. index.current = "sync"
    BY <1>1 DEF Booked, Working
  <2> QED
    BY <2>1, <2>2, FinishSyncBooks DEF VectorShape
<1>2. CASE t = "rebuild"
  <2>1. index' = finishRebuild(Covered(index)) /\ UNCHANGED <<buffered, owed>>
    BY <1>2 DEF Ends
  <2> QED
    BY <2>1, CoveredBooks, FinishRebuildBooks, CalmTrans DEF VectorShape
<1>3. CASE t = "repair"
  <2>1. Request(finishSync(index, "repair"), shown)
    BY <1>3 DEF Ends
  <2>2. index.current = "repair"
    BY <1>3 DEF Booked, Working, Services, RepairTasks, Tasks
  <2>3. Booked(finishSync(index, "repair")) /\ Calm(index, finishSync(index, "repair")) /\ shown \in VectorChats
    BY <2>2, FinishSyncBooks DEF VectorShape
  <2> QED
    BY <2>1, <2>3, RequestFacts
<1> QED
  BY <1>1, <1>2, <1>3 DEF TaskNames

LEMMA EndsServedFacts ==
  ASSUME VectorShape, Booked(index), NEW t \in TaskNames, index[t].pc \in Working \cup {"cover"}, EndsServed(t)
  PROVE  Booked(index') /\ Calm(index, index') /\ buffered' \in Seq(VectorChats) /\ owed' \in AChat
<1>1. CASE t = "repair"
  BY <1>1, EndsFacts DEF EndsServed
<1>2. CASE t # "repair"
  <2>1. owed' \in AChat /\ buffered' = buffered
    BY <1>2 DEF EndsServed, Served, VectorShape, AChat
  <2>2. CASE t = "sync"
    <3>1. index' = finishSync(index, "sync") /\ index.current = "sync"
      BY <2>2 DEF EndsServed, Booked, Working
    <3> QED
      BY <2>1, <3>1, FinishSyncBooks DEF VectorShape
  <2>3. CASE t = "rebuild"
    <3>1. index' = finishRebuild(Covered(index))
      BY <2>3 DEF EndsServed
    <3> QED
      BY <2>1, <3>1, CoveredBooks, FinishRebuildBooks, CalmTrans DEF VectorShape
  <2> QED
    BY <1>2, <2>2, <2>3 DEF TaskNames
<1> QED
  BY <1>1, <1>2

\* A task goes on: from one working step to another, or to reading coverage.
LEMMA GoesBooks ==
  ASSUME Booked(index), NEW t \in TaskNames, NEW pc \in Working \cup {"cover"}, NEW seen \in 0..MaxTexts,
         index[t].pc \in Working, t = "repair" => pc \in Working,
         index' = [index EXCEPT ![t].pc = pc, ![t].seen = seen]
  PROVE  Booked(index')
<1>1. CASE t = "sync"
  BY <1>1 DEF Booked, Services, SyncTasks, Tasks, Working
<1>2. CASE t = "rebuild"
  BY <1>2 DEF Booked, Services, RebuildTasks, Tasks, Working
<1>3. CASE t = "repair"
  BY <1>3 DEF Booked, Services, RepairTasks, Tasks, Working
<1> QED
  BY <1>1, <1>2, <1>3 DEF TaskNames

LEMMA VectorInvStep ==
  ASSUME VectorInv, [VectorNext]_vectorVars
  PROVE  VectorInv'
<1> USE DEF VectorInv
<1>1. CASE UNCHANGED vectorVars
  BY <1>1 DEF vectorVars, histories, VectorShape, VectorsMatch, SeenOf
\* Steps of the bookkeeping alone.
<1>2. ASSUME Booked(index'), Calm(index, index'), buffered' \in Seq(VectorChats), owed' \in AChat, shown' \in VectorChats,
             barrier' \in BOOLEAN, UNCHANGED <<text, vectors, leaving, histories>>
      PROVE  VectorInv'
  <2>1. VectorShape' /\ VectorsMatch'
    BY <1>2 DEF histories, VectorShape, VectorsMatch
  <2>2. text' = text /\ raced' = raced
    BY <1>2 DEF histories
  <2>3. SeenOf(index.sync)' /\ SeenOf(index.rebuild)' /\ SeenOf(index.repair)'
    BY <1>2, <2>2, SeenKept
  <2> QED
    BY <1>2, <2>1, <2>3
<1>3. VectorShape /\ Booked(index) /\ shown \in VectorChats /\ index \in Services
  BY DEF VectorShape, Booked
<1>4. ASSUME NEW v \in 0..MaxTexts, EditText(v) PROVE VectorInv'
  <2>1. /\ text' = [text EXCEPT ![shown] = v] /\ leaving' = [leaving EXCEPT ![shown] = @ + 1]
        /\ UNCHANGED <<vectors, index, shown, barrier, buffered, owed, kept>>
    BY <1>4 DEF EditText
  <2>2. raced \subseteq raced' /\ raced' \in SUBSET VectorChats
    BY <1>3, <1>4 DEF EditText, RacedAfter, VectorShape
  <2>3. VectorShape'
    BY <1>3, <2>1, <2>2 DEF VectorShape
  <2>4. VectorsMatch'
    BY <1>3, <2>1, <2>2 DEF VectorShape, VectorsMatch
  <2>5. ASSUME NEW t \in TaskNames, SeenOf(index[t]), Embeds(index[t]) PROVE index[t].chat \in VectorChats
               /\ (index[t].seen = text'[index[t].chat] \/ index[t].chat \in raced')
    <3>1. CASE index[t].chat = shown
      BY <1>3, <1>4, <2>5, <3>1 DEF EditText, RacedAfter, SeenOf
    <3>2. CASE index[t].chat # shown
      BY <1>3, <2>1, <2>2, <2>5, <3>2 DEF SeenOf, VectorShape
    <3> QED
      BY <3>1, <3>2
  <2>6. SeenOf(index.sync)' /\ SeenOf(index.rebuild)' /\ SeenOf(index.repair)'
    BY <2>1, <2>5 DEF SeenOf, TaskNames, Embeds
  <2>7. Booked(index')
    BY <1>3, <2>1
  <2> QED
    BY <2>3, <2>4, <2>6, <2>7
\* The edit's second call, whether it deletes the vector or not.
<1>22. ASSUME NEW c \in VectorChats, EditReturns(c)
       PROVE  /\ Booked(index') /\ leaving' \in [VectorChats -> Nat] /\ text' = text /\ raced' = raced
              /\ \A d \in VectorChats \ {c} : leaving'[d] = leaving[d]
              /\ buffered' \in Seq(VectorChats) /\ owed' \in AChat /\ UNCHANGED <<shown, barrier>>
              /\ SeenOf(index.sync)' /\ SeenOf(index.rebuild)' /\ SeenOf(index.repair)'
  <2>1. Booked(index') /\ Calm(index, index') /\ buffered' \in Seq(VectorChats) /\ owed' \in AChat
    BY <1>3, <1>22, CalmRefl, RequestFacts DEF EditReturns
  <2>2. text' = text /\ raced' = raced /\ UNCHANGED <<shown, barrier>>
    BY <1>22 DEF EditReturns
  <2>3. leaving' \in [VectorChats -> Nat] /\ \A d \in VectorChats \ {c} : leaving'[d] = leaving[d]
    BY <1>3, <1>22 DEF EditReturns, VectorShape
  <2>4. SeenOf(index.sync)' /\ SeenOf(index.rebuild)' /\ SeenOf(index.repair)'
    BY <2>1, <2>2, SeenKept
  <2> QED
    BY <2>1, <2>2, <2>3, <2>4
<1>23. ASSUME NEW c \in VectorChats, deleteFactVectors(c) PROVE VectorInv'
  <2>1. EditReturns(c) /\ vectors' = [vectors EXCEPT ![c] = 0] /\ kept' = kept \ {c}
    BY <1>23 DEF deleteFactVectors
  <2>2. VectorShape'
    BY <1>3, <1>22, <2>1, VectorBounds DEF VectorShape
  <2>3. VectorsMatch'
    BY <1>3, <1>22, <2>1 DEF VectorShape, VectorsMatch
  <2> QED
    BY <1>22, <2>1, <2>2, <2>3
<1>24. ASSUME NEW c \in VectorChats, DeletionFails(c) PROVE VectorInv'
  <2>1. EditReturns(c) /\ vectors' = vectors /\ kept' = kept \cup {c}
    BY <1>24 DEF DeletionFails
  <2>2. VectorShape'
    BY <1>3, <1>22, <2>1 DEF VectorShape
  <2>3. VectorsMatch'
    BY <1>3, <1>22, <2>1 DEF VectorShape, VectorsMatch
  <2> QED
    BY <1>22, <2>1, <2>2, <2>3
<1>25. CASE ReloadPage
  <2>1. /\ index' = [sync |-> NoTask, rebuild |-> NoTask, repair |-> NoTask, current |-> "none",
                     pending |-> NoChat, active |-> TRUE, life |-> index.life + 1]
        /\ leaving' = [c \in VectorChats |-> 0]
        /\ kept' = kept \cup {c \in VectorChats : leaving[c] > 0}
        /\ barrier' = FALSE /\ buffered' = << >> /\ owed' = NoChat
        /\ UNCHANGED <<text, vectors, shown, raced>>
    BY <1>25 DEF ReloadPage
  <2>2. Booked(index')
    <3>1. index' \in Services
      BY <1>3, <2>1, NoTaskFits DEF Services, AChat
    <3> QED
      BY <2>1, <3>1 DEF Booked, NoTask, Working
  <2>3. VectorShape'
    <3>1. buffered' \in Seq(VectorChats)
      BY <2>1
    <3>2. leaving' \in [VectorChats -> Nat] /\ owed' \in AChat
      BY <2>1 DEF AChat
    <3> QED
      BY <1>3, <2>1, <3>1, <3>2 DEF VectorShape
  <2>4. VectorsMatch'
    BY <1>3, <2>1 DEF VectorShape, VectorsMatch
  <2>5. SeenOf(index.sync)' /\ SeenOf(index.rebuild)' /\ SeenOf(index.repair)'
    BY <2>1 DEF SeenOf, Embeds, NoTask
  <2> QED
    BY <2>2, <2>3, <2>4, <2>5
<1>5. CASE AskForSync
  <2>1. PICK c \in VectorChats : shown' = c /\ Request(index, c)
    BY <1>5 DEF AskForSync
  <2>2. Booked(index') /\ Calm(index, index') /\ buffered' \in Seq(VectorChats) /\ owed' \in AChat
    BY <1>3, <2>1, CalmRefl, RequestFacts
  <2> QED
    BY <1>2, <1>3, <1>5, <2>1, <2>2 DEF AskForSync, VectorShape
<1>6. CASE RaiseBarrier
  BY <1>2, <1>3, <1>6, CalmRefl DEF RaiseBarrier, VectorShape
<1>7. CASE finishInitializationVectorSync
  <2>1. Booked(index') /\ Calm(index, index')
    BY <1>3, <1>7, HandedOverBooks DEF finishInitializationVectorSync, VectorShape
  <2>2. owed' \in AChat
    BY <1>3, <1>7 DEF finishInitializationVectorSync, VectorShape, OwedAfter, AChat
  <2>3. buffered' \in Seq(VectorChats)
    BY <1>7 DEF finishInitializationVectorSync
  <2> QED
    BY <1>2, <1>3, <1>7, <2>1, <2>2, <2>3 DEF finishInitializationVectorSync
<1>8. CASE RebuildIndex
  <2> DEFINE x == [index EXCEPT !.rebuild = Begun(index, "wait", shown), !.pending = NoChat]
  <2>1. Begun(index, "wait", shown) \in RebuildTasks
    BY <1>3, BegunFits DEF AChat
  <2>2. Booked(x) /\ Calm(index, x)
    BY <1>3, <2>1 DEF Booked, Services, Calm, Begun, AChat, Embeds
  <2> HIDE DEF x
  <2>3. index' = Woken(x)
    BY <1>8 DEF RebuildIndex, x
  <2>4. Booked(index') /\ Calm(index, index')
    BY <2>2, <2>3, WokenBooks, CalmTrans
  <2>5. owed' \in AChat
    BY <1>3, <1>8 DEF RebuildIndex, VectorShape, AChat
  <2> QED
    BY <1>2, <1>3, <1>8, <2>4, <2>5 DEF RebuildIndex, VectorShape
<1>9. CASE RepairFacts
  <2> DEFINE waits(pc) == [index EXCEPT !.repair = Begun(index, pc, shown)]
  <2>1. ASSUME NEW pc \in {"waitRebuild", "wait"} PROVE Booked(waits(pc)) /\ Calm(index, waits(pc))
    <3>1. Begun(index, pc, shown) \in RepairTasks
      BY <1>3, BegunFits DEF AChat
    <3> QED
      BY <1>3, <1>9, <2>1, <3>1 DEF RepairFacts, Booked, Services, Calm, Begun, Embeds, Working
  <2>2. index' = IF Rebuilding(index) THEN waits("waitRebuild") ELSE Woken(waits("wait"))
    BY <1>9 DEF RepairFacts
  <2> HIDE DEF waits
  <2>3. Booked(index') /\ Calm(index, index')
    BY <2>1, <2>2, WokenBooks, CalmTrans
  <2> QED
    BY <1>2, <1>3, <1>9, <2>3 DEF RepairFacts, VectorShape
<1>10. CASE StopIndex
  <2>1. /\ index' \in Services /\ index'.current = index.current
        /\ index'.sync = index.sync /\ index'.rebuild = index.rebuild /\ index'.repair = index.repair
    <3>1. index' = [index EXCEPT !.active = FALSE, !.life = index.life + 1, !.pending = NoChat]
      BY <1>10 DEF StopIndex
    <3>2. index.life + 1 \in Nat
      BY <1>3 DEF Services
    <3> QED
      BY <1>3, <3>1, <3>2 DEF Services, AChat
  <2>2. Booked(index') /\ Calm(index, index')
    BY <1>3, <2>1 DEF Booked, Calm
  <2> QED
    BY <1>2, <1>3, <1>10, <2>2 DEF StopIndex, VectorShape, AChat
<1>11. CASE StartIndex
  <2>1. /\ index' \in Services /\ index'.current = index.current
        /\ index'.sync = index.sync /\ index'.rebuild = index.rebuild /\ index'.repair = index.repair
    <3>1. index' = [index EXCEPT !.active = TRUE, !.life = index.life + 1]
      BY <1>11 DEF StartIndex
    <3>2. index.life + 1 \in Nat
      BY <1>3 DEF Services
    <3> QED
      BY <1>3, <3>1, <3>2 DEF Services
  <2>2. Booked(index') /\ Calm(index, index')
    BY <1>3, <2>1 DEF Booked, Calm
  <2> QED
    BY <1>2, <1>3, <1>11, <2>2 DEF StartIndex, VectorShape
<1>12. CASE ClearVectors
  <2>1. Booked(index') /\ Calm(index, index')
    <3>1. Begun(index, "route", shown) \in RebuildTasks
      BY <1>3, BegunFits DEF AChat
    <3> DEFINE x == [index EXCEPT !.rebuild = Begun(index, "route", shown)]
    <3>2. /\ x \in Services /\ x.current = index.current /\ x.rebuild.pc = "route"
          /\ x.sync = index.sync /\ x.repair = index.repair
      BY <1>3, <3>1 DEF Services, Begun
    <3>3. Booked(x) /\ Calm(index, x)
      BY <1>3, <1>12, <3>2 DEF ClearVectors, Booked, Calm, Embeds
    <3> QED
      BY <1>3, <1>12, <3>3, CoveredBooks, FinishRebuildBooks, CalmTrans DEF ClearVectors
  <2>2. VectorShape' /\ VectorsMatch' /\ text' = text /\ raced' = raced
    <3>1. /\ vectors' \in [VectorChats -> 0..MaxTexts]
          /\ \A c \in VectorChats : vectors'[c] = 0 \/ (vectors'[c] = vectors[c] /\ (c \in kept => c \in kept'))
      <4>1. CASE vectors' = [vectors EXCEPT ![shown] = 0] /\ kept' = kept \ {shown}
        BY <1>3, <4>1, VectorBounds DEF VectorShape
      <4>2. CASE vectors' = vectors /\ kept' = kept
        BY <1>3, <4>2 DEF VectorShape
      <4> QED
        BY <1>12, <4>1, <4>2 DEF ClearVectors
    <3> QED
      BY <1>3, <1>12, <3>1 DEF ClearVectors, VectorShape, VectorsMatch
  <2>3. SeenOf(index.sync)' /\ SeenOf(index.rebuild)' /\ SeenOf(index.repair)'
    BY <2>1, <2>2, SeenKept
  <2> QED
    BY <2>1, <2>2, <2>3
<1>0. ASSUME NEW t \in TaskNames
      PROVE  /\ index[t].chat \in AChat /\ index[t].seen \in 0..MaxTexts /\ SeenOf(index[t])
  BY <1>0, <1>3 DEF TaskNames, Services, SyncTasks, RebuildTasks, RepairTasks, Tasks
\* A task goes on, and embeds only what it has seen.
<1>20. ASSUME NEW t \in TaskNames, NEW pc \in Working \cup {"cover"}, NEW seen \in 0..MaxTexts,
              index[t].pc \in Working, t = "repair" => pc \in Working,
              index' = [index EXCEPT ![t].pc = pc, ![t].seen = seen],
              pc \in {"embed", "write"} => /\ index[t].chat \in VectorChats
                                           /\ seen = text[index[t].chat] \/ index[t].chat \in raced,
              buffered' = buffered, owed' \in AChat, VectorsMatch', vectors' \in [VectorChats -> 0..MaxTexts],
              UNCHANGED <<text, shown, barrier, leaving, raced>>
       PROVE  VectorInv'
  <2>1. Booked(index')
    BY <1>3, <1>20, GoesBooks
  <2>2. VectorShape'
    BY <1>3, <1>20 DEF VectorShape
  <2>3. /\ index'[t].pc = pc /\ index'[t].seen = seen /\ index'[t].chat = index[t].chat
        /\ \A u \in TaskNames \ {t} : index'[u] = index[u]
    BY <1>3, <1>20 DEF TaskNames, Services, SyncTasks, RebuildTasks, RepairTasks, Tasks
  <2>4. ASSUME NEW u \in TaskNames
        PROVE  Embeds(index'[u]) => /\ index'[u].chat \in VectorChats
                                    /\ index'[u].seen = text[index'[u].chat] \/ index'[u].chat \in raced
    BY <1>0, <1>20, <2>3, <2>4 DEF SeenOf, Embeds
  <2>5. SeenOf(index.sync)' /\ SeenOf(index.rebuild)' /\ SeenOf(index.repair)'
    BY <1>20, <2>4 DEF SeenOf, TaskNames, Embeds
  <2> QED
    BY <1>20, <2>1, <2>2, <2>5
<1>21. ASSUME NEW t \in TaskNames, NEW pc, index' = [index EXCEPT ![t].pc = pc]
       PROVE  index' = [index EXCEPT ![t].pc = pc, ![t].seen = index[t].seen]
  BY <1>3, <1>21 DEF TaskNames, Services, SyncTasks, RebuildTasks, RepairTasks, Tasks
<1>13. ASSUME NEW t \in TaskNames, RouteFound(t) PROVE VectorInv'
  <2>1. index[t].pc \in Working /\ index' = [index EXCEPT ![t].pc = "scan", ![t].seen = index[t].seen]
    BY <1>13, <1>21 DEF RouteFound, Goes, Working
  <2>2. /\ UNCHANGED <<text, vectors, shown, barrier, leaving, raced, kept>> /\ buffered' = buffered /\ owed' = owed
    BY <1>13 DEF RouteFound, Goes, histories
  <2>3. VectorsMatch' /\ vectors' \in [VectorChats -> 0..MaxTexts] /\ owed' \in AChat
    BY <1>3, <2>2 DEF VectorsMatch, VectorShape
  <2> QED
    BY <1>0, <1>20, <2>1, <2>2, <2>3 DEF Working
<1>14. ASSUME NEW t \in TaskNames, NoRoute(t) PROVE VectorInv'
  <2>1. index[t].pc \in Working /\ EndsServed(t)
    BY <1>14 DEF NoRoute, Working
  <2> QED
    BY <1>2, <1>3, <1>14, <2>1, EndsServedFacts DEF NoRoute, VectorShape
<1>15. ASSUME NEW t \in TaskNames, Scan(t) PROVE VectorInv'
  <2>1. index[t].pc = "scan" /\ UNCHANGED <<text, vectors, shown, barrier, leaving, raced, kept>> /\ UNCHANGED histories
    BY <1>15 DEF Scan, histories
  <2>2. VectorsMatch' /\ vectors' \in [VectorChats -> 0..MaxTexts] /\ shown' \in VectorChats /\ barrier' \in BOOLEAN
    BY <1>3, <2>1 DEF VectorsMatch, VectorShape
  <2>3. CASE Ends(t)
    BY <1>2, <1>3, <2>1, <2>2, <2>3, EndsFacts DEF Working
  <2>4. CASE EndsServed(t)
    BY <1>2, <1>3, <2>1, <2>2, <2>4, EndsServedFacts DEF Working
  <2>5. owed' \in AChat \/ Ends(t) \/ EndsServed(t)
    BY <1>3, <1>15 DEF Scan, Served, VectorShape, AChat
  <2>6. CASE /\ index' = [index EXCEPT ![t].pc = "embed", ![t].seen = text[shown]]
             /\ index[t].chat = shown /\ buffered' = buffered
    <3>1. text[shown] \in 0..MaxTexts
      BY <1>3 DEF VectorShape
    <3> QED
      BY <1>3, <1>20, <2>1, <2>2, <2>3, <2>4, <2>5, <2>6, <3>1 DEF Working
  <2>7. CASE index' = [index EXCEPT ![t].pc = "cover"] /\ t # "repair" /\ buffered' = buffered
    <3>1. index' = [index EXCEPT ![t].pc = "cover", ![t].seen = index[t].seen]
      BY <1>21, <2>7
    <3> QED
      BY <1>0, <1>20, <2>1, <2>2, <2>3, <2>4, <2>5, <2>7, <3>1 DEF Working
  <2> QED
    BY <1>15, <2>3, <2>4, <2>6, <2>7 DEF Scan
<1>16. ASSUME NEW t \in TaskNames, Embedded(t) PROVE VectorInv'
  <2>1. index[t].pc = "embed" /\ UNCHANGED <<text, vectors, shown, barrier, leaving, raced, kept>> /\ UNCHANGED histories
    BY <1>16 DEF Embedded, histories
  <2>2. VectorsMatch' /\ vectors' \in [VectorChats -> 0..MaxTexts] /\ shown' \in VectorChats /\ barrier' \in BOOLEAN
    BY <1>3, <2>1 DEF VectorsMatch, VectorShape
  <2>3. CASE Ends(t)
    BY <1>2, <1>3, <2>1, <2>2, <2>3, EndsFacts DEF Working
  <2>4. CASE Goes(t, "write")
    <3>1. /\ index' = [index EXCEPT ![t].pc = "write", ![t].seen = index[t].seen]
          /\ buffered' = buffered /\ owed' \in AChat
      BY <1>3, <1>21, <2>4 DEF Goes, VectorShape
    <3>2. index[t].chat \in VectorChats /\ (index[t].seen = text[index[t].chat] \/ index[t].chat \in raced)
      BY <1>0, <2>1 DEF SeenOf, Embeds
    <3> QED
      BY <1>0, <1>20, <2>1, <2>2, <3>1, <3>2 DEF Working
  <2> QED
    BY <1>16, <2>3, <2>4 DEF Embedded
<1>17. ASSUME NEW t \in TaskNames, EmbedFails(t) PROVE VectorInv'
  <2>1. index[t].pc \in Working /\ Ends(t)
    BY <1>17 DEF EmbedFails, Working
  <2> QED
    BY <1>2, <1>3, <1>17, <2>1, EndsFacts DEF EmbedFails, VectorShape
\* What is stored is the text the fact has, or had when an edit raced it.
<1>18. ASSUME NEW t \in TaskNames, WriteVectors(t) PROVE VectorInv'
  <2>1. index[t].pc = "write" /\ UNCHANGED <<text, shown, barrier, leaving, raced>>
    BY <1>18 DEF WriteVectors
  <2>2. index[t].chat \in VectorChats /\ (index[t].seen = text[index[t].chat] \/ index[t].chat \in raced)
    BY <1>0, <2>1 DEF SeenOf, Embeds
  <2>3. VectorsMatch' /\ vectors' \in [VectorChats -> 0..MaxTexts] /\ shown' \in VectorChats /\ barrier' \in BOOLEAN
    <3>1. CASE vectors' = vectors /\ kept' = kept
      BY <1>3, <2>1, <3>1 DEF VectorsMatch, VectorShape
    <3>2. CASE /\ vectors' = [vectors EXCEPT ![shown] = index[t].seen] /\ index[t].chat = shown
               /\ kept' = kept \ {shown}
      <4>1. index[t].seen \in 0..MaxTexts
        BY <1>0
      <4> QED
        BY <1>3, <2>1, <2>2, <3>2, <4>1 DEF VectorsMatch, VectorShape
    <3> QED
      BY <1>18, <3>1, <3>2 DEF WriteVectors
  <2>4. VectorShape' /\ SeenOf(index.sync)' /\ SeenOf(index.rebuild)' /\ SeenOf(index.repair)' /\ Booked(index')
    <3>1. CASE Ends(t)
      <4>1. Booked(index') /\ Calm(index, index') /\ buffered' \in Seq(VectorChats) /\ owed' \in AChat
        BY <1>3, <2>1, <3>1, EndsFacts DEF Working
      <4>2. text' = text /\ raced' = raced
        BY <2>1
      <4>3. SeenOf(index.sync)' /\ SeenOf(index.rebuild)' /\ SeenOf(index.repair)'
        BY <4>1, <4>2, SeenKept
      <4> QED
        BY <1>3, <2>1, <2>3, <4>1, <4>3 DEF VectorShape
    <3>2. CASE Goes(t, "scan")
      <4>1. /\ index' = [index EXCEPT ![t].pc = "scan", ![t].seen = index[t].seen]
            /\ buffered' = buffered /\ owed' \in AChat
        BY <1>3, <1>21, <3>2 DEF Goes, VectorShape
      <4> QED
        BY <1>0, <1>20, <2>1, <2>3, <4>1 DEF Working
    <3> QED
      BY <1>18, <3>1, <3>2 DEF WriteVectors
  <2> QED
    BY <2>3, <2>4
<1>19. ASSUME NEW t \in TaskNames, CoverageRead(t) PROVE VectorInv'
  <2>1. index[t].pc \in Working \cup {"cover"} /\ Ends(t)
    BY <1>19 DEF CoverageRead
  <2> QED
    BY <1>2, <1>3, <1>19, <2>1, EndsFacts DEF CoverageRead, VectorShape
<1> QED
  BY <1>1, <1>4, <1>5, <1>6, <1>7, <1>8, <1>9, <1>10, <1>11, <1>12, <1>13, <1>14, <1>15, <1>16, <1>17, <1>18, <1>19,
     <1>23, <1>24, <1>25
  DEF VectorNext, TaskStep

LEMMA VectorInvInit == VectorInit => VectorInv
<1> SUFFICES ASSUME VectorInit PROVE VectorInv
  OBVIOUS
<1>1. Booked(index)
  <2>1. index \in Services
    BY NoTaskFits DEF VectorInit, Services, AChat
  <2> QED
    BY <2>1 DEF VectorInit, Booked, NoTask, Working
<1>2. VectorShape
  <2>1. text \in [VectorChats -> 0..MaxTexts] /\ vectors \in [VectorChats -> 0..MaxTexts]
    BY VectorBounds DEF VectorInit
  <2>2. buffered \in Seq(VectorChats)
    BY DEF VectorInit
  <2> QED
    BY <2>1, <2>2 DEF VectorInit, VectorShape, AChat
<1>3. VectorsMatch /\ SeenOf(index.sync) /\ SeenOf(index.rebuild) /\ SeenOf(index.repair)
  BY DEF VectorInit, VectorsMatch, SeenOf, Embeds, NoTask
<1> QED
  BY <1>1, <1>2, <1>3 DEF VectorInv

LEMMA VectorInvSound == VectorInv => VectorsSound
<1> SUFFICES ASSUME VectorInv PROVE VectorsSound
  OBVIOUS
<1>1. VectorTypeOK
  <2>1. /\ index \in Services /\ index.sync \in SyncTasks /\ index.rebuild \in RebuildTasks
        /\ index.repair \in RepairTasks /\ index.pending \in AChat /\ index.current \in {"none", "sync", "repair"}
        /\ index.active \in BOOLEAN
    BY DEF VectorInv, Booked, Services
  <2>2. \A t \in TaskNames :
          index[t].pc \in {"idle", "waitRebuild", "wait", "clear", "route", "scan", "embed", "write", "cover"}
    BY <2>1 DEF SyncTasks, RebuildTasks, RepairTasks, Tasks, Working, TaskNames
  <2>3. /\ index.current = "sync" => index.sync.pc # "idle"
        /\ index.current = "repair" => index.repair.pc # "idle"
    BY DEF VectorInv, Booked, Working
  <2>4. index.current # "none" => index[index.current].pc # "idle"
    BY <2>1, <2>3
  <2> QED
    BY <2>1, <2>2, <2>4 DEF VectorInv, VectorShape, AChat, VectorTypeOK
<1>2. SyncsAlone
  BY DEF VectorInv, Booked, Embeds, SyncsAlone
<1> QED
  BY <1>1, <1>2 DEF VectorInv, VectorsSound

(* For any chats, edits, requests, stops, starts and reloads: syncs and a    *)
(* rebuild do not embed side by side, and a vector of another text is still  *)
(* to be deleted, or was left by an edit under an embedding or by a deletion *)
(* that failed (scheduleSync, rebuild, rebuildFacts, deleteFactVectors).     *)
THEOREM VectorsAreSound == VectorSpec => []VectorsSound
<1>1. VectorInv /\ [VectorNext]_vectorVars => VectorInv'
  BY VectorInvStep
<1> QED
  BY <1>1, VectorInvInit, VectorInvSound, PTL DEF VectorSpec
=============================================================================
