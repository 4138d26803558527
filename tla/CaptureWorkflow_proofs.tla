------------------------ MODULE CaptureWorkflow_proofs ------------------------
(* Capture jobs, for any number of batches, windows, jobs and disturbances:   *)
(* a job that goes on sends no batch to the model that it still holds, unless *)
(* rollbacks report failures of their own accord; and the summary progress    *)
(* moves only over windows that are held, unless the user undoes or returns   *)
(* at once.  Then the parts of a batch: the reads an extraction rests on, who *)
(* knows what after it, and what the checks of an answer let through.         *)
EXTENDS CaptureWorkflow, Extraction, Knowledge, CaptureValidation, FiniteSetTheorems, WellFoundedInduction, TLAPS

-----------------------------------------------------------------------------
(* The inductive invariant.  It has a part about the shape of a run, and one  *)
(* for each of the two results; they speak of the rows of the jobs, J, and of *)
(* the change sets, S.                                                        *)

Scanning == run.pc \in {"begin", "check", "extract", "commit"}
Committing == run.pc \in {"committed", "discard"}
Closing == run.pc \in {"finalize", "derive", "unwind", "settle", "progress"}

(* A checkpoint behind the last batch owes no stage.                          *)
Proper(at) == at.batch = N => ~at.stage

RunShape ==
    /\ run.pc # "off" => run.job \in Jobs /\ run.next = run.at.batch + 1 /\ Proper(run.at) /\ Proper(run.base)
    /\ run.pc \in {"check", "extract", "commit"} \/ Committing => run.next <= N
    /\ Closing => run.at.batch = N

RowsShape(J, S) ==
    /\ \A j \in Jobs : Proper(J[j].at) /\ (J[j].status = "none" => J[j].at = Start)
    /\ \A id \in SetIds :
          /\ Proper(S[id].before.at) /\ (S[id].before.status = "none" => S[id].before.at = Start)
          /\ id[3] = "stage" => ~S[id].partial

LiveIn(S, id) == S[id].status = "live"
BatchOf(j, n) == <<j, n, "batch">>
StageOf(j, n) == <<j, n, "stage">>

(* Nothing past the checkpoint is held, a change set aside that is about to   *)
(* be undone: only the batch whose stage is owed has a live one.              *)
Clear(S, j, at, but) ==
    \A n \in Batches : n > at.batch =>
        /\ StageOf(j, n) # but => ~LiveIn(S, StageOf(j, n))
        /\ BatchOf(j, n) # but /\ LiveIn(S, BatchOf(j, n))
              => at.stage /\ n = at.batch + 1 /\ S[BatchOf(j, n)].partial

RowsClear(J, S) ==
    /\ \A j \in Jobs : Clear(S, j, J[j].at, NoSet)
    /\ \A id \in SetIds : LiveIn(S, id) /\ J[id[1]].by = id => Clear(S, id[1], S[id].before.at, id)

NothingAhead ==
    /\ RowsClear(jobs, sets)
    /\ run.pc # "off" => Clear(sets, run.job, run.at, IF Committing THEN SetInHand ELSE NoSet)
    /\ Committing /\ LiveIn(sets, SetInHand) => jobs[run.job].by = SetInHand
    /\ run.pc # "caughtRollback"

(* What the checkpoint has passed is held.  A job that is behind its last     *)
(* batch sends nothing any more, and may have lost it.                        *)
HeldIn(S, j, n) ==
    LiveIn(S, BatchOf(j, n)) /\ (S[BatchOf(j, n)].partial => LiveIn(S, StageOf(j, n)))
Backed(S, j, at) ==
    at.batch < N =>
        /\ \A n \in Batches : n <= at.batch => HeldIn(S, j, n)
        /\ at.stage => LiveIn(S, BatchOf(j, at.batch + 1))
AllHeld(S, j) == \A n \in Batches : HeldIn(S, j, n)

(* A change set began where its batch, or the stage of its batch, was owed.   *)
Upto(a, b) == a.batch < b.batch \/ a = b
Before(id) == [batch |-> id[2] - 1, stage |-> id[3] = "stage"]

RowsBacked(J, S) ==
    /\ \A j \in Jobs : Backed(S, j, J[j].at)
    /\ \A id \in SetIds : LiveIn(S, id) /\ J[id[1]].by = id =>
          Backed(S, id[1], S[id].before.at) /\ Upto(S[id].before.at, Before(id))

NothingLost ==
    /\ RowsBacked(jobs, sets)
    /\ run.pc # "off" => Backed(sets, run.job, run.at)
    /\ Scanning \/ Committing \/ run.pc = "caughtRollback" =>
          Backed(sets, run.job, run.base) /\ Upto(run.base, run.at)
    /\ Scanning => Upto(jobs[run.job].at, run.at)
    /\ run.pc = "committed" =>
          /\ LiveIn(sets, SetInHand)
          /\ \/ Upto(jobs[run.job].at, run.at)
             \/ jobs[run.job].at = [batch |-> run.next, stage |-> FALSE]
             \/ sets[SetInHand].partial
    /\ stopped /\ run.pc # "off" => run.bumped
    /\ run.pc \in {"discard", "unwind"} => Stale
    /\ run.pc \in {"finalize", "derive", "progress"} => AllHeld(sets, run.job)
    /\ run.pc = "settle" => Stale \/ AllHeld(sets, run.job)

Steady == ~setting.undoes /\ ~setting.returnsAtOnce

CaptureInv ==
    /\ TypeOK /\ RunShape /\ RowsShape(jobs, sets)
    /\ ~setting.rollbackFails => NothingAhead
    /\ Steady => NothingLost

-----------------------------------------------------------------------------
(* The largest element of a bounded set: initial segments of the natural      *)
(* numbers are ordered as their ends.                                         *)
LEMMA Greatest ==
  ASSUME NEW n \in Nat, NEW S, S \subseteq 0..n, S # {}
  PROVE  \E x \in S : \A y \in S : y <= x
<1> DEFINE D == {d \in 0..n : n - d \in S}
           Segments == {0..(d - 1) : d \in D}
<1>1. D \subseteq Nat /\ D # {}
  <2>1. PICK x \in S : TRUE
    OBVIOUS
  <2>2. x \in 0..n /\ n - x \in 0..n /\ n - (n - x) = x
    OBVIOUS
  <2>3. n - x \in D
    BY <2>1, <2>2
  <2>4. D \subseteq Nat
    OBVIOUS
  <2> HIDE DEF D
  <2> QED
    BY <2>3, <2>4
<1>2. Segments \subseteq FiniteSubsetsOf(Nat) /\ Segments # {}
  <2>1. \A d \in D : 0..(d - 1) \in FiniteSubsetsOf(Nat)
    BY <1>1, FS_Interval DEF FiniteSubsetsOf
  <2> QED
    BY <1>1, <2>1
<1>3. PICK x \in Segments : \A y \in Segments : ~(<<y, x>> \in StrictSubsetOrdering(Nat))
  <2> HIDE DEF Segments
  <2> QED
    BY <1>2, FS_StrictSubsetOrderingWellFounded, WFMin
<1>4. PICK d \in D : x = 0..(d - 1)
  OBVIOUS
<1>5. \A e \in D : ~(e < d)
  <2> SUFFICES ASSUME NEW e \in D, e < d PROVE FALSE
    OBVIOUS
  <2>1. 0..(e - 1) \in Segments
    OBVIOUS
  <2>2. 0..(e - 1) \subseteq 0..(d - 1) /\ d - 1 \in 0..(d - 1) /\ d - 1 \notin 0..(e - 1)
    BY <1>1
  <2>3. <<0..(e - 1), 0..(d - 1)>> \in StrictSubsetOrdering(Nat)
    BY <1>1, <2>2 DEF StrictSubsetOrdering
  <2> QED
    BY <1>3, <1>4, <2>1, <2>3
<1>6. ASSUME NEW y \in S PROVE y <= n - d
  <2>1. y \in 0..n /\ n - y \in 0..n /\ n - (n - y) = y
    OBVIOUS
  <2>2. n - y \in D /\ d \in Nat
    BY <2>1, <1>1
  <2>3. ~(n - y < d)
    BY <2>2, <1>5
  <2> HIDE DEF D
  <2> QED
    BY <2>1, <2>2, <2>3
<1>7. n - d \in S
  OBVIOUS
<1> QED
  BY <1>6, <1>7

LEMMA NewestInResults ==
  ASSUME TypeOK, run.results # {}
  PROVE  Newest(run.results) \in run.results /\ run.results \subseteq SetIds
<1>1. run.results \subseteq SetIds /\ N \in Nat
  BY Sizes DEF TypeOK, Run
<1> DEFINE S == {id[2] : id \in run.results}
<1>2. S \subseteq 0..N /\ S # {}
  BY <1>1 DEF SetIds, Batches
<1>3. PICK x \in S : \A y \in S : y <= x
  <2> HIDE DEF S
  <2> QED
    BY <1>1, <1>2, Greatest
<1>4. \E id \in run.results : \A other \in run.results : other[2] <= id[2]
  BY <1>3
<1> QED
  BY <1>1, <1>4 DEF Newest

(* The change set in hand is one of the run's job and next batch.            *)
LEMMA InHand ==
  ASSUME TypeOK, run.job \in Jobs, run.next = run.at.batch + 1, run.next <= N
  PROVE  /\ SetInHand \in SetIds /\ run.next \in Batches /\ run.at.batch \in 0..N
         /\ SetInHand = IF run.at.stage THEN StageOf(run.job, run.next) ELSE BatchOf(run.job, run.next)
BY Sizes DEF TypeOK, Run, Checkpoint, SetIds, Batches, SetInHand, StageOf, BatchOf
-----------------------------------------------------------------------------
(* What the repository calls do to the rows.                                 *)

Undone(S, id) == [S EXCEPT ![id].status = "rolledBack"]
RowRestored(J, S, id) == [J EXCEPT ![id[1]] = Restored(S[id].before)]
Persisted(J, j, status, at) == [J EXCEPT ![j] = [status |-> status, at |-> at, by |-> NoSet]]

LEMMA SetParts ==
  /\ \A id \in SetIds : id[1] \in Jobs /\ id[2] \in Batches /\ id[3] \in {"batch", "stage"}
  /\ \A j \in Jobs, n \in Batches :
        /\ BatchOf(j, n) \in SetIds /\ StageOf(j, n) \in SetIds
        /\ BatchOf(j, n) # NoSet /\ StageOf(j, n) # NoSet /\ BatchOf(j, n) # StageOf(j, n)
  /\ N \in Nat /\ Batches = 1..N
BY Sizes, NoSetIsNone DEF SetIds, BatchOf, StageOf, Batches

LEMMA RowParts ==
  ASSUME NEW J \in [Jobs -> JobRow], NEW S \in [SetIds -> ChangeSet]
  PROVE  /\ \A j \in Jobs : J[j].at \in Checkpoint /\ J[j].by \in SetIds \cup {NoSet}
         /\ \A id \in SetIds : S[id].before \in JobRow /\ S[id].before.at \in Checkpoint
         /\ \A a \in Checkpoint : a.batch \in 0..N /\ a.stage \in BOOLEAN
BY DEF JobRow, ChangeSet, Checkpoint

LEMMA RestoredParts ==
  ASSUME NEW row \in JobRow
  PROVE  /\ Restored(row) \in JobRow /\ Restored(row).at = row.at /\ Restored(row).by = NoSet
         /\ Restored(row).status = "none" <=> row.status = "none"
BY DEF JobRow, Restored

(* Undoing a change set.                                                     *)
LEMMA UndoneSets ==
  ASSUME NEW S \in [SetIds -> ChangeSet], NEW id \in SetIds
  PROVE  /\ Undone(S, id) \in [SetIds -> ChangeSet]
         /\ \A x \in SetIds : /\ LiveIn(Undone(S, id), x) <=> LiveIn(S, x) /\ x # id
                              /\ Undone(S, id)[x].before = S[x].before
                              /\ Undone(S, id)[x].partial = S[x].partial
BY DEF Undone, LiveIn, ChangeSet

LEMMA UndoneRows ==
  ASSUME NEW J \in [Jobs -> JobRow], NEW S \in [SetIds -> ChangeSet], NEW id \in SetIds
  PROVE  /\ RowRestored(J, S, id) \in [Jobs -> JobRow]
         /\ \A j \in Jobs : j # id[1] => RowRestored(J, S, id)[j] = J[j]
         /\ RowRestored(J, S, id)[id[1]].at = S[id].before.at
         /\ RowRestored(J, S, id)[id[1]].by = NoSet
         /\ RowRestored(J, S, id)[id[1]].status = "none" <=> S[id].before.status = "none"
<1>1. S[id].before \in JobRow /\ id[1] \in Jobs
  BY SetParts DEF ChangeSet
<1>2. Restored(S[id].before) \in JobRow
  BY <1>1, RestoredParts
<1> QED
  BY <1>1, <1>2, RestoredParts DEF RowRestored

LEMMA UndoneShape ==
  ASSUME NEW J \in [Jobs -> JobRow], NEW S \in [SetIds -> ChangeSet], NEW id \in SetIds, RowsShape(J, S)
  PROVE  RowsShape(RowRestored(J, S, id), Undone(S, id))
<1> DEFINE K == RowRestored(J, S, id)
           T == Undone(S, id)
<1>1. /\ \A x \in SetIds : T[x].before = S[x].before /\ T[x].partial = S[x].partial
      /\ \A j \in Jobs : j # id[1] => K[j] = J[j]
      /\ K[id[1]].at = S[id].before.at /\ (K[id[1]].status = "none" <=> S[id].before.status = "none")
  BY UndoneSets, UndoneRows
<1> HIDE DEF K, T
<1>2. RowsShape(K, T)
  BY <1>1 DEF RowsShape
<1> QED
  BY <1>2 DEF K, T

(* Less is live, and nothing else changed.                                   *)
LEMMA UndoneIsClear ==
  ASSUME NEW S \in [SetIds -> ChangeSet], NEW id \in SetIds, NEW j \in Jobs, NEW at, NEW but,
         Clear(S, j, at, but)
  PROVE  Clear(Undone(S, id), j, at, but) /\ (but = id => Clear(Undone(S, id), j, at, NoSet))
<1> DEFINE T == Undone(S, id)
<1>1. \A x \in SetIds : (LiveIn(T, x) <=> LiveIn(S, x) /\ x # id) /\ T[x].partial = S[x].partial
  BY UndoneSets
<1> HIDE DEF T
<1>2. Clear(T, j, at, but) /\ (but = id => Clear(T, j, at, NoSet))
  BY <1>1, SetParts DEF Clear
<1> QED
  BY <1>2 DEF T

LEMMA UndoneClear ==
  ASSUME NEW J \in [Jobs -> JobRow], NEW S \in [SetIds -> ChangeSet], NEW id \in SetIds,
         RowsClear(J, S), LiveIn(S, id), J[id[1]].by = id
  PROVE  RowsClear(RowRestored(J, S, id), Undone(S, id))
<1> DEFINE K == RowRestored(J, S, id)
           T == Undone(S, id)
<1>1. /\ T \in [SetIds -> ChangeSet]
      /\ \A x \in SetIds : /\ LiveIn(T, x) <=> LiveIn(S, x) /\ x # id
                           /\ T[x].before = S[x].before /\ T[x].partial = S[x].partial
      /\ \A j \in Jobs : j # id[1] => K[j] = J[j]
      /\ K[id[1]].at = S[id].before.at /\ K[id[1]].by = NoSet
  <2>1. /\ T \in [SetIds -> ChangeSet]
        /\ \A x \in SetIds : /\ LiveIn(T, x) <=> LiveIn(S, x) /\ x # id
                             /\ T[x].before = S[x].before /\ T[x].partial = S[x].partial
    BY UndoneSets
  <2>2. /\ \A j \in Jobs : j # id[1] => K[j] = J[j]
        /\ K[id[1]].at = S[id].before.at /\ K[id[1]].by = NoSet
    BY UndoneRows
  <2> QED
    BY <2>1, <2>2
<1> HIDE DEF K, T
<1>2. ASSUME NEW j \in Jobs PROVE Clear(T, j, K[j].at, NoSet)
  <2>1. CASE j = id[1]
    <3>1. Clear(S, j, S[id].before.at, id)
      BY <2>1 DEF RowsClear
    <3>2. Clear(T, j, S[id].before.at, NoSet)
      BY <2>1, <3>1, UndoneIsClear DEF T
    <3> QED
      BY <1>1, <2>1, <3>2
  <2>2. CASE j # id[1]
    <3>1. Clear(S, j, J[j].at, NoSet)
      BY DEF RowsClear
    <3>2. Clear(T, j, J[j].at, NoSet)
      BY <3>1, UndoneIsClear DEF T
    <3> QED
      BY <1>1, <2>2, <3>2
  <2> QED
    BY <2>1, <2>2
<1>3. ASSUME NEW x \in SetIds, LiveIn(T, x), K[x[1]].by = x PROVE Clear(T, x[1], T[x].before.at, x)
  <2>1. x[1] \in Jobs /\ x[1] # id[1]
    BY <1>1, <1>3, SetParts, NoSetIsNone
  <2>2. Clear(S, x[1], S[x].before.at, x)
    BY <1>1, <1>3, <2>1 DEF RowsClear
  <2>3. Clear(T, x[1], S[x].before.at, x)
    BY <2>1, <2>2, UndoneIsClear DEF T
  <2> QED
    BY <1>1, <2>3
<1>4. RowsClear(K, T)
  BY <1>2, <1>3 DEF RowsClear
<1> QED
  BY <1>4 DEF K, T
(* What a change set's undo takes away lies past the checkpoints before it.  *)
LEMMA UndoneIsBacked ==
  ASSUME NEW S \in [SetIds -> ChangeSet], NEW id \in SetIds, NEW j \in Jobs, NEW at \in Checkpoint,
         Backed(S, j, at), j = id[1] => Upto(at, Before(id))
  PROVE  Backed(Undone(S, id), j, at)
<1> DEFINE T == Undone(S, id)
<1>1. \A x \in SetIds : (LiveIn(T, x) <=> LiveIn(S, x) /\ x # id) /\ T[x].partial = S[x].partial
  BY UndoneSets
<1>2. at.batch \in 0..N /\ at.stage \in BOOLEAN /\ id[2] \in 1..N /\ N \in Nat /\ Batches = 1..N
  BY SetParts DEF Checkpoint
<1>3. ASSUME at.batch < N PROVE \A n \in Batches : n <= at.batch => HeldIn(T, j, n)
  <2> SUFFICES ASSUME NEW n \in Batches, n <= at.batch PROVE HeldIn(T, j, n)
    OBVIOUS
  <2>1. HeldIn(S, j, n)
    BY <1>3 DEF Backed
  <2>2. id # BatchOf(j, n) /\ id # StageOf(j, n)
    <3>1. j = id[1] => n < id[2]
      BY <1>2 DEF Upto, Before
    <3> QED
      BY <1>2, <3>1 DEF BatchOf, StageOf
  <2> HIDE DEF T
  <2> QED
    BY <1>1, <2>1, <2>2, SetParts DEF HeldIn
<1>4. ASSUME at.batch < N, at.stage PROVE LiveIn(T, BatchOf(j, at.batch + 1))
  <2>1. LiveIn(S, BatchOf(j, at.batch + 1)) /\ at.batch + 1 \in Batches
    BY <1>2, <1>4 DEF Backed
  <2>2. id # BatchOf(j, at.batch + 1)
    <3> SUFFICES ASSUME id = BatchOf(j, at.batch + 1) PROVE FALSE
      OBVIOUS
    <3>1. id[1] = j /\ id[2] = at.batch + 1 /\ id[3] = "batch"
      BY DEF BatchOf
    <3>2. at = [batch |-> id[2] - 1, stage |-> id[3] = "stage"]
      BY <1>2, <3>1 DEF Upto, Before
    <3>3. at.stage = (id[3] = "stage")
      BY <3>2
    <3> QED
      BY <1>4, <3>1, <3>3
  <2> HIDE DEF T
  <2> QED
    BY <1>1, <2>1, <2>2, SetParts
<1> HIDE DEF T
<1>5. Backed(T, j, at)
  BY <1>3, <1>4 DEF Backed
<1> QED
  BY <1>5 DEF T

LEMMA UndoneBacked ==
  ASSUME NEW J \in [Jobs -> JobRow], NEW S \in [SetIds -> ChangeSet], NEW id \in SetIds,
         RowsBacked(J, S), LiveIn(S, id), J[id[1]].by = id
  PROVE  RowsBacked(RowRestored(J, S, id), Undone(S, id))
<1> DEFINE K == RowRestored(J, S, id)
           T == Undone(S, id)
<1>1. \A x \in SetIds : (LiveIn(T, x) <=> LiveIn(S, x) /\ x # id) /\ T[x].before = S[x].before
  BY UndoneSets
<1>2. /\ \A j \in Jobs : j # id[1] => K[j] = J[j]
      /\ K[id[1]].at = S[id].before.at /\ K[id[1]].by = NoSet
  BY UndoneRows
<1> HIDE DEF K
<1>3. ASSUME NEW j \in Jobs PROVE Backed(T, j, K[j].at)
  <2>1. CASE j = id[1]
    <3>1. Backed(S, j, S[id].before.at) /\ Upto(S[id].before.at, Before(id)) /\ S[id].before.at \in Checkpoint
      BY <2>1, RowParts DEF RowsBacked
    <3> QED
      BY <1>2, <2>1, <3>1, UndoneIsBacked
  <2>2. CASE j # id[1]
    <3>1. Backed(S, j, J[j].at) /\ J[j].at \in Checkpoint
      BY RowParts DEF RowsBacked
    <3>2. Backed(T, j, J[j].at)
      BY <2>2, <3>1, UndoneIsBacked
    <3> QED
      BY <1>2, <2>2, <3>2
  <2> QED
    BY <2>1, <2>2
<1>4. ASSUME NEW x \in SetIds, LiveIn(T, x), K[x[1]].by = x
      PROVE  Backed(T, x[1], T[x].before.at) /\ Upto(T[x].before.at, Before(x))
  <2>1. x[1] \in Jobs /\ x[1] # id[1]
    BY <1>2, <1>4, SetParts, NoSetIsNone
  <2>2. Backed(S, x[1], S[x].before.at) /\ Upto(S[x].before.at, Before(x)) /\ S[x].before.at \in Checkpoint
    <3>1. LiveIn(S, x) /\ J[x[1]].by = x
      BY <1>1, <1>2, <1>4, <2>1
    <3> QED
      BY <3>1, RowParts DEF RowsBacked
  <2>3. Backed(T, x[1], S[x].before.at)
    BY <2>1, <2>2, UndoneIsBacked
  <2> QED
    BY <1>1, <2>2, <2>3
<1> HIDE DEF T
<1>5. RowsBacked(K, T)
  BY <1>3, <1>4 DEF RowsBacked
<1> QED
  BY <1>5 DEF K, T

(* Writing the row of a job.                                                 *)
LEMMA PersistedRows ==
  ASSUME NEW J \in [Jobs -> JobRow], NEW j \in Jobs, NEW at \in Checkpoint,
         NEW status \in {"running", "paused", "failed", "completed"}
  PROVE  /\ Persisted(J, j, status, at) \in [Jobs -> JobRow]
         /\ \A k \in Jobs : k # j => Persisted(J, j, status, at)[k] = J[k]
         /\ Persisted(J, j, status, at)[j] = [status |-> status, at |-> at, by |-> NoSet]
BY DEF Persisted, JobRow

LEMMA PersistedKeeps ==
  ASSUME NEW J \in [Jobs -> JobRow], NEW S \in [SetIds -> ChangeSet], NEW j \in Jobs, NEW at \in Checkpoint,
         NEW status \in {"running", "paused", "failed", "completed"}
  PROVE  /\ RowsShape(J, S) /\ Proper(at) => RowsShape(Persisted(J, j, status, at), S)
         /\ RowsClear(J, S) /\ Clear(S, j, at, NoSet) => RowsClear(Persisted(J, j, status, at), S)
         /\ RowsBacked(J, S) /\ Backed(S, j, at) => RowsBacked(Persisted(J, j, status, at), S)
<1> DEFINE K == Persisted(J, j, status, at)
<1>1. \A k \in Jobs : k # j => K[k] = J[k]
  BY DEF Persisted
<1>2. K[j].status = status /\ K[j].at = at /\ K[j].by = NoSet
  BY DEF Persisted
<1> HIDE DEF K
<1>3. \A id \in SetIds : id[1] \in Jobs /\ (K[id[1]].by = id => J[id[1]].by = id)
  BY <1>1, <1>2, SetParts, NoSetIsNone
<1>4. RowsShape(J, S) /\ Proper(at) => RowsShape(K, S)
  BY <1>1, <1>2 DEF RowsShape
<1>5. RowsClear(J, S) /\ Clear(S, j, at, NoSet) => RowsClear(K, S)
  BY <1>1, <1>2, <1>3 DEF RowsClear
<1>6. RowsBacked(J, S) /\ Backed(S, j, at) => RowsBacked(K, S)
  BY <1>1, <1>2, <1>3 DEF RowsBacked
<1> QED
  BY <1>4, <1>5, <1>6 DEF K
(* Committing a change set, and the job row with it.                         *)
LEMMA CommittedShape ==
  ASSUME NEW J \in [Jobs -> JobRow], NEW S \in [SetIds -> ChangeSet], NEW id \in SetIds,
         NEW set \in ChangeSet, NEW row \in JobRow, set.before = J[id[1]], RowsShape(J, S),
         row.status # "none", Proper(row.at), id[3] = "stage" => ~set.partial
  PROVE  RowsShape([J EXCEPT ![id[1]] = row], [S EXCEPT ![id] = set])
BY SetParts DEF RowsShape

LEMMA CommittedClear ==
  ASSUME NEW J \in [Jobs -> JobRow], NEW S \in [SetIds -> ChangeSet], NEW id \in SetIds,
         NEW set \in ChangeSet, NEW row \in JobRow, set.before = J[id[1]], row.by = id,
         RowsClear(J, S), Clear([S EXCEPT ![id] = set], id[1], row.at, NoSet)
  PROVE  RowsClear([J EXCEPT ![id[1]] = row], [S EXCEPT ![id] = set])
<1> DEFINE K == [J EXCEPT ![id[1]] = row]
           T == [S EXCEPT ![id] = set]
<1>1. /\ id[1] \in Jobs /\ K[id[1]] = row /\ T[id] = set
      /\ \A j \in Jobs : j # id[1] => K[j] = J[j]
      /\ \A x \in SetIds : x # id => T[x] = S[x]
  BY SetParts
<1>2. Clear(T, id[1], row.at, NoSet)
  OBVIOUS
<1> HIDE DEF K, T
<1>3. \A j \in Jobs, n \in Batches : j # id[1] => BatchOf(j, n) # id /\ StageOf(j, n) # id
  BY DEF BatchOf, StageOf
<1>4. ASSUME NEW j \in Jobs, j # id[1], NEW at, NEW but, Clear(S, j, at, but) PROVE Clear(T, j, at, but)
  <2>1. \A n \in Batches : T[BatchOf(j, n)] = S[BatchOf(j, n)] /\ T[StageOf(j, n)] = S[StageOf(j, n)]
    BY <1>1, <1>3, <1>4, SetParts
  <2> QED
    BY <1>4, <2>1 DEF Clear, LiveIn
<1>5. ASSUME NEW at, Clear(S, id[1], at, NoSet) PROVE Clear(T, id[1], at, id)
  <2> SUFFICES ASSUME NEW n \in Batches, n > at.batch
               PROVE  /\ StageOf(id[1], n) # id => ~LiveIn(T, StageOf(id[1], n))
                      /\ BatchOf(id[1], n) # id /\ LiveIn(T, BatchOf(id[1], n))
                            => at.stage /\ n = at.batch + 1 /\ T[BatchOf(id[1], n)].partial
    BY DEF Clear
  <2>1. /\ ~LiveIn(S, StageOf(id[1], n))
        /\ LiveIn(S, BatchOf(id[1], n)) => at.stage /\ n = at.batch + 1 /\ S[BatchOf(id[1], n)].partial
    BY <1>1, <1>5, SetParts DEF Clear
  <2>2. /\ StageOf(id[1], n) # id => T[StageOf(id[1], n)] = S[StageOf(id[1], n)]
        /\ BatchOf(id[1], n) # id => T[BatchOf(id[1], n)] = S[BatchOf(id[1], n)]
    BY <1>1, SetParts
  <2> QED
    BY <2>1, <2>2 DEF LiveIn
<1>6. \A j \in Jobs : Clear(T, j, K[j].at, NoSet)
  BY <1>1, <1>2, <1>4 DEF RowsClear
<1>7. ASSUME NEW x \in SetIds, LiveIn(T, x), K[x[1]].by = x PROVE Clear(T, x[1], T[x].before.at, x)
  <2>1. CASE x = id
    BY <1>1, <1>5, <2>1 DEF RowsClear
  <2>2. CASE x # id
    <3>1. x[1] \in Jobs /\ x[1] # id[1]
      BY <1>1, <1>7, <2>2, SetParts
    <3>2. LiveIn(S, x) /\ J[x[1]].by = x /\ T[x] = S[x]
      BY <1>1, <1>7, <2>2, <3>1 DEF LiveIn
    <3> QED
      BY <1>4, <3>1, <3>2 DEF RowsClear
  <2> QED
    BY <2>1, <2>2
<1>8. RowsClear(K, T)
  BY <1>6, <1>7 DEF RowsClear
<1> QED
  BY <1>8 DEF K, T

LEMMA CommittedIsBacked ==
  ASSUME NEW S \in [SetIds -> ChangeSet], NEW id \in SetIds, NEW set \in ChangeSet,
         ~LiveIn(S, id), set.status = "live"
  PROVE  /\ \A j \in Jobs, n \in Batches : HeldIn(S, j, n) => HeldIn([S EXCEPT ![id] = set], j, n)
         /\ \A j \in Jobs, at \in Checkpoint : Backed(S, j, at) => Backed([S EXCEPT ![id] = set], j, at)
<1> DEFINE T == [S EXCEPT ![id] = set]
<1>1. \A x \in SetIds : (LiveIn(S, x) => LiveIn(T, x) /\ T[x] = S[x])
  BY DEF LiveIn
<1>2. T[id] = set /\ LiveIn(T, id)
  BY DEF LiveIn
<1> HIDE DEF T
<1>3. ASSUME NEW j \in Jobs, NEW n \in Batches, HeldIn(S, j, n) PROVE HeldIn(T, j, n)
  <2>1. BatchOf(j, n) \in SetIds /\ StageOf(j, n) \in SetIds
    BY SetParts
  <2> QED
    BY <1>1, <1>3, <2>1 DEF HeldIn
<1>4. ASSUME NEW j \in Jobs, NEW at \in Checkpoint, Backed(S, j, at) PROVE Backed(T, j, at)
  <2>1. at.batch \in 0..N /\ N \in Nat /\ (at.batch < N => at.batch + 1 \in Batches)
    BY SetParts DEF Checkpoint
  <2>2. at.batch < N => BatchOf(j, at.batch + 1) \in SetIds
    BY <2>1, SetParts
  <2> QED
    BY <1>1, <1>3, <1>4, <2>2 DEF Backed
<1> QED
  BY <1>3, <1>4 DEF T

LEMMA CommittedBacked ==
  ASSUME NEW J \in [Jobs -> JobRow], NEW S \in [SetIds -> ChangeSet], NEW id \in SetIds,
         NEW set \in ChangeSet, NEW row \in JobRow, set.before = J[id[1]], row.by = id,
         set.status = "live", ~LiveIn(S, id), Upto(J[id[1]].at, Before(id)),
         RowsBacked(J, S), Backed([S EXCEPT ![id] = set], id[1], row.at)
  PROVE  RowsBacked([J EXCEPT ![id[1]] = row], [S EXCEPT ![id] = set])
<1> DEFINE K == [J EXCEPT ![id[1]] = row]
           T == [S EXCEPT ![id] = set]
<1>1. /\ id[1] \in Jobs /\ K[id[1]] = row /\ T[id] = set
      /\ \A j \in Jobs : j # id[1] => K[j] = J[j]
      /\ \A x \in SetIds : x # id => T[x] = S[x]
  BY SetParts
<1>2. \A j \in Jobs, at \in Checkpoint : Backed(S, j, at) => Backed(T, j, at)
  BY CommittedIsBacked
<1>3. Backed(T, id[1], row.at)
  OBVIOUS
<1> HIDE DEF K, T
<1>4. \A j \in Jobs : Backed(S, j, J[j].at) /\ J[j].at \in Checkpoint
  BY RowParts DEF RowsBacked
<1>5. \A j \in Jobs : Backed(T, j, K[j].at)
  BY <1>1, <1>2, <1>3, <1>4
<1>6. ASSUME NEW x \in SetIds, LiveIn(T, x), K[x[1]].by = x
      PROVE  Backed(T, x[1], T[x].before.at) /\ Upto(T[x].before.at, Before(x))
  <2>1. CASE x = id
    BY <1>1, <1>2, <1>4, <2>1
  <2>2. CASE x # id
    <3>1. x[1] \in Jobs /\ x[1] # id[1]
      BY <1>1, <1>6, <2>2, SetParts
    <3>2. LiveIn(S, x) /\ J[x[1]].by = x /\ T[x] = S[x]
      BY <1>1, <1>6, <2>2, <3>1 DEF LiveIn
    <3>3. Backed(S, x[1], S[x].before.at) /\ Upto(S[x].before.at, Before(x)) /\ S[x].before.at \in Checkpoint
      BY <3>2, RowParts DEF RowsBacked
    <3> QED
      BY <1>2, <3>1, <3>2, <3>3
  <2> QED
    BY <2>1, <2>2
<1>7. RowsBacked(K, T)
  BY <1>5, <1>6 DEF RowsBacked
<1> QED
  BY <1>7 DEF K, T
-----------------------------------------------------------------------------
(* Every step keeps the types and the shape of runs and rows.                *)

LEMMA CheckpointParts ==
  \A a \in Checkpoint : a = [batch |-> a.batch, stage |-> a.stage]
BY DEF Checkpoint

LEMMA UndoneRow ==
  ASSUME TypeOK, RowsShape(jobs, sets), NEW id \in SetIds, UndoIfLive(id) \/ RollbackFails(id)
  PROVE  jobs' \in [Jobs -> JobRow] /\ sets' \in [SetIds -> ChangeSet] /\ RowsShape(jobs', sets')
<1>1. jobs \in [Jobs -> JobRow] /\ sets \in [SetIds -> ChangeSet]
  BY DEF TypeOK
<1>2. CASE UndoSet(id)
  <2>1. jobs' = RowRestored(jobs, sets, id) /\ sets' = Undone(sets, id)
    BY <1>2 DEF UndoSet, RowRestored, Undone
  <2>2. RowRestored(jobs, sets, id) \in [Jobs -> JobRow] /\ Undone(sets, id) \in [SetIds -> ChangeSet]
    BY <1>1, UndoneRows, UndoneSets
  <2>3. RowsShape(RowRestored(jobs, sets, id), Undone(sets, id))
    BY <1>1, UndoneShape
  <2> QED
    BY <2>1, <2>2, <2>3
<1>3. CASE KeepSets
  BY <1>1, <1>3 DEF KeepSets
<1> QED
  BY <1>2, <1>3 DEF UndoIfLive, RollbackFails

LEMMA PersistedRow ==
  ASSUME TypeOK, RowsShape(jobs, sets), run.job \in Jobs, NEW at \in Checkpoint, Proper(at),
         NEW status \in {"running", "paused", "failed", "completed"}, Persist(status, at), UNCHANGED sets
  PROVE  jobs' \in [Jobs -> JobRow] /\ sets' \in [SetIds -> ChangeSet] /\ RowsShape(jobs', sets')
<1>1. jobs \in [Jobs -> JobRow] /\ sets \in [SetIds -> ChangeSet]
  BY DEF TypeOK
<1>2. jobs' = Persisted(jobs, run.job, status, at)
  BY DEF Persist, Persisted
<1>3. Persisted(jobs, run.job, status, at) \in [Jobs -> JobRow]
  BY <1>1, PersistedRows
<1>4. RowsShape(Persisted(jobs, run.job, status, at), sets)
  BY <1>1, PersistedKeeps
<1> QED
  BY <1>1, <1>2, <1>3, <1>4

(* What Commit writes.                                                       *)
SetOf(partial) ==
    [status |-> "live", win |-> run.win, partial |-> partial, before |-> jobs[run.job]]
RowOf(partial) ==
    IF partial
    THEN [status |-> "paused", at |-> [run.at EXCEPT !.stage = TRUE], by |-> SetInHand]
    ELSE [status |-> "running", at |-> [batch |-> run.next, stage |-> FALSE], by |-> SetInHand]

LEMMA CommitWrites ==
  ASSUME TypeOK, RunShape, NEW partial \in BOOLEAN, Commit(partial)
  PROVE  /\ SetInHand \in SetIds /\ SetInHand[1] = run.job /\ run.job \in Jobs
         /\ SetInHand[3] = "stage" <=> run.at.stage
         /\ SetOf(partial) \in ChangeSet /\ SetOf(partial).status = "live"
         /\ SetOf(partial).before = jobs[run.job] /\ SetOf(partial).partial = partial
         /\ RowOf(partial) \in JobRow /\ RowOf(partial).by = SetInHand /\ RowOf(partial).status # "none"
         /\ Proper(RowOf(partial).at)
         /\ RowOf(partial).at = IF partial THEN [batch |-> run.at.batch, stage |-> TRUE]
                                           ELSE [batch |-> run.next, stage |-> FALSE]
         /\ jobs' = [jobs EXCEPT ![SetInHand[1]] = RowOf(partial)]
         /\ sets' = [sets EXCEPT ![SetInHand] = SetOf(partial)]
<1>1. /\ jobs \in [Jobs -> JobRow] /\ sets \in [SetIds -> ChangeSet] /\ run \in Run /\ N \in Nat
      /\ run.pc = "commit" /\ run.job \in Jobs /\ run.next = run.at.batch + 1 /\ run.next <= N
  BY Sizes DEF TypeOK, RunShape, Commit
<1>2. SetInHand \in SetIds /\ run.next \in 1..N /\ run.at.batch \in 0..N
  BY <1>1, InHand DEF Batches
<1>3. SetInHand[1] = run.job /\ (SetInHand[3] = "stage" <=> run.at.stage)
  BY DEF SetInHand
<1>4. run.at \in Checkpoint /\ run.win \in 0..MaxWindows
  BY <1>1 DEF Run
<1>5. SetOf(partial) \in ChangeSet
  BY <1>1, <1>4 DEF SetOf, ChangeSet
<1>6. RowOf(partial).at = IF partial THEN [batch |-> run.at.batch, stage |-> TRUE]
                                     ELSE [batch |-> run.next, stage |-> FALSE]
  <2>1. [run.at EXCEPT !.stage = TRUE] = [batch |-> run.at.batch, stage |-> TRUE]
    <3>1. [run.at EXCEPT !.stage = TRUE] \in Checkpoint
      BY <1>4 DEF Checkpoint
    <3>2. [run.at EXCEPT !.stage = TRUE].batch = run.at.batch /\ [run.at EXCEPT !.stage = TRUE].stage = TRUE
      BY <1>4 DEF Checkpoint
    <3> QED
      BY <3>1, <3>2, CheckpointParts
  <2>2. RowOf(TRUE).at = [run.at EXCEPT !.stage = TRUE] /\ RowOf(FALSE).at = [batch |-> run.next, stage |-> FALSE]
    BY DEF RowOf
  <2> QED
    BY <2>1, <2>2
<1>7. RowOf(partial).at \in Checkpoint /\ Proper(RowOf(partial).at)
  BY <1>1, <1>2, <1>6 DEF Checkpoint, Proper
<1>8. RowOf(partial) \in JobRow
  BY <1>2, <1>7 DEF RowOf, JobRow
<1>9. jobs' = [jobs EXCEPT ![SetInHand[1]] = RowOf(partial)] /\ sets' = [sets EXCEPT ![SetInHand] = SetOf(partial)]
  BY <1>3 DEF Commit, RowOf, SetOf
<1> QED
  BY <1>1, <1>2, <1>3, <1>5, <1>6, <1>7, <1>8, <1>9 DEF SetOf, RowOf

LEMMA CommittedRow ==
  ASSUME TypeOK, RunShape, RowsShape(jobs, sets), NEW partial \in BOOLEAN, Commit(partial)
  PROVE  jobs' \in [Jobs -> JobRow] /\ sets' \in [SetIds -> ChangeSet] /\ RowsShape(jobs', sets')
<1>1. jobs \in [Jobs -> JobRow] /\ sets \in [SetIds -> ChangeSet] /\ (partial => ~run.at.stage)
  BY DEF TypeOK, Commit
<1>2. RowsShape([jobs EXCEPT ![SetInHand[1]] = RowOf(partial)], [sets EXCEPT ![SetInHand] = SetOf(partial)])
  BY <1>1, CommitWrites, CommittedShape
<1> QED
  BY <1>1, <1>2, CommitWrites
(* A run that is begun, and one that only moves on.                          *)
LEMMA RunBegun ==
  ASSUME TypeOK, NEW j \in Jobs, NEW at \in Checkpoint, Proper(at), progress < floors, BeginRun(j, at)
  PROVE  /\ run' \in Run /\ run'.pc = "begin" /\ run'.job = j /\ run'.at = at /\ run'.base = at
         /\ run'.next = at.batch + 1 /\ run'.bumped = FALSE
<1>1. at.batch + 1 \in 0..(N + 1) /\ progress + 1 \in 0..MaxWindows /\ j \in 0..MaxJobs
  BY Sizes DEF TypeOK, Checkpoint, Jobs
<1>2. Off \in Run
  BY Sizes DEF Off, Run, Start, Checkpoint
<1> QED
  BY <1>1, <1>2 DEF BeginRun, Off, Run

LEMMA RunMoves ==
  ASSUME TypeOK, NEW pc, Goto(pc),
         pc \in {"begin", "check", "extract", "commit", "committed", "discard", "finalize", "derive",
                 "unwind", "settle", "progress", "caughtStale", "caughtRollback", "caughtError"}
  PROVE  /\ run' \in Run /\ run'.pc = pc /\ run'.job = run.job /\ run'.win = run.win /\ run'.next = run.next
         /\ run'.at = run.at /\ run'.base = run.base /\ run'.results = run.results
         /\ run'.bumped = run.bumped
BY DEF TypeOK, Goto, Run

LEMMA ShapeMoves ==
  ASSUME TypeOK, RunShape, NEW pc, run.pc # "off", Goto(pc), pc # "off",
         pc \in {"begin", "check", "extract", "commit", "committed", "discard", "finalize", "derive",
                 "unwind", "settle", "progress", "caughtStale", "caughtRollback", "caughtError"},
         pc \in {"check", "extract", "commit", "committed", "discard"} => run.next <= N,
         pc \in {"finalize", "derive", "unwind", "settle", "progress"} => run.at.batch = N
  PROVE  run' \in Run /\ RunShape'
<1>1. /\ run' \in Run /\ run'.pc = pc /\ run'.job = run.job /\ run'.next = run.next
      /\ run'.at = run.at /\ run'.base = run.base
  BY RunMoves
<1> QED
  BY <1>1 DEF RunShape, Committing, Closing, Proper

LEMMA RunOff ==
  ASSUME run' = Off
  PROVE  run' \in Run /\ RunShape' /\ run'.pc = "off"
BY Sizes DEF Off, Run, Start, Checkpoint, RunShape, Committing, Closing, Proper
LEMMA BeginsKeepRun ==
  ASSUME TypeOK, RunShape, RowsShape(jobs, sets), NEW j \in Jobs, Resume(j) \/ NewJob(j)
  PROVE  run' \in Run /\ RunShape'
<1>1. PICK at \in Checkpoint : Proper(at) /\ BeginRun(j, at)
  <2>1. CASE Resume(j)
    <3>1. jobs[j].at \in Checkpoint /\ Proper(jobs[j].at)
      BY DEF TypeOK, JobRow, RowsShape
    <3> QED
      BY <2>1, <3>1 DEF Resume
  <2>2. CASE NewJob(j)
    <3>1. Start \in Checkpoint /\ Proper(Start)
      BY Sizes DEF Start, Checkpoint, Proper
    <3> QED
      BY <2>2, <3>1 DEF NewJob
  <2> QED
    BY <2>1, <2>2
<1>2. progress < floors
  BY DEF Resume, NewJob, CanBegin
<1>3. /\ run' \in Run /\ run'.pc = "begin" /\ run'.job = j /\ run'.at = at /\ run'.base = at
      /\ run'.next = at.batch + 1
  BY <1>1, <1>2, RunBegun
<1> QED
  BY <1>1, <1>3 DEF RunShape, Committing, Closing, Proper

LEMMA KeepCommitKeepsRun ==
  ASSUME TypeOK, RunShape, KeepCommit
  PROVE  /\ run' \in Run /\ RunShape'
         /\ run'.job = run.job /\ run'.base = run.base /\ run'.bumped = run.bumped
         /\ run'.pc = IF sets[SetInHand].partial THEN "caughtError"
                      ELSE IF run.next = N THEN "finalize" ELSE "check"
         /\ run'.at = IF sets[SetInHand].partial THEN [batch |-> run.at.batch, stage |-> TRUE]
                                                 ELSE [batch |-> run.next, stage |-> FALSE]
<1>1. /\ run \in Run /\ run.at \in Checkpoint /\ N \in Nat /\ run.pc = "committed"
      /\ run.job \in Jobs /\ run.next = run.at.batch + 1 /\ run.next <= N /\ Proper(run.base)
      /\ run.results \subseteq SetIds
  BY Sizes DEF TypeOK, Run, RunShape, Committing, KeepCommit
<1>2. SetInHand \in SetIds /\ run.at.batch \in 0..N /\ run.next \in 1..N
  BY <1>1, InHand DEF Batches
<1>3. CASE sets[SetInHand].partial
  <2>1. run' = [run EXCEPT !.results = @ \cup {SetInHand}, !.at.stage = TRUE, !.pc = "caughtError"]
    BY <1>3 DEF KeepCommit
  <2>2. /\ run'.pc = "caughtError" /\ run'.job = run.job /\ run'.base = run.base /\ run'.next = run.next
        /\ run'.bumped = run.bumped /\ run'.at = [run.at EXCEPT !.stage = TRUE]
    BY <1>1, <2>1 DEF Run
  <2>3. run'.at \in Checkpoint /\ run'.at.batch = run.at.batch /\ run'.at.stage = TRUE
    BY <1>1, <2>2 DEF Checkpoint
  <2>4. run'.at = [batch |-> run.at.batch, stage |-> TRUE]
    BY <2>3, CheckpointParts
  <2>5. run' \in Run
    BY <1>1, <1>2, <2>1 DEF Run, Checkpoint
  <2> QED
    BY <1>1, <1>2, <1>3, <2>2, <2>3, <2>4, <2>5 DEF RunShape, Committing, Closing, Proper
<1>4. CASE ~sets[SetInHand].partial
  <2>1. run' = [run EXCEPT !.results = @ \cup {SetInHand}, !.next = @ + 1,
                           !.at = [batch |-> run.next, stage |-> FALSE],
                           !.pc = IF run.next = N THEN "finalize" ELSE "check"]
    BY <1>4 DEF KeepCommit
  <2>2. /\ run'.pc = (IF run.next = N THEN "finalize" ELSE "check")
        /\ run'.job = run.job /\ run'.base = run.base /\ run'.next = run.next + 1
        /\ run'.bumped = run.bumped /\ run'.at = [batch |-> run.next, stage |-> FALSE]
    BY <1>1, <2>1 DEF Run
  <2>3. run.next + 1 \in 0..(N + 1) /\ [batch |-> run.next, stage |-> FALSE] \in Checkpoint
    BY <1>1, <1>2 DEF Checkpoint
  <2>4. run' \in Run
    BY <1>1, <1>2, <2>1, <2>3 DEF Run
  <2>5. RunShape'
    BY <1>1, <1>2, <2>2 DEF RunShape, Committing, Closing, Proper
  <2> QED
    BY <1>4, <2>2, <2>4, <2>5
<1> QED
  BY <1>3, <1>4

LEMMA RunKept ==
  ASSUME TypeOK, RunShape, RowsShape(jobs, sets), Next
  PROVE  run' \in Run /\ RunShape'
<1>1. CASE Begin
  BY <1>1, BeginsKeepRun DEF Begin
<1>2. CASE CompleteResumed \/ SaveProgress \/ PersistStale \/ PersistRollbackFailed \/ Reload
           \/ \E status \in {"paused", "failed"} : PersistError(status)
  <2>1. run' = Off
    BY <1>2 DEF CompleteResumed, SaveProgress, PersistStale, PersistRollbackFailed, Reload, PersistError
  <2> QED
    BY <2>1, RunOff
<1>3. CASE BeginBatches
  <2>1. run.pc = "begin" /\ run.next <= N /\ Goto("check")
    BY <1>3 DEF BeginBatches
  <2> QED
    BY <2>1, ShapeMoves
<1>4. CASE CheckBatch
  <2>1. run.pc = "check" /\ run.next <= N
    BY <1>4 DEF CheckBatch, RunShape
  <2>2. CASE Stale
    <3>1. Goto("caughtStale")
      BY <1>4, <2>2 DEF CheckBatch, Goto
    <3> QED
      BY <2>1, <3>1, ShapeMoves
  <2>3. CASE ~Stale
    <3>1. run' = [run EXCEPT !.pc = "extract", !.aborted = FALSE] /\ run \in Run
      BY <1>4, <2>3 DEF CheckBatch, TypeOK
    <3> QED
      BY <2>1, <3>1 DEF Run, RunShape, Committing, Closing, Proper
  <2> QED
    BY <2>2, <2>3
<1>5. CASE Extracted \/ ExtractFails
  <2>1. run.pc = "extract" /\ run.next <= N
    BY <1>5 DEF Extracted, ExtractFails, RunShape
  <2>2. Goto("commit") \/ Goto("caughtStale") \/ Goto("caughtError")
    BY <1>5 DEF Extracted, ExtractFails, Caught
  <2> QED
    BY <2>1, <2>2, ShapeMoves
<1>6. CASE (\E partial \in BOOLEAN : Commit(partial)) \/ (\E same \in BOOLEAN : CommitReplays(same))
  <2>1. run.pc = "commit" /\ run.next <= N
    BY <1>6 DEF Commit, CommitReplays, RunShape
  <2>2. Goto("committed") \/ Goto("caughtStale") \/ Goto("caughtError")
    BY <1>6 DEF Commit, CommitReplays, Caught
  <2> QED
    BY <2>1, <2>2, ShapeMoves
<1>7. CASE LeaveScope \/ DiscardCommit
  <2>1. run.pc \in {"committed", "discard"} /\ run.next <= N
    BY <1>7 DEF LeaveScope, DiscardCommit, RunShape, Committing
  <2>2. Goto("discard") \/ Goto("caughtStale") \/ Goto("caughtError") \/ Goto("caughtRollback")
    BY <1>7 DEF LeaveScope, DiscardCommit, Caught
  <2> QED
    BY <2>1, <2>2, ShapeMoves
<1>8. CASE KeepCommit
  BY <1>8, KeepCommitKeepsRun
<1>9. CASE ReadForFinalize \/ (\E failed \in BOOLEAN : Derive(failed)) \/ Unwound \/ Settle \/ ProgressFails
  <2>1. run.pc \in {"finalize", "derive", "unwind", "settle", "progress"} /\ run.at.batch = N
    BY <1>9 DEF ReadForFinalize, Derive, Unwound, Settle, ProgressFails, RunShape, Closing
  <2>2. \/ Goto("caughtStale") \/ Goto("derive") \/ Goto("unwind") \/ Goto("settle") \/ Goto("progress")
        \/ Goto("caughtError")
    BY <1>9 DEF ReadForFinalize, Derive, Unwound, Settle, ProgressFails, Caught
  <2> QED
    BY <2>1, <2>2, ShapeMoves
<1>10. CASE Unwind
  <2>1. run.pc = "unwind" /\ run \in Run
    BY <1>10 DEF Unwind, TypeOK
  <2>2. run' = [run EXCEPT !.results = @ \ {Newest(run.results)}]
    BY <1>10 DEF Unwind
  <2> HIDE DEF Newest
  <2> QED
    BY <2>1, <2>2 DEF Run, RunShape, Committing, Closing, Proper
<1>11. CASE Cancel \/ SwitchAway \/ Rebound \/ Stop
  <2>1. run \in Run
    BY DEF TypeOK
  <2>2. \/ run' = run \/ run' = [run EXCEPT !.aborted = TRUE] \/ run' = [run EXCEPT !.bumped = TRUE]
        \/ run' = [run EXCEPT !.bumped = TRUE, !.aborted = TRUE]
    BY <1>11 DEF Cancel, SwitchAway, Rebound, Stop
  <2>3. CASE run' = run
    BY <2>1, <2>3 DEF RunShape, Committing, Closing
  <2>4. CASE run' = [run EXCEPT !.aborted = TRUE]
    BY <2>1, <2>4 DEF Run, RunShape, Committing, Closing, Proper
  <2>5. CASE run' = [run EXCEPT !.bumped = TRUE]
    BY <2>1, <2>5 DEF Run, RunShape, Committing, Closing, Proper
  <2>6. CASE run' = [run EXCEPT !.bumped = TRUE, !.aborted = TRUE]
    BY <2>1, <2>6 DEF Run, RunShape, Committing, Closing, Proper
  <2> QED
    BY <2>2, <2>3, <2>4, <2>5, <2>6
<1>12. CASE SwitchBack \/ StartAgain \/ Grow \/ \E id \in SetIds : UndoByUser(id)
  <2>1. run' = run
    BY <1>12 DEF SwitchBack, StartAgain, Grow, UndoByUser
  <2> QED
    BY <2>1 DEF TypeOK, RunShape, Committing, Closing
<1> QED
  BY <1>1, <1>2, <1>3, <1>4, <1>5, <1>6, <1>7, <1>8, <1>9, <1>10, <1>11, <1>12 DEF Next, Work, Environment

LEMMA RowsKept ==
  ASSUME TypeOK, RunShape, RowsShape(jobs, sets), Next
  PROVE  jobs' \in [Jobs -> JobRow] /\ sets' \in [SetIds -> ChangeSet] /\ RowsShape(jobs', sets')
<1>1. ASSUME KeepSets PROVE jobs' \in [Jobs -> JobRow] /\ sets' \in [SetIds -> ChangeSet] /\ RowsShape(jobs', sets')
  BY <1>1 DEF KeepSets, TypeOK
<1>2. run.pc # "off" => /\ run.job \in Jobs /\ run.at \in Checkpoint /\ run.base \in Checkpoint
                        /\ Proper(run.at) /\ Proper(run.base)
  BY DEF TypeOK, Run, RunShape
<1>3. CASE Begin
  BY <1>1, <1>3 DEF Begin, Resume, NewJob
<1>4. CASE CompleteResumed \/ BeginBatches \/ PersistStale \/ PersistRollbackFailed \/ Settle
           \/ \E status \in {"paused", "failed"} : PersistError(status)
  <2>1. run.pc # "off" /\ UNCHANGED sets
    BY <1>4 DEF CompleteResumed, BeginBatches, PersistStale, PersistRollbackFailed, Settle, PersistError
  <2>2. \/ UNCHANGED jobs
        \/ \E status \in {"running", "paused", "failed", "completed"}, at \in {run.at, run.base} : Persist(status, at)
    BY <1>4 DEF CompleteResumed, BeginBatches, PersistStale, PersistRollbackFailed, Settle, PersistError
  <2>3. CASE UNCHANGED jobs
    BY <1>1, <2>1, <2>3 DEF KeepSets
  <2>4. ASSUME NEW status \in {"running", "paused", "failed", "completed"}, NEW at \in {run.at, run.base},
               Persist(status, at)
        PROVE  jobs' \in [Jobs -> JobRow] /\ sets' \in [SetIds -> ChangeSet] /\ RowsShape(jobs', sets')
    <3>1. at \in Checkpoint /\ Proper(at) /\ run.job \in Jobs
      BY <1>2, <2>1
    <3> QED
      BY <2>1, <2>4, <3>1, PersistedRow
  <2> QED
    BY <2>2, <2>3, <2>4
<1>5. CASE \E partial \in BOOLEAN : Commit(partial)
  BY <1>5, CommittedRow
<1>6. CASE DiscardCommit
  <2>1. run.pc = "discard" /\ (UndoIfLive(SetInHand) \/ RollbackFails(SetInHand))
    BY <1>6 DEF DiscardCommit
  <2>2. SetInHand \in SetIds
    BY <2>1, InHand DEF RunShape, Committing
  <2> QED
    BY <2>1, <2>2, UndoneRow
<1>7. CASE Unwind
  <2>1. UndoIfLive(Newest(run.results)) \/ RollbackFails(Newest(run.results))
    BY <1>7 DEF Unwind
  <2>2. Newest(run.results) \in SetIds
    BY <1>7, NewestInResults DEF Unwind
  <2> QED
    BY <2>1, <2>2, UndoneRow
<1>8. CASE \E id \in SetIds : UndoByUser(id)
  <2>1. PICK id \in SetIds : UndoIfLive(id)
    BY <1>8 DEF UndoByUser, UndoIfLive
  <2> QED
    BY <2>1, UndoneRow
<1>9. CASE \/ CheckBatch \/ Extracted \/ (\E same \in BOOLEAN : CommitReplays(same)) \/ LeaveScope \/ KeepCommit
           \/ (\E failed \in BOOLEAN : Derive(failed)) \/ ReadForFinalize \/ Unwound \/ SaveProgress
           \/ ExtractFails \/ ProgressFails \/ Cancel \/ SwitchAway \/ Rebound \/ SwitchBack
           \/ Stop \/ StartAgain \/ Reload \/ Grow
  <2>1. KeepSets
    BY <1>9 DEF CheckBatch, Extracted, CommitReplays, LeaveScope, KeepCommit, Derive, ReadForFinalize, Unwound,
                SaveProgress, ExtractFails, ProgressFails, Cancel, SwitchAway, Rebound, SwitchBack,
                Stop, StartAgain, Reload, Grow
  <2> QED
    BY <1>1, <2>1
<1> QED
  BY <1>3, <1>4, <1>5, <1>6, <1>7, <1>8, <1>9 DEF Next, Work, Environment

LEMMA TypesKept ==
  ASSUME TypeOK, RunShape, RowsShape(jobs, sets), Next
  PROVE  TypeOK' /\ RunShape' /\ RowsShape(jobs', sets')
<1>1. progress' \in 0..MaxWindows /\ floors' \in 0..MaxWindows
  <2>1. progress \in 0..MaxWindows /\ floors \in 0..MaxWindows /\ run.win \in 0..MaxWindows /\ MaxWindows \in Nat
    BY Sizes DEF TypeOK, Run
  <2>2. \/ progress' = progress /\ floors' = floors
        \/ progress' = run.win /\ floors' = floors
        \/ progress' = progress /\ floors' = floors + 1 /\ floors < MaxWindows
    BY DEF Next, Begin, Work, Environment, Resume, NewJob, CompleteResumed, BeginBatches, CheckBatch, Extracted,
           Commit, CommitReplays, LeaveScope, DiscardCommit, KeepCommit, Derive, ReadForFinalize, Unwind, Unwound,
           Settle, SaveProgress, PersistStale, PersistRollbackFailed, PersistError, ExtractFails, ProgressFails,
           Cancel, SwitchAway, Rebound, SwitchBack, Stop, StartAgain, Reload, Grow, UndoByUser, Outer
  <2> QED
    BY <2>1, <2>2
<1>2. away' \in BOOLEAN /\ stopped' \in BOOLEAN /\ upsets' \in 0..MaxUpsets
  <2>1. away \in BOOLEAN /\ stopped \in BOOLEAN /\ upsets \in 0..MaxUpsets /\ MaxUpsets \in Nat
    BY Sizes DEF TypeOK
  <2>2. /\ away' \in {away, TRUE, FALSE} /\ stopped' \in {stopped, TRUE, FALSE}
        /\ upsets' = upsets \/ (upsets < MaxUpsets /\ upsets' = upsets + 1)
    BY DEF Next, Begin, Work, Environment, Resume, NewJob, CompleteResumed, BeginBatches, CheckBatch, Extracted,
           Commit, CommitReplays, LeaveScope, DiscardCommit, KeepCommit, Derive, ReadForFinalize, Unwind, Unwound,
           Settle, SaveProgress, PersistStale, PersistRollbackFailed, PersistError, ExtractFails, ProgressFails,
           Cancel, SwitchAway, Rebound, SwitchBack, Stop, StartAgain, Reload, Grow, UndoByUser, Outer, Upset
  <2>3. away' \in BOOLEAN /\ stopped' \in BOOLEAN
    BY <2>1, <2>2, Zenon
  <2>4. upsets' \in 0..MaxUpsets
    BY <2>1, <2>2
  <2> QED
    BY <2>3, <2>4
<1> QED
  BY <1>1, <1>2, RunKept, RowsKept DEF TypeOK
-----------------------------------------------------------------------------
(* Unless rollbacks fail of their own accord, nothing is held past a         *)
(* checkpoint.                                                               *)

LEMMA AheadOutside ==
  ASSUME RowsClear(jobs', sets'), run'.pc \notin {"committed", "discard", "caughtRollback"},
         run'.pc # "off" => Clear(sets', run'.job, run'.at, NoSet)
  PROVE  NothingAhead'
BY DEF NothingAhead, Committing

LEMMA AheadQuiet ==
  ASSUME NothingAhead, KeepSets, run'.pc # "caughtRollback",
         run'.pc # "off" => /\ run.pc # "off" /\ run'.job = run.job /\ run'.at = run.at /\ run'.next = run.next
                            /\ Committing' <=> Committing
  PROVE  NothingAhead'
<1>1. run'.pc # "off" => SetInHand' = SetInHand
  BY DEF SetInHand
<1>2. Committing' => run'.pc # "off"
  BY DEF Committing
<1> QED
  BY <1>1, <1>2 DEF NothingAhead, KeepSets

LEMMA AheadPersists ==
  ASSUME TypeOK, RunShape, NothingAhead, run.pc # "off", ~Committing,
         NEW status \in {"running", "paused", "failed", "completed"}, Persist(status, run.at), UNCHANGED sets,
         run'.pc \notin {"committed", "discard", "caughtRollback"},
         run'.pc # "off" => run'.job = run.job /\ run'.at = run.at
  PROVE  NothingAhead'
<1>1. /\ jobs \in [Jobs -> JobRow] /\ sets \in [SetIds -> ChangeSet] /\ run.job \in Jobs /\ run.at \in Checkpoint
      /\ RowsClear(jobs, sets) /\ Clear(sets, run.job, run.at, NoSet)
  BY DEF TypeOK, Run, RunShape, NothingAhead
<1>2. jobs' = Persisted(jobs, run.job, status, run.at)
  BY DEF Persist, Persisted
<1>3. RowsClear(Persisted(jobs, run.job, status, run.at), sets)
  BY <1>1, PersistedKeeps
<1> QED
  BY <1>1, <1>2, <1>3, AheadOutside

LEMMA AheadUndone ==
  ASSUME TypeOK, NothingAhead, NEW id \in SetIds, Undoable(id), UndoSet(id)
  PROVE  /\ RowsClear(jobs', sets')
         /\ \A j \in Jobs : \A at, but : Clear(sets, j, at, but) => Clear(sets', j, at, but)
         /\ \A j \in Jobs : \A at : Clear(sets, j, at, id) => Clear(sets', j, at, NoSet)
<1>1. /\ jobs \in [Jobs -> JobRow] /\ sets \in [SetIds -> ChangeSet] /\ RowsClear(jobs, sets)
      /\ LiveIn(sets, id) /\ jobs[id[1]].by = id
  BY DEF TypeOK, NothingAhead, Undoable, LiveIn
<1>2. jobs' = RowRestored(jobs, sets, id) /\ sets' = Undone(sets, id)
  BY DEF UndoSet, RowRestored, Undone
<1>3. RowsClear(RowRestored(jobs, sets, id), Undone(sets, id))
  BY <1>1, UndoneClear
<1>4. ASSUME NEW j \in Jobs, NEW at, NEW but, Clear(sets, j, at, but)
      PROVE  Clear(sets', j, at, but) /\ (but = id => Clear(sets', j, at, NoSet))
  BY <1>1, <1>2, <1>4, UndoneIsClear
<1> QED
  BY <1>2, <1>3, <1>4

LEMMA AheadBegins ==
  ASSUME TypeOK, RowsShape(jobs, sets), NothingAhead, NEW j \in Jobs, Resume(j) \/ NewJob(j)
  PROVE  NothingAhead'
<1>1. jobs[j].at \in Checkpoint /\ Proper(jobs[j].at) /\ progress < floors /\ KeepSets
  BY DEF TypeOK, JobRow, RowsShape, Resume, NewJob, CanBegin
<1>2. BeginRun(j, jobs[j].at)
  BY DEF Resume, NewJob, RowsShape
<1>3. run'.pc = "begin" /\ run'.job = j /\ run'.at = jobs[j].at
  BY <1>1, <1>2, RunBegun
<1>4. RowsClear(jobs', sets') /\ Clear(sets', j, jobs[j].at, NoSet)
  BY <1>1 DEF NothingAhead, RowsClear, KeepSets
<1> QED
  BY <1>3, <1>4, AheadOutside

LEMMA AheadCommitted ==
  ASSUME TypeOK, RunShape, NothingAhead, NEW partial \in BOOLEAN, Commit(partial)
  PROVE  NothingAhead'
<1> DEFINE S == sets
           T == [sets EXCEPT ![SetInHand] = SetOf(partial)]
           j == run.job
           at == run.at
<1>1. /\ jobs \in [Jobs -> JobRow] /\ S \in [SetIds -> ChangeSet] /\ j \in Jobs
      /\ RowsClear(jobs, S) /\ Clear(S, j, at, NoSet) /\ run.pc = "commit"
      /\ run.next = at.batch + 1 /\ at.batch \in 0..N /\ (partial => ~at.stage)
  <2>1. run.pc = "commit" /\ ~Committing
    BY DEF Commit, Committing
  <2> QED
    BY <2>1 DEF TypeOK, Run, Checkpoint, RunShape, NothingAhead, Commit
<1>2. SetInHand = IF at.stage THEN StageOf(j, run.next) ELSE BatchOf(j, run.next)
  BY DEF SetInHand, StageOf, BatchOf
<1>3. /\ SetInHand \in SetIds /\ SetInHand[1] = j /\ SetOf(partial) \in ChangeSet /\ RowOf(partial) \in JobRow
      /\ SetOf(partial).before = jobs[SetInHand[1]] /\ RowOf(partial).by = SetInHand
      /\ SetOf(partial).partial = partial
      /\ jobs' = [jobs EXCEPT ![SetInHand[1]] = RowOf(partial)] /\ sets' = T
      /\ RowOf(partial).at = IF partial THEN [batch |-> at.batch, stage |-> TRUE]
                                        ELSE [batch |-> run.next, stage |-> FALSE]
  BY CommitWrites
<1>4. T[SetInHand] = SetOf(partial) /\ \A x \in SetIds : x # SetInHand => T[x] = S[x]
  BY <1>1, <1>3
<1>5. run' = [run EXCEPT !.pc = "committed"]
  BY DEF Commit, Goto
<1>6. /\ run'.pc = "committed" /\ run'.job = j /\ run'.at = at /\ run'.next = run.next
  BY <1>5, RunMoves DEF Goto
<1> HIDE DEF T
<1>7. Clear(T, j, RowOf(partial).at, NoSet)
  <2> SUFFICES ASSUME NEW n \in Batches, n > RowOf(partial).at.batch
               PROVE  /\ ~LiveIn(T, StageOf(j, n))
                      /\ LiveIn(T, BatchOf(j, n)) => /\ RowOf(partial).at.stage /\ n = RowOf(partial).at.batch + 1
                                                     /\ T[BatchOf(j, n)].partial
    BY DEF Clear
  <2>1. n > at.batch /\ n \in 1..N
    BY <1>1, <1>3 DEF Batches
  <2>2. /\ ~LiveIn(S, StageOf(j, n))
        /\ LiveIn(S, BatchOf(j, n)) => at.stage /\ n = at.batch + 1 /\ S[BatchOf(j, n)].partial
    BY <1>1, <2>1, SetParts DEF Clear
  <2>3. StageOf(j, n) \in SetIds /\ BatchOf(j, n) \in SetIds /\ StageOf(j, n) # BatchOf(j, n)
    BY <1>1, SetParts
  <2>4. CASE partial
    <3>1. ~at.stage /\ SetInHand = BatchOf(j, run.next) /\ RowOf(partial).at = [batch |-> at.batch, stage |-> TRUE]
      BY <1>1, <1>2, <1>3, <2>4
    <3>2. ~LiveIn(T, StageOf(j, n))
      <4>1. SetInHand # StageOf(j, n)
        BY <3>1 DEF BatchOf, StageOf
      <4> QED
        BY <1>4, <2>2, <2>3, <4>1 DEF LiveIn
    <3>3. LiveIn(T, BatchOf(j, n)) => n = run.next /\ T[BatchOf(j, n)].partial
      <4>1. CASE BatchOf(j, n) = SetInHand
        <5>1. n = run.next
          BY <3>1, <4>1 DEF BatchOf
        <5> QED
          BY <1>3, <1>4, <2>4, <4>1, <5>1
      <4>2. CASE BatchOf(j, n) # SetInHand
        BY <1>4, <2>2, <2>3, <3>1, <4>2 DEF LiveIn
      <4> QED
        BY <4>1, <4>2
    <3> QED
      BY <1>1, <3>1, <3>2, <3>3
  <2>5. CASE ~partial
    <3>1. n > run.next
      BY <1>3, <2>5
    <3>2. SetInHand # BatchOf(j, n) /\ SetInHand # StageOf(j, n)
      BY <1>1, <1>2, <3>1 DEF BatchOf, StageOf
    <3>3. n # at.batch + 1
      BY <1>1, <2>1, <3>1
    <3> QED
      BY <1>4, <2>2, <2>3, <3>2, <3>3 DEF LiveIn
  <2> QED
    BY <2>4, <2>5
<1>8. Clear(T, j, at, SetInHand)
  <2> SUFFICES ASSUME NEW n \in Batches, n > at.batch
               PROVE  /\ StageOf(j, n) # SetInHand => ~LiveIn(T, StageOf(j, n))
                      /\ BatchOf(j, n) # SetInHand /\ LiveIn(T, BatchOf(j, n))
                            => at.stage /\ n = at.batch + 1 /\ T[BatchOf(j, n)].partial
    BY DEF Clear
  <2>1. /\ ~LiveIn(S, StageOf(j, n))
        /\ LiveIn(S, BatchOf(j, n)) => at.stage /\ n = at.batch + 1 /\ S[BatchOf(j, n)].partial
    BY <1>1, SetParts DEF Clear
  <2>2. StageOf(j, n) \in SetIds /\ BatchOf(j, n) \in SetIds
    BY <1>1, SetParts
  <2> QED
    BY <1>4, <2>1, <2>2 DEF LiveIn
<1>9. RowsClear(jobs', sets')
  <2>1. RowsClear([jobs EXCEPT ![SetInHand[1]] = RowOf(partial)], [sets EXCEPT ![SetInHand] = SetOf(partial)])
    BY <1>1, <1>3, <1>7, CommittedClear DEF T
  <2> QED
    BY <1>3, <2>1 DEF T
<1>10. SetInHand' = SetInHand /\ Committing'
  BY <1>6 DEF SetInHand, Committing
<1>11. jobs'[j].by = SetInHand
  BY <1>1, <1>3
<1>12. run'.pc # "off" /\ run'.pc # "caughtRollback"
  BY <1>6
<1> QED
  BY <1>3, <1>6, <1>8, <1>9, <1>10, <1>11, <1>12 DEF NothingAhead
LEMMA AheadKeptCommit ==
  ASSUME TypeOK, RunShape, RowsShape(jobs, sets), NothingAhead, KeepCommit
  PROVE  NothingAhead'
<1>1. /\ run.pc = "committed" /\ run.job \in Jobs /\ run.next = run.at.batch + 1 /\ run.next <= N
      /\ run.at.batch \in 0..N /\ N \in Nat /\ KeepSets
      /\ RowsClear(jobs, sets) /\ Clear(sets, run.job, run.at, SetInHand)
  BY Sizes DEF TypeOK, Run, Checkpoint, RunShape, Committing, KeepCommit, NothingAhead
<1>2. /\ run'.job = run.job
      /\ run'.pc = IF sets[SetInHand].partial THEN "caughtError"
                   ELSE IF run.next = N THEN "finalize" ELSE "check"
      /\ run'.at = IF sets[SetInHand].partial THEN [batch |-> run.at.batch, stage |-> TRUE]
                                              ELSE [batch |-> run.next, stage |-> FALSE]
  BY KeepCommitKeepsRun
<1>3. /\ SetInHand = IF run.at.stage THEN StageOf(run.job, run.next) ELSE BatchOf(run.job, run.next)
      /\ SetInHand \in SetIds
  BY <1>1, InHand
<1>4. sets[SetInHand].partial => ~run.at.stage
  <2>1. SetInHand[3] = "stage" => ~sets[SetInHand].partial
    BY <1>3 DEF RowsShape
  <2> QED
    BY <2>1 DEF SetInHand
<1>5. Clear(sets, run.job, run'.at, NoSet)
  <2> SUFFICES ASSUME NEW n \in Batches, n > run'.at.batch
               PROVE  /\ ~LiveIn(sets, StageOf(run.job, n))
                      /\ LiveIn(sets, BatchOf(run.job, n)) => /\ run'.at.stage /\ n = run'.at.batch + 1
                                                              /\ sets[BatchOf(run.job, n)].partial
    BY DEF Clear
  <2>1. n \in 1..N /\ n > run.at.batch
    BY <1>1, <1>2 DEF Batches
  <2>2. /\ StageOf(run.job, n) # SetInHand => ~LiveIn(sets, StageOf(run.job, n))
        /\ BatchOf(run.job, n) # SetInHand /\ LiveIn(sets, BatchOf(run.job, n))
              => run.at.stage /\ n = run.at.batch + 1
    BY <1>1, <2>1 DEF Clear
  <2>3. CASE sets[SetInHand].partial
    <3>1. ~run.at.stage /\ SetInHand = BatchOf(run.job, run.next) /\ run'.at = [batch |-> run.at.batch, stage |-> TRUE]
      BY <1>2, <1>3, <1>4, <2>3
    <3>2. ~LiveIn(sets, StageOf(run.job, n))
      <4>1. StageOf(run.job, n) # SetInHand
        BY <3>1 DEF StageOf, BatchOf
      <4> QED
        BY <2>2, <4>1
    <3>3. LiveIn(sets, BatchOf(run.job, n)) => BatchOf(run.job, n) = SetInHand
      BY <2>2, <3>1
    <3>4. BatchOf(run.job, n) = SetInHand => n = run.next /\ sets[BatchOf(run.job, n)].partial
      BY <2>3, <3>1 DEF BatchOf
    <3> QED
      BY <1>1, <3>1, <3>2, <3>3, <3>4
  <2>4. CASE ~sets[SetInHand].partial
    <3>1. n > run.next
      BY <1>2, <2>4
    <3>2. StageOf(run.job, n) # SetInHand /\ BatchOf(run.job, n) # SetInHand
      BY <1>1, <1>3, <3>1 DEF StageOf, BatchOf
    <3> QED
      BY <1>1, <2>1, <2>2, <3>1, <3>2
  <2> QED
    BY <2>3, <2>4
<1>6. RowsClear(jobs', sets') /\ Clear(sets', run'.job, run'.at, NoSet)
  BY <1>1, <1>2, <1>5 DEF KeepSets
<1> QED
  BY <1>2, <1>6, AheadOutside

LEMMA AheadDiscards ==
  ASSUME TypeOK, RunShape, NothingAhead, ~setting.rollbackFails, DiscardCommit
  PROVE  NothingAhead'
<1>1. /\ run.pc = "discard" /\ run.job \in Jobs /\ SetInHand \in SetIds
      /\ RowsClear(jobs, sets) /\ Clear(sets, run.job, run.at, SetInHand)
      /\ LiveIn(sets, SetInHand) => jobs[run.job].by = SetInHand
  <2>1. run.pc = "discard" /\ Committing
    BY DEF DiscardCommit, Committing
  <2>2. SetInHand \in SetIds
    BY <2>1, InHand DEF RunShape
  <2> QED
    BY <2>1, <2>2 DEF RunShape, NothingAhead
<1>2. UndoIfLive(SetInHand) /\ Goto(Caught)
  <2>1. SetInHand[1] = run.job
    BY DEF SetInHand
  <2>2. ~RollbackFails(SetInHand)
    BY <1>1, <2>1 DEF RollbackFails, Undoable, LiveIn
  <2> QED
    BY <2>2 DEF DiscardCommit
<1>3. run'.pc \in {"caughtStale", "caughtError"} /\ run'.job = run.job /\ run'.at = run.at
  BY <1>2, RunMoves DEF Caught
<1>4. CASE Undoable(SetInHand) /\ UndoSet(SetInHand)
  <2>1. RowsClear(jobs', sets') /\ Clear(sets', run.job, run.at, NoSet)
    BY <1>1, <1>4, AheadUndone
  <2> QED
    BY <1>3, <2>1, AheadOutside
<1>5. CASE ~LiveIn(sets, SetInHand) /\ KeepSets
  <2>1. Clear(sets, run.job, run.at, NoSet)
    BY <1>1, <1>5, SetParts DEF Clear
  <2>2. RowsClear(jobs', sets') /\ Clear(sets', run.job, run.at, NoSet)
    BY <1>1, <1>5, <2>1 DEF KeepSets
  <2> QED
    BY <1>3, <2>2, AheadOutside
<1> QED
  BY <1>2, <1>4, <1>5 DEF UndoIfLive, LiveIn

LEMMA AheadUnwinds ==
  ASSUME TypeOK, RunShape, NothingAhead, ~setting.rollbackFails, Unwind
  PROVE  NothingAhead'
<1> DEFINE id == Newest(run.results)
<1>1. /\ run.pc = "unwind" /\ run \in Run /\ run.job \in Jobs /\ (UndoIfLive(id) \/ RollbackFails(id))
      /\ run' = [run EXCEPT !.results = @ \ {id}] /\ RowsClear(jobs, sets) /\ Clear(sets, run.job, run.at, NoSet)
  <2>1. run.pc = "unwind" /\ ~Committing
    BY DEF Unwind, Committing
  <2> QED
    BY <2>1 DEF Unwind, TypeOK, RunShape, NothingAhead
<1>2. id \in SetIds
  BY NewestInResults DEF Unwind
<1> HIDE DEF id
<1>3. run'.pc = "unwind" /\ run'.job = run.job /\ run'.at = run.at
  BY <1>1 DEF Run
<1>4. CASE Undoable(id) /\ UndoSet(id)
  <2>1. RowsClear(jobs', sets') /\ Clear(sets', run.job, run.at, NoSet)
    BY <1>1, <1>2, <1>4, AheadUndone
  <2> QED
    BY <1>3, <2>1, AheadOutside
<1>5. CASE KeepSets
  <2>1. RowsClear(jobs', sets') /\ Clear(sets', run.job, run.at, NoSet)
    BY <1>1, <1>5 DEF KeepSets
  <2> QED
    BY <1>3, <2>1, AheadOutside
<1> QED
  BY <1>1, <1>4, <1>5 DEF UndoIfLive, RollbackFails

LEMMA AheadUserUndoes ==
  ASSUME TypeOK, RunShape, NothingAhead, NEW id \in SetIds, UndoByUser(id)
  PROVE  NothingAhead'
<1>1. /\ Undoable(id) /\ UndoSet(id) /\ run' = run /\ jobs \in [Jobs -> JobRow] /\ sets \in [SetIds -> ChangeSet]
      /\ id[1] \in Jobs
  BY SetParts DEF UndoByUser, TypeOK
<1>2. SetInHand' = SetInHand /\ (Committing' <=> Committing)
  BY <1>1 DEF SetInHand, Committing
<1>3. /\ RowsClear(jobs', sets')
      /\ \A j \in Jobs : \A at, but : Clear(sets, j, at, but) => Clear(sets', j, at, but)
  BY <1>1, AheadUndone
<1>4. run.pc # "off" => Clear(sets', run.job, run.at, IF Committing THEN SetInHand ELSE NoSet)
  BY <1>3 DEF NothingAhead, RunShape
<1>5. ASSUME Committing, LiveIn(sets', SetInHand) PROVE jobs'[run.job].by = SetInHand
  <2>1. run.job \in Jobs /\ SetInHand \in SetIds /\ SetInHand[1] = run.job
    <3>1. run.job \in Jobs /\ SetInHand \in SetIds
      BY <1>5, InHand DEF RunShape, Committing
    <3> QED
      BY <3>1 DEF SetInHand
  <2>2. sets' = Undone(sets, id) /\ jobs' = RowRestored(jobs, sets, id)
    BY <1>1 DEF UndoSet, Undone, RowRestored
  <2>3. LiveIn(sets, SetInHand) /\ SetInHand # id
    BY <1>1, <1>5, <2>1, <2>2, UndoneSets
  <2>4. jobs[run.job].by = SetInHand
    BY <1>5, <2>3 DEF NothingAhead
  <2>5. run.job # id[1]
    BY <1>1, <2>3, <2>4 DEF Undoable
  <2>6. jobs'[run.job] = jobs[run.job]
    BY <1>1, <2>1, <2>2, <2>5, UndoneRows
  <2> QED
    BY <2>4, <2>6
<1>6. run.pc # "caughtRollback"
  BY DEF NothingAhead
<1> QED
  BY <1>1, <1>2, <1>3, <1>4, <1>5, <1>6 DEF NothingAhead

LEMMA AheadKept ==
  ASSUME TypeOK, RunShape, RowsShape(jobs, sets), ~setting.rollbackFails, NothingAhead, Next
  PROVE  NothingAhead'
<1>1. CASE Begin
  BY <1>1, AheadBegins DEF Begin
<1>2. CASE CompleteResumed \/ BeginBatches \/ Settle \/ PersistStale
           \/ \E status \in {"paused", "failed"} : PersistError(status)
  <2>1. /\ run.pc \in {"begin", "settle", "caughtStale", "caughtError"}
        /\ UNCHANGED sets
        /\ run' = Off \/ Goto("check") \/ Goto("progress") \/ Goto("caughtStale")
    BY <1>2 DEF CompleteResumed, BeginBatches, Settle, PersistStale, PersistError
  <2>2. /\ run'.pc \notin {"committed", "discard", "caughtRollback"}
        /\ run'.pc # "off" => run'.job = run.job /\ run'.at = run.at /\ run'.next = run.next
    <3>1. CASE run' = Off
      BY <3>1 DEF Off
    <3>2. CASE Goto("check") \/ Goto("progress") \/ Goto("caughtStale")
      BY <3>2, RunMoves
    <3> QED
      BY <2>1, <3>1, <3>2
  <2>3. run.pc # "off" /\ ~Committing /\ ~Committing'
    BY <2>1, <2>2 DEF Committing
  <2>4. \/ UNCHANGED jobs
        \/ \E status \in {"running", "paused", "failed", "completed"} : Persist(status, run.at)
    BY <1>2 DEF CompleteResumed, BeginBatches, Settle, PersistStale, PersistError
  <2>5. CASE UNCHANGED jobs
    <3>1. KeepSets
      BY <2>1, <2>5 DEF KeepSets
    <3> QED
      BY <2>2, <2>3, <3>1, AheadQuiet
  <2>6. CASE \E status \in {"running", "paused", "failed", "completed"} : Persist(status, run.at)
    BY <2>1, <2>2, <2>3, <2>6, AheadPersists
  <2> QED
    BY <2>4, <2>5, <2>6
<1>3. CASE PersistRollbackFailed
  BY <1>3 DEF PersistRollbackFailed, NothingAhead
<1>4. CASE \E partial \in BOOLEAN : Commit(partial)
  BY <1>4, AheadCommitted
<1>5. CASE \E same \in BOOLEAN : CommitReplays(same)
  <2>1. run.pc = "commit" /\ LiveIn(sets, SetInHand) /\ ~Committing
    BY <1>5 DEF CommitReplays, LiveIn, Committing
  <2>2. /\ SetInHand = IF run.at.stage THEN StageOf(run.job, run.next) ELSE BatchOf(run.job, run.next)
        /\ run.next \in Batches /\ run.next > run.at.batch /\ run.job \in Jobs
    BY <2>1, InHand DEF RunShape
  <2>3. Clear(sets, run.job, run.at, NoSet)
    BY <2>1 DEF NothingAhead
  <2>4. FALSE
    BY <2>1, <2>2, <2>3, SetParts DEF Clear
  <2> QED
    BY <2>4
<1>6. CASE LeaveScope
  <2>1. run.pc = "committed" /\ Goto("discard") /\ KeepSets
    BY <1>6 DEF LeaveScope
  <2>2. run'.pc = "discard" /\ run'.job = run.job /\ run'.at = run.at /\ run'.next = run.next
    BY <2>1, RunMoves
  <2>3. Committing /\ Committing'
    BY <2>1, <2>2 DEF Committing
  <2> QED
    BY <2>1, <2>2, <2>3, AheadQuiet
<1>7. CASE DiscardCommit
  BY <1>7, AheadDiscards
<1>8. CASE KeepCommit
  BY <1>8, AheadKeptCommit
<1>9. CASE Unwind
  BY <1>9, AheadUnwinds
<1>10. CASE \E id \in SetIds : UndoByUser(id)
  BY <1>10, AheadUserUndoes
<1>11. CASE CheckBatch \/ Extracted \/ ExtractFails \/ ReadForFinalize \/ Unwound \/ ProgressFails
            \/ \E failed \in BOOLEAN : Derive(failed)
  <2>1. run.pc \in {"check", "extract", "finalize", "derive", "unwind", "progress"} /\ KeepSets /\ run \in Run
    BY <1>11 DEF CheckBatch, Extracted, ExtractFails, ReadForFinalize, Unwound, ProgressFails, Derive, TypeOK
  <2>2. \/ Goto("caughtStale") \/ Goto("caughtError") \/ Goto("commit") \/ Goto("derive") \/ Goto("unwind")
        \/ Goto("settle") \/ run' = [run EXCEPT !.pc = "extract", !.aborted = FALSE]
    BY <1>11 DEF CheckBatch, Extracted, ExtractFails, ReadForFinalize, Unwound, ProgressFails, Derive, Caught, Goto
  <2>3. /\ run'.pc \in {"caughtStale", "caughtError", "commit", "derive", "unwind", "settle", "extract"}
        /\ run'.job = run.job /\ run'.at = run.at /\ run'.next = run.next
    <3>1. CASE run' = [run EXCEPT !.pc = "extract", !.aborted = FALSE]
      BY <2>1, <3>1 DEF Run
    <3> QED
      BY <2>2, <3>1, RunMoves
  <2>4. ~Committing /\ ~Committing'
    BY <2>1, <2>3 DEF Committing
  <2> QED
    BY <2>1, <2>3, <2>4, AheadQuiet
<1>12. CASE Cancel \/ SwitchAway \/ Rebound \/ SwitchBack \/ Stop \/ StartAgain \/ Grow
  <2>1. KeepSets /\ run \in Run
    BY <1>12 DEF Cancel, SwitchAway, Rebound, SwitchBack, Stop, StartAgain, Grow, TypeOK
  <2>2. \/ run' = run \/ run' = [run EXCEPT !.aborted = TRUE] \/ run' = [run EXCEPT !.bumped = TRUE]
        \/ run' = [run EXCEPT !.bumped = TRUE, !.aborted = TRUE]
    BY <1>12 DEF Cancel, SwitchAway, Rebound, SwitchBack, Stop, StartAgain, Grow
  <2>3. run'.pc = run.pc /\ run'.job = run.job /\ run'.at = run.at /\ run'.next = run.next
    BY <2>1, <2>2 DEF Run
  <2>4. (Committing' <=> Committing) /\ run'.pc # "caughtRollback"
    BY <2>3 DEF Committing, NothingAhead
  <2> QED
    BY <2>1, <2>3, <2>4, AheadQuiet
<1>13. CASE SaveProgress \/ Reload
  <2>1. KeepSets /\ run' = Off
    BY <1>13 DEF SaveProgress, Reload
  <2>2. run'.pc = "off"
    BY <2>1 DEF Off
  <2> QED
    BY <2>1, <2>2, AheadQuiet
<1> QED
  BY <1>1, <1>2, <1>3, <1>4, <1>5, <1>6, <1>7, <1>8, <1>9, <1>10, <1>11, <1>12, <1>13 DEF Next, Work, Environment
-----------------------------------------------------------------------------
(* Unless the user undoes or returns at once, nothing a checkpoint has       *)
(* passed is lost.                                                           *)

LEMMA LostOff ==
  ASSUME RowsBacked(jobs', sets'), run'.pc = "off"
  PROVE  NothingLost'
BY DEF NothingLost, Scanning, Committing

LEMMA LostCaught ==
  ASSUME RowsBacked(jobs', sets'), run'.pc \in {"caughtStale", "caughtError"},
         Backed(sets', run'.job, run'.at), stopped' => run'.bumped
  PROVE  NothingLost'
BY DEF NothingLost, Scanning, Committing

LEMMA LostScanning ==
  ASSUME RowsBacked(jobs', sets'), run'.pc \in {"begin", "check", "extract", "commit"},
         Backed(sets', run'.job, run'.at), Backed(sets', run'.job, run'.base), Upto(run'.base, run'.at),
         Upto(jobs'[run'.job].at, run'.at), stopped' => run'.bumped
  PROVE  NothingLost'
BY DEF NothingLost, Scanning, Committing

LEMMA LostClosing ==
  ASSUME RowsBacked(jobs', sets'), run'.pc \in {"finalize", "derive", "unwind", "settle", "progress"},
         Backed(sets', run'.job, run'.at), stopped' => run'.bumped,
         run'.pc = "unwind" => Stale',
         run'.pc \in {"finalize", "derive", "progress"} => AllHeld(sets', run'.job),
         run'.pc = "settle" => Stale' \/ AllHeld(sets', run'.job)
  PROVE  NothingLost'
BY DEF NothingLost, Scanning, Committing

(* A run does not become current again.                                      *)
LEMMA StaysStale ==
  ASSUME TypeOK, NothingLost, Next, run.pc # "off", run'.pc # "off", Steady
  PROVE  (Stale => Stale') /\ (stopped' => run'.bumped)
<1>1. run \in Run /\ (stopped => run.bumped)
  BY DEF TypeOK, NothingLost
<1>2. CASE Begin
  BY <1>2 DEF Begin, Resume, NewJob, CanBegin
<1>3. CASE SwitchBack
  BY <1>1, <1>3 DEF SwitchBack, Running, Stale, Steady
<1>4. CASE StartAgain \/ Grow \/ \E id \in SetIds : UndoByUser(id)
  BY <1>1, <1>4 DEF StartAgain, Grow, UndoByUser, Stale
<1>5. CASE Cancel \/ Rebound \/ Stop
  <2>1. run'.bumped
    BY <1>1, <1>5 DEF Cancel, Rebound, Stop, Running, Run
  <2> QED
    BY <2>1 DEF Stale
<1>6. CASE SwitchAway
  BY <1>1, <1>6 DEF SwitchAway, Running, Stale, Run
<1>7. CASE Reload
  BY <1>7 DEF Reload, Off
<1>8. CASE Work \/ ExtractFails \/ ProgressFails
  <2>1. UNCHANGED <<stopped, away>>
    BY <1>8 DEF Work, CompleteResumed, BeginBatches, CheckBatch, Extracted, Commit, CommitReplays, LeaveScope,
                DiscardCommit, KeepCommit, Derive, ReadForFinalize, Unwind, Unwound, Settle, SaveProgress,
                PersistStale, PersistRollbackFailed, PersistError, ExtractFails, ProgressFails, Outer
  <2>2. run' # Off
    BY DEF Off
  <2>3. run'.bumped = run.bumped
    <3>1. CASE \E pc : Goto(pc)
      BY <1>1, <3>1 DEF Goto, Run
    <3>2. CASE KeepCommit
      BY <3>2, <1>1 DEF KeepCommit, Run
    <3>3. CASE CheckBatch \/ Unwind
      BY <3>3, <1>1 DEF CheckBatch, Unwind, Run
    <3> QED
      BY <1>8, <2>2, <3>1, <3>2, <3>3
         DEF Work, CompleteResumed, BeginBatches, Extracted, Commit, CommitReplays, LeaveScope, DiscardCommit,
             Derive, ReadForFinalize, Unwound, Settle, SaveProgress, PersistStale, PersistRollbackFailed,
             PersistError, ExtractFails, ProgressFails
  <2> QED
    BY <1>1, <2>1, <2>3 DEF Stale
<1> QED
  BY <1>2, <1>3, <1>4, <1>5, <1>6, <1>7, <1>8 DEF Next, Environment

LEMMA LostPersists ==
  ASSUME TypeOK, RunShape, NothingLost, run.pc # "off", NEW at \in {run.at, run.base}, Backed(sets, run.job, at),
         NEW status \in {"running", "paused", "failed", "completed"}, Persist(status, at), UNCHANGED sets
  PROVE  RowsBacked(jobs', sets') /\ jobs'[run.job].at = at
<1>1. /\ jobs \in [Jobs -> JobRow] /\ sets \in [SetIds -> ChangeSet] /\ run.job \in Jobs /\ at \in Checkpoint
      /\ RowsBacked(jobs, sets)
  BY DEF TypeOK, Run, RunShape, NothingLost
<1>2. jobs' = Persisted(jobs, run.job, status, at)
  BY DEF Persist, Persisted
<1>3. RowsBacked(Persisted(jobs, run.job, status, at), sets)
  BY <1>1, PersistedKeeps
<1>4. Persisted(jobs, run.job, status, at)[run.job].at = at
  BY <1>1 DEF Persisted
<1> QED
  BY <1>2, <1>3, <1>4

LEMMA LostUndone ==
  ASSUME TypeOK, NothingLost, NEW id \in SetIds, Undoable(id), UndoSet(id)
  PROVE  /\ RowsBacked(jobs', sets')
         /\ \A at \in Checkpoint : Backed(sets, id[1], at) /\ Upto(at, Before(id)) => Backed(sets', id[1], at)
<1>1. /\ jobs \in [Jobs -> JobRow] /\ sets \in [SetIds -> ChangeSet] /\ RowsBacked(jobs, sets)
      /\ LiveIn(sets, id) /\ jobs[id[1]].by = id /\ id[1] \in Jobs
  BY SetParts DEF TypeOK, NothingLost, Undoable, LiveIn
<1>2. jobs' = RowRestored(jobs, sets, id) /\ sets' = Undone(sets, id)
  BY DEF UndoSet, RowRestored, Undone
<1>3. RowsBacked(RowRestored(jobs, sets, id), Undone(sets, id))
  BY <1>1, UndoneBacked
<1>4. ASSUME NEW at \in Checkpoint, Backed(sets, id[1], at), Upto(at, Before(id)) PROVE Backed(sets', id[1], at)
  BY <1>1, <1>2, <1>4, UndoneIsBacked
<1> QED
  BY <1>2, <1>3, <1>4

(* The change set in hand begins at the checkpoint.                          *)
LEMMA InHandBegins ==
  ASSUME TypeOK, run.next = run.at.batch + 1, run.at.batch \in 0..N
  PROVE  Before(SetInHand) = run.at
<1>1. run.at \in Checkpoint /\ run.at.stage \in BOOLEAN /\ N \in Nat
  BY Sizes DEF TypeOK, Run, Checkpoint
<1>2. run.at = [batch |-> run.at.batch, stage |-> run.at.stage]
  BY <1>1, CheckpointParts
<1>3. SetInHand[2] - 1 = run.at.batch /\ (SetInHand[3] = "stage") = run.at.stage
  BY <1>1 DEF SetInHand
<1> QED
  BY <1>2, <1>3 DEF Before
LEMMA LostBegins ==
  ASSUME TypeOK, RowsShape(jobs, sets), NothingLost, NEW j \in Jobs, Resume(j) \/ NewJob(j)
  PROVE  NothingLost'
<1>1. jobs[j].at \in Checkpoint /\ Proper(jobs[j].at) /\ progress < floors /\ KeepSets /\ ~stopped'
  BY DEF TypeOK, JobRow, RowsShape, Resume, NewJob, CanBegin, Outer
<1>2. BeginRun(j, jobs[j].at)
  BY DEF Resume, NewJob, RowsShape
<1>3. run'.pc = "begin" /\ run'.job = j /\ run'.at = jobs[j].at /\ run'.base = jobs[j].at
  BY <1>1, <1>2, RunBegun
<1>4. RowsBacked(jobs', sets') /\ Backed(sets', j, jobs[j].at) /\ jobs' = jobs
  BY <1>1 DEF NothingLost, RowsBacked, KeepSets
<1>5. Upto(jobs[j].at, jobs[j].at)
  BY DEF Upto
<1> QED
  BY <1>1, <1>3, <1>4, <1>5, LostScanning

LEMMA LostCommitted ==
  ASSUME TypeOK, RunShape, NothingLost, stopped' => run'.bumped, NEW partial \in BOOLEAN, Commit(partial)
  PROVE  NothingLost'
<1> DEFINE S == sets
           T == [sets EXCEPT ![SetInHand] = SetOf(partial)]
           j == run.job
           at == run.at
<1>1. /\ jobs \in [Jobs -> JobRow] /\ S \in [SetIds -> ChangeSet] /\ j \in Jobs /\ at \in Checkpoint
      /\ run.base \in Checkpoint /\ N \in Nat /\ at.batch \in 0..N /\ run.next = at.batch + 1 /\ run.next <= N
      /\ run.pc = "commit" /\ ~LiveIn(S, SetInHand) /\ (partial => ~at.stage)
  BY Sizes DEF TypeOK, Run, Checkpoint, RunShape, Commit, LiveIn
<1>2. /\ RowsBacked(jobs, S) /\ Backed(S, j, at) /\ Backed(S, j, run.base)
      /\ Upto(run.base, at) /\ Upto(jobs[j].at, at)
  BY <1>1 DEF NothingLost, Scanning
<1>3. /\ SetInHand = IF at.stage THEN StageOf(j, run.next) ELSE BatchOf(j, run.next)
      /\ run.next \in Batches
  BY <1>1, InHand
<1>4. /\ SetInHand \in SetIds /\ SetInHand[1] = j /\ SetOf(partial) \in ChangeSet /\ RowOf(partial) \in JobRow
      /\ SetOf(partial).before = jobs[SetInHand[1]] /\ RowOf(partial).by = SetInHand
      /\ SetOf(partial).partial = partial /\ SetOf(partial).status = "live"
      /\ jobs' = [jobs EXCEPT ![SetInHand[1]] = RowOf(partial)] /\ sets' = T
      /\ RowOf(partial).at = IF partial THEN [batch |-> at.batch, stage |-> TRUE]
                                        ELSE [batch |-> run.next, stage |-> FALSE]
  BY CommitWrites
<1>5. T[SetInHand] = SetOf(partial) /\ LiveIn(T, SetInHand) /\ \A x \in SetIds : x # SetInHand => T[x] = S[x]
  BY <1>1, <1>4 DEF LiveIn
<1>6. /\ \A n \in Batches : HeldIn(S, j, n) => HeldIn(T, j, n)
      /\ \A a \in Checkpoint : Backed(S, j, a) => Backed(T, j, a)
  BY <1>1, <1>4, CommittedIsBacked
<1>7. jobs'[j].at = RowOf(partial).at
  BY <1>1, <1>4
<1> HIDE DEF T
<1>8. Backed(T, j, RowOf(partial).at)
  <2>1. \A n \in Batches : n <= at.batch => HeldIn(T, j, n)
    BY <1>1, <1>2, <1>6 DEF Backed
  <2>2. CASE partial
    <3>1. RowOf(partial).at.batch = at.batch /\ LiveIn(T, BatchOf(j, at.batch + 1))
      BY <1>1, <1>3, <1>4, <1>5, <2>2
    <3> QED
      BY <2>1, <3>1 DEF Backed
  <2>3. CASE ~partial
    <3>1. HeldIn(T, j, run.next)
      <4>1. BatchOf(j, run.next) \in SetIds /\ StageOf(j, run.next) \in SetIds
            /\ BatchOf(j, run.next) # StageOf(j, run.next)
        BY <1>1, <1>3, SetParts
      <4>2. CASE ~at.stage
        BY <1>3, <1>4, <1>5, <2>3, <4>2 DEF HeldIn
      <4>3. CASE at.stage
        <5>1. LiveIn(S, BatchOf(j, run.next)) /\ SetInHand = StageOf(j, run.next)
          BY <1>1, <1>2, <1>3, <4>3 DEF Backed
        <5>2. LiveIn(T, BatchOf(j, run.next)) /\ LiveIn(T, StageOf(j, run.next))
          BY <1>5, <4>1, <5>1 DEF LiveIn
        <5> QED
          BY <5>2 DEF HeldIn
      <4> QED
        BY <4>2, <4>3
    <3>2. RowOf(partial).at = [batch |-> run.next, stage |-> FALSE]
      BY <1>4, <2>3
    <3>3. \A n \in Batches : n <= run.next => n <= at.batch \/ n = run.next
      BY <1>1 DEF Batches
    <3> QED
      BY <2>1, <3>1, <3>2, <3>3 DEF Backed
  <2> QED
    BY <2>2, <2>3
<1>9. Before(SetInHand) = at
  BY <1>1, InHandBegins
<1>10. RowsBacked(jobs', sets')
  <2>1. Upto(jobs[SetInHand[1]].at, Before(SetInHand)) /\ Backed([sets EXCEPT ![SetInHand] = SetOf(partial)], SetInHand[1], RowOf(partial).at)
    BY <1>2, <1>4, <1>8, <1>9 DEF T
  <2>2. RowsBacked([jobs EXCEPT ![SetInHand[1]] = RowOf(partial)], [sets EXCEPT ![SetInHand] = SetOf(partial)])
    BY <1>1, <1>2, <1>4, <2>1, CommittedBacked
  <2> QED
    BY <1>4, <2>2 DEF T
<1>11. Goto("committed")
  BY DEF Commit
<1>12. /\ run'.pc = "committed" /\ run'.job = j /\ run'.at = at /\ run'.next = run.next /\ run'.base = run.base
  BY <1>11, RunMoves
<1>13. SetInHand' = SetInHand
  BY <1>12 DEF SetInHand
<1>14. Backed(sets', j, at) /\ Backed(sets', j, run.base)
  BY <1>1, <1>2, <1>4, <1>6
<1>15. /\ LiveIn(sets', SetInHand)
       /\ jobs'[j].at = [batch |-> run.next, stage |-> FALSE] \/ sets'[SetInHand].partial
  BY <1>4, <1>5, <1>7
<1> HIDE DEF S, j, at
<1>16. NothingLost'
  BY <1>2, <1>10, <1>12, <1>13, <1>14, <1>15 DEF NothingLost, Scanning
<1> QED
  BY <1>16

LEMMA LostKeptCommit ==
  ASSUME TypeOK, RunShape, RowsShape(jobs, sets), NothingLost, stopped' => run'.bumped, KeepCommit
  PROVE  NothingLost'
<1>1. /\ run.pc = "committed" /\ run.job \in Jobs /\ run.next = run.at.batch + 1 /\ run.next <= N
      /\ run.at.batch \in 0..N /\ N \in Nat /\ KeepSets /\ run.base.batch \in 0..N
      /\ jobs[run.job].at \in Checkpoint /\ jobs[run.job].at.batch \in 0..N
      /\ RowsBacked(jobs, sets) /\ Backed(sets, run.job, run.at) /\ Backed(sets, run.job, run.base)
      /\ Upto(run.base, run.at) /\ LiveIn(sets, SetInHand)
      /\ \/ Upto(jobs[run.job].at, run.at)
         \/ jobs[run.job].at = [batch |-> run.next, stage |-> FALSE]
         \/ sets[SetInHand].partial
  <2>1. run.pc = "committed" /\ Committing
    BY DEF KeepCommit, Committing
  <2> QED
    BY <2>1, Sizes DEF TypeOK, JobRow, Run, Checkpoint, RunShape, KeepCommit, NothingLost
<1>2. /\ run'.job = run.job /\ run'.base = run.base
      /\ run'.pc = IF sets[SetInHand].partial THEN "caughtError"
                   ELSE IF run.next = N THEN "finalize" ELSE "check"
      /\ run'.at = IF sets[SetInHand].partial THEN [batch |-> run.at.batch, stage |-> TRUE]
                                              ELSE [batch |-> run.next, stage |-> FALSE]
  BY KeepCommitKeepsRun
<1>3. /\ SetInHand = IF run.at.stage THEN StageOf(run.job, run.next) ELSE BatchOf(run.job, run.next)
      /\ SetInHand \in SetIds
  BY <1>1, InHand
<1>4. \A n \in Batches : n <= run.at.batch => HeldIn(sets, run.job, n)
  BY <1>1 DEF Backed
<1>5. RowsBacked(jobs', sets') /\ sets' = sets /\ jobs' = jobs
  BY <1>1 DEF KeepSets
<1>6. CASE sets[SetInHand].partial
  <2>1. SetInHand = BatchOf(run.job, run.next)
    <3>1. SetInHand[3] # "stage"
      BY <1>3, <1>6 DEF RowsShape
    <3> QED
      BY <1>3, <3>1 DEF StageOf
  <2>2. Backed(sets, run.job, run'.at)
    BY <1>1, <1>2, <1>4, <1>6, <2>1 DEF Backed
  <2> QED
    BY <1>2, <1>5, <1>6, <2>2, LostCaught
<1>7. CASE ~sets[SetInHand].partial
  <2>1. HeldIn(sets, run.job, run.next)
    BY <1>1, <1>3, <1>7 DEF HeldIn, Backed
  <2>2. \A n \in Batches : n <= run.next => HeldIn(sets, run.job, n)
    <3>1. \A n \in Batches : n <= run.next => n <= run.at.batch \/ n = run.next
      BY <1>1 DEF Batches
    <3> QED
      BY <1>4, <2>1, <3>1
  <2>3. Backed(sets, run.job, run'.at) /\ run'.at = [batch |-> run.next, stage |-> FALSE]
    BY <1>2, <1>7, <2>2 DEF Backed
  <2>4. CASE run.next = N
    <3>1. AllHeld(sets, run.job)
      BY <1>1, <2>2, <2>4 DEF AllHeld, Batches
    <3>2. run'.pc = "finalize"
      BY <1>2, <1>7, <2>4
    <3> QED
      BY <1>2, <1>5, <2>3, <3>1, <3>2, LostClosing
  <2>5. CASE run.next # N
    <3>1. run'.pc = "check"
      BY <1>2, <1>7, <2>5
    <3>2. Upto(run.base, run'.at) /\ Upto(jobs[run.job].at, run'.at)
      BY <1>1, <1>7, <2>3 DEF Upto
    <3> QED
      BY <1>1, <1>2, <1>5, <2>3, <3>1, <3>2, LostScanning
  <2> QED
    BY <2>4, <2>5
<1> QED
  BY <1>6, <1>7
LEMMA LostDiscards ==
  ASSUME TypeOK, RunShape, NothingLost, stopped' => run'.bumped, DiscardCommit
  PROVE  NothingLost'
<1>1. /\ run.pc = "discard" /\ run.job \in Jobs /\ run.next = run.at.batch + 1 /\ run.next <= N
      /\ run.at \in Checkpoint /\ run.base \in Checkpoint /\ run.at.batch \in 0..N
      /\ RowsBacked(jobs, sets) /\ Backed(sets, run.job, run.at) /\ Backed(sets, run.job, run.base)
      /\ Upto(run.base, run.at) /\ Stale
  <2>1. run.pc = "discard" /\ Committing
    BY DEF DiscardCommit, Committing
  <2> QED
    BY <2>1 DEF TypeOK, Run, Checkpoint, RunShape, NothingLost
<1>2. SetInHand \in SetIds /\ SetInHand[1] = run.job /\ Before(SetInHand) = run.at
  <2>1. SetInHand \in SetIds
    BY <1>1, InHand
  <2>2. SetInHand[1] = run.job
    BY DEF SetInHand
  <2> QED
    BY <1>1, <2>1, <2>2, InHandBegins
<1>3. /\ Goto("caughtStale") \/ Goto("caughtRollback")
      /\ KeepSets \/ (Undoable(SetInHand) /\ UndoSet(SetInHand))
  BY <1>1 DEF DiscardCommit, Caught, UndoIfLive, RollbackFails
<1>4. /\ RowsBacked(jobs', sets') /\ Backed(sets', run.job, run.at) /\ Backed(sets', run.job, run.base)
  <2>1. CASE KeepSets
    BY <1>1, <2>1 DEF KeepSets
  <2>2. CASE Undoable(SetInHand) /\ UndoSet(SetInHand)
    <3>1. RowsBacked(jobs', sets')
      BY <1>2, <2>2, LostUndone
    <3>2. \A at \in Checkpoint : Backed(sets, run.job, at) /\ Upto(at, run.at) => Backed(sets', run.job, at)
      BY <1>2, <2>2, LostUndone
    <3>3. Upto(run.at, run.at)
      BY DEF Upto
    <3> QED
      BY <1>1, <3>1, <3>2, <3>3
  <2> QED
    BY <1>3, <2>1, <2>2
<1>5. /\ run'.pc \in {"caughtStale", "caughtRollback"} /\ run'.job = run.job /\ run'.at = run.at
      /\ run'.base = run.base
  BY <1>3, RunMoves
<1>6. CASE run'.pc = "caughtStale"
  BY <1>4, <1>5, <1>6, LostCaught
<1>7. CASE run'.pc = "caughtRollback"
  BY <1>1, <1>4, <1>5, <1>7 DEF NothingLost, Scanning, Committing
<1> QED
  BY <1>5, <1>6, <1>7

LEMMA LostUnwinds ==
  ASSUME TypeOK, RunShape, NothingLost, Stale', stopped' => run'.bumped, Unwind
  PROVE  NothingLost'
<1> DEFINE id == Newest(run.results)
<1>1. /\ run.pc = "unwind" /\ run \in Run /\ RowsBacked(jobs, sets) /\ run.at.batch = N /\ N \in Nat
      /\ KeepSets \/ (Undoable(id) /\ UndoSet(id))
      /\ run' = [run EXCEPT !.results = @ \ {id}]
  BY Sizes DEF Unwind, UndoIfLive, RollbackFails, TypeOK, RunShape, Closing, NothingLost
<1>2. id \in SetIds
  BY NewestInResults DEF Unwind
<1> HIDE DEF id
<1>3. run'.pc = "unwind" /\ run'.job = run.job /\ run'.at = run.at
  BY <1>1 DEF Run
<1>4. RowsBacked(jobs', sets')
  <2>1. CASE KeepSets
    BY <1>1, <2>1 DEF KeepSets
  <2>2. CASE Undoable(id) /\ UndoSet(id)
    BY <1>2, <2>2, LostUndone
  <2> QED
    BY <1>1, <2>1, <2>2
<1>5. Backed(sets', run'.job, run'.at)
  BY <1>1, <1>3 DEF Backed
<1> QED
  BY <1>3, <1>4, <1>5, LostClosing

(* Steps of the user, the host and the page that only mark the run.          *)
LEMMA LostMarked ==
  ASSUME NothingLost, KeepSets,
         run'.pc = run.pc, run'.job = run.job, run'.at = run.at, run'.next = run.next, run'.base = run.base,
         run.pc # "off" => (Stale => Stale') /\ (stopped' => run'.bumped)
  PROVE  NothingLost'
<1>1. SetInHand' = SetInHand /\ (Scanning' <=> Scanning) /\ (Committing' <=> Committing)
  BY DEF SetInHand, Scanning, Committing
<1>2. jobs' = jobs /\ sets' = sets
  BY DEF KeepSets
<1> QED
  BY <1>1, <1>2 DEF NothingLost

LEMMA LostKept ==
  ASSUME TypeOK, RunShape, RowsShape(jobs, sets), Steady, NothingLost, Next
  PROVE  NothingLost'
<1>1. run \in Run /\ RowsBacked(jobs, sets)
  BY DEF TypeOK, NothingLost
<1>2. ASSUME KeepSets, run'.pc = "off" PROVE NothingLost'
  BY <1>1, <1>2, LostOff DEF KeepSets
<1>3. ASSUME run.pc # "off", run'.pc # "off" PROVE (Stale => Stale') /\ (stopped' => run'.bumped)
  BY <1>3, StaysStale
<1>4. run.pc # "off" => Backed(sets, run.job, run.at)
  BY DEF NothingLost
<1>5. ASSUME run.pc # "off", KeepSets, Goto("caughtStale") \/ Goto("caughtError") PROVE NothingLost'
  <2>1. run'.pc \in {"caughtStale", "caughtError"} /\ run'.job = run.job /\ run'.at = run.at
    BY <1>5, RunMoves
  <2>2. RowsBacked(jobs', sets') /\ sets' = sets
    BY <1>1, <1>5 DEF KeepSets
  <2> QED
    BY <1>3, <1>4, <1>5, <2>1, <2>2, LostCaught
<1>6. CASE Begin
  BY <1>6, LostBegins DEF Begin
<1>7. CASE CompleteResumed \/ PersistStale \/ PersistRollbackFailed
           \/ \E status \in {"paused", "failed"} : PersistError(status)
  <2>1. run.pc # "off" /\ UNCHANGED sets /\ run' = Off
    BY <1>7 DEF CompleteResumed, PersistStale, PersistRollbackFailed, PersistError
  <2>2. run'.pc = "off"
    BY <2>1 DEF Off
  <2>3. CASE UNCHANGED jobs
    <3>1. KeepSets
      BY <2>1, <2>3 DEF KeepSets
    <3> QED
      BY <1>2, <2>2, <3>1
  <2>4. CASE \E status \in {"paused", "failed", "completed"} : Persist(status, run.at)
    <3>1. RowsBacked(jobs', sets')
      BY <1>4, <2>1, <2>4, LostPersists
    <3> QED
      BY <2>2, <3>1, LostOff
  <2>5. CASE run.pc = "caughtRollback" /\ Persist("failed", run.base)
    <3>1. Backed(sets, run.job, run.base)
      BY <2>5 DEF NothingLost
    <3>2. RowsBacked(jobs', sets')
      BY <2>1, <2>5, <3>1, LostPersists
    <3> QED
      BY <2>2, <3>2, LostOff
  <2> QED
    BY <1>7, <2>3, <2>4, <2>5 DEF CompleteResumed, PersistStale, PersistRollbackFailed, PersistError
<1>8. CASE BeginBatches
  <2>1. run.pc = "begin" /\ Goto("check") /\ Persist("running", run.at) /\ UNCHANGED sets
    BY <1>8 DEF BeginBatches
  <2>2. run'.pc = "check" /\ run'.job = run.job /\ run'.at = run.at /\ run'.base = run.base
    BY <2>1, RunMoves
  <2>3. RowsBacked(jobs', sets') /\ jobs'[run.job].at = run.at
    BY <1>4, <2>1, LostPersists
  <2>4. Backed(sets, run.job, run.base) /\ Upto(run.base, run.at) /\ Upto(run.at, run.at)
    BY <2>1 DEF NothingLost, Scanning, Upto
  <2> QED
    BY <1>3, <1>4, <2>1, <2>2, <2>3, <2>4, LostScanning
<1>9. CASE CheckBatch \/ Extracted
  <2>1. run.pc \in {"check", "extract"} /\ KeepSets
    BY <1>9 DEF CheckBatch, Extracted
  <2>2. \/ Goto("caughtStale") \/ Goto("caughtError")
        \/ Goto("commit") \/ run' = [run EXCEPT !.pc = "extract", !.aborted = FALSE]
    BY <1>9 DEF CheckBatch, Extracted, Caught, Goto
  <2>3. CASE Goto("commit") \/ run' = [run EXCEPT !.pc = "extract", !.aborted = FALSE]
    <3>1. run'.pc \in {"commit", "extract"} /\ run'.job = run.job /\ run'.at = run.at /\ run'.base = run.base
      <4>1. CASE run' = [run EXCEPT !.pc = "extract", !.aborted = FALSE]
        BY <1>1, <4>1 DEF Run
      <4> QED
        BY <2>3, <4>1, RunMoves
    <3>2. Backed(sets, run.job, run.base) /\ Upto(run.base, run.at) /\ Upto(jobs[run.job].at, run.at)
      BY <2>1 DEF NothingLost, Scanning
    <3>3. RowsBacked(jobs', sets') /\ sets' = sets /\ jobs' = jobs
      BY <1>1, <2>1 DEF KeepSets
    <3> QED
      BY <1>3, <1>4, <2>1, <3>1, <3>2, <3>3, LostScanning
  <2> QED
    BY <1>5, <2>1, <2>2, <2>3
<1>10. CASE ExtractFails \/ ProgressFails
  <2>1. run.pc # "off" /\ KeepSets /\ (Goto("caughtStale") \/ Goto("caughtError"))
    BY <1>10 DEF ExtractFails, ProgressFails, Caught
  <2> QED
    BY <1>5, <2>1
<1>11. CASE \E partial \in BOOLEAN : Commit(partial)
  <2>1. PICK partial \in BOOLEAN : Commit(partial)
    BY <1>11
  <2>2. run.pc # "off" /\ Goto("committed")
    BY <2>1 DEF Commit
  <2>3. run'.pc # "off"
    BY <2>2, RunMoves
  <2> QED
    BY <1>3, <2>1, <2>2, <2>3, LostCommitted
<1>12. CASE \E same \in BOOLEAN : CommitReplays(same)
  <2>1. /\ run.pc = "commit" /\ KeepSets /\ LiveIn(sets, SetInHand)
        /\ Goto("committed") \/ Goto("caughtStale") \/ Goto("caughtError")
    BY <1>12 DEF CommitReplays, Caught, LiveIn
  <2>2. CASE Goto("committed")
    <3>1. /\ run'.pc = "committed" /\ run'.job = run.job /\ run'.at = run.at /\ run'.next = run.next
          /\ run'.base = run.base
      BY <2>2, RunMoves
    <3>2. SetInHand' = SetInHand /\ sets' = sets /\ jobs' = jobs
      BY <2>1, <3>1 DEF SetInHand, KeepSets
    <3>3. Backed(sets, run.job, run.base) /\ Upto(run.base, run.at) /\ Upto(jobs[run.job].at, run.at)
      BY <2>1 DEF NothingLost, Scanning
    <3>4. stopped' => run'.bumped
      BY <1>3, <2>1, <3>1
    <3> QED
      BY <1>1, <1>4, <2>1, <3>1, <3>2, <3>3, <3>4 DEF NothingLost, Scanning
  <2> QED
    BY <1>5, <2>1, <2>2
<1>13. CASE LeaveScope
  <2>1. run.pc = "committed" /\ Stale /\ KeepSets /\ Goto("discard")
    BY <1>13 DEF LeaveScope
  <2>2. run'.pc = "discard" /\ run'.job = run.job /\ run'.at = run.at /\ run'.base = run.base
    BY <2>1, RunMoves
  <2>3. Backed(sets, run.job, run.base) /\ Upto(run.base, run.at)
    BY <2>1 DEF NothingLost, Committing
  <2>4. sets' = sets /\ jobs' = jobs
    BY <2>1 DEF KeepSets
  <2>5. Stale' /\ (stopped' => run'.bumped)
    BY <1>3, <2>1, <2>2
  <2> QED
    BY <1>1, <1>4, <2>1, <2>2, <2>3, <2>4, <2>5 DEF NothingLost, Scanning
<1>14. CASE DiscardCommit
  <2>1. run.pc = "discard" /\ (Goto("caughtStale") \/ Goto("caughtError") \/ Goto("caughtRollback"))
    BY <1>14 DEF DiscardCommit, Caught
  <2>2. run'.pc # "off"
    BY <2>1, RunMoves
  <2> QED
    BY <1>3, <1>14, <2>1, <2>2, LostDiscards
<1>15. CASE KeepCommit
  <2>1. run.pc = "committed" /\ run'.pc # "off"
    BY <1>15, KeepCommitKeepsRun DEF KeepCommit
  <2> QED
    BY <1>3, <1>15, <2>1, LostKeptCommit
<1>16. CASE ReadForFinalize \/ Unwound \/ \E failed \in BOOLEAN : Derive(failed)
  <2>1. run.pc \in {"finalize", "unwind", "derive"} /\ KeepSets
    BY <1>16 DEF ReadForFinalize, Unwound, Derive
  <2>2. \/ Goto("caughtStale")
        \/ Goto("derive") /\ run.pc = "finalize"
        \/ Goto("unwind") /\ Stale
        \/ Goto("settle") /\ run.pc \in {"unwind", "derive"}
    BY <1>16 DEF ReadForFinalize, Unwound, Derive
  <2>3. CASE Goto("derive") \/ Goto("unwind") \/ Goto("settle")
    <3>1. run'.pc \in {"derive", "unwind", "settle"} /\ run'.job = run.job /\ run'.at = run.at
      BY <2>3, RunMoves
    <3>2. RowsBacked(jobs', sets') /\ sets' = sets
      BY <1>1, <2>1 DEF KeepSets
    <3>3. run'.pc = "unwind" => Stale'
      BY <1>3, <2>1, <2>2, <3>1, RunMoves
    <3>4. run'.pc \in {"finalize", "derive", "progress"} => AllHeld(sets', run'.job)
      BY <2>2, <3>1, <3>2, RunMoves DEF NothingLost
    <3>5. run'.pc = "settle" => Stale' \/ AllHeld(sets', run'.job)
      BY <1>3, <2>1, <2>2, <3>1, <3>2, RunMoves DEF NothingLost
    <3> QED
      BY <1>3, <1>4, <2>1, <3>1, <3>2, <3>3, <3>4, <3>5, LostClosing
  <2> QED
    BY <1>5, <2>1, <2>2, <2>3
<1>17. CASE Unwind
  <2>1. run.pc = "unwind" /\ run'.pc = "unwind" /\ Stale
    BY <1>1, <1>17 DEF Unwind, Run, NothingLost
  <2> QED
    BY <1>3, <1>17, <2>1, LostUnwinds
<1>18. CASE Settle
  <2>1. run.pc = "settle" /\ UNCHANGED sets
    BY <1>18 DEF Settle
  <2>2. CASE Stale
    <3>1. KeepSets /\ Goto("caughtStale")
      BY <1>18, <2>2 DEF Settle, KeepSets
    <3> QED
      BY <1>5, <2>1, <3>1
  <2>3. CASE ~Stale
    <3>1. Goto("progress") /\ Persist("completed", run.at) /\ AllHeld(sets, run.job)
      BY <1>18, <2>1, <2>3 DEF Settle, NothingLost
    <3>2. run'.pc = "progress" /\ run'.job = run.job /\ run'.at = run.at
      BY <3>1, RunMoves
    <3>3. RowsBacked(jobs', sets')
      BY <1>4, <2>1, <3>1, LostPersists
    <3> QED
      BY <1>3, <1>4, <2>1, <3>1, <3>2, <3>3, LostClosing
  <2> QED
    BY <2>2, <2>3
<1>19. CASE SaveProgress \/ Reload
  <2>1. KeepSets /\ run' = Off
    BY <1>19 DEF SaveProgress, Reload
  <2>2. run'.pc = "off"
    BY <2>1 DEF Off
  <2> QED
    BY <1>2, <2>1, <2>2
<1>20. CASE Cancel \/ SwitchAway \/ Rebound \/ SwitchBack \/ Stop \/ StartAgain \/ Grow
  <2>1. KeepSets
    BY <1>20 DEF Cancel, SwitchAway, Rebound, SwitchBack, Stop, StartAgain, Grow
  <2>2. \/ run' = run \/ run' = [run EXCEPT !.aborted = TRUE] \/ run' = [run EXCEPT !.bumped = TRUE]
        \/ run' = [run EXCEPT !.bumped = TRUE, !.aborted = TRUE]
    BY <1>20 DEF Cancel, SwitchAway, Rebound, SwitchBack, Stop, StartAgain, Grow
  <2>3. /\ run'.pc = run.pc /\ run'.job = run.job /\ run'.at = run.at /\ run'.next = run.next
        /\ run'.base = run.base
    BY <1>1, <2>2 DEF Run
  <2>4. run.pc # "off" => (Stale => Stale') /\ (stopped' => run'.bumped)
    BY <1>3, <2>3
  <2> QED
    BY <2>1, <2>3, <2>4, LostMarked
<1>21. CASE \E id \in SetIds : UndoByUser(id)
  BY <1>21 DEF UndoByUser, Steady
<1> QED
  BY <1>6, <1>7, <1>8, <1>9, <1>10, <1>11, <1>12, <1>13, <1>14, <1>15, <1>16, <1>17, <1>18, <1>19, <1>20, <1>21
     DEF Next, Work, Environment
-----------------------------------------------------------------------------
(* The invariant, and what follows from it.                                  *)

LEMMA Initially ==
  ASSUME Init
  PROVE  CaptureInv
<1>1. Start \in Checkpoint /\ NoJob \in JobRow /\ NoChangeSet \in ChangeSet /\ Off \in Run /\ Proper(Start)
  <2>1. Start \in Checkpoint /\ Proper(Start)
    BY Sizes DEF Start, Checkpoint, Proper
  <2>2. NoJob \in JobRow
    BY <2>1 DEF NoJob, JobRow
  <2>3. NoChangeSet \in ChangeSet
    BY <2>2, Sizes DEF NoChangeSet, ChangeSet
  <2>4. Off \in Run
    BY <2>1, Sizes DEF Off, Run
  <2> QED
    BY <2>1, <2>2, <2>3, <2>4
<1>2. run.pc = "off"
  BY DEF Init, Off
<1>3. TypeOK
  <2>1. jobs \in [Jobs -> JobRow] /\ sets \in [SetIds -> ChangeSet] /\ run \in Run
    BY <1>1 DEF Init
  <2>2. progress \in 0..MaxWindows /\ floors \in 0..MaxWindows /\ upsets \in 0..MaxUpsets
    BY Sizes DEF Init
  <2>3. away \in BOOLEAN /\ stopped \in BOOLEAN
    BY DEF Init
  <2> QED
    BY <2>1, <2>2, <2>3 DEF TypeOK
<1>4. RunShape
  BY <1>2 DEF RunShape, Committing, Closing
<1>5. \A j \in Jobs : jobs[j].status = "none" /\ jobs[j].at = Start /\ jobs[j].by = NoSet
  BY DEF Init, NoJob
<1>6. \A id \in SetIds : ~LiveIn(sets, id) /\ sets[id].before.at = Start /\ ~sets[id].partial
  BY DEF Init, NoChangeSet, NoJob, LiveIn
<1>7. RowsShape(jobs, sets)
  BY <1>1, <1>5, <1>6 DEF RowsShape
<1>8. NothingAhead
  <2>1. \A j \in Jobs : Clear(sets, j, jobs[j].at, NoSet)
    BY <1>6, SetParts DEF Clear
  <2>2. RowsClear(jobs, sets)
    BY <1>6, <2>1 DEF RowsClear
  <2> QED
    BY <1>2, <2>2 DEF NothingAhead, Committing
<1>9. NothingLost
  <2>1. Start.batch = 0 /\ Start.stage = FALSE
    BY DEF Start
  <2>2. \A n \in Batches : ~(n <= 0)
    BY Sizes DEF Batches
  <2>3. \A j \in Jobs : Backed(sets, j, jobs[j].at)
    BY <1>5, <2>1, <2>2 DEF Backed
  <2>4. RowsBacked(jobs, sets)
    BY <1>6, <2>3 DEF RowsBacked
  <2> QED
    BY <1>2, <2>4 DEF NothingLost, Scanning, Committing
<1> QED
  BY <1>3, <1>4, <1>7, <1>8, <1>9 DEF CaptureInv

LEMMA Kept ==
  ASSUME CaptureInv, [Next /\ UNCHANGED setting]_<<vars, setting>>
  PROVE  CaptureInv'
<1>1. CASE Next /\ UNCHANGED setting
  <2>1. TypeOK' /\ RunShape' /\ RowsShape(jobs', sets')
    BY <1>1, TypesKept DEF CaptureInv
  <2>2. ~setting'.rollbackFails => NothingAhead'
    BY <1>1, AheadKept DEF CaptureInv
  <2>3. Steady' => NothingLost'
    <3>1. Steady' <=> Steady
      BY <1>1 DEF Steady
    <3> QED
      BY <1>1, <3>1, LostKept DEF CaptureInv
  <2> QED
    BY <2>1, <2>2, <2>3 DEF CaptureInv
<1>2. CASE UNCHANGED <<vars, setting>>
  <2>1. TypeOK' /\ RunShape' /\ RowsShape(jobs', sets')
    BY <1>2 DEF CaptureInv, TypeOK, RunShape, Committing, Closing, vars
  <2>2. (NothingAhead => NothingAhead') /\ (NothingLost => NothingLost') /\ (Steady' <=> Steady) /\ setting' = setting
    BY <1>2 DEF NothingAhead, NothingLost, Committing, Scanning, SetInHand, Stale, Steady, vars
  <2> QED
    BY <2>1, <2>2 DEF CaptureInv
<1> QED
  BY <1>1, <1>2

LEMMA CaptureInvariant == Spec => []CaptureInv
<1>1. Init => CaptureInv
  BY Initially
<1>2. CaptureInv /\ [Next /\ UNCHANGED setting]_<<vars, setting>> => CaptureInv'
  BY Kept
<1> QED
  BY <1>1, <1>2, PTL DEF Spec

(* A batch goes to the model only if its job does not hold all that was      *)
(* extracted from it (runMultiActorCaptureWorkflow, its batch loop), as long *)
(* as rollbacks report no failures of their own accord.                      *)
THEOREM JobsResumeAfterHeld == Spec => []ResumesAfterHeld
<1>1. CaptureInv => ResumesAfterHeld
  <2> SUFFICES ASSUME CaptureInv, run.pc = "extract", ~setting.rollbackFails
               PROVE  ~Holds(run.job, run.next)
    BY DEF CaptureInv, ResumesAfterHeld, ResumeSkipsHeld
  <2>1. /\ run.job \in Jobs /\ run.next \in Batches /\ run.next > run.at.batch
    BY InHand DEF CaptureInv, RunShape
  <2>2. Clear(sets, run.job, run.at, NoSet)
    BY DEF CaptureInv, NothingAhead, Committing
  <2>3. /\ ~LiveIn(sets, StageOf(run.job, run.next))
        /\ LiveIn(sets, BatchOf(run.job, run.next)) => sets[BatchOf(run.job, run.next)].partial
    BY <2>1, <2>2, SetParts DEF Clear
  <2> QED
    BY <2>3 DEF Holds, Live, LiveIn, BatchOf, StageOf
<1> QED
  BY <1>1, CaptureInvariant, PTL

(* The summary progress moves past a window (saveSummaryProgress at the end  *)
(* of the workflow) only when its job holds every batch of it, unless the    *)
(* user undoes a change set meanwhile or is back before the other chat is    *)
(* bound.                                                                    *)
THEOREM SummariesAreHeld == Spec => SummarizedIsHeld
<1>1. CaptureInv /\ [Next /\ UNCHANGED setting]_<<vars, setting>>
        => [(progress' > progress /\ ~setting.undoes /\ ~setting.returnsAtOnce)
              => \A n \in Batches : Holds(run.job, n)]_vars
  <2> SUFFICES ASSUME CaptureInv, Next, progress' > progress, Steady
               PROVE  \A n \in Batches : Holds(run.job, n)
    BY DEF Steady, vars
  <2>1. SaveProgress
    <3>1. progress' # progress
      BY Sizes DEF CaptureInv, TypeOK
    <3> QED
      BY <3>1 DEF Next, Begin, Work, Environment, Resume, NewJob, CompleteResumed, BeginBatches, CheckBatch,
                  Extracted, Commit, CommitReplays, LeaveScope, DiscardCommit, KeepCommit, Derive,
                  ReadForFinalize, Unwind, Unwound, Settle, PersistStale, PersistRollbackFailed, PersistError,
                  ExtractFails, ProgressFails, Cancel, SwitchAway, Rebound, SwitchBack, Stop, StartAgain,
                  Reload, Grow, UndoByUser, Outer
  <2>2. AllHeld(sets, run.job)
    BY <2>1 DEF SaveProgress, CaptureInv, NothingLost
  <2> QED
    BY <2>2 DEF AllHeld, HeldIn, Holds, Live, LiveIn, BatchOf, StageOf
<1> QED
  BY <1>1, CaptureInvariant, PTL DEF Spec, SummarizedIsHeld

-----------------------------------------------------------------------------
(* The extraction.                                                          *)

(* The inductive invariant.  What a gateway gave out was stored before, and a *)
(* finished stage rests on reads of the gateway it ran with, at revisions no  *)
(* older than those given out; so reads that still compare equal are current. *)
Revision == [Records -> Nat]
Gateways == [seeded : BOOLEAN, shown : Revision, issued : Revision, held : Revision, reads : SUBSET (Stages \X Records)]
Extractions ==
    [pc : {"prefetch", "model", "tools", "check", "refresh", "recheck", "plan", "planned", "thrown"},
     mode : {"agent", "untooled", "alone"}, stage : Stages, mentioned : SUBSET Records, gates : Seq(Gateways),
     counts : [Stages -> 0..2], result : [Stages -> {"none", "completed", "failed"}],
     basis : [Stages -> SUBSET (Records \X Revisions)],
     rounds : Nat, told : BOOLEAN, session : BOOLEAN, open : BOOLEAN, aborted : BOOLEAN,
     rerun : SUBSET Stages, retried : SUBSET Stages, stale : SUBSET Stages, compared : Revision]

Extracting == {"model", "tools"}
Pair == {"entities", "content"}
GateSound(g, st) ==
    /\ \A r \in Records : g.shown[r] <= st[r] /\ g.issued[r] <= g.held[r] /\ g.held[r] <= st[r]
    /\ \A e \in g.reads : e[1] \in Pair /\ g.issued[e[2]] > 0
GatesSound(x, st) == \A i \in DOMAIN x.gates : GateSound(x.gates[i], st)
\* Without tools nothing is read and nothing runs again.
Untouched(x) == (\A i \in DOMAIN x.gates : x.gates[i].reads = {}) /\ \A s \in Stages : x.basis[s] = {}
Roles(x) ==
    /\ x.mode # "alone" => x.stage \in Pair
    /\ x.mode # "agent" => Untouched(x) /\ x.rerun = {}
    /\ x.retried \subseteq x.rerun /\ x.rerun \subseteq Pair
    /\ x.retried # {} => "content" \in x.rerun
Opened(x) == Len(x.gates) = IF x.retried = {} THEN 1 ELSE 2
Staged(x) ==
    /\ Roles(x)
    /\ x.pc \in {"prefetch", "planned", "thrown"} => Len(x.gates) = 0
    /\ x.pc \in Extracting => Opened(x)
    /\ x.pc \in {"check", "refresh"} => Len(x.gates) = 1
    /\ x.pc = "recheck" => Len(x.gates) = 2
    /\ x.pc = "plan" => Len(x.gates) \in {1, 2}
    /\ x.pc \in {"tools", "refresh", "recheck"} => x.mode = "agent"
    /\ x.pc \in {"prefetch", "check", "refresh"} => x.retried = {}
    /\ x.pc \in {"refresh", "recheck"} => "content" \in x.rerun
    /\ x.pc \in Extracting /\ x.retried # {} => x.stage \in x.retried
Affordable(x) ==
    /\ x.pc = "prefetch" => \A s \in Stages : x.counts[s] = 0 /\ x.basis[s] = {}
    /\ (x.pc \in Extracting /\ x.mode # "alone" /\ x.stage = "entities" /\ (x.retried = {} \/ "content" \in x.retried))
          => x.counts["content"] < 2
BackedBy(g, s, read, st) == <<s, read[1]>> \in g.reads /\ g.issued[read[1]] <= read[2] /\ read[2] <= st[read[1]]
EntitiesGate(x) == x.gates[IF "entities" \in x.retried THEN 2 ELSE 1]
EntitiesBacked(x, st) == \A read \in x.basis["entities"] : BackedBy(EntitiesGate(x), "entities", read, st)
ContentBacked(x, st) ==
    \A read \in x.basis["content"] :
        BackedBy(EntitiesGate(x), "entities", read, st) \/ BackedBy(Gate(x), "content", read, st)
Judged(x) ==
    "content" \notin x.stale =>
        \A read \in x.basis["content"] : read[1] \in FactRecords \/ read[2] = x.compared[read[1]]
BackedAt(x, st) ==
    /\ x.pc \in Extracting /\ x.stage = "content" => EntitiesBacked(x, st)
    /\ x.pc \in {"check", "refresh"} => EntitiesBacked(x, st)
    /\ x.pc = "check" => ContentBacked(x, st)
    /\ x.pc = "recheck" /\ "content" \in x.retried => ContentBacked(x, st)
    /\ x.pc \in {"plan", "planned"} => Judged(x)
Right(x, st) ==
    /\ x \in Extractions
    /\ GatesSound(x, st)
    /\ Staged(x) /\ Affordable(x) /\ BackedAt(x, st)
    /\ x.open => x.pc \in Extracting /\ x.session
ExtractionInv == stored \in [Records -> Revisions] /\ Right(extraction, stored)

-----------------------------------------------------------------------------
(* The stages.                                                               *)

LEMMA ThrowsIsRight ==
  ASSUME NEW st, NEW x \in Extractions, Roles(x), ~x.open
  PROVE  Right(Throws(x), st)
<1> DEFINE y == Throws(x)
<1>1. /\ y \in Extractions /\ y.pc = "thrown" /\ y.gates = << >> /\ y.mode = x.mode /\ y.stage = x.stage
      /\ y.basis = x.basis /\ y.rerun = x.rerun /\ y.retried = x.retried /\ y.open = x.open
  <2>1. << >> \in Seq(Gateways)
    OBVIOUS
  <2> QED
    BY <2>1 DEF Throws, Extractions
<1> HIDE DEF y
<1>2. Roles(y)
  BY <1>1 DEF Roles, Untouched
<1>3. GatesSound(y, st) /\ Staged(y) /\ Affordable(y) /\ BackedAt(y, st)
  BY <1>1, <1>2 DEF GatesSound, Staged, Affordable, BackedAt, Extracting
<1> QED
  BY <1>1, <1>3 DEF Right, y

(* A stage may start: with its gateway, within its budget, on finished       *)
(* entities.                                                                  *)
MayEnter(x, s, st) ==
    /\ x \in Extractions /\ s \in Stages /\ GatesSound(x, st) /\ Roles(x) /\ ~x.open
    /\ Opened(x)
    /\ x.mode # "alone" => s \in Pair
    /\ x.retried # {} => s \in x.retried
    /\ x.counts[s] < 2
    /\ (x.mode # "alone" /\ s = "entities" /\ (x.retried = {} \/ "content" \in x.retried)) => x.counts["content"] < 2
    /\ s = "content" => EntitiesBacked(x, st)
LEMMA EnterIsRight ==
  ASSUME NEW st, NEW x, NEW s, MayEnter(x, s, st)
  PROVE  Right(Enter(x, s), st)
<1> DEFINE y == Enter(x, s)
<1>0. x \in Extractions /\ [x.counts EXCEPT ![s] = @ + 1] \in [Stages -> 0..2]
  BY DEF Extractions, MayEnter
<1>1. /\ y \in Extractions /\ y.pc = "model" /\ y.stage = s /\ y.mode = x.mode /\ y.gates = x.gates
      /\ y.counts = [x.counts EXCEPT ![s] = @ + 1] /\ y.basis = x.basis
      /\ y.rerun = x.rerun /\ y.retried = x.retried /\ y.open = x.open
  <2>1. s \in Stages
    BY DEF MayEnter
  <2> QED
    BY <1>0, <2>1 DEF Enter, Extractions
<1>2. x.counts \in [Stages -> 0..2] /\ s \in Stages
  BY DEF Extractions, MayEnter
<1> HIDE DEF y
<1>3. Roles(y) /\ Opened(y)
  BY <1>1 DEF Roles, Untouched, MayEnter, Opened
<1>4. GatesSound(y, st) /\ Staged(y) /\ BackedAt(y, st)
  BY <1>1, <1>3 DEF GatesSound, Staged, BackedAt, Extracting, MayEnter, EntitiesBacked, EntitiesGate
<1>5. Affordable(y)
  BY <1>1, <1>2 DEF Affordable, MayEnter, Extracting, Stages
<1> QED
  BY <1>1, <1>4, <1>5 DEF Right, MayEnter, y

(* A stage is over: it rests on reads of its gateway. *)
Finished(x, st) ==
    /\ x \in Extractions /\ x.pc \in Extracting /\ GatesSound(x, st) /\ Staged(x) /\ Affordable(x) /\ ~x.open
    /\ EntitiesBacked(x, st)
    /\ x.stage = "content" => ContentBacked(x, st)
LEMMA CheckedNext ==
  ASSUME NEW st, NEW x, Finished(x, st), x.retried = {}, x.mode = "alone" \/ x.stage = "content"
  PROVE  Right([x EXCEPT !.pc = "check"], st)
<1> DEFINE y == [x EXCEPT !.pc = "check"]
<1>1. /\ y \in Extractions /\ y.pc = "check" /\ y.stage = x.stage /\ y.mode = x.mode /\ y.gates = x.gates
      /\ y.counts = x.counts /\ y.basis = x.basis
      /\ y.rerun = x.rerun /\ y.retried = x.retried /\ y.open = x.open
  BY DEF Extractions, Finished
<1> HIDE DEF y
<1>2. Roles(y) /\ Len(y.gates) = 1
  BY <1>1 DEF Roles, Untouched, Finished, Staged, Opened
<1>3. GatesSound(y, st) /\ Staged(y) /\ Affordable(y)
  BY <1>1, <1>2 DEF GatesSound, Staged, Extracting, Finished, Affordable
<1>4. EntitiesBacked(y, st)
  BY <1>1 DEF Finished, EntitiesBacked, EntitiesGate
<1>5. ContentBacked(y, st)
  <2>1. CASE x.stage = "content"
    BY <1>1, <2>1 DEF Finished, ContentBacked, EntitiesGate, Gate
  <2>2. CASE x.mode = "alone"
    <3>1. y.basis["content"] = {}
      BY <1>1, <2>2, <1>2 DEF Roles, Untouched, Stages
    <3> QED
      BY <3>1 DEF ContentBacked
  <2> QED
    BY <2>1, <2>2
<1> QED
  BY <1>1, <1>3, <1>4, <1>5 DEF Right, Finished, BackedAt, Extracting, y

LEMMA RecheckedNext ==
  ASSUME NEW st, NEW x, Finished(x, st), x.retried # {}, "content" \in x.retried => x.stage = "content"
  PROVE  Right([x EXCEPT !.pc = "recheck"], st)
<1> DEFINE y == [x EXCEPT !.pc = "recheck"]
<1>1. /\ y \in Extractions /\ y.pc = "recheck" /\ y.stage = x.stage /\ y.mode = x.mode /\ y.gates = x.gates
      /\ y.counts = x.counts /\ y.basis = x.basis
      /\ y.rerun = x.rerun /\ y.retried = x.retried /\ y.open = x.open
  BY DEF Extractions, Finished
<1>0. x.mode \in {"agent", "untooled", "alone"}
  BY DEF Extractions, Finished
<1> HIDE DEF y
<1>2. Roles(y) /\ Len(y.gates) = 2 /\ x.mode = "agent"
  BY <1>1, <1>0 DEF Roles, Untouched, Finished, Staged, Opened
<1>3. GatesSound(y, st) /\ Staged(y) /\ Affordable(y)
  BY <1>1, <1>2 DEF GatesSound, Staged, Extracting, Finished, Affordable, Roles
<1>4. "content" \in y.retried => ContentBacked(y, st)
  BY <1>1 DEF Finished, ContentBacked, EntitiesGate, Gate
<1> QED
  BY <1>1, <1>3, <1>4 DEF Right, Finished, BackedAt, Extracting, y

LEMMA NextStageIsRight ==
  ASSUME NEW st, NEW x, Finished(x, st)
  PROVE  Right(NextStage(x), st)
<1>1. x.stage \in Stages /\ (x.mode # "alone" => x.stage \in Pair) /\ (x.retried # {} => x.mode # "alone" /\ x.stage \in x.retried)
  BY DEF Finished, Extractions, Staged, Roles
<1>2. ASSUME x.mode # "alone", x.stage = "entities", x.retried = {} \/ "content" \in x.retried
      PROVE  MayEnter(x, "content", st)
  BY <1>2 DEF MayEnter, Finished, Staged, Affordable, Pair, Stages
<1>3. CASE x.mode = "alone"
  BY <1>1, <1>3, CheckedNext DEF NextStage
<1>4. CASE x.mode # "alone" /\ x.retried = {}
  BY <1>1, <1>2, <1>4, CheckedNext, EnterIsRight DEF NextStage, Pair
<1>5. CASE x.mode # "alone" /\ x.retried # {}
  <2>1. CASE x.stage = "entities" /\ "content" \in x.retried
    BY <1>2, <1>5, <2>1, EnterIsRight DEF NextStage
  <2>2. CASE ~(x.stage = "entities" /\ "content" \in x.retried)
    BY <1>1, <1>5, <2>2, RecheckedNext DEF NextStage, Pair
  <2> QED
    BY <2>1, <2>2
<1> QED
  BY <1>3, <1>4, <1>5

(* An attempt fails. *)
LEMMA FailedIsRight ==
  ASSUME NEW st, NEW x, NEW cancelled, Right(x, st), x.pc \in Extracting, ~x.open
  PROVE  Right(Failed(x, cancelled), st)
<1> DEFINE y == [x EXCEPT !.result[x.stage] = "failed", !.basis[x.stage] = {}]
<1>0. x \in Extractions /\ Staged(x) /\ Roles(x)
  BY DEF Right, Staged
<1>1. Right(Throws(x), st)
  BY <1>0, ThrowsIsRight
<1>2. ASSUME x.mode # "alone"
      PROVE  Finished(y, st)
  <2>1. /\ y \in Extractions /\ y.pc = x.pc /\ y.stage = x.stage /\ y.mode = x.mode /\ y.gates = x.gates
        /\ y.counts = x.counts /\ y.basis = [x.basis EXCEPT ![x.stage] = {}]
        /\ y.rerun = x.rerun /\ y.retried = x.retried /\ y.open = x.open
    BY <1>0 DEF Extractions
  <2>2. x.basis \in [Stages -> SUBSET (Records \X Revisions)] /\ x.stage \in Pair
    BY <1>0, <1>2 DEF Extractions, Roles
  <2> HIDE DEF y
  <2>3. \A s \in Stages : y.basis[s] \subseteq x.basis[s] /\ (s = x.stage => y.basis[s] = {})
    BY <2>1, <2>2
  <2>4. Roles(y) /\ Staged(y) /\ Affordable(y) /\ GatesSound(y, st)
    <3>1. Roles(y)
      BY <1>0, <2>1, <2>3 DEF Roles, Untouched
    <3> QED
      BY <1>0, <2>1, <3>1 DEF Staged, Affordable, GatesSound, Opened, Right
  <2>5. EntitiesBacked(y, st)
    <3>1. CASE x.stage = "entities"
      BY <2>3, <3>1 DEF EntitiesBacked, Stages
    <3>2. CASE x.stage = "content"
      BY <2>1, <2>3, <3>2 DEF EntitiesBacked, Stages, EntitiesGate, Right, BackedAt
    <3> QED
      BY <2>2, <3>1, <3>2 DEF Pair
  <2>6. y.stage = "content" => ContentBacked(y, st)
    BY <2>1, <2>3 DEF ContentBacked, Stages
  <2> QED
    BY <2>1, <2>4, <2>5, <2>6 DEF Finished
<1> HIDE DEF y
<1>3. ASSUME x.mode # "alone"
      PROVE  Right(NextStage(y), st)
  BY <1>2, <1>3, NextStageIsRight
<1> QED
  BY <1>1, <1>3 DEF Failed, y

LEMMA AttemptFailsIsRight ==
  ASSUME NEW st, NEW x, NEW format, NEW cancelled, Right(x, st), x.pc \in Extracting
  PROVE  Right(AttemptFails(x, format, cancelled), st)
<1> DEFINE y == Closed(x)
<1>1. /\ y \in Extractions /\ y.pc = x.pc /\ y.stage = x.stage /\ y.mode = x.mode /\ y.gates = x.gates
      /\ y.counts = x.counts /\ y.basis = x.basis
      /\ y.rerun = x.rerun /\ y.retried = x.retried /\ y.open = FALSE
      /\ y.stale = x.stale /\ y.compared = x.compared
  BY DEF Extractions, Right, Closed
<1> HIDE DEF y
<1>2. Roles(y) /\ Opened(y)
  BY <1>1 DEF Roles, Untouched, Right, Staged, Opened
<1>3. Right(y, st)
  <2>1. GatesSound(y, st) /\ Affordable(y) /\ Staged(y)
    BY <1>1, <1>2 DEF GatesSound, Affordable, Staged, Right
  <2>2. BackedAt(y, st)
    BY <1>1 DEF BackedAt, Right, EntitiesBacked, EntitiesGate, Extracting
  <2> QED
    BY <1>1, <2>1, <2>2 DEF Right
<1>4. ASSUME canRetry(y, y.stage)
      PROVE  MayEnter(y, y.stage, st)
  BY <1>1, <1>2, <1>3, <1>4 DEF MayEnter, canRetry, Right, Staged, Roles, Affordable, BackedAt, Extractions, Extracting
<1>5. ASSUME canRetry(y, y.stage)
      PROVE  Right(Enter(y, y.stage), st)
  BY <1>4, <1>5, EnterIsRight
<1>6. Right(Failed(y, cancelled), st)
  BY <1>1, <1>3, FailedIsRight
<1> QED
  BY <1>5, <1>6 DEF AttemptFails, y

(* A stage that answers rests on what it read, held at the revisions its      *)
(* gateway read the contents at.                                              *)
LEMMA HeldIsBacked ==
  ASSUME NEW st, NEW x, Right(x, st), x.pc \in Extracting, NEW s \in Stages
  PROVE  /\ Held(x, s) \in SUBSET (Records \X Revisions)
         /\ \A read \in Held(x, s) : BackedBy(Gate(x), s, read, st)
         /\ x.mode # "agent" => Held(x, s) = {}
<1>1. Gate(x) = x.gates[Len(x.gates)] /\ Len(x.gates) \in DOMAIN x.gates /\ x.gates \in Seq(Gateways)
  <2>1. x.gates \in Seq(Gateways) /\ Len(x.gates) \in {1, 2}
    BY DEF Right, Extractions, Staged, Opened
  <2>2. \A q \in Seq(Gateways) : Len(q) \in {1, 2} => Len(q) \in DOMAIN q
    OBVIOUS
  <2> QED
    BY <2>1, <2>2, Zenon DEF Gate
<1> DEFINE g == Gate(x)
<1>2. g \in Gateways /\ GateSound(g, st) /\ (x.mode # "agent" => g.reads = {})
  BY <1>1 DEF Right, GatesSound, Staged, Roles, Untouched
<1> HIDE DEF g
<1>3. Held(x, s) = {<<r, g.held[r]>> : r \in {q \in Records : <<s, q>> \in g.reads}}
  BY DEF Held, g
<1>4. \A q \in Records : <<s, q>> \in g.reads =>
         /\ g.held[q] \in Revisions /\ g.issued[q] <= g.held[q] /\ g.held[q] <= st[q]
  <2>1. \A q \in Records : g.held[q] \in Nat /\ g.issued[q] \in Nat
    BY <1>2 DEF Gateways, Revision
  <2>2. \A q \in Records : <<s, q>> \in g.reads => g.issued[q] > 0
    BY <1>2 DEF GateSound
  <2> QED
    BY <1>2, <2>1, <2>2 DEF GateSound, Revisions
<1>5. ASSUME NEW read \in Held(x, s)
      PROVE  read \in Records \X Revisions /\ BackedBy(g, s, read, st)
  <2>1. PICK q \in Records : <<s, q>> \in g.reads /\ read = <<q, g.held[q]>>
    BY <1>3, <1>5
  <2>2. read[1] = q /\ read[2] = g.held[q] /\ read \in Records \X Revisions
    BY <1>4, <2>1
  <2> QED
    BY <1>4, <2>1, <2>2 DEF BackedBy
<1>6. Held(x, s) \in SUBSET (Records \X Revisions) /\ \A read \in Held(x, s) : BackedBy(g, s, read, st)
  BY <1>5
<1>7. x.mode # "agent" => Held(x, s) = {}
  BY <1>2, <1>3
<1> QED
  BY <1>5, <1>6, <1>7 DEF g

LEMMA CompletedIsRight ==
  ASSUME NEW st, NEW x, Right(x, st), x.pc \in Extracting
  PROVE  Right(Completed(x), st)
<1> DEFINE s == x.stage
           now == Held(x, s) \cup IF s = "content" THEN x.basis["entities"] ELSE {}
           y == [x EXCEPT !.result[s] = "completed", !.session = FALSE, !.open = FALSE, !.rounds = 0, !.told = FALSE,
                          !.basis[s] = now]
<1>0. x \in Extractions /\ Staged(x) /\ Roles(x) /\ s \in Stages /\ x.basis \in [Stages -> SUBSET (Records \X Revisions)]
  BY DEF Right, Staged, Extractions
<1>1. /\ Held(x, s) \in SUBSET (Records \X Revisions)
      /\ \A read \in Held(x, s) : BackedBy(Gate(x), s, read, st)
      /\ x.mode # "agent" => Held(x, s) = {}
  BY <1>0, HeldIsBacked
<1>2. now \in SUBSET (Records \X Revisions)
  BY <1>0, <1>1 DEF Stages
<1>3. x.mode # "agent" => now = {}
  BY <1>0, <1>1 DEF Roles, Untouched, Stages
<1>4. \A read \in now : read \in Held(x, s) \/ (s = "content" /\ read \in x.basis["entities"])
  OBVIOUS
<1> HIDE DEF now
<1>5. /\ y \in Extractions /\ y.pc = x.pc /\ y.stage = x.stage /\ y.mode = x.mode /\ y.gates = x.gates
      /\ y.counts = x.counts /\ y.basis = [x.basis EXCEPT ![s] = now]
      /\ y.rerun = x.rerun /\ y.retried = x.retried /\ y.open = FALSE
  BY <1>0, <1>2 DEF Extractions
<1> HIDE DEF y
<1>6. /\ y.basis[s] = now /\ \A t \in Stages : t # s => y.basis[t] = x.basis[t]
  BY <1>0, <1>5
<1>7. Roles(y) /\ Staged(y) /\ Affordable(y) /\ GatesSound(y, st)
  <2>1. Roles(y)
    BY <1>0, <1>3, <1>5, <1>6 DEF Roles, Untouched
  <2> QED
    BY <1>0, <1>5, <2>1 DEF Staged, Affordable, GatesSound, Opened, Right
<1>8. s = "content" => EntitiesBacked(x, st)
  BY DEF Right, BackedAt
<1>9. EntitiesBacked(y, st)
  <2>1. CASE s = "entities"
    <3>1. EntitiesGate(y) = Gate(x)
      BY <1>0, <1>5, <2>1 DEF EntitiesGate, Gate, Staged, Opened
    <3> QED
      BY <1>1, <1>4, <1>6, <2>1, <3>1 DEF EntitiesBacked
  <2>2. CASE s = "content"
    BY <1>5, <1>6, <1>8, <2>2 DEF EntitiesBacked, EntitiesGate, Stages
  <2>3. CASE s \notin Pair
    <3>1. y.basis["entities"] = {}
      BY <1>0, <1>6, <2>3 DEF Roles, Untouched, Pair, Stages
    <3> QED
      BY <3>1 DEF EntitiesBacked
  <2> QED
    BY <2>1, <2>2, <2>3 DEF Pair
<1>10. s = "content" => ContentBacked(y, st)
  <2>1. SUFFICES ASSUME s = "content", NEW read \in now
                 PROVE  BackedBy(EntitiesGate(y), "entities", read, st) \/ BackedBy(Gate(y), "content", read, st)
    BY <1>6 DEF ContentBacked
  <2>2. EntitiesGate(y) = EntitiesGate(x) /\ Gate(y) = Gate(x)
    BY <1>5 DEF EntitiesGate, Gate
  <2> QED
    BY <1>1, <1>4, <1>8, <2>1, <2>2 DEF EntitiesBacked
<1>11. Finished(y, st)
  BY <1>5, <1>7, <1>9, <1>10 DEF Finished
<1>12. Completed(x) = NextStage(y)
  BY DEF Completed, y, now
<1> QED
  BY <1>11, <1>12, NextStageIsRight

-----------------------------------------------------------------------------
(* The steps of an extraction.                                               *)

LEMMA StoredIsRevision ==
  ASSUME stored \in [Records -> Revisions]
  PROVE  stored \in Revision /\ NoRevisions \in Revision /\ \A r \in Records : stored[r] > 0
  BY DEF Revisions, Revision, NoRevisions

(* A new gateway lists what is stored. *)
LEMMA PrefetchedGates ==
  ASSUME stored \in [Records -> Revisions], NEW x \in Extractions
  PROVE  /\ Prefetched(x) \in Seq(Gateways) /\ Len(Prefetched(x)) = Len(x.gates) + 1
         /\ \A i \in DOMAIN x.gates : Prefetched(x)[i] = x.gates[i]
         /\ Prefetched(x)[Len(x.gates) + 1].reads = {}
         /\ GatesSound(x, stored) => \A i \in DOMAIN Prefetched(x) : GateSound(Prefetched(x)[i], stored)
<1> DEFINE shown == [r \in Records |-> IF r \in x.mentioned THEN stored[r] ELSE 0]
           g == Gateway(shown)
<1>1. shown \in Revision /\ \A r \in Records : shown[r] <= stored[r]
  BY DEF Revision, Revisions
<1>2. Prefetched(x) = Append(x.gates, g) /\ x.gates \in Seq(Gateways)
  BY DEF Prefetched, Extractions
<1> HIDE DEF shown
<1>3. g \in Gateways /\ g.reads = {} /\ g.shown = shown /\ g.issued = NoRevisions /\ g.held = NoRevisions
  BY <1>1, StoredIsRevision DEF Gateway, Gateways
<1>4. GateSound(g, stored)
  <2>1. \A r \in Records : NoRevisions[r] = 0 /\ NoRevisions[r] <= stored[r]
    BY DEF NoRevisions, Revisions
  <2> QED
    BY <1>1, <1>3, <2>1 DEF GateSound
<1> HIDE DEF g
<1>5. /\ Append(x.gates, g) \in Seq(Gateways) /\ Len(Append(x.gates, g)) = Len(x.gates) + 1
      /\ \A i \in DOMAIN x.gates : Append(x.gates, g)[i] = x.gates[i]
      /\ Append(x.gates, g)[Len(x.gates) + 1] = g
      /\ \A i \in DOMAIN Append(x.gates, g) : i \in DOMAIN x.gates \/ i = Len(x.gates) + 1
  BY <1>2, <1>3
<1> QED
  BY <1>2, <1>3, <1>4, <1>5 DEF GatesSound

LEMMA PrefetchKeeps ==
  ASSUME ExtractionInv, Prefetch
  PROVE  ExtractionInv'
<1> DEFINE x == [extraction EXCEPT !.gates = Prefetched(extraction)]
<1>1. /\ stored \in [Records -> Revisions] /\ stored' = stored /\ extraction \in Extractions /\ extraction.pc = "prefetch"
      /\ extraction.gates = << >> /\ extraction.retried = {} /\ Roles(extraction) /\ ~extraction.open
      /\ \A s \in Stages : extraction.counts[s] = 0 /\ extraction.basis[s] = {}
      /\ GatesSound(extraction, stored)
  <2>1. extraction \in Extractions /\ Len(extraction.gates) = 0
    BY DEF ExtractionInv, Right, Prefetch, Staged
  <2>2. extraction.gates = << >>
    BY <2>1 DEF Extractions
  <2> QED
    BY <2>2 DEF ExtractionInv, Right, Prefetch, Staged, Affordable, Extracting
<1>2. /\ Prefetched(extraction) \in Seq(Gateways) /\ Len(Prefetched(extraction)) = 1
      /\ Prefetched(extraction)[1].reads = {}
      /\ \A i \in DOMAIN Prefetched(extraction) : GateSound(Prefetched(extraction)[i], stored)
  <2>1. Len(extraction.gates) = 0 /\ Len(extraction.gates) + 1 = 1
    BY <1>1
  <2> QED
    BY <1>1, <2>1, PrefetchedGates, Zenon
<1>3. /\ x \in Extractions /\ x.gates = Prefetched(extraction) /\ x.mode = extraction.mode /\ x.stage = extraction.stage
      /\ x.counts = extraction.counts /\ x.basis = extraction.basis /\ x.rerun = extraction.rerun
      /\ x.retried = extraction.retried /\ x.open = extraction.open /\ x.pc = extraction.pc
  BY <1>1, <1>2 DEF Extractions
<1>4. extraction' = IF x.aborted THEN Throws(x) ELSE Enter(x, x.stage)
  BY DEF Prefetch
<1> HIDE DEF x
<1>5. Roles(x)
  <2>1. \A i \in DOMAIN x.gates : i = 1
    BY <1>2, <1>3
  <2> QED
    BY <1>1, <1>2, <1>3, <2>1 DEF Roles, Untouched
<1>6. x.stage = "content" => EntitiesBacked(x, stored)
  BY <1>1, <1>3 DEF EntitiesBacked, Stages
<1>7. MayEnter(x, x.stage, stored)
  BY <1>1, <1>2, <1>3, <1>5, <1>6 DEF MayEnter, Roles, GatesSound, Opened, Extractions, Stages
<1>8. Right(Throws(x), stored) /\ Right(Enter(x, x.stage), stored)
  BY <1>1, <1>3, <1>5, <1>7, ThrowsIsRight, EnterIsRight
<1> QED
  BY <1>1, <1>4, <1>8 DEF ExtractionInv

(* A turn of the same stage with the same reads. *)
SameStage(x, y) ==
    /\ y \in Extractions /\ x.pc \in Extracting /\ y.pc \in Extracting /\ (y.pc = "tools" => x.mode = "agent")
    /\ y.mode = x.mode /\ y.stage = x.stage /\ y.gates = x.gates /\ y.counts = x.counts /\ y.basis = x.basis
    /\ y.rerun = x.rerun /\ y.retried = x.retried /\ (y.open => y.session)
LEMMA SameStageIsRight ==
  ASSUME NEW st, NEW x, NEW y, Right(x, st), SameStage(x, y)
  PROVE  Right(y, st)
<1>1. Roles(y) /\ Opened(y)
  BY DEF SameStage, Right, Staged, Roles, Untouched, Opened
<1>2. GatesSound(y, st) /\ Affordable(y) /\ Staged(y)
  BY <1>1 DEF GatesSound, Affordable, Staged, Right, SameStage, Extracting
<1>3. BackedAt(y, st)
  BY DEF BackedAt, Right, EntitiesBacked, EntitiesGate, Extracting, SameStage
<1> QED
  BY <1>1, <1>2, <1>3 DEF Right, SameStage

LEMMA TurnKeeps ==
  ASSUME ExtractionInv,
         RefuseUntooled \/ TurnAnswers \/ RejectArguments \/ \E format, cancelled \in BOOLEAN : TurnFails(format, cancelled)
  PROVE  ExtractionInv'
<1>1. Right(extraction, stored) /\ extraction \in Extractions /\ stored' = stored /\ extraction.pc \in Extracting
  BY DEF ExtractionInv, Right, RefuseUntooled, TurnAnswers, RejectArguments, TurnFails, Turn, Extracting
<1>2. \A format, cancelled : Right(AttemptFails(extraction, format, cancelled), stored)
  BY <1>1, AttemptFailsIsRight
<1>3. Right(Completed(extraction), stored)
  BY <1>1, CompletedIsRight
<1>4. Right(extraction', stored)
  <2>1. CASE RefuseUntooled \/ \E format, cancelled \in BOOLEAN : TurnFails(format, cancelled)
    BY <1>2, <2>1 DEF RefuseUntooled, TurnFails
  <2>2. CASE TurnAnswers
    BY <1>3, <2>2 DEF TurnAnswers
  <2>3. CASE RejectArguments
    <3> DEFINE y == [extraction EXCEPT !.told = TRUE, !.pc = "model"]
    <3>1. extraction.open => extraction.session
      BY <1>1 DEF Right
    <3>2. SameStage(extraction, y)
      BY <1>1, <3>1 DEF SameStage, Extractions, Extracting
    <3> HIDE DEF y
    <3>3. Right(y, stored)
      BY <1>1, <3>2, SameStageIsRight
    <3> QED
      BY <1>2, <2>3, <3>3 DEF RejectArguments, y
  <2> QED
    BY <2>1, <2>2, <2>3
<1> QED
  BY <1>1, <1>4 DEF ExtractionInv

LEMMA TurnCallsToolsKeeps ==
  ASSUME ExtractionInv, TurnCallsTools
  PROVE  ExtractionInv'
<1>1. /\ Right(extraction, stored) /\ extraction \in Extractions /\ stored' = stored
      /\ extraction.pc = "model" /\ extraction.mode = "agent"
  BY DEF ExtractionInv, Right, TurnCallsTools, Turn
<1> DEFINE x == [extraction EXCEPT !.rounds = @ + 1, !.session = TRUE, !.open = TRUE]
           y == [x EXCEPT !.pc = "tools"]
<1>2. extraction' = IF x.rounds > MaxRounds THEN AttemptFails(x, FALSE, FALSE) ELSE y
  BY DEF TurnCallsTools
<1>3. SameStage(extraction, x) /\ SameStage(extraction, y) /\ x.pc \in Extracting
  <2>0. extraction.rounds + 1 \in Nat
    BY <1>1 DEF Extractions
  <2>1. /\ x \in Extractions /\ x.pc = "model" /\ x.mode = extraction.mode /\ x.stage = extraction.stage
        /\ x.gates = extraction.gates /\ x.counts = extraction.counts /\ x.basis = extraction.basis
        /\ x.rerun = extraction.rerun /\ x.retried = extraction.retried /\ x.open = TRUE /\ x.session = TRUE
    BY <1>1, <2>0 DEF Extractions
  <2> HIDE DEF x
  <2>2. /\ y \in Extractions /\ y.pc = "tools" /\ y.mode = x.mode /\ y.stage = x.stage
        /\ y.gates = x.gates /\ y.counts = x.counts /\ y.basis = x.basis
        /\ y.rerun = x.rerun /\ y.retried = x.retried /\ y.open = TRUE /\ y.session = TRUE
    BY <2>1 DEF Extractions
  <2> HIDE DEF y
  <2> QED
    BY <1>1, <2>1, <2>2 DEF SameStage, Extracting
<1> HIDE DEF x, y
<1>4. Right(x, stored) /\ Right(y, stored)
  BY <1>1, <1>3, SameStageIsRight
<1>5. Right(AttemptFails(x, FALSE, FALSE), stored)
  BY <1>3, <1>4, AttemptFailsIsRight
<1> QED
  BY <1>1, <1>2, <1>4, <1>5 DEF ExtractionInv

(* What was given out stays as it was given out. *)
Grown(g, h, stage, rs) ==
    /\ h \in Gateways /\ g.reads \subseteq h.reads /\ h.reads = g.reads \cup ({stage} \X rs)
    /\ \A r \in Records : /\ g.issued[r] > 0 => h.issued[r] = g.issued[r] /\ h.held[r] = g.held[r]
                          /\ r \in rs => h.issued[r] > 0
                          /\ h.shown[r] <= stored[r] /\ h.issued[r] <= h.held[r] /\ h.held[r] <= stored[r]
LEMMA IssueGrows ==
  ASSUME stored \in [Records -> Revisions], NEW g \in Gateways, GateSound(g, stored),
         NEW stage \in Stages, NEW rs \in SUBSET Records
  PROVE  Grown(g, [Issue(g, rs) EXCEPT !.reads = @ \cup ({stage} \X rs)], stage, rs)
<1> DEFINE listed(r) == ~g.seeded /\ g.shown[r] > 0
           fresh(r) == g.issued[r] = 0 /\ (listed(r) \/ r \in rs)
           issued == [r \in Records |-> IF ~fresh(r) THEN g.issued[r] ELSE IF listed(r) THEN g.shown[r] ELSE stored[r]]
           held == [r \in Records |-> IF fresh(r) THEN stored[r] ELSE g.held[r]]
           h == [Issue(g, rs) EXCEPT !.reads = @ \cup ({stage} \X rs)]
<1>1. g.shown \in Revision /\ g.issued \in Revision /\ g.held \in Revision /\ g.reads \in SUBSET (Stages \X Records)
  BY DEF Gateways
<1>2. issued \in Revision /\ held \in Revision /\ NoRevisions \in Revision
  BY <1>1 DEF Revision, Revisions, NoRevisions
<1>3. Issue(g, rs) = [g EXCEPT !.seeded = TRUE, !.shown = NoRevisions, !.issued = issued, !.held = held]
  BY DEF Issue
<1>4. ASSUME NEW r \in Records
      PROVE  /\ g.issued[r] > 0 => issued[r] = g.issued[r] /\ held[r] = g.held[r]
             /\ r \in rs => issued[r] > 0
             /\ issued[r] <= held[r] /\ held[r] <= stored[r] /\ NoRevisions[r] <= stored[r]
  <2>1. g.shown[r] \in Nat /\ g.issued[r] \in Nat /\ g.held[r] \in Nat /\ stored[r] \in Nat /\ stored[r] > 0
    BY <1>1 DEF Revision, Revisions
  <2>2. g.shown[r] <= stored[r] /\ g.issued[r] <= g.held[r] /\ g.held[r] <= stored[r]
    BY DEF GateSound
  <2> QED
    BY <2>1, <2>2 DEF NoRevisions
<1> HIDE DEF issued, held
<1>5. h = [g EXCEPT !.seeded = TRUE, !.shown = NoRevisions, !.issued = issued, !.held = held,
                    !.reads = g.reads \cup ({stage} \X rs)]
  BY <1>3 DEF Gateways
<1> HIDE DEF h
<1>6. /\ h \in Gateways /\ h.reads = g.reads \cup ({stage} \X rs) /\ h.shown = NoRevisions
      /\ h.issued = issued /\ h.held = held
  BY <1>1, <1>2, <1>5 DEF Gateways
<1>7. Grown(g, h, stage, rs)
  BY <1>4, <1>6 DEF Grown
<1> QED
  BY <1>7 DEF h

LEMMA GrownIsSound ==
  ASSUME NEW g \in Gateways, NEW h, NEW stage \in Pair, NEW rs \in SUBSET Records,
         GateSound(g, stored), Grown(g, h, stage, rs)
  PROVE  /\ GateSound(h, stored)
         /\ \A s, read : BackedBy(g, s, read, stored) => BackedBy(h, s, read, stored)
<1>1. g.reads \in SUBSET (Stages \X Records) /\ g.issued \in Revision
  BY DEF Gateways
<1>2. ASSUME NEW e \in h.reads
      PROVE  e[1] \in Pair /\ h.issued[e[2]] > 0
  <2>1. CASE e \in g.reads
    <3>1. e[2] \in Records /\ e[1] \in Pair /\ g.issued[e[2]] > 0
      BY <1>1, <2>1 DEF GateSound
    <3> QED
      BY <3>1 DEF Grown
  <2>2. CASE e \in {stage} \X rs
    BY <2>2 DEF Grown
  <2> QED
    BY <2>1, <2>2 DEF Grown
<1>3. ASSUME NEW s, NEW read, BackedBy(g, s, read, stored)
      PROVE  BackedBy(h, s, read, stored)
  <2>1. <<s, read[1]>> \in g.reads /\ read[1] \in Records /\ g.issued[read[1]] > 0
    BY <1>1, <1>3 DEF BackedBy, GateSound
  <2> QED
    BY <1>3, <2>1 DEF BackedBy, Grown
<1> QED
  BY <1>2, <1>3 DEF GateSound, Grown

LEMMA executeBatchKeeps ==
  ASSUME ExtractionInv, NEW rs \in SUBSET Records, executeBatch(rs)
  PROVE  ExtractionInv'
<1> DEFINE x == extraction
           n == Len(x.gates)
           g == Gate(x)
           h == [Issue(g, rs) EXCEPT !.reads = @ \cup ({x.stage} \X rs)]
           y == [x EXCEPT !.pc = "model", !.gates[n] = h]
<1>1. /\ Right(x, stored) /\ x \in Extractions /\ stored' = stored /\ stored \in [Records -> Revisions]
      /\ x.pc = "tools" /\ x.mode = "agent" /\ x.stage \in Pair /\ x.stage \in Stages /\ Staged(x) /\ Roles(x)
      /\ x.gates \in Seq(Gateways)
  BY DEF ExtractionInv, Right, executeBatch, Staged, Roles, Extractions, Pair, Stages
<1>2. extraction' = IF x.aborted THEN AttemptFails(x, FALSE, TRUE) ELSE y
  BY DEF executeBatch
<1>3. Right(AttemptFails(x, FALSE, TRUE), stored)
  BY <1>1, AttemptFailsIsRight DEF Extracting
<1>4. n \in DOMAIN x.gates /\ g = x.gates[n] /\ n \in {1, 2} /\ (n = 2 <=> x.retried # {})
  <2>1. n \in {1, 2} /\ (n = 2 <=> x.retried # {})
    <3>1. Opened(x)
      BY <1>1 DEF Staged, Extracting
    <3> QED
      BY <3>1 DEF Opened
  <2>2. \A q \in Seq(Gateways) : Len(q) \in {1, 2} => Len(q) \in DOMAIN q
    OBVIOUS
  <2> QED
    BY <1>1, <2>1, <2>2 DEF Gate
<1>5. g \in Gateways /\ GateSound(g, stored)
  BY <1>1, <1>4 DEF Right, GatesSound
<1> HIDE DEF g
<1>6. Grown(g, h, x.stage, rs)
  BY <1>1, <1>5, IssueGrows
<1> HIDE DEF h
<1>7. h \in Gateways /\ GateSound(h, stored) /\ \A s, read : BackedBy(g, s, read, stored) => BackedBy(h, s, read, stored)
  BY <1>1, <1>5, <1>6, GrownIsSound DEF Grown
<1>8. /\ [x.gates EXCEPT ![n] = h] \in Seq(Gateways) /\ Len([x.gates EXCEPT ![n] = h]) = n
      /\ \A i \in DOMAIN [x.gates EXCEPT ![n] = h] :
            i \in DOMAIN x.gates /\ [x.gates EXCEPT ![n] = h][i] = IF i = n THEN h ELSE x.gates[i]
      /\ DOMAIN [x.gates EXCEPT ![n] = h] = DOMAIN x.gates
  BY <1>1, <1>4, <1>7
<1>9. /\ y \in Extractions /\ y.pc = "model" /\ y.mode = x.mode /\ y.stage = x.stage /\ y.counts = x.counts
      /\ y.basis = x.basis /\ y.rerun = x.rerun /\ y.retried = x.retried /\ y.open = x.open /\ y.session = x.session
      /\ y.gates = [x.gates EXCEPT ![n] = h]
  BY <1>1, <1>8 DEF Extractions
<1> HIDE DEF y
<1>10. GatesSound(y, stored)
  BY <1>1, <1>7, <1>8, <1>9 DEF GatesSound, Right
<1>11. Roles(y) /\ Staged(y) /\ Affordable(y)
  BY <1>1, <1>8, <1>9 DEF Right, Roles, Staged, Affordable, Opened, Extracting
<1>12. BackedAt(y, stored)
  <2>1. SUFFICES ASSUME y.stage = "content", NEW read \in y.basis["entities"]
                 PROVE  BackedBy(EntitiesGate(y), "entities", read, stored)
    BY <1>9 DEF BackedAt, EntitiesBacked
  <2>2. BackedBy(EntitiesGate(x), "entities", read, stored)
    BY <1>1, <1>9, <2>1 DEF Right, BackedAt, EntitiesBacked, Extracting
  <2> DEFINE i == IF "entities" \in x.retried THEN 2 ELSE 1
  <2>3. i \in DOMAIN x.gates
    <3>1. i \in 1..n
      BY <1>4
    <3> QED
      BY <1>1, <3>1
  <2>4. EntitiesGate(x) = x.gates[i] /\ EntitiesGate(y) = IF i = n THEN h ELSE x.gates[i]
    BY <1>8, <1>9, <2>3 DEF EntitiesGate
  <2> QED
    BY <1>4, <1>7, <2>2, <2>4
<1>13. Right(y, stored)
  BY <1>1, <1>9, <1>10, <1>11, <1>12 DEF Right, Extracting
<1> QED
  BY <1>1, <1>2, <1>3, <1>13 DEF ExtractionInv

-----------------------------------------------------------------------------
(* The comparisons and the reruns.                                           *)

\* What was given out at the revision that is stored was held at it.
LEMMA CurrentIsHeld ==
  ASSUME stored \in [Records -> Revisions], NEW g \in Gateways, NEW s \in Pair, NEW read \in Records \X Revisions,
         BackedBy(g, s, read, stored), NEW ignored, s \notin ignored,
         <<s, read[1]>> \notin StaleReads(g, ignored)
  PROVE  read[2] = stored[read[1]]
<1>1. <<s, read[1]>> \in g.reads /\ g.issued[read[1]] = stored[read[1]]
  BY DEF BackedBy, StaleReads
<1>2. stored[read[1]] \in Nat /\ read[2] \in Nat
  BY DEF Revisions
<1> QED
  BY <1>1, <1>2 DEF BackedBy

LEMMA StaleRequires ==
  ASSUME NEW entries, \A e \in entries : e[1] \in Pair
  PROVE  /\ stagesRequiringRerun(entries) \subseteq Pair
         /\ stagesRequiringRerun(entries) # {} => "content" \in stagesRequiringRerun(entries)
         /\ entries = {} => stagesRequiringRerun(entries) = {}
         /\ ReadersOf(entries) \subseteq Pair
         /\ "content" \notin stagesRequiringRerun(entries) =>
               \A e \in entries : e[2] \in FactRecords
  BY DEF stagesRequiringRerun, ReadersOf, Pair

LEMMA CheckReadsKeeps ==
  ASSUME ExtractionInv, CheckReads
  PROVE  ExtractionInv'
<1> DEFINE x == extraction
           g == x.gates[1]
           entries == StaleReads(g, {})
           rerun == stagesRequiringRerun(entries)
           stale == rerun \cup ReadersOf(entries)
           pc == IF rerun = {} THEN "plan" ELSE "refresh"
           y == [x EXCEPT !.pc = pc, !.rerun = rerun, !.stale = stale, !.compared = stored]
<1>1. /\ Right(x, stored) /\ x \in Extractions /\ stored' = stored /\ stored \in [Records -> Revisions]
      /\ x.pc = "check" /\ Staged(x) /\ Roles(x) /\ x.gates \in Seq(Gateways) /\ Len(x.gates) = 1 /\ x.retried = {}
      /\ x.mode \in {"agent", "untooled", "alone"} /\ ~x.open
      /\ EntitiesBacked(x, stored) /\ ContentBacked(x, stored)
      /\ x.basis["content"] \in SUBSET (Records \X Revisions)
  BY DEF ExtractionInv, Right, CheckReads, Staged, Extractions, BackedAt, Extracting, Stages
<1>2. g \in Gateways /\ GateSound(g, stored) /\ EntitiesGate(x) = g /\ Gate(x) = g /\ 1 \in DOMAIN x.gates
  <2>1. 1 \in DOMAIN x.gates
    BY <1>1
  <2> QED
    BY <1>1, <2>1 DEF Right, GatesSound, EntitiesGate, Gate
<1>3. extraction' = y
  BY DEF CheckReads
<1> HIDE DEF g
<1>4. \A e \in entries : e \in g.reads /\ e[1] \in Pair
  BY <1>2 DEF StaleReads, GateSound
<1>5. x.mode # "agent" => entries = {}
  BY <1>1, <1>2, <1>4 DEF Roles, Untouched, g
<1> HIDE DEF entries
<1>6. /\ rerun \subseteq Pair /\ (rerun # {} => "content" \in rerun) /\ (x.mode # "agent" => rerun = {})
      /\ stale \subseteq Pair
      /\ "content" \notin stale => \A e \in entries : e[2] \in FactRecords
  BY <1>4, <1>5, StaleRequires
<1> HIDE DEF rerun
<1>7. pc \in {"plan", "refresh"} /\ (pc = "refresh" => rerun # {}) /\ Pair \subseteq Stages /\ stored \in Revision
  BY <1>1, StoredIsRevision DEF Pair, Stages
<1> HIDE DEF pc, stale
<1>8. /\ y \in Extractions /\ y.pc = pc /\ y.mode = x.mode /\ y.stage = x.stage /\ y.counts = x.counts
      /\ y.basis = x.basis /\ y.rerun = rerun /\ y.retried = x.retried /\ y.open = x.open /\ y.gates = x.gates
      /\ y.stale = stale /\ y.compared = stored
  BY <1>1, <1>6, <1>7 DEF Extractions
<1> HIDE DEF y
<1>9. Roles(y)
  BY <1>1, <1>6, <1>8 DEF Roles, Untouched
<1>10. GatesSound(y, stored) /\ Staged(y) /\ Affordable(y)
  BY <1>1, <1>6, <1>7, <1>8, <1>9 DEF GatesSound, Staged, Affordable, Right, Extracting
<1>11. EntitiesBacked(y, stored)
  BY <1>1, <1>8 DEF EntitiesBacked, EntitiesGate
<1>12. Judged(y)
  <2>1. SUFFICES ASSUME "content" \notin stale, NEW read \in x.basis["content"], read[1] \notin FactRecords
                 PROVE  read[2] = stored[read[1]]
    BY <1>8 DEF Judged
  <2>2. PICK s \in Pair : BackedBy(g, s, read, stored)
    BY <1>1, <1>2 DEF ContentBacked, Pair
  <2>3. <<s, read[1]>> \notin entries
    BY <1>6, <2>1
  <2> QED
    BY <1>1, <1>2, <2>2, <2>3, CurrentIsHeld DEF entries
<1> QED
  BY <1>1, <1>3, <1>7, <1>8, <1>10, <1>11, <1>12 DEF ExtractionInv, Right, BackedAt, Extracting

LEMMA RefreshKeeps ==
  ASSUME ExtractionInv, Refresh
  PROVE  ExtractionInv'
<1> DEFINE x == extraction
           retried == {s \in x.rerun : canRetry(x, s)}
           y == [x EXCEPT !.gates = Prefetched(x), !.retried = retried]
           z == [y EXCEPT !.pc = "recheck"]
<1>1. /\ Right(x, stored) /\ x \in Extractions /\ stored' = stored /\ stored \in [Records -> Revisions]
      /\ x.pc = "refresh" /\ Staged(x) /\ Roles(x) /\ Len(x.gates) = 1 /\ x.retried = {} /\ "content" \in x.rerun
      /\ x.mode = "agent" /\ ~x.open
      /\ EntitiesBacked(x, stored) /\ GatesSound(x, stored)
      /\ x.rerun \subseteq Pair /\ x.stage \in Pair
  BY DEF ExtractionInv, Right, Refresh, Staged, BackedAt, Extracting, Roles
<1>2. extraction' = IF "entities" \in retried THEN Enter(y, "entities")
                    ELSE IF "content" \in retried THEN Enter(y, "content") ELSE z
  BY DEF Refresh
<1>3. /\ retried \subseteq x.rerun /\ \A s \in retried : x.counts[s] < 2
      /\ retried \in SUBSET Stages
  BY <1>1 DEF canRetry, Pair, Stages
<1> HIDE DEF retried
<1>4. /\ Prefetched(x) \in Seq(Gateways) /\ Len(Prefetched(x)) = 2
      /\ Prefetched(x)[1] = x.gates[1]
      /\ \A i \in DOMAIN Prefetched(x) : GateSound(Prefetched(x)[i], stored)
  <2>1. 1 \in DOMAIN x.gates /\ Len(x.gates) + 1 = 2
    BY <1>1 DEF Extractions
  <2> QED
    BY <1>1, <2>1, PrefetchedGates
<1>5. /\ y \in Extractions /\ y.mode = x.mode /\ y.stage = x.stage /\ y.counts = x.counts
      /\ y.basis = x.basis /\ y.rerun = x.rerun /\ y.retried = retried /\ y.open = x.open /\ y.gates = Prefetched(x)
  BY <1>1, <1>3, <1>4 DEF Extractions
<1> HIDE DEF y
<1>6. Roles(y) /\ GatesSound(y, stored)
  BY <1>1, <1>3, <1>4, <1>5 DEF Roles, GatesSound
<1>7. ASSUME NEW s \in Pair, s \in retried, s = "content" => "entities" \notin retried
      PROVE  Right(Enter(y, s), stored)
  <2>1. s = "content" => EntitiesBacked(y, stored)
    BY <1>1, <1>4, <1>5, <1>7 DEF EntitiesBacked, EntitiesGate
  <2>2. MayEnter(y, s, stored)
    BY <1>1, <1>3, <1>4, <1>5, <1>6, <1>7, <2>1 DEF MayEnter, Opened, Pair, Stages
  <2> QED
    BY <2>2, EnterIsRight
<1>8. ASSUME "content" \notin retried
      PROVE  Right(z, stored)
  <2>1. /\ z \in Extractions /\ z.mode = y.mode /\ z.stage = y.stage /\ z.counts = y.counts
        /\ z.basis = y.basis /\ z.rerun = y.rerun /\ z.retried = y.retried /\ z.open = y.open /\ z.gates = y.gates
        /\ z.pc = "recheck"
    BY <1>5 DEF Extractions
  <2> HIDE DEF z
  <2>2. Roles(z) /\ GatesSound(z, stored)
    BY <1>1, <1>6, <2>1, <1>5 DEF Roles, GatesSound
  <2>3. Staged(z) /\ Affordable(z) /\ BackedAt(z, stored)
    BY <1>1, <1>4, <1>5, <1>8, <2>1, <2>2 DEF Staged, Affordable, BackedAt, Extracting
  <2> QED
    BY <1>1, <1>5, <2>1, <2>2, <2>3 DEF Right
<1> QED
  BY <1>1, <1>2, <1>7, <1>8 DEF ExtractionInv, Pair

LEMMA RecheckReadsKeeps ==
  ASSUME ExtractionInv, RecheckReads
  PROVE  ExtractionInv'
<1> DEFINE x == extraction
           first == StaleReads(x.gates[1], x.retried)
           second == StaleReads(x.gates[2], {})
           entries == first \cup second
           stale == stagesRequiringRerun(entries) \cup ReadersOf(entries) \cup (x.rerun \ x.retried)
           y == [x EXCEPT !.pc = "plan", !.compared = stored, !.stale = stale]
<1>1. /\ Right(x, stored) /\ x \in Extractions /\ stored' = stored /\ stored \in [Records -> Revisions]
      /\ x.pc = "recheck" /\ Staged(x) /\ Roles(x) /\ x.gates \in Seq(Gateways) /\ Len(x.gates) = 2
      /\ x.mode = "agent" /\ ~x.open /\ "content" \in x.rerun /\ x.rerun \subseteq Pair
      /\ "content" \in x.retried => ContentBacked(x, stored)
      /\ x.basis["content"] \in SUBSET (Records \X Revisions)
  BY DEF ExtractionInv, Right, RecheckReads, Staged, Extractions, BackedAt, Extracting, Stages, Roles
<1>2. /\ x.gates[1] \in Gateways /\ GateSound(x.gates[1], stored) /\ x.gates[2] \in Gateways /\ GateSound(x.gates[2], stored)
      /\ EntitiesGate(x) = (IF "entities" \in x.retried THEN x.gates[2] ELSE x.gates[1]) /\ Gate(x) = x.gates[2]
  <2>1. 1 \in DOMAIN x.gates /\ 2 \in DOMAIN x.gates
    BY <1>1
  <2> QED
    BY <1>1, <2>1 DEF Right, GatesSound, EntitiesGate, Gate
<1>3. extraction' = y
  BY DEF RecheckReads
<1>4. \A e \in entries : e[1] \in Pair
  BY <1>2 DEF StaleReads, GateSound
<1> HIDE DEF first, second
<1>5. /\ stale \in SUBSET Stages
      /\ "content" \notin stale => "content" \in x.retried /\ \A e \in entries : e[2] \in FactRecords
  BY <1>1, <1>4, StaleRequires DEF Pair, Stages
<1> HIDE DEF stale
<1>6. /\ y \in Extractions /\ y.pc = "plan" /\ y.mode = x.mode /\ y.stage = x.stage /\ y.counts = x.counts
      /\ y.basis = x.basis /\ y.rerun = x.rerun /\ y.retried = x.retried /\ y.open = x.open /\ y.gates = x.gates
      /\ y.stale = stale /\ y.compared = stored
  BY <1>1, <1>5, StoredIsRevision DEF Extractions
<1> HIDE DEF y
<1>7. Roles(y) /\ GatesSound(y, stored)
  BY <1>1, <1>6 DEF Roles, GatesSound, Right
<1>8. Judged(y)
  <2>1. SUFFICES ASSUME "content" \notin stale, NEW read \in x.basis["content"], read[1] \notin FactRecords
                 PROVE  read[2] = stored[read[1]]
    BY <1>6 DEF Judged
  <2>2. ContentBacked(x, stored) /\ \A e \in entries : e[2] \in FactRecords
    BY <1>1, <1>5, <2>1
  <2>3. \A s : <<s, read[1]>> \notin first /\ <<s, read[1]>> \notin second
    BY <2>1, <2>2
  <2>4. CASE \E s \in Pair : BackedBy(x.gates[2], s, read, stored)
    BY <1>1, <1>2, <2>3, <2>4, CurrentIsHeld DEF second
  <2>5. CASE "entities" \notin x.retried /\ BackedBy(x.gates[1], "entities", read, stored)
    BY <1>1, <1>2, <2>3, <2>5, CurrentIsHeld DEF first, Pair
  <2> QED
    BY <1>2, <2>2, <2>4, <2>5 DEF ContentBacked, Pair
<1>9. Staged(y) /\ Affordable(y) /\ BackedAt(y, stored)
  BY <1>1, <1>6, <1>7, <1>8 DEF Staged, Affordable, BackedAt, Extracting
<1> QED
  BY <1>1, <1>3, <1>6, <1>7, <1>9 DEF ExtractionInv, Right

LEMMA PlanKeeps ==
  ASSUME ExtractionInv, Plan
  PROVE  ExtractionInv'
<1> DEFINE x == extraction
           y == [x EXCEPT !.pc = "planned", !.gates = << >>]
<1>1. /\ Right(x, stored) /\ x \in Extractions /\ stored' = stored /\ stored \in [Records -> Revisions]
      /\ x.pc = "plan" /\ Roles(x) /\ ~x.open /\ Judged(x)
  BY DEF ExtractionInv, Right, Plan, Staged, BackedAt, Extracting
<1>2. Right(Throws(x), stored)
  BY <1>1, ThrowsIsRight
<1>3. /\ y \in Extractions /\ y.pc = "planned" /\ y.mode = x.mode /\ y.stage = x.stage /\ y.counts = x.counts
      /\ y.basis = x.basis /\ y.rerun = x.rerun /\ y.retried = x.retried /\ y.open = x.open /\ y.gates = << >>
      /\ y.stale = x.stale /\ y.compared = x.compared
  <2>1. << >> \in Seq(Gateways)
    OBVIOUS
  <2> QED
    BY <1>1, <2>1 DEF Extractions
<1>4. extraction' \in {Throws(x), y}
  BY DEF Plan
<1> HIDE DEF y
<1>5. Roles(y) /\ GatesSound(y, stored) /\ Judged(y)
  BY <1>1, <1>3 DEF Roles, Untouched, GatesSound, Judged
<1>6. Staged(y) /\ Affordable(y) /\ BackedAt(y, stored)
  BY <1>1, <1>3, <1>5 DEF Staged, Affordable, BackedAt, Extracting
<1>7. Right(y, stored)
  BY <1>1, <1>3, <1>5, <1>6 DEF Right
<1> QED
  BY <1>1, <1>2, <1>4, <1>7 DEF ExtractionInv

-----------------------------------------------------------------------------
(* Others, and the user.                                                     *)

(* A revision only grows. *)
LEMMA RightLater ==
  ASSUME NEW st \in Revision, NEW later \in Revision, \A r \in Records : st[r] <= later[r],
         NEW x, Right(x, st)
  PROVE  Right(x, later)
<1>1. x \in Extractions /\ x.gates \in Seq(Gateways) /\ \A s \in Stages : x.basis[s] \subseteq Records \X Revisions
  BY DEF Right, Extractions
<1>2. \A r \in Records : st[r] \in Nat /\ later[r] \in Nat
  BY DEF Revision
<1>3. ASSUME NEW i \in DOMAIN x.gates
      PROVE  GateSound(x.gates[i], later)
  <2>1. x.gates[i] \in Gateways /\ GateSound(x.gates[i], st)
    BY <1>1 DEF Right, GatesSound
  <2>2. \A r \in Records : x.gates[i].shown[r] \in Nat /\ x.gates[i].held[r] \in Nat
    BY <2>1 DEF Gateways, Revision
  <2> QED
    BY <1>2, <2>1, <2>2 DEF GateSound
<1>4. ASSUME NEW g, NEW s, NEW read \in Records \X Revisions, BackedBy(g, s, read, st)
      PROVE  BackedBy(g, s, read, later)
  <2>1. read[1] \in Records /\ read[2] \in Nat
    BY DEF Revisions
  <2> QED
    BY <1>2, <1>4, <2>1 DEF BackedBy
<1>5. EntitiesBacked(x, st) => EntitiesBacked(x, later)
  BY <1>1, <1>4 DEF EntitiesBacked, Stages
<1>6. ContentBacked(x, st) => ContentBacked(x, later)
  BY <1>1, <1>4 DEF ContentBacked, Stages
<1> QED
  BY <1>1, <1>3, <1>5, <1>6 DEF Right, GatesSound, BackedAt

LEMMA StoreRecordKeeps ==
  ASSUME ExtractionInv, NEW r \in Records, StoreRecord(r)
  PROVE  ExtractionInv'
<1>1. stored \in [Records -> Revisions] /\ stored' = [stored EXCEPT ![r] = @ + 1] /\ extraction' = extraction
  BY DEF ExtractionInv, StoreRecord
<1>2. stored' \in [Records -> Revisions] /\ \A q \in Records : stored[q] <= stored'[q]
  BY <1>1 DEF Revisions
<1>3. stored \in Revision /\ stored' \in Revision
  BY <1>1, <1>2 DEF Revision, Revisions
<1>4. Right(extraction, stored')
  BY <1>2, <1>3, RightLater DEF ExtractionInv
<1> QED
  BY <1>1, <1>2, <1>4 DEF ExtractionInv

LEMMA CancelExtractionKeeps ==
  ASSUME ExtractionInv, CancelExtraction
  PROVE  ExtractionInv'
<1> DEFINE x == extraction
           y == [x EXCEPT !.aborted = TRUE]
<1>1. Right(x, stored) /\ x \in Extractions /\ stored' = stored /\ extraction' = y /\ stored \in [Records -> Revisions]
  BY DEF ExtractionInv, Right, CancelExtraction
<1>2. /\ y \in Extractions /\ y.pc = x.pc /\ y.mode = x.mode /\ y.stage = x.stage /\ y.counts = x.counts
      /\ y.basis = x.basis /\ y.rerun = x.rerun /\ y.retried = x.retried /\ y.open = x.open /\ y.gates = x.gates
      /\ y.stale = x.stale /\ y.compared = x.compared /\ y.session = x.session
  BY <1>1 DEF Extractions
<1> HIDE DEF y
<1>3. Roles(y) /\ GatesSound(y, stored) /\ Opened(x) = Opened(y)
  BY <1>1, <1>2 DEF Roles, Untouched, GatesSound, Right, Staged, Opened
<1>4. Staged(y) /\ Affordable(y)
  BY <1>1, <1>2, <1>3 DEF Staged, Affordable, Right, Opened
<1>5. BackedAt(y, stored)
  BY <1>1, <1>2 DEF Right, BackedAt, EntitiesBacked, ContentBacked, EntitiesGate, Gate, Judged
<1>6. Right(y, stored)
  BY <1>1, <1>2, <1>3, <1>4, <1>5 DEF Right
<1> QED
  BY <1>1, <1>6 DEF ExtractionInv

-----------------------------------------------------------------------------
LEMMA ExtractionStart == ExtractionInit => ExtractionInv
<1> SUFFICES ASSUME ExtractionInit
             PROVE  ExtractionInv
  OBVIOUS
<1>1. PICK mode \in {"agent", "untooled", "alone"}, stage \in Stages, mentioned \in SUBSET Records :
         extraction = Asked(mode, stage, mentioned) /\ (mode # "alone" => stage = "entities")
  BY DEF ExtractionInit, Stages
<1>2. stored \in [Records -> Revisions] /\ stored \in Revision
  BY DEF ExtractionInit, Revisions, Revision
<1> DEFINE x == Asked(mode, stage, mentioned)
           counts == [s \in Stages |-> 0]
           basis == [s \in Stages |-> {}]
<1>3. /\ x \in Extractions /\ x.pc = "prefetch" /\ x.mode = mode /\ x.stage = stage /\ x.counts = counts
      /\ x.basis = basis /\ x.rerun = {} /\ x.retried = {} /\ x.open = FALSE /\ x.gates = << >>
  <2>1. << >> \in Seq(Gateways) /\ NoRevisions \in Revision
    BY <1>2, StoredIsRevision DEF NoRevisions, Revision
  <2>2. counts \in [Stages -> 0..2] /\ basis \in [Stages -> SUBSET (Records \X Revisions)]
    OBVIOUS
  <2> QED
    BY <2>1, <2>2 DEF Asked, Extractions
<1>4. \A s \in Stages : counts[s] = 0 /\ basis[s] = {}
  OBVIOUS
<1> HIDE DEF x, counts, basis
<1>5. Roles(x) /\ GatesSound(x, stored)
  BY <1>1, <1>3, <1>4 DEF Roles, Untouched, GatesSound, Pair
<1>6. Staged(x) /\ Affordable(x) /\ BackedAt(x, stored)
  BY <1>3, <1>4, <1>5 DEF Staged, Affordable, BackedAt, Extracting
<1>7. Right(x, stored)
  BY <1>3, <1>5, <1>6 DEF Right
<1> QED
  BY <1>1, <1>2, <1>7 DEF ExtractionInv, x

LEMMA ExtractionKeeps == ExtractionInv /\ [ExtractionNext]_extractionVars => ExtractionInv'
<1> SUFFICES ASSUME ExtractionInv, [ExtractionNext]_extractionVars
             PROVE  ExtractionInv'
  OBVIOUS
<1>1. CASE Prefetch
  BY <1>1, PrefetchKeeps
<1>2. CASE RefuseUntooled \/ TurnAnswers \/ RejectArguments \/ \E format, cancelled \in BOOLEAN : TurnFails(format, cancelled)
  BY <1>2, TurnKeeps
<1>3. CASE TurnCallsTools
  BY <1>3, TurnCallsToolsKeeps
<1>4. CASE \E rs \in SUBSET Records : executeBatch(rs)
  BY <1>4, executeBatchKeeps
<1>5. CASE CheckReads
  BY <1>5, CheckReadsKeeps
<1>6. CASE Refresh
  BY <1>6, RefreshKeeps
<1>7. CASE RecheckReads
  BY <1>7, RecheckReadsKeeps
<1>8. CASE Plan
  BY <1>8, PlanKeeps
<1>9. CASE \E r \in Records : StoreRecord(r)
  BY <1>9, StoreRecordKeeps
<1>10. CASE CancelExtraction
  BY <1>10, CancelExtractionKeeps
<1>11. CASE UNCHANGED extractionVars
  BY <1>11 DEF extractionVars, ExtractionInv
<1> QED
  BY <1>1, <1>2, <1>3, <1>4, <1>5, <1>6, <1>7, <1>8, <1>9, <1>10, <1>11 DEF ExtractionNext

LEMMA ExtractionInvSays == ExtractionInv => ExtractionSound
<1> SUFFICES ASSUME ExtractionInv
             PROVE  ExtractionSound
  OBVIOUS
<1> DEFINE x == extraction
<1>1. x \in Extractions /\ Staged(x) /\ BackedAt(x, stored) /\ (x.open => x.pc \in Extracting /\ x.session)
  BY DEF ExtractionInv, Right
<1>2. Len(x.gates) <= 2
  <2>1. Len(x.gates) \in {0, 1, 2}
    BY <1>1 DEF Staged, Opened, Extractions, Extracting
  <2>2. \A n \in {0, 1, 2} : n <= 2
    OBVIOUS
  <2> QED
    BY <2>1, <2>2, Zenon
<1>3. ExtractionTypeOK
  BY <1>1, <1>2 DEF ExtractionTypeOK, ExtractionInv, Extractions
<1>4. ClaimsRestOnCurrentReads
  BY <1>1 DEF ClaimsRestOnCurrentReads, ClaimsAccepted, BackedAt, Judged
<1>5. StageBudget
  BY <1>1 DEF StageBudget, Extractions
<1>6. SessionsClosed
  BY <1>1 DEF SessionsClosed, Extracting
<1> QED
  BY <1>3, <1>4, <1>5, <1>6 DEF ExtractionSound

(* ExtractionPipelineCoordinator.extract: the claims that go on without a     *)
(* review rest on reads that were current when they were compared, however    *)
(* stores and cancels fall between the reads and the reruns; a stage goes to   *)
(* the model twice at most, and no tool session is left open.                 *)
THEOREM ExtractionStaysSound == ExtractionSpec => []ExtractionSound
  BY ExtractionStart, ExtractionKeeps, ExtractionInvSays, PTL DEF ExtractionSpec

-----------------------------------------------------------------------------
(* Who knows what.                                                          *)

(* The inductive invariant: what holds of the traces, and that whoever a told *)
(* claim made learn has a trace.                                             *)
TraceSound(t) ==
    /\ t.known \in BOOLEAN /\ t.privacy \in Secrecy /\ t.rehearsals \in Nat
    /\ IsFiniteSet(t.obs) /\ t.obs \subseteq observed
ToldSound(t) ==
    /\ t.learners \subseteq Owners /\ t.claim.fact \in TracedFacts /\ t.claim.privacy \in Secrecy
    /\ \A o \in t.learners : traces[<<o, t.claim.fact>>].known
KnowledgeInv ==
    /\ captures \in Nat
    /\ \A o \in Owners, f \in TracedFacts : TraceSound(traces[<<o, f>>])
    /\ \A t \in told : ToldSound(t)
    /\ KnowledgeSound

-----------------------------------------------------------------------------
(* Privacy.                                                                  *)

LEMMA SecrecyIs == Secrecy = {"public", "limited", "private", "secret"}
<1>1. DOMAIN Privacies = {1, 2, 3, 4}
  BY DEF Privacies
<1>2. Privacies[1] = "public" /\ Privacies[2] = "limited" /\ Privacies[3] = "private" /\ Privacies[4] = "secret"
  BY DEF Privacies
<1> QED
  BY <1>1, <1>2 DEF Secrecy

LEMMA RankIsNat ==
  ASSUME NEW p \in Secrecy
  PROVE  PrivacyRank(p) \in {1, 2, 3, 4}
<1>1. DOMAIN Privacies = {1, 2, 3, 4}
  BY DEF Privacies
<1>2. \E i \in DOMAIN Privacies : Privacies[i] = p
  BY DEF Secrecy
<1> QED
  BY <1>1, <1>2 DEF PrivacyRank

LEMMA MoreSecretIs ==
  ASSUME NEW p \in Secrecy, NEW q \in Secrecy
  PROVE  /\ MoreSecret(p, q) \in Secrecy
         /\ PrivacyRank(MoreSecret(p, q)) >= PrivacyRank(p)
         /\ PrivacyRank(MoreSecret(p, q)) >= PrivacyRank(q)
<1>1. PrivacyRank(p) \in Nat /\ PrivacyRank(q) \in Nat
  BY RankIsNat
<1> QED
  BY <1>1 DEF MoreSecret

LEMMA StrictestIs ==
  ASSUME NEW ps \in SUBSET Secrecy, ps # {}
  PROVE  Strictest(ps) \in ps /\ \A q \in ps : PrivacyRank(q) <= PrivacyRank(Strictest(ps))
<1>1. \A p \in ps : PrivacyRank(p) \in {1, 2, 3, 4}
  BY RankIsNat
<1> DEFINE at(n) == {p \in ps : PrivacyRank(p) = n}
<1>2. \E p \in ps : \A q \in ps : PrivacyRank(q) <= PrivacyRank(p)
  <2>1. CASE at(4) # {}
    BY <1>1, <2>1
  <2>2. CASE at(4) = {} /\ at(3) # {}
    BY <1>1, <2>2
  <2>3. CASE at(4) = {} /\ at(3) = {} /\ at(2) # {}
    BY <1>1, <2>3
  <2>4. CASE at(4) = {} /\ at(3) = {} /\ at(2) = {}
    BY <1>1, <2>4
  <2> QED
    BY <2>1, <2>2, <2>3, <2>4
<1> HIDE DEF at
<1> QED
  BY <1>2 DEF Strictest

-----------------------------------------------------------------------------
(* The claims of a capture.                                                  *)

Tellable(c) ==
    /\ c.fact \in TracedFacts /\ c.privacy \in Secrecy /\ c.source \in {"message", "world", "state"}
    /\ c.mode \in {"self_reported", "heard", "believed", "suspected", "inferred", "experienced", "asserted", "unknown"}
    /\ c.speaker \in Actors \cup {Nobody}
    /\ c.owners \subseteq Actors /\ c.observers \subseteq Actors
    /\ \E k \in Claims : k.fact = c.fact /\ k.subject = c.subject /\ k.subject \in Actors \cup {Nobody}
    /\ Acceptable(c)

LEMMA SaidIsTellable ==
  ASSUME NEW k \in Claims, NEW conservative
  PROVE  LET c == IF conservative THEN Filtered(k) ELSE k
         IN  Acceptable(c) => Tellable(c)
<1>1. k \in [id : {k.id}, message : {k.message}, excerpt : {k.excerpt}, fact : {k.fact}, source : {"message", "world", "state"},
                mode : {"self_reported", "heard", "believed", "suspected", "inferred", "experienced", "asserted", "unknown"},
                privacy : Secrecy, speaker : Actors \cup {Nobody}, subject : Actors \cup {Nobody},
                owners : SUBSET Actors, observers : SUBSET Actors, present : SUBSET Actors, named : SUBSET Actors]
  BY ClaimShape
<1> DEFINE c == IF conservative THEN Filtered(k) ELSE k
<1>2. /\ c.fact = k.fact /\ c.privacy = k.privacy /\ c.source = k.source /\ c.mode = k.mode /\ c.speaker = k.speaker
      /\ c.subject = k.subject /\ c.owners \subseteq k.owners /\ c.observers \subseteq k.observers
  BY <1>1 DEF Filtered
<1> HIDE DEF c
<1>3. k.fact \in TracedFacts
  BY DEF TracedFacts
<1>4. Acceptable(c) => Tellable(c)
  BY <1>1, <1>2, <1>3 DEF Tellable
<1> QED
  BY <1>4 DEF c

LEMMA StoredClaims ==
  ASSUME NEW n \in Nat, NEW answers, DOMAIN answers = 1..n, \A i \in 1..n : answers[i] \in Claims, NEW conservative
  PROVE  LET claims == Stored(Said(answers, conservative))
         IN  /\ \A c \in claims : Tellable(c)
             /\ \A c, d \in claims : c.id = d.id => c = d
             /\ IsFiniteSet(claims)
<1> DEFINE said == Said(answers, conservative)
           places == {j \in New(said) : \A k \in New(said) : Excerpt(said[k]) = Excerpt(said[j]) => j <= k}
           claims == {said[i] : i \in places}
<1>1. DOMAIN said = 1..n /\ \A i \in 1..n : said[i] = IF conservative THEN Filtered(answers[i]) ELSE answers[i]
  BY DEF Said
<1> HIDE DEF said
<1>2. /\ places \subseteq Prepared(said) /\ places \subseteq 1..n
      /\ \A i \in Prepared(said) : i \in 1..n /\ Acceptable(said[i])
      /\ \A i, j \in Prepared(said) : j < i => said[j].id # said[i].id
  BY <1>1 DEF New, Prepared
<1> HIDE DEF places
<1>3. ASSUME NEW c \in claims
      PROVE  Tellable(c)
  <2>1. PICK i \in places : c = said[i]
    BY <1>3
  <2> QED
    BY <1>1, <1>2, <2>1, SaidIsTellable
<1>4. ASSUME NEW c \in claims, NEW d \in claims, c.id = d.id
      PROVE  c = d
  <2>1. PICK i \in places, j \in places : c = said[i] /\ d = said[j]
    BY <1>4
  <2>2. ~(i < j) /\ ~(j < i) /\ i \in Nat /\ j \in Nat
    BY <1>2, <1>4, <2>1
  <2> QED
    BY <2>1, <2>2
<1>5. IsFiniteSet(claims)
  <2>1. IsFiniteSet(1..n)
    BY FS_Interval
  <2>2. IsFiniteSet(places)
    BY <1>2, <2>1, FS_Subset
  <2> DEFINE Claimed == [i \in places |-> said[i]]
  <2>3. Claimed \in Surjection(places, claims)
    BY DEF Surjection
  <2> QED
    BY <2>2, <2>3, FS_Surjection
<1>6. Stored(said) = claims
  BY DEF Stored, places
<1> HIDE DEF claims
<1> QED
  BY <1>3, <1>4, <1>5, <1>6 DEF said

-----------------------------------------------------------------------------
(* What an observation of a claim teaches.                                   *)

LEMMA ObservationIs ==
  ASSUME NEW c
  PROVE  /\ Observation(c).id = <<c.id, c.message>> /\ Observation(c).fact = c.fact
         /\ Observation(c).privacy = c.privacy /\ Observation(c).mode = c.mode /\ Observation(c).channel = Channel(c)
         /\ Private(Observation(c)) = Private(c)
         /\ c.speaker # Nobody => Observation(c).speaker = c.speaker
         /\ Private(c) => Observation(c).observers = {c.speaker} \ {Nobody}
         /\ ~Private(c) => Observation(c).observers = c.owners \cup c.observers
         /\ c.speaker = Nobody => Observation(c).speaker \in {"narrator", "unknown"}
                                  \/ (c.mode = "self_reported" /\ Observation(c).speaker = c.subject)
  BY DEF Observation, Private

LEMMA PrivateTeachesSpeaker ==
  ASSUME NEW c, Tellable(c), Private(c), c.source # "world"
  PROVE  /\ c.speaker \in Actors /\ Learners(Observation(c)) = {c.speaker}
         /\ ~WorldSource(Observation(c))
<1>1. c.speaker \in Actors
  BY DEF Tellable, Acceptable, SpeakerGiven
<1>2. c.speaker # Nobody
  BY <1>1, ClaimShape
<1>3. Channel(c) # "worldbook"
  BY DEF Channel, SpokenChannel
<1> QED
  BY <1>1, <1>2, <1>3, ObservationIs DEF Learners, WorldSource

LEMMA WorldIsNoMessage ==
  ASSUME NEW c, Tellable(c), WorldSource(Observation(c))
  PROVE  c.source # "message"
<1> SUFFICES ASSUME c.source = "message"
             PROVE  FALSE
  OBVIOUS
<1>1. ~Private(c)
  BY PrivateTeachesSpeaker
<1>2. Channel(c) = "state" /\ Observation(c).observers = {}
  BY <1>1, ObservationIs DEF WorldSource, Channel, SpokenChannel
<1>3. c.owners # {}
  BY <1>1, <1>2 DEF Channel, SpokenChannel
<1> QED
  BY <1>1, <1>2, <1>3, ObservationIs

LEMMA LearnersWitness ==
  ASSUME NEW c, Tellable(c)
  PROVE  /\ Learners(Observation(c)) \subseteq Owners
         /\ \A o \in Actors : o \in Learners(Observation(c)) => o \in {c.speaker} \cup c.owners \cup c.observers
<1> DEFINE ob == Observation(c)
<1>1. Learners(ob) \subseteq {ob.speaker} \cup ob.observers \cup {"narrator"}
  BY DEF Learners, Heard
<1>2. ob.observers \subseteq ({c.speaker} \ {Nobody}) \cup c.owners \cup c.observers
  BY ObservationIs
<1>3. ob.speaker \in {"narrator", "unknown"} \/ (ob.speaker = c.speaker /\ c.speaker # Nobody)
  BY ObservationIs DEF Tellable, Acceptable, SpeakerGiven
<1> HIDE DEF ob
<1>4. Learners(ob) \subseteq Owners
  BY <1>1, <1>2, <1>3 DEF Tellable, Owners, FixedOwners
<1>5. \A o \in Actors : o \in Learners(ob) => o \in {c.speaker} \cup c.owners \cup c.observers
  BY <1>1, <1>2, <1>3, ClaimShape DEF FixedOwners
<1> QED
  BY <1>4, <1>5 DEF ob

-----------------------------------------------------------------------------
(* What an owner learns of a fact in one capture.                            *)

ClaimsSound(claims) ==
    /\ \A c \in claims : Tellable(c)
    /\ \A c, d \in claims : c.id = d.id => c = d
    /\ IsFiniteSet(claims)

LEMMA ObservedIs ==
  ASSUME NEW claims, NEW f, NEW ob
  PROVE  ob \in Observed(claims, f) <=> \E c \in claims : c.fact = f /\ ob = Observation(c)
  BY DEF Observed

LEMMA WorldTeachesSubject ==
  ASSUME NEW claims, ClaimsSound(claims), NEW f, OfWorld(Observed(claims, f))
  PROVE  \E c \in claims : c.fact = f /\ c.source # "message" /\ c.subject = Subject(claims, f)
<1>1. PICK c \in claims : c.fact = f /\ WorldSource(Observation(c))
  BY ObservedIs DEF OfWorld
<1>2. c.source # "message"
  BY <1>1, WorldIsNoMessage DEF ClaimsSound
<1>3. PICK d \in claims : d.fact = f /\ Subject(claims, f) = d.subject
  BY <1>1 DEF Subject
<1>4. c.subject = d.subject
  BY <1>1, <1>3, ClaimShape DEF ClaimsSound, Tellable
<1> QED
  BY <1>1, <1>2, <1>3, <1>4

LEMMA PrivateIsLearnedBySpeaker ==
  ASSUME NEW claims, ClaimsSound(claims), NEW f, NEW o, Learned(claims, o, f),
         \A c \in claims : c.fact = f => Private(c) /\ c.source # "world"
  PROVE  \E c \in claims : c.fact = f /\ c.speaker = o
<1> DEFINE obs == Observed(claims, f)
<1>1. \A ob \in obs : \E c \in claims : c.fact = f /\ ob = Observation(c)
  BY ObservedIs
<1>2. \A ob \in obs : ~WorldSource(ob) /\ \E c \in claims : c.fact = f /\ Learners(ob) = {c.speaker}
  BY <1>1, PrivateTeachesSpeaker DEF ClaimsSound
<1> HIDE DEF obs
<1>3. ~OfWorld(obs) /\ obs # {}
  BY <1>2 DEF OfWorld, Learned, obs
<1>4. UNION {Learners(ob) : ob \in obs} # {}
  BY <1>2, <1>3
<1>5. o \in UNION {Learners(ob) : ob \in obs}
  BY <1>3, <1>4 DEF Learned, Knowers, obs
<1> QED
  BY <1>2, <1>5

LEMMA LearnedByWitness ==
  ASSUME NEW claims, ClaimsSound(claims), NEW f, NEW o \in Actors, Learned(claims, o, f)
  PROVE  \E c \in claims :
            /\ c.fact = f
            /\ o \in {c.speaker} \cup c.owners \cup c.observers \/ (c.source # "message" /\ c.subject = o)
<1> DEFINE obs == Observed(claims, f)
<1>1. o \notin {"world", "unknown"}
  BY ClaimShape DEF FixedOwners
<1>2. CASE OfWorld(obs)
  <2>1. o = Subject(claims, f)
    BY <1>1, <1>2 DEF Learned, Knowers
  <2> QED
    BY <1>2, <2>1, WorldTeachesSubject
<1>3. CASE ~OfWorld(obs)
  <2>1. PICK ob \in obs : o \in Learners(ob)
    BY <1>1, <1>3 DEF Learned, Knowers
  <2>2. PICK c \in claims : c.fact = f /\ ob = Observation(c)
    BY <2>1, ObservedIs
  <2> QED
    BY <2>1, <2>2, LearnersWitness DEF ClaimsSound
<1> QED
  BY <1>2, <1>3

LEMMA ProjectedIs ==
  ASSUME NEW claims, ClaimsSound(claims), NEW f, NEW o, Learned(claims, o, f)
  PROVE  LET p == Projected(o, Observed(claims, f))
         IN  /\ p = [known |-> TRUE, obs |-> p.obs, rehearsals |-> 0, privacy |-> p.privacy]
             /\ p.privacy \in Secrecy /\ IsFiniteSet(p.obs)
             /\ p.obs \subseteq {Observation(c).id : c \in claims}
             /\ o # "unknown" => p.obs # {}
             /\ \A c \in claims : c.fact = f /\ Observation(c).id \in p.obs => PrivacyRank(c.privacy) <= PrivacyRank(p.privacy)
<1> DEFINE obs == Observed(claims, f)
           mine == IF OfWorld(obs) THEN obs ELSE {ob \in obs : o \in Learners(ob)}
           least == IF mine = {} \/ (o # "world" /\ OfWorld(obs)) THEN "limited" ELSE "public"
           ids == {ob.id : ob \in mine}
           privacies == {least} \cup {ob.privacy : ob \in mine}
           p == Projected(o, obs)
<1>1. p = [known |-> TRUE, obs |-> ids, rehearsals |-> 0, privacy |-> Strictest(privacies)]
  BY DEF Projected
<1>2. mine \subseteq obs /\ (o # "unknown" => mine # {})
  BY DEF Learned, Knowers
<1>3. least \in Secrecy
  BY SecrecyIs
<1> HIDE DEF mine, least
<1>4. \A ob \in mine : \E c \in claims : c.fact = f /\ ob = Observation(c)
  BY <1>2, ObservedIs
<1>5. privacies \in SUBSET Secrecy /\ privacies # {}
  BY <1>3, <1>4, ObservationIs DEF ClaimsSound, Tellable
<1>6. Strictest(privacies) \in Secrecy /\ \A q \in privacies : PrivacyRank(q) <= PrivacyRank(Strictest(privacies))
  BY <1>5, StrictestIs
<1>7. ids \subseteq {Observation(c).id : c \in claims}
  BY <1>4
<1>8. IsFiniteSet(ids)
  <2> DEFINE all == {Observation(c).id : c \in claims}
             Identify == [c \in claims |-> Observation(c).id]
  <2>1. Identify \in Surjection(claims, all)
    BY DEF Surjection
  <2>2. IsFiniteSet(all)
    BY <2>1, FS_Surjection DEF ClaimsSound
  <2> QED
    BY <1>7, <2>2, FS_Subset
<1>9. ASSUME NEW c \in claims, c.fact = f, Observation(c).id \in ids
      PROVE  PrivacyRank(c.privacy) <= PrivacyRank(Strictest(privacies))
  <2>1. PICK d \in claims : Observation(d) \in mine /\ Observation(d).id = Observation(c).id
    BY <1>4, <1>9
  <2>2. c.id = d.id
    BY <2>1, ObservationIs
  <2>3. c.privacy \in privacies
    BY <2>1, <2>2, ObservationIs DEF ClaimsSound
  <2> QED
    BY <1>6, <2>3
<1>10. o # "unknown" => ids # {}
  BY <1>2
<1> HIDE DEF ids, privacies, p
<1>11. p.obs = ids /\ p.privacy = Strictest(privacies)
  BY <1>1
<1>12. /\ p = [known |-> TRUE, obs |-> p.obs, rehearsals |-> 0, privacy |-> p.privacy]
       /\ p.privacy \in Secrecy /\ IsFiniteSet(p.obs)
       /\ p.obs \subseteq {Observation(c).id : c \in claims}
       /\ o # "unknown" => p.obs # {}
       /\ \A c \in claims : c.fact = f /\ Observation(c).id \in p.obs => PrivacyRank(c.privacy) <= PrivacyRank(p.privacy)
  BY <1>1, <1>6, <1>7, <1>8, <1>9, <1>10, <1>11
<1> QED
  BY <1>12 DEF p

(* A merged trace rests on more, is as private, and counts no rehearsal twice. *)
LEMMA MergedIs ==
  ASSUME NEW old, NEW p, NEW obs, NEW privacy, p = [known |-> TRUE, obs |-> obs, rehearsals |-> 0, privacy |-> privacy],
         privacy \in Secrecy, IsFiniteSet(obs),
         old.privacy \in Secrecy, old.rehearsals \in Nat, IsFiniteSet(old.obs), old.known \in BOOLEAN,
         old.known => old.rehearsals <= Cardinality(old.obs)
  PROVE  LET m == Merged(old, p)
         IN  /\ m.known = TRUE /\ m.privacy \in Secrecy /\ m.rehearsals \in Nat /\ IsFiniteSet(m.obs)
             /\ m.obs \subseteq old.obs \cup obs
             /\ m.rehearsals <= Cardinality(m.obs)
             /\ PrivacyRank(privacy) <= PrivacyRank(m.privacy)
             /\ old.known => PrivacyRank(old.privacy) <= PrivacyRank(m.privacy)
             /\ obs # {} /\ (old.known => old.rehearsals < Cardinality(old.obs)) => m.rehearsals < Cardinality(m.obs)
<1> DEFINE m == Merged(old, p)
<1>1. PrivacyRank(privacy) \in Nat /\ PrivacyRank(old.privacy) \in Nat
  BY RankIsNat
<1>2. Cardinality(obs) \in Nat /\ (obs # {} => Cardinality(obs) > 0)
  BY FS_CardinalityType, FS_EmptySet
<1>3. CASE ~old.known
  <2>1. m = p
    BY <1>3 DEF Merged
  <2>2. m.known = TRUE /\ m.obs = obs /\ m.rehearsals = 0 /\ m.privacy = privacy
    BY <2>1
  <2> HIDE DEF m
  <2>3. PrivacyRank(privacy) <= PrivacyRank(privacy)
    BY <1>1
  <2>4. Cardinality(obs) \in Nat /\ 0 <= Cardinality(obs) /\ (obs # {} => 0 < Cardinality(obs))
    BY <1>2
  <2>5. m.obs \subseteq old.obs \cup obs
    BY <2>2
  <2>6. /\ m.known = TRUE /\ m.privacy \in Secrecy /\ m.rehearsals \in Nat
        /\ m.rehearsals <= Cardinality(m.obs) /\ (obs # {} => m.rehearsals < Cardinality(m.obs))
    BY <2>2, <2>4
  <2>7. IsFiniteSet(m.obs) /\ PrivacyRank(privacy) <= PrivacyRank(m.privacy)
    BY <2>2, <2>3
  <2> QED
    BY <1>3, <2>5, <2>6, <2>7 DEF m
<1>4. CASE old.known
  <2> DEFINE both == old.obs \cup obs
             more == old.rehearsals + IF Novel(old, p) THEN 1 ELSE 0
             strict == MoreSecret(privacy, old.privacy)
  <2>1. m = [known |-> TRUE, obs |-> both, rehearsals |-> more, privacy |-> strict]
    BY <1>4 DEF Merged
  <2>2. /\ strict \in Secrecy /\ PrivacyRank(strict) >= PrivacyRank(privacy)
        /\ PrivacyRank(strict) >= PrivacyRank(old.privacy)
    BY MoreSecretIs
  <2>3. IsFiniteSet(both)
    BY FS_Union
  <2>4. /\ Cardinality(old.obs) \in Nat /\ Cardinality(both) \in Nat /\ Cardinality(old.obs) <= Cardinality(both)
        /\ Cardinality(old.obs) = Cardinality(both) => old.obs = both
    <3>1. old.obs \in SUBSET both
      OBVIOUS
    <3> QED
      BY <2>3, <3>1, FS_Subset, FS_CardinalityType
  <2>5. Novel(old, p) => old.obs # both
    BY DEF Novel
  <2>6. /\ more \in Nat /\ more <= Cardinality(both)
        /\ old.rehearsals < Cardinality(old.obs) => more < Cardinality(both)
    BY <1>4, <2>4, <2>5
  <2>7. PrivacyRank(strict) \in Nat
    BY <2>2, RankIsNat
  <2> HIDE DEF both, more, strict
  <2>8. m.known = TRUE /\ m.obs = both /\ m.rehearsals = more /\ m.privacy = strict
    BY <2>1
  <2> HIDE DEF m
  <2>9. m.obs \subseteq old.obs \cup obs
    BY <2>8 DEF both
  <2> QED
    BY <1>1, <1>4, <2>2, <2>3, <2>6, <2>7, <2>8, <2>9 DEF m
<1> QED
  BY <1>3, <1>4

-----------------------------------------------------------------------------
LEMMA KnowledgeStart == KnowledgeInit => KnowledgeInv
<1> SUFFICES ASSUME KnowledgeInit
             PROVE  KnowledgeInv
  OBVIOUS
<1>1. \A o \in Owners, f \in TracedFacts : traces[<<o, f>>] = NoTrace
  BY DEF KnowledgeInit
<1>2. /\ NoTrace.known = FALSE /\ NoTrace.obs = {} /\ NoTrace.privacy \in Secrecy /\ NoTrace.rehearsals = 0
      /\ IsFiniteSet({})
  BY SecrecyIs, FS_EmptySet DEF NoTrace
<1>3. told = {} /\ captures = 0 /\ captures <= MaxCaptures
  BY ClaimShape DEF KnowledgeInit
<1>4. \A o \in Owners, f \in TracedFacts : TraceSound(traces[<<o, f>>])
  <2>1. TraceSound(NoTrace)
    BY SecrecyIs, FS_EmptySet DEF NoTrace, TraceSound
  <2> QED
    BY <1>1, <2>1
<1>5. KnowledgeTypeOK
  BY <1>3, <1>4 DEF KnowledgeTypeOK, TraceSound
<1>6. PrivateReachesSpeakers /\ LearnsByWitness /\ RehearsedByObservations
  <2>1. \A o \in Actors : o \in Owners
    BY DEF Owners
  <2> QED
    BY <1>1, <1>2, <2>1 DEF PrivateReachesSpeakers, LearnsByWitness, RehearsedByObservations
<1>7. PrivacyIsStrictest
  BY <1>3 DEF PrivacyIsStrictest
<1> QED
  BY <1>3, <1>4, <1>5, <1>6, <1>7 DEF KnowledgeInv, KnowledgeSound

LEMMA LearnKeeps ==
  ASSUME KnowledgeInv, NEW answers \in {<<c>> : c \in Claims} \cup (Claims \X Claims), NEW conservative \in BOOLEAN,
         Learn(answers, conservative)
  PROVE  KnowledgeInv'
<1> DEFINE claims == Stored(Said(answers, conservative))
           new(o, f) == Projected(o, Observed(claims, f))
<1>1. ClaimsSound(claims)
  <2>1. \E n \in Nat : DOMAIN answers = 1..n /\ \A i \in 1..n : answers[i] \in Claims
    <3>1. CASE answers \in {<<c>> : c \in Claims}
      <4>1. DOMAIN answers = 1..1 /\ \A i \in 1..1 : answers[i] \in Claims
        BY <3>1
      <4> QED
        BY <4>1
    <3>2. CASE answers \in Claims \X Claims
      <4>1. DOMAIN answers = 1..2 /\ \A i \in 1..2 : answers[i] \in Claims
        BY <3>2
      <4> QED
        BY <4>1
    <3> QED
      BY <3>1, <3>2
  <2> QED
    BY <2>1, StoredClaims DEF ClaimsSound
<1>2. /\ captures < MaxCaptures /\ captures' = captures + 1
      /\ traces' = [key \in Owners \X TracedFacts |->
                      IF Learned(claims, key[1], key[2])
                      THEN Merged(traces[key], Projected(key[1], Observed(claims, key[2]))) ELSE traces[key]]
      /\ observed' = observed \cup {Observation(c).id : c \in claims}
      /\ told' = told \cup {[claim |-> c, learners |-> RestingOn(claims, c)] : c \in claims}
  BY DEF Learn
<1> HIDE DEF claims
<1>3. /\ captures \in Nat /\ (\A o \in Owners, f \in TracedFacts : TraceSound(traces[<<o, f>>]))
      /\ (\A t \in told : ToldSound(t)) /\ KnowledgeTypeOK /\ PrivateReachesSpeakers /\ LearnsByWitness
      /\ PrivacyIsStrictest /\ RehearsedByObservations
  BY DEF KnowledgeInv, KnowledgeSound
<1>4. \A o \in Owners, f \in TracedFacts :
         /\ Learned(claims, o, f) => traces'[<<o, f>>] = Merged(traces[<<o, f>>], new(o, f))
         /\ ~Learned(claims, o, f) => traces'[<<o, f>>] = traces[<<o, f>>]
  BY <1>2
<1>5. ASSUME NEW o \in Owners, NEW f \in TracedFacts, Learned(claims, o, f)
      PROVE  LET p == new(o, f)
                 m == traces'[<<o, f>>]
             IN  /\ m.known = TRUE /\ m.privacy \in Secrecy /\ m.rehearsals \in Nat /\ IsFiniteSet(m.obs)
                 /\ m.obs \subseteq observed'
                 /\ m.rehearsals <= Cardinality(m.obs)
                 /\ o # "unknown" => m.rehearsals < Cardinality(m.obs)
                 /\ traces[<<o, f>>].known => PrivacyRank(traces[<<o, f>>].privacy) <= PrivacyRank(m.privacy)
                 /\ \A c \in claims : c.fact = f /\ Observation(c).id \in p.obs => PrivacyRank(c.privacy) <= PrivacyRank(m.privacy)
  <2> DEFINE p == new(o, f)
             m == traces'[<<o, f>>]
             old == traces[<<o, f>>]
  <2>1. /\ p = [known |-> TRUE, obs |-> p.obs, rehearsals |-> 0, privacy |-> p.privacy]
        /\ p.privacy \in Secrecy /\ IsFiniteSet(p.obs)
        /\ p.obs \subseteq {Observation(c).id : c \in claims}
        /\ o # "unknown" => p.obs # {}
        /\ \A c \in claims : c.fact = f /\ Observation(c).id \in p.obs => PrivacyRank(c.privacy) <= PrivacyRank(p.privacy)
    BY <1>1, <1>5, ProjectedIs
  <2>2. m = Merged(old, p)
    BY <1>4, <1>5
  <2>3. /\ old.known \in BOOLEAN /\ old.privacy \in Secrecy /\ old.rehearsals \in Nat /\ IsFiniteSet(old.obs)
        /\ old.obs \subseteq observed
        /\ old.known => old.rehearsals <= Cardinality(old.obs)
        /\ old.known /\ o # "unknown" => old.rehearsals < Cardinality(old.obs)
    <3>1. TraceSound(old)
      BY <1>3
    <3>2. ASSUME old.known
          PROVE  old.rehearsals <= Cardinality(old.obs) /\ (o # "unknown" => old.rehearsals < Cardinality(old.obs))
      BY <1>3, <3>2 DEF RehearsedByObservations
    <3> QED
      BY <3>1, <3>2 DEF TraceSound
  <2> HIDE DEF p, m, old
  <2>4. /\ m.known = TRUE /\ m.privacy \in Secrecy /\ m.rehearsals \in Nat /\ IsFiniteSet(m.obs)
        /\ m.obs \subseteq old.obs \cup p.obs
        /\ m.rehearsals <= Cardinality(m.obs)
        /\ PrivacyRank(p.privacy) <= PrivacyRank(m.privacy)
        /\ old.known => PrivacyRank(old.privacy) <= PrivacyRank(m.privacy)
        /\ p.obs # {} /\ (old.known => old.rehearsals < Cardinality(old.obs)) => m.rehearsals < Cardinality(m.obs)
    BY <2>1, <2>2, <2>3, MergedIs
  <2>5. m.obs \subseteq observed'
    BY <1>2, <2>1, <2>3, <2>4
  <2>6. o # "unknown" => m.rehearsals < Cardinality(m.obs)
    BY <2>1, <2>3, <2>4
  <2>7. ASSUME NEW c \in claims, c.fact = f, Observation(c).id \in p.obs
        PROVE  PrivacyRank(c.privacy) <= PrivacyRank(m.privacy)
    <3>1. PrivacyRank(c.privacy) <= PrivacyRank(p.privacy) /\ c.privacy \in Secrecy
      BY <1>1, <2>1, <2>7 DEF ClaimsSound, Tellable
    <3>2. PrivacyRank(c.privacy) \in Nat /\ PrivacyRank(p.privacy) \in Nat /\ PrivacyRank(m.privacy) \in Nat
      BY <2>1, <2>4, <3>1, RankIsNat
    <3> QED
      BY <2>4, <3>1, <3>2
  <2> QED
    BY <2>4, <2>5, <2>6, <2>7 DEF p, m, old
<1>6. ASSUME NEW o \in Owners, NEW f \in TracedFacts
      PROVE  /\ TraceSound(traces[<<o, f>>])'
             /\ traces[<<o, f>>].known => traces'[<<o, f>>].known /\ PrivacyRank(traces[<<o, f>>].privacy) <= PrivacyRank(traces'[<<o, f>>].privacy)
             /\ traces'[<<o, f>>].known =>
                  /\ traces'[<<o, f>>].rehearsals <= Cardinality(traces'[<<o, f>>].obs)
                  /\ o # "unknown" => traces'[<<o, f>>].rehearsals < Cardinality(traces'[<<o, f>>].obs)
  <2>1. CASE Learned(claims, o, f)
    BY <1>5, <2>1 DEF TraceSound
  <2>2. CASE ~Learned(claims, o, f)
    <3>1. traces'[<<o, f>>] = traces[<<o, f>>] /\ observed \subseteq observed'
      BY <1>2, <1>4, <2>2
    <3>2. PrivacyRank(traces[<<o, f>>].privacy) \in Nat
      BY <1>3, RankIsNat DEF TraceSound
    <3> QED
      BY <1>3, <3>1, <3>2 DEF TraceSound, RehearsedByObservations
  <2> QED
    BY <2>1, <2>2
<1> HIDE DEF new
<1>7. ASSUME NEW c \in claims
      PROVE  /\ c.fact \in TracedFacts /\ c.privacy \in Secrecy /\ RestingOn(claims, c) \subseteq Owners
             /\ \A o \in RestingOn(claims, c) :
                   /\ o \in Owners /\ traces'[<<o, c.fact>>].known
                   /\ PrivacyRank(c.privacy) <= PrivacyRank(traces'[<<o, c.fact>>].privacy)
  <2>1. c.fact \in TracedFacts /\ c.privacy \in Secrecy /\ RestingOn(claims, c) \subseteq Owners
    BY <1>1 DEF ClaimsSound, Tellable, RestingOn
  <2>2. ASSUME NEW o \in RestingOn(claims, c)
        PROVE  /\ o \in Owners /\ traces'[<<o, c.fact>>].known
               /\ PrivacyRank(c.privacy) <= PrivacyRank(traces'[<<o, c.fact>>].privacy)
    <3>1. o \in Owners /\ Learned(claims, o, c.fact) /\ Observation(c).id \in new(o, c.fact).obs
      BY <2>2 DEF RestingOn, new
    <3> QED
      BY <1>5, <2>1, <3>1
  <2> QED
    BY <2>1, <2>2
<1>8. ASSUME NEW t \in told'
      PROVE  /\ ToldSound(t)'
             /\ \A o \in t.learners : PrivacyRank(t.claim.privacy) <= PrivacyRank(traces'[<<o, t.claim.fact>>].privacy)
  <2>1. CASE t \in told
    <3>1. /\ t.learners \subseteq Owners /\ t.claim.fact \in TracedFacts /\ t.claim.privacy \in Secrecy
          /\ \A o \in t.learners : /\ traces[<<o, t.claim.fact>>].known
                                   /\ PrivacyRank(traces[<<o, t.claim.fact>>].privacy) >= PrivacyRank(t.claim.privacy)
      BY <1>3, <2>1 DEF ToldSound, PrivacyIsStrictest
    <3>2. ASSUME NEW o \in t.learners
          PROVE  /\ traces'[<<o, t.claim.fact>>].known
                 /\ PrivacyRank(t.claim.privacy) <= PrivacyRank(traces'[<<o, t.claim.fact>>].privacy)
      <4> DEFINE a == PrivacyRank(t.claim.privacy)
                 b == PrivacyRank(traces[<<o, t.claim.fact>>].privacy)
                 c == PrivacyRank(traces'[<<o, t.claim.fact>>].privacy)
      <4>1. o \in Owners /\ traces'[<<o, t.claim.fact>>].known /\ b <= c /\ a <= b
        BY <1>6, <3>1, RankIsNat, <1>3 DEF TraceSound
      <4>2. a \in Nat /\ b \in Nat /\ c \in Nat
        BY <1>3, <1>6, <3>1, <4>1, RankIsNat DEF TraceSound
      <4> HIDE DEF a, b, c
      <4>3. a <= c
        BY <4>1, <4>2
      <4> QED
        BY <4>1, <4>3 DEF a, c
    <3> QED
      BY <3>1, <3>2 DEF ToldSound
  <2>2. CASE t \notin told
    <3>1. PICK c \in claims : t = [claim |-> c, learners |-> RestingOn(claims, c)]
      BY <1>2, <2>2
    <3>2. t.claim = c /\ t.learners = RestingOn(claims, c)
      BY <3>1
    <3> QED
      BY <1>7, <3>2 DEF ToldSound
  <2> QED
    BY <2>1, <2>2
<1>9. KnowledgeTypeOK'
  <2>1. \A o \in Owners, f \in TracedFacts : traces'[<<o, f>>].obs \subseteq observed' /\ traces'[<<o, f>>].privacy \in Secrecy
    BY <1>6 DEF TraceSound
  <2>2. \A t \in told' : t.learners \subseteq Owners
    BY <1>8 DEF ToldSound
  <2>3. captures' <= MaxCaptures
    BY <1>2, <1>3, ClaimShape
  <2> QED
    BY <2>1, <2>2, <2>3 DEF KnowledgeTypeOK
<1>10. \A f : ToldOf(f) \subseteq ToldOf(f)' /\ \A c \in claims : c.fact = f => c \in ToldOf(f)'
  <2>1. ASSUME NEW c \in claims
        PROVE  \E t \in told' : t.claim = c
    <3> DEFINE t == [claim |-> c, learners |-> RestingOn(claims, c)]
    <3>1. t \in told' /\ t.claim = c
      BY <1>2
    <3> QED
      BY <3>1
  <2> QED
    BY <1>2, <2>1 DEF ToldOf
<1>11. PrivateReachesSpeakers'
  <2>1. SUFFICES ASSUME NEW o \in Owners, NEW f \in TracedFacts, traces'[<<o, f>>].known,
                        \A c \in ToldOf(f)' : Private(c) /\ c.source # "world"
                 PROVE  \E c \in ToldOf(f)' : c.speaker = o
    BY DEF PrivateReachesSpeakers
  <2>2. CASE Learned(claims, o, f)
    BY <1>1, <1>10, <2>1, <2>2, PrivateIsLearnedBySpeaker
  <2>3. CASE ~Learned(claims, o, f)
    BY <1>3, <1>4, <1>10, <2>1, <2>3 DEF PrivateReachesSpeakers
  <2> QED
    BY <2>2, <2>3
<1>12. LearnsByWitness'
  <2>1. SUFFICES ASSUME NEW o \in Actors, NEW f \in TracedFacts, traces'[<<o, f>>].known
                 PROVE  \E c \in ToldOf(f)' : \/ o \in {c.speaker} \cup c.owners \cup c.observers
                                              \/ c.source # "message" /\ c.subject = o
    BY DEF LearnsByWitness
  <2>2. CASE Learned(claims, o, f)
    BY <1>1, <1>10, <2>2, LearnedByWitness
  <2>3. CASE ~Learned(claims, o, f)
    <3>1. o \in Owners
      BY DEF Owners
    <3> QED
      BY <1>3, <1>4, <1>10, <2>1, <2>3, <3>1 DEF LearnsByWitness
  <2> QED
    BY <2>2, <2>3
<1>13. PrivacyIsStrictest'
  <2>1. ASSUME NEW t \in told', NEW o \in t.learners
        PROVE  PrivacyRank(traces'[<<o, t.claim.fact>>].privacy) >= PrivacyRank(t.claim.privacy)
    <3>1. o \in Owners /\ t.claim.fact \in TracedFacts /\ t.claim.privacy \in Secrecy
      BY <1>8 DEF ToldSound
    <3>2. PrivacyRank(t.claim.privacy) \in Nat /\ PrivacyRank(traces'[<<o, t.claim.fact>>].privacy) \in Nat
      BY <1>6, <3>1, RankIsNat DEF TraceSound
    <3> QED
      BY <1>8, <3>2
  <2> QED
    BY <2>1 DEF PrivacyIsStrictest
<1>14. RehearsedByObservations'
  BY <1>6 DEF RehearsedByObservations
<1>15. captures' \in Nat
  BY <1>2, <1>3
<1>16. \A o \in Owners, f \in TracedFacts : TraceSound(traces[<<o, f>>])'
  BY <1>6
<1>17. \A t \in told' : ToldSound(t)'
  BY <1>8
<1> QED
  BY <1>9, <1>11, <1>12, <1>13, <1>14, <1>15, <1>16, <1>17 DEF KnowledgeInv, KnowledgeSound

LEMMA KnowledgeKeeps == KnowledgeInv /\ [KnowledgeNext]_knowledgeVars => KnowledgeInv'
<1> SUFFICES ASSUME KnowledgeInv, [KnowledgeNext]_knowledgeVars
             PROVE  KnowledgeInv'
  OBVIOUS
<1>1. CASE KnowledgeNext
  BY <1>1, LearnKeeps DEF KnowledgeNext
<1>2. CASE UNCHANGED knowledgeVars
  BY <1>2 DEF knowledgeVars, KnowledgeInv, TraceSound, ToldSound, KnowledgeSound, KnowledgeTypeOK, PrivateReachesSpeakers,
              LearnsByWitness, PrivacyIsStrictest, RehearsedByObservations, ToldOf
<1> QED
  BY <1>1, <1>2

(* KnowledgeProjector and commitCapture: what is private reaches those who    *)
(* said it, nobody learns by being present or named, and a trace is as        *)
(* private as the most private claim it rests on and rehearsed no more often  *)
(* than it was observed, after any number of captures of any claims.         *)
THEOREM KnowledgeStaysSound == KnowledgeSpec => []KnowledgeSound
<1>1. KnowledgeInv => KnowledgeSound
  BY DEF KnowledgeInv
<1> QED
  BY <1>1, KnowledgeStart, KnowledgeKeeps, PTL DEF KnowledgeSpec

-----------------------------------------------------------------------------
(* Every set of numbers has a least one, and a greatest if it has a bound.   *)
LEMMA LeastOf ==
  ASSUME NEW S \in SUBSET Nat, S # {}
  PROVE  \E m \in S : \A k \in S : m <= k
<1>1. PICK m \in S : \A k \in S : ~(<<k, m>> \in OpToRel(<, Nat))
  BY WFMin, NatLessThanWellFounded, Zenon
<1>2. \A k \in S : ~(k < m)
  BY <1>1 DEF OpToRel
<1> QED
  BY <1>2

LEMMA GreatestOf ==
  ASSUME NEW n \in Nat, NEW S \in SUBSET (0..n), S # {}
  PROVE  \E m \in S : \A k \in S : k <= m
<1> DEFINE T == {i \in 0..n : n - i \in S}
<1>0. T \in SUBSET Nat
  OBVIOUS
<1>1. T # {}
  <2>1. PICK k \in S : TRUE
    OBVIOUS
  <2>2. n - k \in 0..n /\ n - (n - k) = k
    BY <2>1
  <2>3. n - k \in T
    BY <2>1, <2>2
  <2> QED
    BY <2>3
<1>2. PICK i \in T : \A k \in T : i <= k
  BY <1>0, <1>1, LeastOf
<1>3. \A k \in S : n - k \in T
  OBVIOUS
<1>4. \A k \in S : k <= n - i
  BY <1>2, <1>3
<1> QED
  BY <1>2, <1>4

(* What passes the checks of a claim. *)
ClaimPasses(page, people, places, c, taken) ==
    LET placed == people \cup places \cup Fixed
        mayTell(r) == r \in people \cup Fixed /\ ClaimSupports(page, r, c.source)
    IN  /\ Writable(page, c.source) /\ Located(c.quote) /\ c.backed /\ c.sure /\ c.long
        /\ c.subject \in placed \cup {""} /\ (c.subject # "" => ClaimSupports(page, c.subject, c.source))
        /\ (c.kind = "relationship" => c.subject \in people \cup {"player"} /\ c.object # "")
        /\ c.object \in placed \cup {""} /\ (c.object # "" => ClaimSupports(page, c.object, c.source))
        /\ ~(c.subject = "" /\ c.text = "")
        /\ \A r \in c.owners \cup ({c.speaker} \ {""}) : mayTell(r)
        /\ (c.private \/ c.told => c.speaker # "")
        /\ c.id \notin taken

LEMMA ClaimFaultIs ==
  ASSUME NEW page, NEW people, NEW places, NEW c, NEW taken
  PROVE  /\ ClaimFault(page, people, places, c, taken) \in (Codes \ {"taken_over"}) \cup {""}
         /\ ClaimFault(page, people, places, c, taken) = "" <=> ClaimPasses(page, people, places, c, taken)
<1>1. ClaimFault(page, people, places, c, taken) \in (Codes \ {"taken_over"}) \cup {""}
  BY DEF ClaimFault, Codes
<1>2. ClaimFault(page, people, places, c, taken) = "" => ClaimPasses(page, people, places, c, taken)
  BY DEF ClaimFault, ClaimPasses
<1>3. ClaimPasses(page, people, places, c, taken) => ClaimFault(page, people, places, c, taken) = ""
  BY DEF ClaimFault, ClaimPasses
<1> QED
  BY <1>1, <1>2, <1>3

EpisodeOpens(page, e) == e.sources # {} /\ e.sources \subseteq DOMAIN page.named /\ e.sources \cap page.writable # {} /\ e.long
EpisodePasses(page, people, places, e) ==
    /\ e.backed /\ e.people \subseteq people \cup Fixed
    /\ \A r \in e.people : EpisodeSupports(page, r, e.sources)
    /\ e.place \in places \cup {""} /\ (e.place # "" => EpisodeSupports(page, e.place, e.sources))
LEMMA EpisodeFaultIs ==
  ASSUME NEW page, NEW people, NEW places, NEW e, NEW taken
  PROVE  LET code == EpisodeFault(page, people, places, e, taken)
         IN  /\ code \in (Codes \ {"taken_over"}) \cup {""}
             /\ code = "" <=> EpisodeOpens(page, e) /\ e.id \notin taken /\ EpisodePasses(page, people, places, e)
             /\ Reserves("episode", code) <=> EpisodeOpens(page, e) /\ e.id \notin taken
BY DEF EpisodeFault, EpisodeOpens, EpisodePasses, Reserves, Codes

LEMMA OtherFaults ==
  ASSUME NEW page, NEW items, NEW c, NEW taken
  PROVE  /\ PersonFault(page, c, taken) \in (Codes \ {"taken_over"}) \cup {""}
         /\ ItemFault(page, c, taken) \in (Codes \ {"taken_over"}) \cup {""}
         /\ OperationFault(page, items, c, taken) \in (Codes \ {"taken_over"}) \cup {""}
         /\ OperationFault(page, items, c, taken) = "" => c.id \notin taken
BY DEF PersonFault, ItemFault, OperationFault, Codes

-----------------------------------------------------------------------------
(* Passes over a list. *)
IsThrough(with, start, list, n, g) == g = [i \in 0..n |-> IF i = 0 THEN start ELSE Pass(with, g[i - 1], list[i])]
LEMMA ThroughExists ==
  ASSUME NEW with, NEW start, NEW list, NEW n \in Nat
  PROVE  \E g : IsThrough(with, start, list, n, g)
<1> DEFINE Stands(m, g) == IsThrough(with, start, list, m, g)
           missing == {m \in Nat : ~\E g : Stands(m, g)}
<1>1. SUFFICES ASSUME missing # {}
               PROVE  FALSE
  OBVIOUS
<1>2. PICK m \in missing : \A k \in missing : m <= k
  BY <1>1, LeastOf
<1> HIDE DEF missing
<1>3. CASE m = 0
  <2> DEFINE g == [i \in 0..0 |-> start]
  <2>1. Stands(0, g)
    BY DEF IsThrough
  <2> QED
    BY <1>2, <1>3, <2>1 DEF missing
<1>4. CASE m # 0
  <2>1. m - 1 \in Nat /\ m \in Nat /\ m - 1 \notin missing
    <3>1. m \in Nat
      BY DEF missing
    <3>2. m - 1 \in Nat /\ ~(m <= m - 1)
      BY <1>4, <3>1
    <3> QED
      BY <1>2, <3>1, <3>2, Zenon
  <2>2. PICK h : Stands(m - 1, h)
    BY <2>1 DEF missing
  <2> DEFINE g == [i \in 0..m |-> IF i = m THEN Pass(with, h[m - 1], list[m]) ELSE h[i]]
  <2>3. ASSUME NEW i \in 0..m
        PROVE  g[i] = IF i = 0 THEN start ELSE Pass(with, g[i - 1], list[i])
    <3>1. CASE i = m
      <4>1. g[m] = Pass(with, h[m - 1], list[m]) /\ g[m - 1] = h[m - 1]
        BY <2>1
      <4> QED
        BY <1>4, <3>1, <4>1
    <3>2. CASE i = 0
      <4>1. g[0] = h[0] /\ h[0] = start
        BY <1>4, <2>1, <2>2 DEF IsThrough
      <4> QED
        BY <3>2, <4>1
    <3>3. CASE i # m /\ i # 0
      <4>1. i \in 0..(m - 1) /\ i - 1 \in 0..m /\ i - 1 # m
        BY <2>1, <3>3
      <4>2. g[i] = h[i] /\ g[i - 1] = h[i - 1]
        BY <3>3, <4>1
      <4>3. h[i] = Pass(with, h[i - 1], list[i])
        BY <2>2, <3>3, <4>1 DEF IsThrough
      <4> QED
        BY <3>3, <4>2, <4>3
    <3> QED
      BY <3>1, <3>2, <3>3
  <2>4. Stands(m, g)
    BY <2>3 DEF IsThrough
  <2> QED
    BY <1>2, <2>4 DEF missing
<1> QED
  BY <1>3, <1>4

Passes(with, start, list, g) ==
    /\ g[0] = start /\ Through(with, start, list) = g[Len(list)]
    /\ \A i \in 1..Len(list) : g[i] = Pass(with, g[i - 1], list[i])
LEMMA ThroughIs ==
  ASSUME NEW with, NEW start, NEW list, Len(list) \in Nat
  PROVE  \E g : Passes(with, start, list, g)
<1> DEFINE g == CHOOSE g : g = [i \in 0..Len(list) |-> IF i = 0 THEN start ELSE Pass(with, g[i - 1], list[i])]
<1>1. IsThrough(with, start, list, Len(list), g)
  <2>1. g = CHOOSE h : IsThrough(with, start, list, Len(list), h)
    BY DEF IsThrough
  <2>2. \E h : IsThrough(with, start, list, Len(list), h)
    BY ThroughExists
  <2> HIDE DEF g
  <2> QED
    BY <2>1, <2>2, Zenon
<1>2. Through(with, start, list) = g[Len(list)]
  BY DEF Through
<1> HIDE DEF g
<1>3. g[0] = start
  BY <1>1 DEF IsThrough
<1>4. \A i \in 1..Len(list) : g[i] = Pass(with, g[i - 1], list[i])
  BY <1>1 DEF IsThrough
<1> QED
  BY <1>2, <1>3, <1>4 DEF Passes

(* What holds at the start and stays with every element holds at the end.    *)
LEMMA ThroughKeeps ==
  ASSUME NEW with, NEW start, NEW list, Len(list) \in Nat, NEW T, start \in T[0],
         \A i \in 1..Len(list) : \A acc \in T[i - 1] : Pass(with, acc, list[i]) \in T[i]
  PROVE  Through(with, start, list) \in T[Len(list)]
<1>1. PICK g : Passes(with, start, list, g)
  BY ThroughIs
<1> DEFINE wrong == {n \in Nat : n <= Len(list) /\ g[n] \notin T[n]}
<1>2. SUFFICES ASSUME wrong # {}
               PROVE  FALSE
  <2>1. wrong = {} => g[Len(list)] \in T[Len(list)]
    OBVIOUS
  <2> QED
    BY <1>1, <2>1 DEF Passes
<1>3. PICK n \in wrong : \A k \in wrong : n <= k
  <2>1. wrong \in SUBSET Nat
    OBVIOUS
  <2> HIDE DEF wrong
  <2> QED
    BY <1>2, <2>1, LeastOf
<1>4. CASE n = 0
  BY <1>1, <1>3, <1>4 DEF Passes
<1>5. CASE n # 0
  <2>1. n \in 1..Len(list) /\ n - 1 \in Nat /\ n - 1 <= Len(list) /\ ~(n <= n - 1)
    BY <1>3, <1>5
  <2>2. g[n - 1] \in T[n - 1]
    BY <1>3, <2>1
  <2>3. g[n] \in T[n]
    BY <1>1, <2>1, <2>2 DEF Passes
  <2> QED
    BY <1>3, <2>3
<1> QED
  BY <1>4, <1>5

LEMMA ThoseIs ==
  ASSUME NEW X, NEW list \in Seq(X), NEW S
  PROVE  /\ Those(list, S) \in Seq(X)
         /\ ToSet(Those(list, S)) = ToSet(list) \cap S
<1> DEFINE with == [kind |-> "those", set |-> S]
           T == [n \in 0..Len(list) |-> {acc \in Seq(X) : ToSet(acc) = {list[i] : i \in 1..n} \cap S}]
<1>1. Len(list) \in Nat /\ DOMAIN list = 1..Len(list)
  OBVIOUS
<1>2. << >> \in T[0]
  BY <1>1 DEF ToSet
<1>3. ASSUME NEW i \in 1..Len(list), NEW acc \in T[i - 1]
      PROVE  Pass(with, acc, list[i]) \in T[i]
  <2>1. i - 1 \in 0..Len(list) /\ i \in 0..Len(list) /\ 1..i = 1..(i - 1) \cup {i} /\ list[i] \in X
    BY <1>1
  <2>2. acc \in Seq(X) /\ ToSet(acc) = {list[k] : k \in 1..(i - 1)} \cap S
    BY <1>3, <2>1
  <2>3. Pass(with, acc, list[i]) = IF list[i] \in S THEN Append(acc, list[i]) ELSE acc
    BY DEF Pass
  <2>4. ToSet(Append(acc, list[i])) = ToSet(acc) \cup {list[i]} /\ Append(acc, list[i]) \in Seq(X)
    <3> HIDE DEF T
    <3>1. Len(acc) \in Nat /\ DOMAIN acc = 1..Len(acc) /\ DOMAIN Append(acc, list[i]) = 1..(Len(acc) + 1)
          /\ Append(acc, list[i])[Len(acc) + 1] = list[i] /\ \A k \in 1..Len(acc) : Append(acc, list[i])[k] = acc[k]
      BY <2>1, <2>2
    <3>2. 1..(Len(acc) + 1) = 1..Len(acc) \cup {Len(acc) + 1}
      BY <3>1
    <3>3. ToSet(Append(acc, list[i])) = {Append(acc, list[i])[k] : k \in 1..Len(acc)} \cup {list[i]}
      BY <3>1, <3>2 DEF ToSet
    <3>4. {Append(acc, list[i])[k] : k \in 1..Len(acc)} = ToSet(acc)
      BY <3>1 DEF ToSet
    <3>5. ToSet(Append(acc, list[i])) = ToSet(acc) \cup {list[i]}
      BY <3>3, <3>4, Zenon
    <3>6. Append(acc, list[i]) \in Seq(X)
      BY <2>1, <2>2
    <3> QED
      BY <3>5, <3>6
  <2>5. {list[k] : k \in 1..i} = {list[k] : k \in 1..(i - 1)} \cup {list[i]}
    BY <2>1
  <2>6. Pass(with, acc, list[i]) \in Seq(X) /\ ToSet(Pass(with, acc, list[i])) = {list[k] : k \in 1..i} \cap S
    <3> HIDE DEF T, with
    <3>1. CASE list[i] \in S
      BY <2>2, <2>3, <2>4, <2>5, <3>1
    <3>2. CASE list[i] \notin S
      BY <2>2, <2>3, <2>5, <3>2
    <3> QED
      BY <3>1, <3>2
  <2> HIDE DEF with
  <2> QED
    BY <2>1, <2>6
<1>4. Through(with, << >>, list) \in T[Len(list)]
  <2> HIDE DEF T, with
  <2> QED
    BY <1>1, <1>2, <1>3, ThroughKeeps
<1>5. Those(list, S) \in T[Len(list)]
  BY <1>4 DEF Those
<1> QED
  BY <1>1, <1>5 DEF ToSet

LEMMA IdsOfAppend ==
  ASSUME NEW X, NEW s \in Seq(X), NEW c \in X
  PROVE  IdsOf(Append(s, c)) = IdsOf(s) \cup {c.id}
<1>1. DOMAIN Append(s, c) = DOMAIN s \cup {Len(s) + 1} /\ Append(s, c)[Len(s) + 1] = c
      /\ \A i \in DOMAIN s : Append(s, c)[i] = s[i]
  OBVIOUS
<1> QED
  BY <1>1 DEF IdsOf

-----------------------------------------------------------------------------
(* The checks of a list. *)
Sifts == {"actor", "location", "item", "episode", "claim", "inventory"}
Refusals(I) == [kind : Sifts, id : I, code : Codes \ {"taken_over"}, status : {"ignored", "unresolved"}]
Named(X, I) == \A c \in X : c.id \in I
Passing(with, c) == \E taken : FaultOf(with, c, taken) = ""
Distinct(list) == \A i, j \in DOMAIN list : list[i].id = list[j].id => i = j
Sifting(X, I, with, taken, acc) ==
    /\ acc = [kept |-> acc.kept, taken |-> acc.taken, said |-> acc.said]
    /\ acc.kept \in Seq(X) /\ acc.taken \in SUBSET I /\ acc.said \in Seq(Refusals(I))
    /\ Distinct(acc.kept) /\ IdsOf(acc.kept) \subseteq acc.taken
    /\ with.kind # "episode" => acc.taken = taken \cup IdsOf(acc.kept)
    /\ \A i \in DOMAIN acc.kept : Passing(with, acc.kept[i])

LEMMA FaultIs ==
  ASSUME NEW with, with.kind \in Sifts, NEW c, NEW taken
  PROVE  /\ FaultOf(with, c, taken) \in (Codes \ {"taken_over"}) \cup {""}
         /\ FaultOf(with, c, taken) = "" => c.id \notin taken
<1>1. CASE with.kind = "claim"
  <2>1. FaultOf(with, c, taken) = ClaimFault(with.page, with.people, with.places, c, taken)
    BY <1>1 DEF FaultOf
  <2>2. ClaimPasses(with.page, with.people, with.places, c, taken) => c.id \notin taken
    BY DEF ClaimPasses
  <2> QED
    BY <2>1, <2>2, ClaimFaultIs, Zenon
<1>2. CASE with.kind = "episode"
  <2>1. FaultOf(with, c, taken) = EpisodeFault(with.page, with.people, with.places, c, taken)
    BY <1>2 DEF FaultOf
  <2> QED
    <3> DEFINE code == EpisodeFault(with.page, with.people, with.places, c, taken)
    <3>1. /\ code \in (Codes \ {"taken_over"}) \cup {""}
          /\ code = "" <=> EpisodeOpens(with.page, c) /\ c.id \notin taken /\ EpisodePasses(with.page, with.people, with.places, c)
      BY EpisodeFaultIs
    <3> QED
      BY <2>1, <3>1, Zenon
<1>3. CASE with.kind = "inventory"
  BY <1>3, OtherFaults DEF FaultOf
<1>4. CASE with.kind \in {"actor", "location", "item"}
  <2>1. PersonFault(with.page, c, taken) = "" => c.id \notin taken
    BY DEF PersonFault
  <2>2. ItemFault(with.page, c, taken) = "" => c.id \notin taken
    BY DEF ItemFault
  <2> QED
    BY <1>4, <2>1, <2>2, OtherFaults DEF FaultOf, SiteFault
<1> QED
  BY <1>1, <1>2, <1>3, <1>4 DEF Sifts

LEMMA CheckedKeeps ==
  ASSUME NEW X, NEW I, Named(X, I), NEW with, with.kind \in Sifts, NEW taken, NEW acc, Sifting(X, I, with, taken, acc), NEW c \in X
  PROVE  Sifting(X, I, with, taken, Checked(with, acc, c))
<1> DEFINE code == FaultOf(with, c, acc.taken)
           next == Checked(with, acc, c)
<1>1. acc.kept \in Seq(X) /\ acc.taken \in SUBSET I /\ acc.said \in Seq(Refusals(I)) /\ Distinct(acc.kept)
      /\ IdsOf(acc.kept) \subseteq acc.taken
  BY DEF Sifting
<1>2. c.id \in I
  BY DEF Named
<1>3. CASE code = ""
  <2>1. /\ next = [kept |-> Append(acc.kept, c), taken |-> acc.taken \cup {c.id}, said |-> acc.said]
        /\ c.id \notin acc.taken
    BY <1>3, FaultIs DEF Checked, Reserves
  <2>2. Append(acc.kept, c) \in Seq(X) /\ DOMAIN Append(acc.kept, c) = DOMAIN acc.kept \cup {Len(acc.kept) + 1}
        /\ Append(acc.kept, c)[Len(acc.kept) + 1] = c /\ Len(acc.kept) \in Nat
        /\ \A i \in DOMAIN acc.kept : Append(acc.kept, c)[i] = acc.kept[i]
    BY <1>1
  <2>3. IdsOf(Append(acc.kept, c)) = IdsOf(acc.kept) \cup {c.id}
    BY <2>2 DEF IdsOf
  <2>4. Distinct(Append(acc.kept, c))
    BY <1>1, <2>1, <2>2 DEF Distinct, IdsOf
  <2>5. \A i \in DOMAIN Append(acc.kept, c) : Passing(with, Append(acc.kept, c)[i])
    <3>1. Passing(with, c)
      BY <1>1, <1>3 DEF Passing
    <3> QED
      BY <2>2, <3>1 DEF Sifting
  <2>6. with.kind # "episode" => acc.taken \cup {c.id} = taken \cup IdsOf(Append(acc.kept, c))
    BY <2>3 DEF Sifting
  <2>7. acc.taken \cup {c.id} \in SUBSET I
    BY <1>1, <1>2
  <2>8. Sifting(X, I, with, taken, next)
    <3> HIDE DEF next
    <3> QED
      BY <1>1, <2>1, <2>2, <2>3, <2>4, <2>5, <2>6, <2>7 DEF Sifting
  <2> QED
    BY <2>8
<1>4. CASE code # ""
  <2>1. rejection(with.kind, c.id, code) \in Refusals(I)
    <3>1. code \in Codes \ {"taken_over"}
      BY <1>4, FaultIs
    <3> HIDE DEF code
    <3> QED
      <4>1. rejection(with.kind, c.id, code) = [kind |-> with.kind, id |-> c.id, code |-> code, status |-> rejection(with.kind, c.id, code).status]
            /\ rejection(with.kind, c.id, code).status \in {"ignored", "unresolved"}
        BY DEF rejection
      <4> HIDE DEF rejection
      <4> QED
        BY <1>2, <3>1, <4>1 DEF Refusals
  <2>2. next = [kept |-> acc.kept, taken |-> IF Reserves(with.kind, code) THEN acc.taken \cup {c.id} ELSE acc.taken,
                said |-> Append(acc.said, rejection(with.kind, c.id, code))]
    BY <1>4 DEF Checked
  <2>3. Reserves(with.kind, code) => with.kind = "episode"
    BY <1>4 DEF Reserves
  <2>4. Append(acc.said, rejection(with.kind, c.id, code)) \in Seq(Refusals(I))
    BY <1>1, <2>1
  <2>5. Sifting(X, I, with, taken, next)
    <3> HIDE DEF next, code
    <3>1. (IF Reserves(with.kind, code) THEN acc.taken \cup {c.id} ELSE acc.taken) \in SUBSET I
      BY <1>1, <1>2
    <3> QED
      BY <1>1, <2>2, <2>3, <2>4, <3>1 DEF Sifting
  <2> QED
    BY <2>5
<1> QED
  BY <1>3, <1>4

LEMMA SiftIs ==
  ASSUME NEW X, NEW I, Named(X, I), NEW list \in Seq(X), NEW with, with.kind \in Sifts, NEW taken \in SUBSET I
  PROVE  Sifting(X, I, with, taken, Sift(with, list, taken))
<1> DEFINE start == [kept |-> << >>, taken |-> taken, said |-> << >>]
           T == [n \in 0..Len(list) |-> {acc \in [kept : Seq(X), taken : SUBSET I, said : Seq(Refusals(I))] :
                                            Sifting(X, I, with, taken, acc)}]
<1>1. Len(list) \in Nat /\ \A i \in 1..Len(list) : list[i] \in X /\ i - 1 \in 0..Len(list)
  OBVIOUS
<1>2. start \in T[0]
  <2>1. Sifting(X, I, with, taken, start)
    BY DEF Sifting, Distinct, IdsOf
  <2> QED
    BY <1>1, <2>1
<1>3. ASSUME NEW i \in 1..Len(list), NEW acc \in T[i - 1]
      PROVE  Pass(with, acc, list[i]) \in T[i]
  <2>1. Sifting(X, I, with, taken, acc)
    BY <1>1, <1>3
  <2>2. Pass(with, acc, list[i]) = Checked(with, acc, list[i])
    BY DEF Pass, Sifts
  <2>3. Sifting(X, I, with, taken, Checked(with, acc, list[i]))
    BY <1>1, <2>1, CheckedKeeps
  <2>4. Checked(with, acc, list[i]) \in [kept : Seq(X), taken : SUBSET I, said : Seq(Refusals(I))]
    BY <2>3 DEF Sifting, Checked
  <2> QED
    BY <2>2, <2>3, <2>4
<1>4. Through(with, start, list) \in T[Len(list)]
  <2> HIDE DEF T, start
  <2> QED
    BY <1>1, <1>2, <1>3, ThroughKeeps
<1>5. Through(with, start, list) = Sift(with, list, taken)
  BY DEF Sift
<1> HIDE DEF start
<1> QED
  BY <1>1, <1>4, <1>5

(* Which claims are kept: of each id the first that passes.                  *)
LEMMA ClaimIdsAre ==
  ASSUME NEW list, NEW X, list \in Seq(X), NEW with, with.kind = "claim"
  PROVE  IdsOf(Sift(with, list, {}).kept)
         = {list[i].id : i \in {i \in DOMAIN list : ClaimPasses(with.page, with.people, with.places, list[i], {})}}
<1> DEFINE Good(i) == ClaimPasses(with.page, with.people, with.places, list[i], {})
           I == {c.id : c \in X}
           ids(n) == {list[i].id : i \in {i \in 1..n : Good(i)}}
           start == [kept |-> << >>, taken |-> {}, said |-> << >>]
           T == [n \in 0..Len(list) |-> {acc \in [kept : Seq(X), taken : SUBSET I, said : Seq(Refusals(I))] :
                                            Sifting(X, I, with, {}, acc) /\ IdsOf(acc.kept) = ids(n)}]
<1>1. Len(list) \in Nat /\ DOMAIN list = 1..Len(list) /\ \A i \in 1..Len(list) : list[i] \in X /\ i - 1 \in 0..Len(list)
  OBVIOUS
<1>2. start \in T[0]
  <2>1. Sifting(X, I, with, {}, start)
    BY DEF Sifting, Distinct, IdsOf
  <2>2. IdsOf(start.kept) = {} /\ ids(0) = {}
    BY DEF IdsOf
  <2> QED
    BY <1>1, <2>1, <2>2
<1>3. Named(X, I) /\ with.kind \in Sifts
  BY DEF Named, Sifts
<1>4. ASSUME NEW i \in 1..Len(list), NEW acc \in T[i - 1]
      PROVE  Pass(with, acc, list[i]) \in T[i]
  <2> DEFINE next == Checked(with, acc, list[i])
  <2>1. Sifting(X, I, with, {}, acc) /\ IdsOf(acc.kept) = ids(i - 1)
    BY <1>1, <1>4
  <2>2. Pass(with, acc, list[i]) = next
    BY DEF Pass
  <2>3. Sifting(X, I, with, {}, next)
    <3> HIDE DEF I
    <3> QED
      BY <1>1, <1>3, <2>1, CheckedKeeps
  <2>4. next \in [kept : Seq(X), taken : SUBSET I, said : Seq(Refusals(I))]
    <3> HIDE DEF I
    <3> QED
      BY <2>3 DEF Sifting, Checked
  <2>5. acc.taken = IdsOf(acc.kept) /\ acc.kept \in Seq(X)
    BY <2>1 DEF Sifting
  <2>6. IdsOf(Append(acc.kept, list[i])) = IdsOf(acc.kept) \cup {list[i].id}
    BY <1>1, <2>5, IdsOfAppend
  <2>7. ids(i) = ids(i - 1) \cup (IF Good(i) THEN {list[i].id} ELSE {})
    <3>1. 1..i = 1..(i - 1) \cup {i}
      BY <1>1
    <3> QED
      BY <3>1
  <2>8. FaultOf(with, list[i], acc.taken) = "" <=> Good(i) /\ list[i].id \notin acc.taken
    <3>1. FaultOf(with, list[i], acc.taken) = ClaimFault(with.page, with.people, with.places, list[i], acc.taken)
      BY DEF FaultOf
    <3>2. ClaimPasses(with.page, with.people, with.places, list[i], acc.taken) <=> Good(i) /\ list[i].id \notin acc.taken
      BY DEF ClaimPasses
    <3> QED
      BY <3>1, <3>2, ClaimFaultIs
  <2>9. next.kept = IF FaultOf(with, list[i], acc.taken) = "" THEN Append(acc.kept, list[i]) ELSE acc.kept
    BY DEF Checked
  <2>10. IdsOf(next.kept) = ids(i)
    <3> HIDE DEF next, ids, I, T
    <3>1. CASE Good(i) /\ list[i].id \notin acc.taken
      BY <2>1, <2>6, <2>7, <2>8, <2>9, <3>1
    <3>2. CASE Good(i) /\ list[i].id \in acc.taken
      BY <2>1, <2>5, <2>7, <2>8, <2>9, <3>2
    <3>3. CASE ~Good(i)
      BY <2>1, <2>7, <2>8, <2>9, <3>3
    <3> QED
      BY <3>1, <3>2, <3>3
  <2>11. i \in 0..Len(list)
    BY <1>1
  <2> HIDE DEF next, ids, I
  <2> QED
    BY <2>2, <2>3, <2>4, <2>10, <2>11
<1>5. Through(with, start, list) \in T[Len(list)]
  <2> HIDE DEF T, start
  <2> QED
    BY <1>1, <1>2, <1>4, ThroughKeeps
<1>6. Sift(with, list, {}) = Through(with, start, list)
  BY DEF Sift
<1> HIDE DEF start, I
<1> QED
  BY <1>1, <1>5, <1>6

(* Which episodes are kept: those that pass and have no namesake before them *)
(* that was looked at.                                                       *)
EpisodeKeeps(with, list, i) ==
    /\ EpisodeOpens(with.page, list[i]) /\ EpisodePasses(with.page, with.people, with.places, list[i])
    /\ \A j \in 1..(i - 1) : EpisodeOpens(with.page, list[j]) => list[j].id # list[i].id
LEMMA EpisodeIdsAre ==
  ASSUME NEW list, NEW X, list \in Seq(X), NEW with, with.kind = "episode"
  PROVE  IdsOf(Sift(with, list, {}).kept) = {list[i].id : i \in {i \in DOMAIN list : EpisodeKeeps(with, list, i)}}
<1> DEFINE Opens(i) == EpisodeOpens(with.page, list[i])
           Keeps(i) == EpisodeKeeps(with, list, i)
           I == {c.id : c \in X}
           opened(n) == {list[i].id : i \in {i \in 1..n : Opens(i)}}
           ids(n) == {list[i].id : i \in {i \in 1..n : Keeps(i)}}
           start == [kept |-> << >>, taken |-> {}, said |-> << >>]
           T == [n \in 0..Len(list) |-> {acc \in [kept : Seq(X), taken : SUBSET I, said : Seq(Refusals(I))] :
                     Sifting(X, I, with, {}, acc) /\ IdsOf(acc.kept) = ids(n) /\ acc.taken = opened(n)}]
<1>1. Len(list) \in Nat /\ DOMAIN list = 1..Len(list) /\ \A i \in 1..Len(list) : list[i] \in X /\ i - 1 \in 0..Len(list)
  OBVIOUS
<1>2. start \in T[0]
  <2>1. Sifting(X, I, with, {}, start)
    BY DEF Sifting, Distinct, IdsOf
  <2>2. IdsOf(start.kept) = {} /\ ids(0) = {} /\ opened(0) = {}
    BY DEF IdsOf
  <2> QED
    BY <1>1, <2>1, <2>2
<1>3. Named(X, I) /\ with.kind \in Sifts
  BY DEF Named, Sifts
<1>4. ASSUME NEW i \in 1..Len(list), NEW acc \in T[i - 1]
      PROVE  Pass(with, acc, list[i]) \in T[i]
  <2> DEFINE next == Checked(with, acc, list[i])
             code == FaultOf(with, list[i], acc.taken)
  <2>1. Sifting(X, I, with, {}, acc) /\ IdsOf(acc.kept) = ids(i - 1) /\ acc.taken = opened(i - 1)
    BY <1>1, <1>4
  <2>2. Pass(with, acc, list[i]) = next
    BY DEF Pass
  <2>3. Sifting(X, I, with, {}, next)
    <3> HIDE DEF I
    <3> QED
      BY <1>1, <1>3, <2>1, CheckedKeeps
  <2>4. next \in [kept : Seq(X), taken : SUBSET I, said : Seq(Refusals(I))]
    <3> HIDE DEF I
    <3> QED
      BY <2>3 DEF Sifting, Checked
  <2>5. acc.kept \in Seq(X)
    BY <2>1 DEF Sifting
  <2>6. IdsOf(Append(acc.kept, list[i])) = IdsOf(acc.kept) \cup {list[i].id}
    BY <1>1, <2>5, IdsOfAppend
  <2>7. /\ ids(i) = ids(i - 1) \cup (IF Keeps(i) THEN {list[i].id} ELSE {})
        /\ opened(i) = opened(i - 1) \cup (IF Opens(i) THEN {list[i].id} ELSE {})
    <3>1. 1..i = 1..(i - 1) \cup {i}
      BY <1>1
    <3> HIDE DEF Keeps, Opens
    <3> QED
      BY <3>1
  <2>8. /\ code = "" <=> Keeps(i)
        /\ Reserves("episode", code) <=> Opens(i) /\ list[i].id \notin acc.taken
    <3>1. code = EpisodeFault(with.page, with.people, with.places, list[i], acc.taken)
      BY DEF FaultOf
    <3>2. list[i].id \notin acc.taken <=> \A j \in 1..(i - 1) : Opens(j) => list[j].id # list[i].id
      BY <2>1
    <3>3. /\ code = "" <=> EpisodeOpens(with.page, list[i]) /\ list[i].id \notin acc.taken
                           /\ EpisodePasses(with.page, with.people, with.places, list[i])
          /\ Reserves("episode", code) <=> EpisodeOpens(with.page, list[i]) /\ list[i].id \notin acc.taken
      <4> DEFINE found == EpisodeFault(with.page, with.people, with.places, list[i], acc.taken)
      <4>1. /\ found = "" <=> EpisodeOpens(with.page, list[i]) /\ list[i].id \notin acc.taken
                              /\ EpisodePasses(with.page, with.people, with.places, list[i])
            /\ Reserves("episode", found) <=> EpisodeOpens(with.page, list[i]) /\ list[i].id \notin acc.taken
        BY EpisodeFaultIs
      <4>2. code = found
        BY <3>1
      <4> HIDE DEF code, found
      <4> QED
        BY <4>1, <4>2
    <3> QED
      BY <3>2, <3>3 DEF EpisodeKeeps
  <2>9. /\ next.kept = IF code = "" THEN Append(acc.kept, list[i]) ELSE acc.kept
        /\ next.taken = IF Reserves("episode", code) THEN acc.taken \cup {list[i].id} ELSE acc.taken
    BY DEF Checked
  <2>10. IdsOf(next.kept) = ids(i) /\ next.taken = opened(i)
    <3> HIDE DEF next, code, ids, opened, I, T, Opens, Keeps
    <3>1. IdsOf(next.kept) = ids(i)
      <4>1. CASE Keeps(i)
        BY <2>1, <2>6, <2>7, <2>8, <2>9, <4>1
      <4>2. CASE ~Keeps(i)
        BY <2>1, <2>7, <2>8, <2>9, <4>2
      <4> QED
        BY <4>1, <4>2
    <3>2. next.taken = opened(i)
      <4>1. CASE Opens(i) /\ list[i].id \notin acc.taken
        BY <2>1, <2>7, <2>8, <2>9, <4>1
      <4>2. CASE Opens(i) /\ list[i].id \in acc.taken
        BY <2>1, <2>7, <2>8, <2>9, <4>2
      <4>3. CASE ~Opens(i)
        BY <2>1, <2>7, <2>8, <2>9, <4>3
      <4> QED
        BY <4>1, <4>2, <4>3
    <3> QED
      BY <3>1, <3>2
  <2>11. i \in 0..Len(list)
    BY <1>1
  <2> HIDE DEF next, ids, opened, I
  <2> QED
    BY <2>2, <2>3, <2>4, <2>10, <2>11
<1>5. Through(with, start, list) \in T[Len(list)]
  <2> HIDE DEF T, start
  <2> QED
    BY <1>1, <1>2, <1>4, ThroughKeeps
<1>6. Sift(with, list, {}) = Through(with, start, list)
  BY DEF Sift
<1> HIDE DEF start, I
<1> QED
  BY <1>1, <1>5, <1>6

-----------------------------------------------------------------------------
(* The conservative rules change some fields of an episode or a claim.      *)
EpisodeFields == {"id", "sources", "long", "backed", "people", "place"}
LEMMA CleanEpisodeKeeps ==
  ASSUME NEW page, NEW people, NEW e, EpisodeFields \subseteq DOMAIN e
  PROVE  /\ CleanEpisode(page, people, e).id = e.id
         /\ EpisodeOpens(page, CleanEpisode(page, people, e)) <=> EpisodeOpens(page, e)
BY DEF CleanEpisode, EpisodeOpens, EpisodeFields

LEMMA CleanEpisodeIs ==
  ASSUME NEW page, NEW people, NEW places, NEW e, EpisodeFields \subseteq DOMAIN e, EpisodePasses(page, people, places, e)
  PROVE  EpisodePasses(page, people, places, CleanEpisode(page, people, e))
<1> DEFINE d == CleanEpisode(page, people, e)
<1>1. d.sources = e.sources /\ d.backed = e.backed
  BY DEF CleanEpisode, EpisodeFields
<1>2. d.people \subseteq e.people
  BY DEF CleanEpisode, EpisodeFields
<1>3. d.place \in {"", e.place}
  BY DEF CleanEpisode, EpisodeFields
<1> HIDE DEF d
<1>4. EpisodePasses(page, people, places, d)
  BY <1>1, <1>2, <1>3 DEF EpisodePasses
<1> QED
  BY <1>4 DEF d

ClaimFields == {"id", "source", "quote", "backed", "kind", "sure", "long", "subject", "text", "object", "otext", "episode",
                "speaker", "owners", "private", "told", "number"}
LEMMA CleanClaimKeeps ==
  ASSUME NEW page, NEW people, NEW c, ClaimFields \subseteq DOMAIN c
  PROVE  /\ CleanClaim(page, people, c).id = c.id /\ CleanClaim(page, people, c).source = c.source
         /\ CleanClaim(page, people, c).text = c.text /\ DOMAIN CleanClaim(page, people, c) = DOMAIN c
BY DEF CleanClaim, ClaimFields

LEMMA CleanClaimIs ==
  ASSUME NEW page, NEW people, NEW places, NEW c, ClaimFields \subseteq DOMAIN c, ClaimPasses(page, people, places, c, {})
  PROVE  ClaimPasses(page, people, places, CleanClaim(page, people, c), {})
<1> DEFINE d == CleanClaim(page, people, c)
<1>1. /\ d.id = c.id /\ d.source = c.source /\ d.text = c.text /\ d.quote = c.quote /\ d.backed = c.backed /\ d.kind = c.kind
      /\ d.sure = c.sure /\ d.long = c.long /\ d.speaker = c.speaker /\ d.private = c.private /\ d.told = c.told
  BY DEF CleanClaim, ClaimFields
<1>2. d.owners \subseteq c.owners
  BY DEF CleanClaim, ClaimFields
<1>3. d.subject = c.subject \/ (d.subject = "" /\ c.kind # "relationship" /\ c.text # "")
  BY DEF CleanClaim, ClaimFields, Droppable
<1>4. d.object = c.object \/ (d.object = "" /\ c.kind # "relationship")
  BY DEF CleanClaim, ClaimFields, Droppable
<1> HIDE DEF d
<1>5. ClaimPasses(page, people, places, d, {})
  BY <1>1, <1>2, <1>3, <1>4 DEF ClaimPasses
<1> QED
  BY <1>5 DEF d

(* Sequences.                                                                *)
Listed(s) == s \in Seq(ToSet(s))
LEMMA ListedIs ==
  ASSUME NEW X, NEW s \in Seq(X)
  PROVE  /\ Listed(s) /\ ToSet(s) \subseteq X /\ Len(s) \in Nat /\ DOMAIN s = 1..Len(s)
         /\ \A i \in DOMAIN s : s[i] \in ToSet(s)
<1>1. Len(s) \in Nat /\ DOMAIN s = 1..Len(s) /\ s = [i \in 1..Len(s) |-> s[i]]
  OBVIOUS
<1>2. \A i \in 1..Len(s) : s[i] \in ToSet(s) /\ s[i] \in X
  BY <1>1 DEF ToSet
<1>3. s \in [1..Len(s) -> ToSet(s)]
  BY <1>1, <1>2
<1>4. Listed(s)
  BY <1>1, <1>3 DEF Listed
<1> QED
  BY <1>1, <1>2, <1>4 DEF ToSet

LEMMA ConcatIs ==
  ASSUME NEW X, NEW s \in Seq(X), NEW t \in Seq(X)
  PROVE  s \o t \in Seq(X) /\ ToSet(s \o t) = ToSet(s) \cup ToSet(t)
<1>1. /\ Len(s) \in Nat /\ Len(t) \in Nat /\ s \o t \in Seq(X) /\ Len(s \o t) = Len(s) + Len(t)
      /\ \A i \in 1..Len(s) : (s \o t)[i] = s[i]
      /\ \A i \in 1..Len(t) : (s \o t)[Len(s) + i] = t[i]
      /\ DOMAIN s = 1..Len(s) /\ DOMAIN t = 1..Len(t) /\ DOMAIN (s \o t) = 1..(Len(s) + Len(t))
  OBVIOUS
<1>2. ASSUME NEW i \in 1..(Len(s) + Len(t))
      PROVE  (s \o t)[i] \in ToSet(s) \cup ToSet(t)
  <2>1. CASE i \in 1..Len(s)
    BY <1>1, <2>1 DEF ToSet
  <2>2. CASE i \notin 1..Len(s)
    <3>1. i - Len(s) \in 1..Len(t) /\ i = Len(s) + (i - Len(s))
      BY <1>1, <2>2
    <3> QED
      BY <1>1, <3>1 DEF ToSet
  <2> QED
    BY <2>1, <2>2
<1>3. ASSUME NEW i \in 1..Len(s)
      PROVE  s[i] \in ToSet(s \o t)
  <2>1. i \in 1..(Len(s) + Len(t)) /\ (s \o t)[i] = s[i]
    BY <1>1
  <2> QED
    BY <1>1, <2>1 DEF ToSet
<1>4. ASSUME NEW i \in 1..Len(t)
      PROVE  t[i] \in ToSet(s \o t)
  <2>1. Len(s) + i \in 1..(Len(s) + Len(t)) /\ (s \o t)[Len(s) + i] = t[i]
    BY <1>1
  <2> QED
    BY <1>1, <2>1 DEF ToSet
<1>5. ToSet(s \o t) \subseteq ToSet(s) \cup ToSet(t)
  BY <1>1, <1>2 DEF ToSet
<1>6. ToSet(s) \subseteq ToSet(s \o t) /\ ToSet(t) \subseteq ToSet(s \o t)
  BY <1>1, <1>3, <1>4 DEF ToSet
<1> QED
  BY <1>1, <1>5, <1>6

-----------------------------------------------------------------------------
(* What the checks need of an answer: its lists, and those fields.           *)
Shaped(r) ==
    /\ Listed(r.persons) /\ Listed(r.sites) /\ Listed(r.items) /\ Listed(r.episodes) /\ Listed(r.claims) /\ Listed(r.operations)
    /\ \A e \in ToSet(r.episodes) : EpisodeFields \subseteq DOMAIN e
    /\ \A c \in ToSet(r.claims) : ClaimFields \subseteq DOMAIN c
AllIds(r) ==
    KnownPeople \cup KnownPlaces \cup Fixed \cup {"I01"} \cup IdsOf(r.persons) \cup IdsOf(r.sites) \cup IdsOf(r.items)
    \cup IdsOf(r.episodes) \cup IdsOf(r.claims) \cup IdsOf(r.operations)

LEMMA IdsNamed ==
  ASSUME NEW list, NEW I, IdsOf(list) \subseteq I
  PROVE  Named(ToSet(list), I)
BY DEF Named, ToSet, IdsOf

(* The people and places of an answer that may be named are known already,   *)
(* or kept.                                                                  *)
KeptFirst(E) ==
    /\ Listed(E.persons.kept) /\ Listed(E.sites.kept) /\ Listed(E.items.kept)
    /\ E.people \subseteq KnownPeople \cup IdsOf(E.persons.kept) /\ E.places \subseteq KnownPlaces \cup IdsOf(E.sites.kept)
SpokenFirst(E, I) ==
    E.persons.said \in Seq(Refusals(I)) /\ E.sites.said \in Seq(Refusals(I)) /\ E.items.said \in Seq(Refusals(I))
LEMMA EntitiesAre ==
  ASSUME NEW page, NEW r, Shaped(r), NEW I, AllIds(r) \subseteq I, NEW E, E = SiftedEntities(page, r)
  PROVE  KeptFirst(E) /\ SpokenFirst(E, I)
<1> DEFINE known == KnownPeople \cup KnownPlaces \cup Fixed
           w1 == [kind |-> "actor", page |-> page]
           w2 == [kind |-> "location", page |-> page]
           w3 == [kind |-> "item", page |-> page]
           persons == Sift(w1, r.persons, known)
           sites == Sift(w2, r.sites, persons.taken)
           items == Sift(w3, r.items, sites.taken \cup KnownItems(page))
<1>1. /\ E.persons = persons /\ E.sites = sites /\ E.items = items
      /\ E.people = persons.taken \ (KnownPlaces \cup Fixed)
      /\ E.places = KnownPlaces \cup (sites.taken \ persons.taken)
  BY DEF SiftedEntities
<1>2. w1.kind \in Sifts /\ w2.kind \in Sifts /\ w3.kind \in Sifts /\ w1.kind # "episode" /\ w2.kind # "episode"
  BY DEF Sifts
<1>3. Named(ToSet(r.persons), I) /\ Named(ToSet(r.sites), I) /\ Named(ToSet(r.items), I)
  BY IdsNamed DEF AllIds
<1>4. r.persons \in Seq(ToSet(r.persons)) /\ r.sites \in Seq(ToSet(r.sites)) /\ r.items \in Seq(ToSet(r.items))
  BY DEF Shaped, Listed
<1>5. known \in SUBSET I /\ KnownItems(page) \in SUBSET I
  BY DEF AllIds, KnownItems
<1> HIDE DEF w1, w2, w3, known
<1>6. Sifting(ToSet(r.persons), I, w1, known, persons)
  BY <1>2, <1>3, <1>4, <1>5, SiftIs
<1>7. persons.taken \in SUBSET I /\ persons.taken = known \cup IdsOf(persons.kept)
      /\ persons.kept \in Seq(ToSet(r.persons)) /\ persons.said \in Seq(Refusals(I))
  BY <1>2, <1>6 DEF Sifting
<1> HIDE DEF persons
<1>8. Sifting(ToSet(r.sites), I, w2, persons.taken, sites)
  BY <1>2, <1>3, <1>4, <1>7, SiftIs
<1>9. sites.taken \in SUBSET I /\ sites.taken = persons.taken \cup IdsOf(sites.kept)
      /\ sites.kept \in Seq(ToSet(r.sites)) /\ sites.said \in Seq(Refusals(I))
  BY <1>2, <1>8 DEF Sifting
<1> HIDE DEF sites
<1>10. sites.taken \cup KnownItems(page) \in SUBSET I
  BY <1>5, <1>9
<1>11. Sifting(ToSet(r.items), I, w3, sites.taken \cup KnownItems(page), items)
  BY <1>2, <1>3, <1>4, <1>10, SiftIs
<1>12. items.kept \in Seq(ToSet(r.items)) /\ items.said \in Seq(Refusals(I))
  BY <1>11 DEF Sifting
<1> HIDE DEF items
<1>13. Listed(persons.kept) /\ Listed(sites.kept) /\ Listed(items.kept)
  BY <1>7, <1>9, <1>12, ListedIs
<1>14. E.people \subseteq KnownPeople \cup IdsOf(persons.kept)
  BY <1>1, <1>7 DEF known
<1>15. E.places \subseteq KnownPlaces \cup IdsOf(sites.kept)
  BY <1>1, <1>9
<1>16. /\ Listed(E.persons.kept) /\ Listed(E.sites.kept) /\ Listed(E.items.kept)
       /\ E.persons.said \in Seq(Refusals(I)) /\ E.sites.said \in Seq(Refusals(I)) /\ E.items.said \in Seq(Refusals(I))
       /\ E.people \subseteq KnownPeople \cup IdsOf(E.persons.kept)
       /\ E.places \subseteq KnownPlaces \cup IdsOf(E.sites.kept)
  BY <1>1, <1>7, <1>9, <1>12, <1>13, <1>14, <1>15
<1> QED
  BY <1>16 DEF KeptFirst, SpokenFirst

(* What the episodes, claims and operations go through.                      *)
Naming(E, page, kind) ==
    [kind |-> kind, page |-> page, people |-> E.people, places |-> E.places, items |-> E.items.kept]
EpisodesOf(E, page, r, conservative) ==
    [i \in DOMAIN r.episodes |-> IF conservative THEN CleanEpisode(page, E.people, r.episodes[i]) ELSE r.episodes[i]]
ClaimsOf(E, page, r, conservative) ==
    [i \in DOMAIN r.claims |-> IF conservative THEN CleanClaim(page, E.people, r.claims[i]) ELSE r.claims[i]]
LEMMA NamingFrom ==
  ASSUME NEW E, NEW page, NEW r, NEW conservative
  PROVE  LET B == SiftedNaming(E, page, r, conservative)
         IN  /\ B.episodes = Sift(Naming(E, page, "episode"), EpisodesOf(E, page, r, conservative), {})
             /\ B.claims = Sift(Naming(E, page, "claim"), ClaimsOf(E, page, r, conservative), {})
             /\ B.operations = Sift(Naming(E, page, "inventory"), r.operations, {})
BY DEF SiftedNaming, Naming, EpisodesOf, ClaimsOf

LEMMA CandidatesAre ==
  ASSUME NEW E, NEW page, NEW r, Shaped(r), NEW conservative, NEW I, AllIds(r) \subseteq I
  PROVE  LET episodes == EpisodesOf(E, page, r, conservative)
             claims == ClaimsOf(E, page, r, conservative)
         IN  /\ Listed(episodes) /\ DOMAIN episodes = DOMAIN r.episodes /\ Named(ToSet(episodes), I)
             /\ Listed(claims) /\ DOMAIN claims = DOMAIN r.claims /\ Named(ToSet(claims), I)
             /\ \A c \in ToSet(claims) :
                   /\ ClaimFields \subseteq DOMAIN c
                   /\ \E d \in ToSet(r.claims) : d.id = c.id /\ d.source = c.source /\ d.text = c.text
<1> DEFINE episodes == EpisodesOf(E, page, r, conservative)
           claims == ClaimsOf(E, page, r, conservative)
<1>1. /\ r.episodes \in Seq(ToSet(r.episodes)) /\ r.claims \in Seq(ToSet(r.claims))
      /\ \A e \in ToSet(r.episodes) : EpisodeFields \subseteq DOMAIN e
      /\ \A c \in ToSet(r.claims) : ClaimFields \subseteq DOMAIN c
  BY DEF Shaped, Listed
<1>2. /\ Len(r.episodes) \in Nat /\ DOMAIN r.episodes = 1..Len(r.episodes)
      /\ Len(r.claims) \in Nat /\ DOMAIN r.claims = 1..Len(r.claims)
      /\ \A i \in DOMAIN r.episodes : r.episodes[i] \in ToSet(r.episodes)
      /\ \A i \in DOMAIN r.claims : r.claims[i] \in ToSet(r.claims)
  BY <1>1, ListedIs
<1>3. ASSUME NEW i \in DOMAIN r.episodes
      PROVE  episodes[i].id = r.episodes[i].id
  <2>1. EpisodeFields \subseteq DOMAIN r.episodes[i]
    BY <1>1, <1>2
  <2>2. episodes[i] = IF conservative THEN CleanEpisode(page, E.people, r.episodes[i]) ELSE r.episodes[i]
    BY DEF EpisodesOf
  <2>3. CleanEpisode(page, E.people, r.episodes[i]).id = r.episodes[i].id
    BY <2>1, CleanEpisodeKeeps
  <2> QED
    BY <2>2, <2>3
<1>4. ASSUME NEW i \in DOMAIN r.claims
      PROVE  /\ claims[i].id = r.claims[i].id /\ claims[i].source = r.claims[i].source
             /\ claims[i].text = r.claims[i].text /\ ClaimFields \subseteq DOMAIN claims[i]
  <2>1. ClaimFields \subseteq DOMAIN r.claims[i]
    BY <1>1, <1>2
  <2>2. claims[i] = IF conservative THEN CleanClaim(page, E.people, r.claims[i]) ELSE r.claims[i]
    BY DEF ClaimsOf
  <2> DEFINE d == CleanClaim(page, E.people, r.claims[i])
  <2>3. d.id = r.claims[i].id /\ d.source = r.claims[i].source /\ d.text = r.claims[i].text /\ ClaimFields \subseteq DOMAIN d
    BY <2>1, CleanClaimKeeps
  <2> HIDE DEF d
  <2>4. claims[i] = IF conservative THEN d ELSE r.claims[i]
    BY <2>2 DEF d
  <2> HIDE DEF claims
  <2> QED
    BY <2>1, <2>3, <2>4
<1>5. DOMAIN episodes = DOMAIN r.episodes /\ DOMAIN claims = DOMAIN r.claims
  BY DEF EpisodesOf, ClaimsOf
<1>6. episodes = [i \in 1..Len(r.episodes) |-> episodes[i]] /\ claims = [i \in 1..Len(r.claims) |-> claims[i]]
  BY <1>2 DEF EpisodesOf, ClaimsOf
<1> HIDE DEF episodes, claims
<1>7. episodes \in [1..Len(r.episodes) -> ToSet(episodes)] /\ claims \in [1..Len(r.claims) -> ToSet(claims)]
  BY <1>2, <1>5, <1>6 DEF ToSet
<1>8. Listed(episodes) /\ Listed(claims)
  BY <1>2, <1>7 DEF Listed
<1>9. IdsOf(episodes) = IdsOf(r.episodes) /\ IdsOf(claims) = IdsOf(r.claims)
  BY <1>3, <1>4, <1>5 DEF IdsOf
<1>10. Named(ToSet(episodes), I) /\ Named(ToSet(claims), I)
  BY <1>9, IdsNamed DEF AllIds
<1>11. ASSUME NEW c \in ToSet(claims)
       PROVE  /\ ClaimFields \subseteq DOMAIN c
              /\ \E d \in ToSet(r.claims) : d.id = c.id /\ d.source = c.source /\ d.text = c.text
  <2>1. PICK i \in DOMAIN r.claims : c = claims[i]
    BY <1>5, <1>11 DEF ToSet
  <2> QED
    BY <1>2, <1>4, <2>1
<1>12. /\ Listed(episodes) /\ DOMAIN episodes = DOMAIN r.episodes /\ Named(ToSet(episodes), I)
       /\ Listed(claims) /\ DOMAIN claims = DOMAIN r.claims /\ Named(ToSet(claims), I)
  BY <1>5, <1>8, <1>10
<1> QED
  BY <1>11, <1>12 DEF episodes, claims

(* What is kept of the episodes, claims and operations of an answer.         *)
KeptThen(E, page, r, B) ==
    /\ Listed(B.episodes.kept) /\ Listed(B.claims.kept) /\ Listed(B.operations.kept)
    /\ \A e \in ToSet(B.episodes.kept) : EpisodePasses(page, E.people, E.places, e)
    /\ \A c \in ToSet(B.claims.kept) :
          /\ ClaimFields \subseteq DOMAIN c /\ ClaimPasses(page, E.people, E.places, c, {})
          /\ \E d \in ToSet(r.claims) : d.id = c.id /\ d.source = c.source /\ d.text = c.text
    /\ Distinct(B.operations.kept)
SpokenThen(B, I) ==
    /\ B.episodes.said \in Seq(Refusals(I)) /\ B.claims.said \in Seq(Refusals(I)) /\ B.operations.said \in Seq(Refusals(I))
    /\ IdsOf(B.claims.kept) \subseteq I /\ IdsOf(B.operations.kept) \subseteq I
LEMMA NamingIs ==
  ASSUME NEW E, NEW page, NEW r, Shaped(r), NEW conservative, NEW I, AllIds(r) \subseteq I,
         NEW B, B = SiftedNaming(E, page, r, conservative)
  PROVE  KeptThen(E, page, r, B) /\ SpokenThen(B, I)
<1> DEFINE episodes == EpisodesOf(E, page, r, conservative)
           claims == ClaimsOf(E, page, r, conservative)
           we == Naming(E, page, "episode")
           wc == Naming(E, page, "claim")
           wo == Naming(E, page, "inventory")
<1>1. B.episodes = Sift(we, episodes, {}) /\ B.claims = Sift(wc, claims, {}) /\ B.operations = Sift(wo, r.operations, {})
  BY NamingFrom
<1>2. /\ we.kind = "episode" /\ wc.kind = "claim" /\ wo.kind = "inventory"
      /\ we.page = page /\ wc.page = page
      /\ we.people = E.people /\ wc.people = E.people /\ we.places = E.places /\ wc.places = E.places
      /\ we.kind \in Sifts /\ wc.kind \in Sifts /\ wo.kind \in Sifts
  BY DEF Naming, Sifts
<1>3. /\ Listed(episodes) /\ Named(ToSet(episodes), I) /\ Listed(claims) /\ Named(ToSet(claims), I)
      /\ \A c \in ToSet(claims) :
                   /\ ClaimFields \subseteq DOMAIN c
                   /\ \E d \in ToSet(r.claims) : d.id = c.id /\ d.source = c.source /\ d.text = c.text
  BY CandidatesAre
<1>4. Listed(r.operations) /\ Named(ToSet(r.operations), I)
  BY IdsNamed DEF Shaped, AllIds
<1> HIDE DEF episodes, claims, we, wc, wo
<1>5. /\ Sifting(ToSet(episodes), I, we, {}, B.episodes)
      /\ Sifting(ToSet(claims), I, wc, {}, B.claims)
      /\ Sifting(ToSet(r.operations), I, wo, {}, B.operations)
  <2>1. {} \in SUBSET I /\ episodes \in Seq(ToSet(episodes)) /\ claims \in Seq(ToSet(claims))
        /\ r.operations \in Seq(ToSet(r.operations))
    BY <1>3, <1>4 DEF Listed
  <2> QED
    BY <1>1, <1>2, <1>3, <1>4, <2>1, SiftIs
<1>6. /\ B.episodes.kept \in Seq(ToSet(episodes)) /\ B.episodes.said \in Seq(Refusals(I))
      /\ B.claims.kept \in Seq(ToSet(claims)) /\ B.claims.said \in Seq(Refusals(I))
      /\ B.operations.kept \in Seq(ToSet(r.operations)) /\ B.operations.said \in Seq(Refusals(I))
      /\ Distinct(B.operations.kept)
      /\ IdsOf(B.claims.kept) \subseteq I /\ IdsOf(B.operations.kept) \subseteq I
      /\ \A i \in DOMAIN B.episodes.kept : Passing(we, B.episodes.kept[i])
      /\ \A i \in DOMAIN B.claims.kept : Passing(wc, B.claims.kept[i])
  BY <1>5 DEF Sifting
<1>7. Listed(B.episodes.kept) /\ Listed(B.claims.kept) /\ Listed(B.operations.kept) /\ ToSet(B.claims.kept) \subseteq ToSet(claims)
  BY <1>6, ListedIs
<1>8. ASSUME NEW e \in ToSet(B.episodes.kept)
      PROVE  EpisodePasses(page, E.people, E.places, e)
  <2>1. PICK taken : FaultOf(we, e, taken) = ""
    BY <1>6 DEF ToSet, Passing
  <2>2. EpisodeFault(page, E.people, E.places, e, taken) = ""
    BY <1>2, <2>1 DEF FaultOf
  <2> QED
    BY <2>2, EpisodeFaultIs
<1>9. ASSUME NEW c \in ToSet(B.claims.kept)
      PROVE  ClaimPasses(page, E.people, E.places, c, {})
  <2>1. PICK taken : FaultOf(wc, c, taken) = ""
    BY <1>6 DEF ToSet, Passing
  <2>2. ClaimFault(page, E.people, E.places, c, taken) = ""
    BY <1>2, <2>1 DEF FaultOf
  <2>3. ClaimPasses(page, E.people, E.places, c, taken)
    BY <2>2, ClaimFaultIs, Zenon
  <2> QED
    BY <2>3 DEF ClaimPasses
<1>10. \A c \in ToSet(B.claims.kept) :
          /\ ClaimFields \subseteq DOMAIN c /\ ClaimPasses(page, E.people, E.places, c, {})
          /\ \E d \in ToSet(r.claims) : d.id = c.id /\ d.source = c.source /\ d.text = c.text
  BY <1>3, <1>7, <1>9
<1> QED
  BY <1>6, <1>7, <1>8, <1>10 DEF KeptThen, SpokenThen

(* Conservatively, every episode and claim is kept that is kept otherwise.   *)
LEMMA NamingSaves ==
  ASSUME NEW E, NEW page, NEW r, Shaped(r)
  PROVE  /\ IdsOf(SiftedNaming(E, page, r, FALSE).episodes.kept) \subseteq IdsOf(SiftedNaming(E, page, r, TRUE).episodes.kept)
         /\ IdsOf(SiftedNaming(E, page, r, FALSE).claims.kept) \subseteq IdsOf(SiftedNaming(E, page, r, TRUE).claims.kept)
<1> DEFINE we == Naming(E, page, "episode")
           wc == Naming(E, page, "claim")
           e0 == EpisodesOf(E, page, r, FALSE)
           e1 == EpisodesOf(E, page, r, TRUE)
           c0 == ClaimsOf(E, page, r, FALSE)
           c1 == ClaimsOf(E, page, r, TRUE)
<1>1. /\ SiftedNaming(E, page, r, FALSE).episodes = Sift(we, e0, {}) /\ SiftedNaming(E, page, r, TRUE).episodes = Sift(we, e1, {})
      /\ SiftedNaming(E, page, r, FALSE).claims = Sift(wc, c0, {}) /\ SiftedNaming(E, page, r, TRUE).claims = Sift(wc, c1, {})
  BY DEF SiftedNaming, Naming, EpisodesOf, ClaimsOf
<1>2. /\ we.kind = "episode" /\ wc.kind = "claim" /\ we.page = page /\ wc.page = page
      /\ we.people = E.people /\ wc.people = E.people /\ we.places = E.places /\ wc.places = E.places
  BY DEF Naming
<1>3. /\ Listed(r.episodes) /\ Listed(r.claims)
      /\ \A e \in ToSet(r.episodes) : EpisodeFields \subseteq DOMAIN e
      /\ \A c \in ToSet(r.claims) : ClaimFields \subseteq DOMAIN c
  BY DEF Shaped
<1>4. /\ Len(r.episodes) \in Nat /\ DOMAIN r.episodes = 1..Len(r.episodes)
      /\ \A i \in DOMAIN r.episodes : EpisodeFields \subseteq DOMAIN r.episodes[i]
      /\ \A i \in DOMAIN r.claims : ClaimFields \subseteq DOMAIN r.claims[i]
  BY <1>3, ListedIs DEF Listed
<1>5. /\ Listed(e0) /\ DOMAIN e0 = DOMAIN r.episodes /\ Listed(e1) /\ DOMAIN e1 = DOMAIN r.episodes
      /\ Listed(c0) /\ DOMAIN c0 = DOMAIN r.claims /\ Listed(c1) /\ DOMAIN c1 = DOMAIN r.claims
  <2>1. ASSUME NEW conservative
        PROVE  /\ Listed(EpisodesOf(E, page, r, conservative))
               /\ DOMAIN EpisodesOf(E, page, r, conservative) = DOMAIN r.episodes
               /\ Listed(ClaimsOf(E, page, r, conservative))
               /\ DOMAIN ClaimsOf(E, page, r, conservative) = DOMAIN r.claims
    <3>1. AllIds(r) \subseteq AllIds(r)
      OBVIOUS
    <3> QED
      BY <3>1, CandidatesAre
  <2> QED
    BY <2>1, Zenon
<1>6. \A i \in DOMAIN r.episodes : e0[i] = r.episodes[i] /\ e1[i] = CleanEpisode(page, E.people, r.episodes[i])
  BY DEF EpisodesOf
<1>7. \A i \in DOMAIN r.claims : c0[i] = r.claims[i] /\ c1[i] = CleanClaim(page, E.people, r.claims[i])
  BY DEF ClaimsOf
<1> HIDE DEF we, wc, e0, e1, c0, c1
<1>8. /\ IdsOf(Sift(we, e0, {}).kept) = {e0[i].id : i \in {i \in DOMAIN e0 : EpisodeKeeps(we, e0, i)}}
      /\ IdsOf(Sift(we, e1, {}).kept) = {e1[i].id : i \in {i \in DOMAIN e1 : EpisodeKeeps(we, e1, i)}}
  BY <1>2, <1>5, EpisodeIdsAre DEF Listed
<1>9. /\ IdsOf(Sift(wc, c0, {}).kept) = {c0[i].id : i \in {i \in DOMAIN c0 : ClaimPasses(page, E.people, E.places, c0[i], {})}}
      /\ IdsOf(Sift(wc, c1, {}).kept) = {c1[i].id : i \in {i \in DOMAIN c1 : ClaimPasses(page, E.people, E.places, c1[i], {})}}
  <2>1. c0 \in Seq(ToSet(c0)) /\ c1 \in Seq(ToSet(c1))
    BY <1>5 DEF Listed
  <2>2. IdsOf(Sift(wc, c0, {}).kept) = {c0[i].id : i \in {i \in DOMAIN c0 : ClaimPasses(wc.page, wc.people, wc.places, c0[i], {})}}
    BY <1>2, <2>1, ClaimIdsAre
  <2>3. IdsOf(Sift(wc, c1, {}).kept) = {c1[i].id : i \in {i \in DOMAIN c1 : ClaimPasses(wc.page, wc.people, wc.places, c1[i], {})}}
    BY <1>2, <2>1, ClaimIdsAre
  <2> QED
    BY <1>2, <2>2, <2>3
<1>10. ASSUME NEW i \in DOMAIN r.episodes
       PROVE  /\ e1[i].id = e0[i].id /\ (EpisodeOpens(page, e1[i]) <=> EpisodeOpens(page, e0[i]))
              /\ EpisodePasses(page, E.people, E.places, e0[i]) => EpisodePasses(page, E.people, E.places, e1[i])
  BY <1>4, <1>6, CleanEpisodeKeeps, CleanEpisodeIs
<1>11. ASSUME NEW i \in DOMAIN r.episodes, EpisodeKeeps(we, e0, i)
       PROVE  EpisodeKeeps(we, e1, i)
  <2>1. \A j \in 1..(i - 1) : j \in DOMAIN r.episodes
    BY <1>4
  <2> QED
    BY <1>2, <1>10, <1>11, <2>1 DEF EpisodeKeeps
<1>12. ASSUME NEW i \in DOMAIN r.claims
       PROVE  /\ c1[i].id = c0[i].id
              /\ ClaimPasses(page, E.people, E.places, c0[i], {}) => ClaimPasses(page, E.people, E.places, c1[i], {})
  BY <1>4, <1>7, CleanClaimKeeps, CleanClaimIs
<1>13. IdsOf(Sift(we, e0, {}).kept) \subseteq IdsOf(Sift(we, e1, {}).kept)
  BY <1>5, <1>8, <1>10, <1>11
<1>14. IdsOf(Sift(wc, c0, {}).kept) \subseteq IdsOf(Sift(wc, c1, {}).kept)
  BY <1>5, <1>9, <1>12
<1> QED
  BY <1>1, <1>13, <1>14

-----------------------------------------------------------------------------
(* What prepare returns, and what it says of the rest.                       *)
TakenOverOf(page, E, B) == {c \in ToSet(B.claims.kept) : TakenOver(page, E.items.kept, B.operations.kept, c)}
Refused(E, B) ==
    E.persons.said \o E.sites.said \o E.items.said \o B.episodes.said \o B.claims.said \o B.operations.said
Sayings(I) == [kind : Sifts, id : I, code : Codes, status : {"ignored", "unresolved"}]
KeptAll(E, page, r, B) == KeptFirst(E) /\ KeptThen(E, page, r, B)
Spoken(E, B, I) == SpokenFirst(E, I) /\ SpokenThen(B, I)

LEMMA RefusedAre ==
  ASSUME NEW E, NEW B, NEW I, Spoken(E, B, I)
  PROVE  Refused(E, B) \in Seq(Refusals(I))
<1>1. E.persons.said \o E.sites.said \in Seq(Refusals(I))
  BY ConcatIs DEF Spoken, SpokenFirst, SpokenThen
<1>2. E.persons.said \o E.sites.said \o E.items.said \in Seq(Refusals(I))
  BY <1>1, ConcatIs DEF Spoken, SpokenFirst, SpokenThen
<1>3. E.persons.said \o E.sites.said \o E.items.said \o B.episodes.said \in Seq(Refusals(I))
  BY <1>2, ConcatIs DEF Spoken, SpokenFirst, SpokenThen
<1>4. E.persons.said \o E.sites.said \o E.items.said \o B.episodes.said \o B.claims.said \in Seq(Refusals(I))
  BY <1>3, ConcatIs DEF Spoken, SpokenFirst, SpokenThen
<1> QED
  BY <1>4, ConcatIs DEF Spoken, SpokenFirst, SpokenThen, Refused

(* A kept claim that the ledger does not take over stays, and the others are *)
(* heard of.                                                                  *)
Together(S, E, page, B, I) ==
    /\ S.done = TRUE /\ S.persons = E.persons.kept /\ S.sites = E.sites.kept /\ S.items = E.items.kept
    /\ S.episodes = B.episodes.kept /\ S.operations = B.operations.kept
    /\ Listed(S.claims)
    /\ ToSet(S.claims) = {KeptClaim(IdsOf(B.episodes.kept), c) : c \in ToSet(B.claims.kept) \ TakenOverOf(page, E, B)}
    /\ S.said \in Seq(Sayings(I))
    /\ \A t \in ToSet(S.said) : t.code = "taken_over" => \E c \in TakenOverOf(page, E, B) : t.id = c.id
    /\ \A c \in TakenOverOf(page, E, B) : \E t \in ToSet(S.said) : t.code = "taken_over" /\ t.id = c.id
LEMMA TogetherIs ==
  ASSUME NEW E, NEW page, NEW r, NEW B, KeptAll(E, page, r, B), NEW I, Spoken(E, B, I),
         NEW S, S = SiftedTogether(page, E, B)
  PROVE  Together(S, E, page, B, I)
<1> DEFINE list == B.claims.kept
           taken == TakenOverOf(page, E, B)
           ours == Those(list, ToSet(list) \ taken)
           theirs == Those(list, taken)
           kept == [i \in DOMAIN ours |-> KeptClaim(IdsOf(B.episodes.kept), ours[i])]
           heard == [i \in DOMAIN theirs |-> rejection("claim", theirs[i].id, "taken_over")]
<1>1. /\ S.done = TRUE /\ S.persons = E.persons.kept /\ S.sites = E.sites.kept /\ S.items = E.items.kept
      /\ S.episodes = B.episodes.kept /\ S.operations = B.operations.kept
      /\ S.claims = kept /\ S.said = Refused(E, B) \o heard
  <2>1. taken = {c \in ToSet(list) : TakenOver(page, E.items.kept, B.operations.kept, c)}
    BY DEF TakenOverOf
  <2> QED
    BY <2>1 DEF SiftedTogether, Refused
<1>2. list \in Seq(ToSet(list)) /\ taken \subseteq ToSet(list)
  BY DEF KeptAll, KeptThen, Listed, TakenOverOf
<1> HIDE DEF list, taken
<1>3. /\ ours \in Seq(ToSet(list)) /\ ToSet(ours) = ToSet(list) \ taken
      /\ theirs \in Seq(ToSet(list)) /\ ToSet(theirs) = taken
  <2>1. ToSet(list) \cap (ToSet(list) \ taken) = ToSet(list) \ taken /\ ToSet(list) \cap taken = taken
    BY <1>2
  <2> QED
    BY <1>2, <2>1, ThoseIs
<1>4. Len(ours) \in Nat /\ DOMAIN ours = 1..Len(ours) /\ Len(theirs) \in Nat /\ DOMAIN theirs = 1..Len(theirs)
  BY <1>3, ListedIs
<1> HIDE DEF ours, theirs
<1>5. Listed(kept) /\ ToSet(kept) = {KeptClaim(IdsOf(B.episodes.kept), c) : c \in ToSet(ours)}
  <2>1. ToSet(kept) = {KeptClaim(IdsOf(B.episodes.kept), c) : c \in ToSet(ours)}
    BY DEF ToSet
  <2>2. kept \in [1..Len(ours) -> ToSet(kept)]
    BY <1>4 DEF ToSet
  <2>3. kept \in Seq(ToSet(kept))
    <3> HIDE DEF kept
    <3> QED
      BY <1>4, <2>2
  <2> QED
    BY <2>1, <2>3 DEF Listed
<1>6. /\ DOMAIN heard = 1..Len(theirs)
      /\ \A i \in 1..Len(theirs) : heard[i] = rejection("claim", theirs[i].id, "taken_over")
      /\ heard = [i \in 1..Len(theirs) |-> heard[i]]
  BY <1>4
<1>7. \A i \in 1..Len(theirs) : theirs[i].id \in I
  <2>1. \A i \in 1..Len(theirs) : theirs[i] \in ToSet(list)
    BY <1>3, <1>4
  <2>2. \A c \in ToSet(list) : c.id \in I
    BY DEF Spoken, SpokenThen, IdsOf, ToSet, list
  <2> QED
    BY <2>1, <2>2
<1>8. \A i \in 1..Len(theirs) : heard[i] = [kind |-> "claim", id |-> theirs[i].id, code |-> "taken_over", status |-> "ignored"]
  BY <1>6 DEF rejection
<1> HIDE DEF heard, kept
<1>9. ASSUME NEW i \in 1..Len(theirs)
      PROVE  heard[i] \in Sayings(I) /\ heard[i].code = "taken_over" /\ heard[i].id = theirs[i].id
  <2>1. heard[i] = [kind |-> "claim", id |-> theirs[i].id, code |-> "taken_over", status |-> "ignored"]
    BY <1>8
  <2>2. "claim" \in Sifts /\ "taken_over" \in Codes /\ theirs[i].id \in I
    BY <1>7 DEF Sifts, Codes
  <2> QED
    BY <2>1, <2>2 DEF Sayings
<1>10. heard \in Seq(Sayings(I))
  BY <1>4, <1>6, <1>9
<1>11. Refused(E, B) \in Seq(Refusals(I)) /\ Refusals(I) \subseteq Sayings(I)
  BY RefusedAre DEF Refusals, Sayings
<1>12. Refused(E, B) \in Seq(Sayings(I))
  BY <1>11
<1>13. S.said \in Seq(Sayings(I)) /\ ToSet(S.said) = ToSet(Refused(E, B)) \cup ToSet(heard)
  BY <1>1, <1>10, <1>12, ConcatIs
<1>14. \A t \in ToSet(Refused(E, B)) : t.code # "taken_over"
  <2>1. ToSet(Refused(E, B)) \subseteq Refusals(I)
    BY <1>11, ListedIs
  <2> QED
    BY <2>1 DEF Refusals
<1>15. /\ \A t \in ToSet(heard) : t.code = "taken_over" /\ \E c \in taken : t.id = c.id
       /\ \A c \in taken : \E t \in ToSet(heard) : t.code = "taken_over" /\ t.id = c.id
  <2>1. ToSet(heard) = {heard[i] : i \in 1..Len(theirs)} /\ taken = {theirs[i] : i \in 1..Len(theirs)}
    BY <1>3, <1>4, <1>6 DEF ToSet
  <2> QED
    BY <1>9, <2>1
<1> QED
  BY <1>1, <1>3, <1>5, <1>13, <1>14, <1>15 DEF list, taken, Together

LEMMA AppendIs ==
  ASSUME NEW s, Listed(s), NEW c
  PROVE  Listed(Append(s, c)) /\ ToSet(Append(s, c)) = ToSet(s) \cup {c}
<1>1. /\ s \in Seq(ToSet(s)) /\ Len(s) \in Nat /\ DOMAIN s = 1..Len(s) /\ DOMAIN Append(s, c) = 1..(Len(s) + 1)
      /\ Append(s, c)[Len(s) + 1] = c /\ \A i \in 1..Len(s) : Append(s, c)[i] = s[i]
  BY DEF Listed
<1>2. 1..(Len(s) + 1) = 1..Len(s) \cup {Len(s) + 1}
  BY <1>1
<1>3. ToSet(Append(s, c)) = {Append(s, c)[i] : i \in 1..Len(s)} \cup {c}
  BY <1>1, <1>2 DEF ToSet
<1>4. {Append(s, c)[i] : i \in 1..Len(s)} = ToSet(s)
  BY <1>1 DEF ToSet
<1>5. ToSet(Append(s, c)) = ToSet(s) \cup {c}
  BY <1>3, <1>4, Zenon
<1>6. s \in Seq(ToSet(s) \cup {c})
  BY <1>1
<1>7. Append(s, c) \in Seq(ToSet(s) \cup {c})
  BY <1>6
<1> QED
  BY <1>5, <1>7 DEF Listed

LEMMA ConcatListed ==
  ASSUME NEW s, Listed(s), NEW t, Listed(t)
  PROVE  Listed(s \o t) /\ ToSet(s \o t) = ToSet(s) \cup ToSet(t)
<1>1. s \in Seq(ToSet(s) \cup ToSet(t)) /\ t \in Seq(ToSet(s) \cup ToSet(t))
  BY DEF Listed
<1>2. s \o t \in Seq(ToSet(s) \cup ToSet(t)) /\ ToSet(s \o t) = ToSet(s) \cup ToSet(t)
  BY <1>1, ConcatIs
<1> QED
  BY <1>2 DEF Listed

LEMMA OneIs ==
  ASSUME NEW c
  PROVE  Listed(<<c>>) /\ ToSet(<<c>>) = {c} /\ Listed(<< >>) /\ ToSet(<< >>) = {}
<1>1. ToSet(<<c>>) = {c} /\ ToSet(<< >>) = {}
  BY DEF ToSet
<1>2. <<c>> \in Seq({c}) /\ << >> \in Seq({})
  OBVIOUS
<1> QED
  BY <1>1, <1>2 DEF Listed

(* An answer has these lists, and still has them with the server's own parts *)
(* in it.                                                                    *)
LEMMA AnswerShaped ==
  ASSUME NEW r \in AnAnswer
  PROVE  Shaped(r)
<1>1. /\ r.persons \in Seq(AThing) /\ r.sites \in Seq(AThing) /\ r.items \in Seq(AThing) /\ r.episodes \in Seq(AnEpisode)
      /\ r.claims \in Seq(AClaim) /\ r.operations \in Seq(AnOperation)
  BY DEF AnAnswer
<1>2. /\ Listed(r.persons) /\ Listed(r.sites) /\ Listed(r.items) /\ Listed(r.episodes) /\ Listed(r.claims) /\ Listed(r.operations)
      /\ ToSet(r.episodes) \subseteq AnEpisode /\ ToSet(r.claims) \subseteq AClaim
  BY <1>1, ListedIs
<1>3. \A e \in AnEpisode : EpisodeFields \subseteq DOMAIN e
  BY DEF AnEpisode, EpisodeFields
<1>4. \A c \in AClaim : ClaimFields \subseteq DOMAIN c
  BY DEF AClaim, ClaimFields
<1> QED
  BY <1>2, <1>3, <1>4 DEF Shaped

AnswerFields == {"persons", "sites", "items", "episodes", "claims", "operations", "attempts", "reviews", "noops"}
LEMMA MergedShaped ==
  ASSUME NEW page, NEW r, Shaped(r), DOMAIN r = AnswerFields
  PROVE  /\ Shaped(mergeDeterministicInventory(page, r))
         /\ DOMAIN mergeDeterministicInventory(page, r) = AnswerFields
<1> DEFINE m == mergeDeterministicInventory(page, r)
           known == page.snapshot = "lamp" /\ ~page.voided
           listed == [id |-> "listed", source |-> "m", quote |-> "exact", name |-> page.snapshot, sure |-> TRUE]
           counted == [id |-> "counted", source |-> "m", quote |-> "exact", backed |-> TRUE, change |-> "set",
                       item |-> IF known THEN "I01" ELSE "listed"]
           Doubled(source, name) == source = "m" /\ name = page.snapshot
           I == {i \in ToSet(r.items) : ~Doubled(i.source, i.name)}
           O == {o \in ToSet(r.operations) : ~Doubled(o.source, ItemNamed(page, r.items, o.item))}
           more == IF known THEN << >> ELSE <<listed>>
<1>1. CASE page.snapshot = ""
  BY <1>1 DEF mergeDeterministicInventory
<1>2. CASE page.snapshot # ""
  <2>1. m = [r EXCEPT !.items = Those(@, I) \o more, !.operations = <<counted>> \o Those(@, O)]
    BY <1>2 DEF mergeDeterministicInventory
  <2> HIDE DEF m, I, O, listed, counted
  <2>2. Listed(r.items) /\ Listed(r.operations)
    BY DEF Shaped
  <2>3. Listed(Those(r.items, I)) /\ Listed(Those(r.operations, O))
    <3>1. r.items \in Seq(ToSet(r.items)) /\ r.operations \in Seq(ToSet(r.operations))
      BY <2>2 DEF Listed
    <3>2. Those(r.items, I) \in Seq(ToSet(r.items)) /\ Those(r.operations, O) \in Seq(ToSet(r.operations))
      BY <3>1, ThoseIs
    <3> QED
      BY <3>2, ListedIs
  <2>4. Listed(more) /\ Listed(<<counted>>)
    <3>1. Listed(<< >>) /\ Listed(<<listed>>) /\ Listed(<<counted>>)
      BY OneIs
    <3> QED
      BY <3>1, Zenon
  <2> HIDE DEF more
  <2>5. Listed(Those(r.items, I) \o more) /\ Listed(<<counted>> \o Those(r.operations, O))
    BY <2>3, <2>4, ConcatListed
  <2>6. /\ DOMAIN m = DOMAIN r /\ m.persons = r.persons /\ m.sites = r.sites /\ m.episodes = r.episodes /\ m.claims = r.claims
        /\ m.items = Those(r.items, I) \o more /\ m.operations = <<counted>> \o Those(r.operations, O)
    BY <2>1 DEF AnswerFields
  <2>7. Shaped(m)
    BY <2>5, <2>6 DEF Shaped
  <2> QED
    BY <2>6, <2>7 DEF m
<1> QED
  BY <1>1, <1>2

LEMMA AnsweredShaped ==
  ASSUME NEW page, NEW r \in AnAnswer
  PROVE  Shaped(Answered(page, r))
<1> DEFINE m == mergeDeterministicInventory(page, r)
           d == [m EXCEPT !.claims = Append(@, Directive)]
<1>1. DOMAIN r = AnswerFields
  BY DEF AnAnswer, AnswerFields
<1>2. Shaped(m) /\ DOMAIN m = AnswerFields
  BY <1>1, AnswerShaped, MergedShaped
<1>3. Answered(page, r) \in {m, d}
  BY DEF Answered, WithDirectives
<1> HIDE DEF m
<1>4. /\ d.persons = m.persons /\ d.sites = m.sites /\ d.items = m.items /\ d.episodes = m.episodes
      /\ d.operations = m.operations /\ d.claims = Append(m.claims, Directive)
  BY <1>2 DEF AnswerFields
<1> HIDE DEF d
<1>5. Listed(Append(m.claims, Directive)) /\ ToSet(Append(m.claims, Directive)) = ToSet(m.claims) \cup {Directive}
  BY <1>2, AppendIs DEF Shaped
<1>6. ClaimFields \subseteq DOMAIN Directive
  BY DEF ClaimFields, Directive
<1>7. Shaped(d)
  BY <1>2, <1>4, <1>5, <1>6 DEF Shaped
<1> QED
  BY <1>2, <1>3, <1>7

LEMMA RejectionIs ==
  ASSUME NEW kind \in Sifts, NEW I, NEW id \in I, NEW code \in Codes
  PROVE  /\ rejection(kind, id, code) \in Sayings(I)
         /\ rejection(kind, id, code).kind = kind /\ rejection(kind, id, code).id = id /\ rejection(kind, id, code).code = code
<1> DEFINE s == IF code \in AutoIgnored \cup {"vague", "taken_over", "voided"} THEN "ignored" ELSE "unresolved"
<1>1. rejection(kind, id, code) = [kind |-> kind, id |-> id, code |-> code, status |-> s]
  BY DEF rejection
<1>2. s \in {"ignored", "unresolved"}
  OBVIOUS
<1> HIDE DEF s
<1> QED
  BY <1>1, <1>2 DEF Sayings

(* What the ledger does with the operations: each that it takes is about an  *)
(* item that is there, and each that it does not take it holds or tells of.  *)
Counting(with, list, n, acc) ==
    /\ acc = [kept |-> acc.kept, counted |-> acc.counted, said |-> acc.said]
    /\ acc.said \in Seq(Sayings(IdsOf(list)))
    /\ \A id \in acc.kept : \E i \in 1..n : list[i].id = id /\ list[i].item \in KnownItems(with.page) \cup with.there
    /\ \A i \in 1..n : \/ list[i].id \in acc.kept \cup with.page.stored
                       \/ \E t \in ToSet(acc.said) : t.kind = "inventory" /\ t.id = list[i].id

LEMMA CountedKeeps ==
  ASSUME NEW with, NEW list, Listed(list), NEW n \in 1..Len(list), NEW acc, Counting(with, list, n - 1, acc)
  PROVE  Counting(with, list, n, Counted(with, acc, list[n]))
<1> DEFINE o == list[n]
           name == ItemNamed(with.page, with.items, o.item)
           next == Counted(with, acc, o)
           I == IdsOf(list)
<1>1. Len(list) \in Nat /\ n \in Nat /\ 1..n = 1..(n - 1) \cup {n} /\ o.id \in I
  <2>1. Len(list) \in Nat /\ DOMAIN list = 1..Len(list)
    BY DEF Listed
  <2> QED
    BY <2>1 DEF IdsOf
<1>2. acc = [kept |-> acc.kept, counted |-> acc.counted, said |-> acc.said] /\ acc.said \in Seq(Sayings(I))
  BY DEF Counting
<1>3. /\ \A id \in acc.kept : \E i \in 1..n : list[i].id = id /\ list[i].item \in KnownItems(with.page) \cup with.there
      /\ \A i \in 1..(n - 1) : \/ list[i].id \in acc.kept \cup with.page.stored
                               \/ \E t \in ToSet(acc.said) : t.kind = "inventory" /\ t.id = list[i].id
  BY <1>1 DEF Counting
<1>4. ASSUME NEW code \in {"voided", "dependency_invalid"},
             next = [kept |-> acc.kept, counted |-> acc.counted, said |-> Append(acc.said, rejection("inventory", o.id, code))]
      PROVE  Counting(with, list, n, next)
  <2> DEFINE t == rejection("inventory", o.id, code)
  <2>1. t \in Sayings(I) /\ t.kind = "inventory" /\ t.id = o.id
    <3>1. "inventory" \in Sifts /\ code \in Codes
      BY DEF Sifts, Codes
    <3> QED
      BY <1>1, <3>1, RejectionIs
  <2>2. next = [kept |-> acc.kept, counted |-> acc.counted, said |-> Append(acc.said, t)]
    BY <1>4
  <2> HIDE DEF t, next
  <2>3. Append(acc.said, t) \in Seq(Sayings(I)) /\ ToSet(Append(acc.said, t)) = ToSet(acc.said) \cup {t}
    <3>1. Listed(acc.said)
      BY <1>2, ListedIs
    <3> QED
      BY <1>2, <2>1, <3>1, AppendIs
  <2>4. \A i \in 1..n : \/ list[i].id \in next.kept \cup with.page.stored
                        \/ \E u \in ToSet(next.said) : u.kind = "inventory" /\ u.id = list[i].id
    BY <1>1, <1>3, <2>1, <2>2, <2>3
  <2> HIDE DEF I
  <2> QED
    BY <1>3, <2>2, <2>3, <2>4 DEF Counting, I
<1>5. CASE o.item \notin KnownItems(with.page) \cup with.there
  <2>1. next = [kept |-> acc.kept, counted |-> acc.counted, said |-> Append(acc.said, rejection("inventory", o.id, "voided"))]
    BY <1>2, <1>5 DEF Counted
  <2> QED
    BY <1>4, <2>1
<1>6. CASE o.item \in KnownItems(with.page) \cup with.there /\ o.change = "increase" /\ name \notin acc.counted
  <2>1. next = [kept |-> acc.kept, counted |-> acc.counted, said |-> Append(acc.said, rejection("inventory", o.id, "dependency_invalid"))]
    BY <1>2, <1>6 DEF Counted
  <2> QED
    BY <1>4, <2>1
<1>7. CASE o.item \in KnownItems(with.page) \cup with.there /\ ~(o.change = "increase" /\ name \notin acc.counted)
  <2>1. CASE o.id \in with.page.stored
    <3>1. next = acc
      BY <1>7, <2>1 DEF Counted
    <3> HIDE DEF next
    <3>2. \A i \in 1..n : \/ list[i].id \in acc.kept \cup with.page.stored
                          \/ \E t \in ToSet(acc.said) : t.kind = "inventory" /\ t.id = list[i].id
      BY <1>1, <1>3, <2>1
    <3>3. Counting(with, list, n, next)
      BY <1>2, <1>3, <3>1, <3>2 DEF Counting
    <3> QED
      BY <3>3 DEF next
  <2>2. CASE o.id \notin with.page.stored
    <3>1. next = [kept |-> acc.kept \cup {o.id}, counted |-> acc.counted \cup {name}, said |-> acc.said]
      <4> HIDE DEF name
      <4> QED
        BY <1>2, <1>7, <2>2 DEF Counted, name
    <3> HIDE DEF next
    <3>2. \A i \in 1..n : \/ list[i].id \in next.kept \cup with.page.stored
                          \/ \E t \in ToSet(next.said) : t.kind = "inventory" /\ t.id = list[i].id
      BY <1>1, <1>3, <3>1
    <3>3. \A id \in next.kept : \E i \in 1..n : list[i].id = id /\ list[i].item \in KnownItems(with.page) \cup with.there
      BY <1>1, <1>3, <1>7, <3>1
    <3> HIDE DEF name
    <3>4. Counting(with, list, n, next)
      BY <1>2, <3>1, <3>2, <3>3 DEF Counting
    <3> QED
      BY <3>4 DEF next
  <2> QED
    BY <2>1, <2>2
<1> QED
  BY <1>5, <1>6, <1>7

LEMMA LedgerIs ==
  ASSUME NEW with, with.kind = "ledger", NEW list, Listed(list), NEW counted
  PROVE  Counting(with, list, Len(list), Through(with, [kept |-> {}, counted |-> counted, said |-> << >>], list))
<1> DEFINE start == [kept |-> {}, counted |-> counted, said |-> << >>]
<1>1. Len(list) \in Nat
  BY DEF Listed
<1>2. PICK g : Passes(with, start, list, g)
  BY <1>1, ThroughIs
<1> DEFINE wrong == {n \in Nat : n <= Len(list) /\ ~Counting(with, list, n, g[n])}
<1>3. SUFFICES ASSUME wrong # {}
               PROVE  FALSE
  <2>1. wrong = {} => Counting(with, list, Len(list), g[Len(list)])
    BY <1>1
  <2> QED
    BY <1>2, <2>1 DEF Passes
<1>4. PICK n \in wrong : \A k \in wrong : n <= k
  <2>1. wrong \in SUBSET Nat
    OBVIOUS
  <2> HIDE DEF wrong
  <2> QED
    BY <1>3, <2>1, LeastOf
<1>5. CASE n = 0
  <2>1. Counting(with, list, 0, start)
    BY DEF Counting
  <2> QED
    BY <1>2, <1>4, <1>5, <2>1 DEF Passes
<1>6. CASE n # 0
  <2>1. n \in 1..Len(list) /\ n - 1 \in Nat /\ n - 1 <= Len(list) /\ ~(n <= n - 1)
    BY <1>1, <1>4, <1>6
  <2>2. Counting(with, list, n - 1, g[n - 1])
    BY <1>4, <2>1
  <2>3. g[n] = Counted(with, g[n - 1], list[n])
    BY <1>2, <2>1 DEF Passes, Pass
  <2>4. Counting(with, list, n, g[n])
    BY <2>1, <2>2, <2>3, CountedKeeps
  <2> QED
    BY <1>4, <2>4
<1> QED
  BY <1>5, <1>6

(* Every observation is one of a kept claim.                                 *)
LEMMA ObservedAre ==
  ASSUME NEW with, with.kind = "observed", NEW list, Listed(list), NEW episodes
  PROVE  \A w \in Through(with, [episodes |-> episodes, of |-> {}], list).of : w.claim \in ToSet(list)
<1> DEFINE start == [episodes |-> episodes, of |-> {}]
           Stands(acc) == \A w \in acc.of : w.claim \in ToSet(list)
<1>1. Len(list) \in Nat /\ \A i \in 1..Len(list) : list[i] \in ToSet(list)
  BY DEF Listed, ToSet
<1>2. PICK g : Passes(with, start, list, g)
  BY <1>1, ThroughIs
<1> DEFINE wrong == {n \in Nat : n <= Len(list) /\ ~Stands(g[n])}
<1>3. SUFFICES ASSUME wrong # {}
               PROVE  FALSE
  <2>1. wrong = {} => Stands(g[Len(list)])
    BY <1>1
  <2> QED
    BY <1>2, <2>1 DEF Passes
<1>4. PICK n \in wrong : \A k \in wrong : n <= k
  <2>1. wrong \in SUBSET Nat
    OBVIOUS
  <2> HIDE DEF wrong
  <2> QED
    BY <1>3, <2>1, LeastOf
<1>5. CASE n = 0
  <2>1. Stands(start)
    OBVIOUS
  <2> QED
    BY <1>2, <1>4, <1>5, <2>1 DEF Passes
<1>6. CASE n # 0
  <2>1. n \in 1..Len(list) /\ n - 1 \in Nat /\ n - 1 <= Len(list) /\ ~(n <= n - 1)
    BY <1>1, <1>4, <1>6
  <2>2. Stands(g[n - 1])
    BY <1>4, <2>1
  <2>3. g[n] = WithEpisode(g[n - 1], list[n])
    BY <1>2, <2>1 DEF Passes, Pass
  <2> DEFINE acc == g[n - 1]
             c == list[n]
             fits == {i \in DOMAIN acc.episodes : c.source \in acc.episodes[i].sources}
             id == IF c.episode # "" THEN c.episode ELSE IF fits # {} THEN acc.episodes[Min(fits)].id ELSE c.source
  <2>4. g[n].of = acc.of \cup {[claim |-> c, episode |-> id]}
    <3>1. WithEpisode(acc, c).of = acc.of \cup {[claim |-> c, episode |-> id]}
      <4> HIDE DEF acc, c
      <4> QED
        BY DEF WithEpisode
    <3> QED
      BY <2>3, <3>1, Zenon
  <2> HIDE DEF id
  <2>5. Stands(g[n])
    BY <1>1, <2>1, <2>2, <2>4
  <2> QED
    BY <1>4, <2>5
<1> QED
  BY <1>5, <1>6

-----------------------------------------------------------------------------
(* The candidate records.                                                    *)
Told(attempts, kept, said) == (UNION ToSet(attempts)) \cup kept \cup {Key(t) : t \in ToSet(said)}
LEMMA RowsAre ==
  ASSUME NEW attempts, Listed(attempts), NEW kept, NEW said, Listed(said)
  PROVE  LET rows == Rows(attempts, kept, said)
             last == Len(attempts) + Len(said)
         IN  /\ \A row \in rows : row = <<row[1], row[2]>> /\ row[2] \in 0..last
             /\ \A k \in Told(attempts, kept, said) : \E n \in 0..last : <<k, n>> \in rows
<1> DEFINE last == Len(attempts) + Len(said)
           tried == UNION ToSet(attempts)
           refused == {i \in DOMAIN said : Key(said[i]) \notin tried \cup kept /\ \A j \in 1..(i - 1) : Key(said[j]) # Key(said[i])}
           rows == Rows(attempts, kept, said)
           ofAttempts == UNION {attempts[i] \X {i - 1} : i \in DOMAIN attempts}
           ofKept == (kept \ tried) \X {Len(attempts)}
           ofSaid == {<<Key(said[i]), Len(attempts) + i - 1>> : i \in refused}
<1>1. Len(attempts) \in Nat /\ DOMAIN attempts = 1..Len(attempts) /\ Len(said) \in Nat /\ DOMAIN said = 1..Len(said)
  BY DEF Listed
<1>2. rows = ofAttempts \cup ofKept \cup ofSaid
  BY DEF Rows
<1> HIDE DEF rows
<1>3. ASSUME NEW row \in rows
      PROVE  row = <<row[1], row[2]>> /\ row[2] \in 0..last
  <2>1. CASE row \in ofAttempts
    <3>1. PICK i \in 1..Len(attempts) : row \in attempts[i] \X {i - 1}
      BY <1>1, <2>1
    <3>2. i - 1 \in 0..last
      BY <1>1
    <3> QED
      BY <3>1, <3>2
  <2>2. CASE row \in ofKept
    <3>1. Len(attempts) \in 0..last
      BY <1>1
    <3> QED
      BY <2>2, <3>1
  <2>3. CASE row \in ofSaid
    <3>1. PICK i \in 1..Len(said) : row = <<Key(said[i]), Len(attempts) + i - 1>>
      BY <1>1, <2>3
    <3>2. Len(attempts) + i - 1 \in 0..last
      BY <1>1
    <3> QED
      BY <3>1, <3>2
  <2> HIDE DEF ofAttempts, ofKept, ofSaid
  <2> QED
    BY <1>2, <1>3, <2>1, <2>2, <2>3
<1>4. ASSUME NEW k \in Told(attempts, kept, said)
      PROVE  \E n \in 0..last : <<k, n>> \in rows
  <2>1. CASE k \in tried
    <3>1. PICK i \in 1..Len(attempts) : k \in attempts[i]
      BY <1>1, <2>1 DEF ToSet
    <3>2. <<k, i - 1>> \in attempts[i] \X {i - 1} /\ i - 1 \in 0..last
      BY <1>1, <3>1
    <3>3. <<k, i - 1>> \in ofAttempts
      BY <1>1, <3>2
    <3> HIDE DEF ofAttempts, ofKept, ofSaid
    <3>4. <<k, i - 1>> \in rows
      BY <1>2, <3>3
    <3> QED
      BY <3>2, <3>4
  <2>2. CASE k \in kept \ tried
    <3>1. <<k, Len(attempts)>> \in ofKept /\ Len(attempts) \in 0..last
      BY <1>1, <2>2
    <3> HIDE DEF ofAttempts, ofKept, ofSaid
    <3>2. <<k, Len(attempts)>> \in rows
      BY <1>2, <3>1
    <3> QED
      BY <3>1, <3>2
  <2>3. CASE k \notin tried \cup kept
    <3> DEFINE with == {i \in Nat : i \in 1..Len(said) /\ Key(said[i]) = k}
    <3>1. with # {} /\ with \in SUBSET Nat
      <4>1. PICK t \in ToSet(said) : Key(t) = k
        BY <2>3 DEF Told
      <4>2. PICK i \in 1..Len(said) : said[i] = t
        BY <1>1 DEF ToSet
      <4>3. i \in with
        BY <1>1, <4>1, <4>2
      <4> QED
        BY <4>3
    <3>2. PICK i \in with : \A j \in with : i <= j
      <4> HIDE DEF with
      <4> QED
        BY <3>1, LeastOf
    <3>3. i \in 1..Len(said) /\ Key(said[i]) = k
      OBVIOUS
    <3>4. \A j \in 1..(i - 1) : Key(said[j]) # k
      <4>1. \A j \in 1..(i - 1) : j \in Nat /\ j \in 1..Len(said) /\ ~(i <= j)
        BY <1>1, <3>3
      <4> QED
        BY <3>2, <4>1
    <3>5. i \in refused
      BY <1>1, <2>3, <3>3, <3>4
    <3>6. <<k, Len(attempts) + i - 1>> \in ofSaid
      <4> HIDE DEF refused
      <4> QED
        BY <3>3, <3>5
    <3>7. Len(attempts) + i - 1 \in 0..last
      BY <1>1, <3>3
    <3> HIDE DEF ofAttempts, ofKept, ofSaid
    <3>8. <<k, Len(attempts) + i - 1>> \in rows
      BY <1>2, <3>6
    <3> QED
      BY <3>7, <3>8
  <2> QED
    BY <2>1, <2>2, <2>3
<1> QED
  BY <1>3, <1>4 DEF rows

RecordOf(rows, r, accepted, reply, said) == [key |-> r[1], status |-> Status(rows, r, accepted, reply, said)]
Written(rows, accepted, reply, said) == {RecordOf(rows, r, accepted, reply, said) : r \in rows}
ToldOnce(heard, accepted, k) ==
    LET statuses == {t.status : t \in {t \in heard : t.key = k}} \ {"superseded_attempt"}
    IN  \E status \in statuses : statuses = {status} /\ (status = "accepted" <=> k \in accepted)
LEMMA TellsOnce ==
  ASSUME NEW attempts, Listed(attempts), NEW kept, NEW said, Listed(said), NEW accepted, NEW reply,
         NEW k \in Told(attempts, kept, said), NEW rows, rows = Rows(attempts, kept, said),
         NEW written, written = Written(rows, accepted, reply, said)
  PROVE  ToldOnce(written, accepted, k)
<1> DEFINE last == Len(attempts) + Len(said)
           heard == {t.status : t \in {t \in written : t.key = k}} \ {"superseded_attempt"}
           S == {n \in 0..last : <<k, n>> \in rows}
<1>1. /\ \A row \in rows : row = <<row[1], row[2]>> /\ row[2] \in 0..last
      /\ \E n \in 0..last : <<k, n>> \in rows
  BY RowsAre
<1>2. last \in Nat
  BY DEF Listed
<1> HIDE DEF last
<1>3. PICK m \in S : \A n \in S : n <= m
  <2>1. S # {} /\ S \in SUBSET (0..last)
    BY <1>1
  <2> HIDE DEF S
  <2> QED
    BY <1>2, <2>1, GreatestOf
<1> DEFINE row == <<k, m>>
           status == Status(rows, row, accepted, reply, said)
<1>4. row \in rows /\ m \in 0..last
  OBVIOUS
<1>5. ~Superseded(rows, row)
  <2>1. ASSUME NEW later \in rows, later[1] = k, later[2] > m
        PROVE  FALSE
    <3>1. later[2] \in S
      BY <1>1, <2>1
    <3> QED
      BY <1>2, <1>3, <2>1, <3>1
  <2> QED
    BY <2>1 DEF Superseded
<1>6. \A r \in rows : r[1] = k /\ r # row => Superseded(rows, r)
  <2>1. ASSUME NEW r \in rows, r[1] = k, r # row
        PROVE  row[2] > r[2]
    <3>1. r = <<k, r[2]>> /\ r[2] \in S
      BY <1>1, <2>1
    <3>2. r[2] <= m /\ r[2] # m
      BY <1>3, <2>1, <3>1
    <3> QED
      BY <1>2, <3>1, <3>2
  <2> QED
    BY <1>4, <2>1 DEF Superseded
<1>7. status # "superseded_attempt" /\ (status = "accepted" <=> k \in accepted)
  BY <1>5 DEF Status
<1>8. \A r \in rows : r[1] = k /\ r # row => Status(rows, r, accepted, reply, said) = "superseded_attempt"
  BY <1>6 DEF Status
<1> HIDE DEF S
<1>9. heard = {status}
  <2>1. RecordOf(rows, row, accepted, reply, said) \in written
    BY <1>4 DEF Written
  <2>2. status \in heard
    <3>1. RecordOf(rows, row, accepted, reply, said).key = k /\ RecordOf(rows, row, accepted, reply, said).status = status
      BY DEF RecordOf
    <3> HIDE DEF status, row
    <3> QED
      BY <1>7, <2>1, <3>1
  <2>3. ASSUME NEW t \in heard
        PROVE  t = status
    <3>1. PICK r \in rows : RecordOf(rows, r, accepted, reply, said).key = k /\ t = RecordOf(rows, r, accepted, reply, said).status
      BY <2>3 DEF Written
    <3>2. r[1] = k /\ t = Status(rows, r, accepted, reply, said) /\ t # "superseded_attempt"
      BY <2>3, <3>1 DEF RecordOf
    <3> QED
      BY <1>8, <3>2
  <2> QED
    BY <2>2, <2>3
<1> HIDE DEF status
<1>10. \E s \in heard : heard = {s} /\ (s = "accepted" <=> k \in accepted)
  BY <1>7, <1>9
<1> QED
  BY <1>10 DEF ToldOnce

(* What prepare returns, for an answer that has its lists.                   *)
LEMMA SiftedIs ==
  ASSUME NEW page, NEW r, Shaped(r), NEW conservative,
         NEW E, E = SiftedEntities(page, r), NEW B, B = SiftedNaming(E, page, r, conservative)
  PROVE  /\ KeptAll(E, page, r, B) /\ Spoken(E, B, AllIds(r))
         /\ Sifted(page, r, conservative) = SiftedTogether(page, E, B)
<1>1. AllIds(r) \subseteq AllIds(r)
  OBVIOUS
<1>2. KeptAll(E, page, r, B) /\ Spoken(E, B, AllIds(r))
  BY <1>1, EntitiesAre, NamingIs DEF KeptAll, Spoken
<1>3. Sifted(page, r, conservative) = SiftedTogether(page, E, B)
  BY DEF Sifted, SiftedFrom
<1> QED
  BY <1>2, <1>3

(* The claims that were kept name whom they may.                             *)
Names(S) ==
    LET people == KnownPeople \cup Fixed \cup IdsOf(S.persons)
        places == KnownPlaces \cup IdsOf(S.sites)
    IN  /\ \A e \in ToSet(S.episodes) : e.people \subseteq people /\ e.place \in places \cup {""}
        /\ \A c \in ToSet(S.claims) : {c.subject, c.object} \subseteq people \cup places \cup {""} /\ c.owners \subseteq people

Justified(S, page, r) ==
    \A i \in DOMAIN S.said : S.said[i].code = "taken_over" =>
        \E o \in ToSet(S.operations) : \E c \in ToSet(r.claims) :
            c.id = S.said[i].id /\ c.source = o.source /\ c.text = ItemNamed(page, S.items, o.item)

PrepareSound(S, page, r) ==
    /\ S.done = TRUE /\ Names(S) /\ Justified(S, page, r)
    /\ Listed(S.items) /\ Listed(S.claims) /\ Listed(S.operations) /\ Distinct(S.operations)
    /\ S.said \in Seq(Sayings(AllIds(r)))
LEMMA SiftedSound ==
  ASSUME NEW page, NEW r, Shaped(r), NEW conservative, NEW S, S = Sifted(page, r, conservative)
  PROVE  PrepareSound(S, page, r)
<1> DEFINE I == AllIds(r)
<1>1. PICK E : E = SiftedEntities(page, r)
  OBVIOUS
<1>2. PICK B : B = SiftedNaming(E, page, r, conservative)
  OBVIOUS
<1>3. KeptAll(E, page, r, B) /\ Spoken(E, B, I) /\ S = SiftedTogether(page, E, B)
  BY <1>1, <1>2, SiftedIs
<1> HIDE DEF I
<1> DEFINE taken == TakenOverOf(page, E, B)
<1>4. /\ S.done = TRUE /\ S.persons = E.persons.kept /\ S.sites = E.sites.kept /\ S.items = E.items.kept
      /\ S.episodes = B.episodes.kept /\ S.operations = B.operations.kept
      /\ Listed(S.claims)
      /\ ToSet(S.claims) = {KeptClaim(IdsOf(B.episodes.kept), c) : c \in ToSet(B.claims.kept) \ taken}
      /\ S.said \in Seq(Sayings(I))
      /\ \A t \in ToSet(S.said) : t.code = "taken_over" => \E c \in taken : t.id = c.id
  <2>1. Together(S, E, page, B, I)
    BY <1>3, TogetherIs
  <2> QED
    BY <2>1 DEF Together
<1> DEFINE people == KnownPeople \cup Fixed \cup IdsOf(S.persons)
           places == KnownPlaces \cup IdsOf(S.sites)
<1>5. E.people \cup Fixed \subseteq people /\ E.places \subseteq places
  BY <1>3, <1>4 DEF KeptAll, KeptFirst, KeptThen
<1>6. ASSUME NEW e \in ToSet(S.episodes)
      PROVE  e.people \subseteq people /\ e.place \in places \cup {""}
  <2>1. EpisodePasses(page, E.people, E.places, e)
    BY <1>3, <1>4 DEF KeptAll, KeptFirst, KeptThen
  <2>2. e.people \subseteq E.people \cup Fixed /\ e.place \in E.places \cup {""}
    BY <2>1 DEF EpisodePasses
  <2> HIDE DEF people, places
  <2> QED
    BY <1>5, <2>2
<1>7. ASSUME NEW d \in ToSet(S.claims)
      PROVE  {d.subject, d.object} \subseteq people \cup places \cup {""} /\ d.owners \subseteq people
  <2> HIDE DEF people, places
  <2>1. PICK c \in ToSet(B.claims.kept) : d = KeptClaim(IdsOf(B.episodes.kept), c)
    BY <1>4, <1>7
  <2>2. ClaimFields \subseteq DOMAIN c /\ ClaimPasses(page, E.people, E.places, c, {})
    BY <1>3, <2>1 DEF KeptAll, KeptThen
  <2>3. /\ c.subject \in E.people \cup E.places \cup Fixed \cup {""} /\ c.object \in E.people \cup E.places \cup Fixed \cup {""}
        /\ \A o \in c.owners \cup ({c.speaker} \ {""}) : o \in E.people \cup Fixed
        /\ (c.private => c.speaker # "")
    BY <2>2 DEF ClaimPasses
  <2>4. d.subject = c.subject /\ d.object = c.object
        /\ d.owners = IF c.private THEN c.owners \cup {c.speaker} ELSE c.owners
    BY <2>1, <2>2 DEF KeptClaim, ClaimFields
  <2>5. d.owners \subseteq E.people \cup Fixed
    BY <2>3, <2>4
  <2> QED
    BY <1>5, <2>3, <2>4, <2>5
<1>8. Names(S)
  BY <1>6, <1>7 DEF Names
<1>9. ASSUME NEW i \in DOMAIN S.said, S.said[i].code = "taken_over"
      PROVE  \E o \in ToSet(S.operations) : \E c \in ToSet(r.claims) :
                 c.id = S.said[i].id /\ c.source = o.source /\ c.text = ItemNamed(page, S.items, o.item)
  <2>1. PICK c \in taken : S.said[i].id = c.id
    <3>1. S.said[i] \in ToSet(S.said)
      BY DEF ToSet
    <3> HIDE DEF taken
    <3> QED
      BY <1>4, <1>9, <3>1
  <2>2. c \in ToSet(B.claims.kept) /\ TakenOver(page, E.items.kept, B.operations.kept, c)
    BY DEF TakenOverOf
  <2>3. PICK j \in DOMAIN B.operations.kept :
            /\ B.operations.kept[j].source = c.source
            /\ ItemNamed(page, E.items.kept, B.operations.kept[j].item) = c.text
    BY <2>2 DEF TakenOver
  <2>4. PICK d \in ToSet(r.claims) : d.id = c.id /\ d.source = c.source /\ d.text = c.text
    BY <1>3, <2>2 DEF KeptAll, KeptThen
  <2>5. B.operations.kept[j] \in ToSet(S.operations)
    BY <1>4, <2>3 DEF ToSet
  <2> QED
    BY <1>4, <2>1, <2>3, <2>4, <2>5
<1>10. Justified(S, page, r)
  BY <1>9 DEF Justified
<1>11. Listed(S.items) /\ Listed(S.operations) /\ Distinct(S.operations)
  BY <1>3, <1>4 DEF KeptAll, KeptFirst, KeptThen
<1> HIDE DEF taken, people, places
<1>12. S.done = TRUE /\ Listed(S.claims) /\ S.said \in Seq(Sayings(I))
  BY <1>4
<1> QED
  BY <1>8, <1>10, <1>11, <1>12 DEF PrepareSound, I

(* A conservative repair saves candidates and loses none.                    *)
LEMMA SiftedSaves ==
  ASSUME NEW page, NEW r, Shaped(r)
  PROVE  LET plain == Sifted(page, r, FALSE)
             saved == Sifted(page, r, TRUE)
         IN  /\ IdsOf(plain.episodes) \subseteq IdsOf(saved.episodes)
             /\ IdsOf(plain.claims) \subseteq
                   IdsOf(saved.claims) \cup {t.id : t \in {t \in ToSet(saved.said) : t.code = "taken_over"}}
<1> DEFINE E == SiftedEntities(page, r)
           N0 == SiftedNaming(E, page, r, FALSE)
           N1 == SiftedNaming(E, page, r, TRUE)
           S0 == Sifted(page, r, FALSE)
           S1 == Sifted(page, r, TRUE)
           I == AllIds(r)
<1>1. ASSUME NEW conservative, NEW B, B = SiftedNaming(E, page, r, conservative), NEW S, S = Sifted(page, r, conservative)
      PROVE  KeptAll(E, page, r, B) /\ Spoken(E, B, I) /\ S = SiftedTogether(page, E, B)
  BY <1>1, SiftedIs
<1>2. /\ KeptAll(E, page, r, N0) /\ Spoken(E, N0, I) /\ S0 = SiftedTogether(page, E, N0)
      /\ KeptAll(E, page, r, N1) /\ Spoken(E, N1, I) /\ S1 = SiftedTogether(page, E, N1)
  BY <1>1, Zenon
<1>3. IdsOf(N0.episodes.kept) \subseteq IdsOf(N1.episodes.kept) /\ IdsOf(N0.claims.kept) \subseteq IdsOf(N1.claims.kept)
  BY NamingSaves, Zenon
<1> HIDE DEF E, N0, N1, S0, S1, I
<1>4. ASSUME NEW B, NEW S, KeptAll(E, page, r, B), Spoken(E, B, I), S = SiftedTogether(page, E, B)
      PROVE  /\ S.episodes = B.episodes.kept /\ IdsOf(S.claims) = {c.id : c \in ToSet(B.claims.kept) \ TakenOverOf(page, E, B)}
             /\ \A c \in TakenOverOf(page, E, B) : \E t \in ToSet(S.said) : t.code = "taken_over" /\ t.id = c.id
  <2>1. /\ S.episodes = B.episodes.kept
        /\ ToSet(S.claims) = {KeptClaim(IdsOf(B.episodes.kept), c) : c \in ToSet(B.claims.kept) \ TakenOverOf(page, E, B)}
        /\ \A c \in TakenOverOf(page, E, B) : \E t \in ToSet(S.said) : t.code = "taken_over" /\ t.id = c.id
    <3>1. Together(S, E, page, B, I)
      BY <1>4, TogetherIs
    <3> QED
      BY <3>1 DEF Together
  <2>3. \A c \in ToSet(B.claims.kept) : KeptClaim(IdsOf(B.episodes.kept), c).id = c.id
    <3>1. \A c \in ToSet(B.claims.kept) : ClaimFields \subseteq DOMAIN c
      BY <1>4 DEF KeptAll, KeptThen
    <3> QED
      BY <3>1 DEF KeptClaim, ClaimFields
  <2>4. IdsOf(S.claims) = {d.id : d \in ToSet(S.claims)}
    BY DEF IdsOf, ToSet
  <2> QED
    BY <2>1, <2>3, <2>4
<1>5. IdsOf(S0.episodes) \subseteq IdsOf(S1.episodes)
  BY <1>2, <1>3, <1>4
<1>6. ASSUME NEW id \in IdsOf(S0.claims)
      PROVE  id \in IdsOf(S1.claims) \cup {t.id : t \in {t \in ToSet(S1.said) : t.code = "taken_over"}}
  <2>1. IdsOf(N0.claims.kept) = {c.id : c \in ToSet(N0.claims.kept)} /\ IdsOf(N1.claims.kept) = {c.id : c \in ToSet(N1.claims.kept)}
    BY DEF IdsOf, ToSet
  <2>2. id \in IdsOf(N1.claims.kept)
    <3>1. IdsOf(S0.claims) = {c.id : c \in ToSet(N0.claims.kept) \ TakenOverOf(page, E, N0)}
      BY <1>2, <1>4
    <3>2. id \in IdsOf(N0.claims.kept)
      BY <1>6, <2>1, <3>1
    <3> QED
      BY <1>3, <3>2
  <2>3. PICK c \in ToSet(N1.claims.kept) : c.id = id
    BY <2>1, <2>2
  <2>4. CASE c \in TakenOverOf(page, E, N1)
    <3>1. PICK t \in ToSet(S1.said) : t.code = "taken_over" /\ t.id = c.id
      BY <1>2, <1>4, <2>4
    <3> QED
      BY <2>3, <3>1
  <2>5. CASE c \notin TakenOverOf(page, E, N1)
    <3>1. IdsOf(S1.claims) = {d.id : d \in ToSet(N1.claims.kept) \ TakenOverOf(page, E, N1)}
      BY <1>2, <1>4
    <3> QED
      BY <2>3, <2>5, <3>1
  <2> QED
    BY <2>4, <2>5
<1> QED
  BY <1>5, <1>6 DEF S0, S1

LEMMA SiftedDone ==
  ASSUME NEW page, NEW r, NEW conservative
  PROVE  Sifted(page, r, conservative).done = TRUE
BY DEF Sifted, SiftedFrom, SiftedTogether

(* What capture commits and records.                                         *)
RecordedAs(R, S, page, reply, L, there, revoked, said, seen, accepted) ==
    /\ there = {i \in ToSet(S.items) : ~Revoked(page, i)}
    /\ revoked = Those(S.items, ToSet(S.items) \ there)
    /\ L = Through([kind |-> "ledger", page |-> page, items |-> S.items, there |-> {i.id : i \in there}],
                   [kept |-> {}, counted |-> page.counted, said |-> << >>], S.operations)
    /\ said = S.said \o [i \in DOMAIN revoked |-> rejection("item", revoked[i].id, "voided")] \o L.said
    /\ seen = Through([kind |-> "observed"],
                      [episodes |-> [i \in DOMAIN S.episodes |-> [id |-> S.episodes[i].id, sources |-> S.episodes[i].sources]],
                       of |-> {}], S.claims).of
    /\ \A i \in there : <<"item", i.id>> \in accepted
    /\ R.done = TRUE /\ R.accepted = accepted /\ R.said = said
    /\ R.observed \subseteq seen /\ \A w \in R.observed : w.episode \in R.episodes
    /\ R.operations = {o \in ToSet(S.operations) : o.id \in L.kept}
RowsOf(R, S, reply, said, accepted) ==
    LET rows == Rows(reply.attempts, KeptKeys(S), said)
    IN  R.rows = Written(rows, accepted, reply, said)

LEMMA RecordedIs ==
  ASSUME NEW page, NEW reply, NEW S, NEW R, R = Recorded(page, reply, S)
  PROVE  \E L, there, revoked, said, seen, accepted :
            RecordedAs(R, S, page, reply, L, there, revoked, said, seen, accepted) /\ RowsOf(R, S, reply, said, accepted)
<1> DEFINE there == {i \in ToSet(S.items) : ~Revoked(page, i)}
           revoked == Those(S.items, ToSet(S.items) \ there)
           L == Through([kind |-> "ledger", page |-> page, items |-> S.items, there |-> {i.id : i \in there}],
                        [kept |-> {}, counted |-> page.counted, said |-> << >>], S.operations)
           said == S.said \o [i \in DOMAIN revoked |-> rejection("item", revoked[i].id, "voided")] \o L.said
           episodes == [i \in DOMAIN S.episodes |-> [id |-> S.episodes[i].id, sources |-> S.episodes[i].sources]]
           seen == Through([kind |-> "observed"], [episodes |-> episodes, of |-> {}], S.claims).of
           accepted == Keys("actor", S.persons) \cup Keys("location", S.sites) \cup {<<"item", i.id>> : i \in there}
                       \cup Keys("episode", S.episodes) \cup Keys("claim", S.claims)
                       \cup {<<"inventory", o>> : o \in L.kept}
           shown == {w \in seen : w.claim.id \notin page.stored}
           rows == Rows(reply.attempts, KeptKeys(S), said)
           heard == {[key |-> r[1], status |-> Status(rows, r, accepted, reply, said)] : r \in rows}
<1>1. R = [done |-> TRUE, accepted |-> accepted, said |-> said, observed |-> shown,
           episodes |-> IdsOf(S.episodes) \cup {w.episode : w \in shown},
           operations |-> {o \in ToSet(S.operations) : o.id \in L.kept}, rows |-> heard]
  BY DEF Recorded
<1>2. \A i \in there : <<"item", i.id>> \in accepted
  <2> HIDE DEF there, L
  <2> QED
    OBVIOUS
<1>3. heard = Written(rows, accepted, reply, said)
  <2> HIDE DEF rows, accepted, said
  <2> QED
    BY DEF RecordOf, Written
<1>4. /\ R.done = TRUE /\ R.accepted = accepted /\ R.said = said /\ R.observed = shown /\ R.rows = heard
      /\ R.episodes = IdsOf(S.episodes) \cup {w.episode : w \in shown}
      /\ R.operations = {o \in ToSet(S.operations) : o.id \in L.kept}
  <2> HIDE DEF accepted, said, shown, heard, L
  <2> QED
    BY <1>1
<1>5. shown \subseteq seen
  OBVIOUS
<1> HIDE DEF shown
<1>6. RecordedAs(R, S, page, reply, L, there, revoked, said, seen, accepted)
  <2>1. \A w \in R.observed : w.episode \in R.episodes
    BY <1>4
  <2>2. R.observed \subseteq seen
    BY <1>4, <1>5
  <2>3. /\ there = {i \in ToSet(S.items) : ~Revoked(page, i)}
        /\ revoked = Those(S.items, ToSet(S.items) \ there)
        /\ L = Through([kind |-> "ledger", page |-> page, items |-> S.items, there |-> {i.id : i \in there}],
                       [kept |-> {}, counted |-> page.counted, said |-> << >>], S.operations)
        /\ said = S.said \o [i \in DOMAIN revoked |-> rejection("item", revoked[i].id, "voided")] \o L.said
        /\ seen = Through([kind |-> "observed"],
                      [episodes |-> [i \in DOMAIN S.episodes |-> [id |-> S.episodes[i].id, sources |-> S.episodes[i].sources]],
                       of |-> {}], S.claims).of
    OBVIOUS
  <2> HIDE DEF there, revoked, L, said, seen, accepted
  <2> QED
    BY <1>2, <1>4, <2>1, <2>2, <2>3 DEF RecordedAs
<1>7. RowsOf(R, S, reply, said, accepted)
  <2> HIDE DEF said, accepted, heard
  <2> QED
    BY <1>3, <1>4 DEF RowsOf
<1> QED
  BY <1>6, <1>7

CaptureSound(R, S, page, reply) ==
    /\ R.done = TRUE /\ R.operations \subseteq ToSet(S.operations)
    /\ \A w \in R.observed : w.claim \in ToSet(S.claims) /\ w.episode \in R.episodes
    /\ \A o \in R.operations : <<"item", o.item>> \in R.accepted \/ o.item \in KnownItems(page)
    /\ \A o \in ToSet(S.operations) : \/ o \in R.operations \/ o.id \in page.stored
                                      \/ \E t \in ToSet(R.said) : t.kind = "inventory" /\ t.id = o.id
    /\ \A k \in Told(reply.attempts, KeptKeys(S), R.said) : ToldOnce(R.rows, R.accepted, k)
LEMMA RecordedSound ==
  ASSUME NEW page, NEW reply, Listed(reply.attempts), NEW S, NEW I,
         Listed(S.items), Listed(S.claims), Listed(S.operations), Distinct(S.operations), S.said \in Seq(Sayings(I)),
         NEW R, R = Recorded(page, reply, S)
  PROVE  CaptureSound(R, S, page, reply)
<1>1. PICK L, there, revoked, said, seen, accepted :
          RecordedAs(R, S, page, reply, L, there, revoked, said, seen, accepted) /\ RowsOf(R, S, reply, said, accepted)
  BY RecordedIs
<1>2. /\ R.done = TRUE /\ R.operations \subseteq ToSet(S.operations) /\ R.accepted = accepted /\ R.said = said
      /\ \A w \in R.observed : w.episode \in R.episodes
      /\ \A i \in there : <<"item", i.id>> \in accepted
      /\ R.operations = {o \in ToSet(S.operations) : o.id \in L.kept}
  BY <1>1 DEF RecordedAs
<1>3. \A w \in R.observed : w.claim \in ToSet(S.claims)
  <2> DEFINE with == [kind |-> "observed"]
             episodes == [i \in DOMAIN S.episodes |-> [id |-> S.episodes[i].id, sources |-> S.episodes[i].sources]]
  <2>1. with.kind = "observed"
    OBVIOUS
  <2>2. R.observed \subseteq Through(with, [episodes |-> episodes, of |-> {}], S.claims).of
    BY <1>1 DEF RecordedAs
  <2> HIDE DEF with, episodes
  <2>3. \A w \in Through(with, [episodes |-> episodes, of |-> {}], S.claims).of : w.claim \in ToSet(S.claims)
    BY <2>1, ObservedAre
  <2> QED
    BY <2>2, <2>3
<1>4. /\ L.said \in Seq(Sayings(IdsOf(S.operations)))
      /\ \A id \in L.kept : \E i \in DOMAIN S.operations :
            S.operations[i].id = id /\ S.operations[i].item \in KnownItems(page) \cup {h.id : h \in there}
      /\ \A i \in DOMAIN S.operations : \/ S.operations[i].id \in L.kept \cup page.stored
                                        \/ \E t \in ToSet(L.said) : t.kind = "inventory" /\ t.id = S.operations[i].id
  <2> DEFINE with == [kind |-> "ledger", page |-> page, items |-> S.items, there |-> {i.id : i \in there}]
  <2>1. with.kind = "ledger" /\ with.page = page /\ with.there = {i.id : i \in there}
    OBVIOUS
  <2>2. L = Through(with, [kept |-> {}, counted |-> page.counted, said |-> << >>], S.operations)
    BY <1>1 DEF RecordedAs
  <2> HIDE DEF with
  <2>3. Counting(with, S.operations, Len(S.operations), L)
    BY <2>1, <2>2, LedgerIs
  <2>4. DOMAIN S.operations = 1..Len(S.operations)
    BY DEF Listed
  <2> QED
    BY <2>1, <2>3, <2>4 DEF Counting
<1>5. ASSUME NEW o \in R.operations
      PROVE  <<"item", o.item>> \in R.accepted \/ o.item \in KnownItems(page)
  <2>1. PICK j \in DOMAIN S.operations : o = S.operations[j]
    BY <1>2 DEF ToSet
  <2>2. PICK i \in DOMAIN S.operations :
            S.operations[i].id = o.id /\ S.operations[i].item \in KnownItems(page) \cup {h.id : h \in there}
    BY <1>2, <1>4
  <2>3. i = j
    BY <2>1, <2>2 DEF Distinct
  <2>4. o.item \in KnownItems(page) \cup {h.id : h \in there}
    BY <2>1, <2>2, <2>3
  <2> QED
    BY <1>2, <2>4
<1>6. Listed(said) /\ ToSet(L.said) \subseteq ToSet(said)
  <2> DEFINE gone == [i \in DOMAIN revoked |-> rejection("item", revoked[i].id, "voided")]
  <2>1. said = S.said \o gone \o L.said
    BY <1>1 DEF RecordedAs
  <2>2. Listed(gone)
    <3>1. revoked \in Seq(ToSet(S.items))
      <4>1. S.items \in Seq(ToSet(S.items)) /\ revoked = Those(S.items, ToSet(S.items) \ there)
        BY <1>1 DEF RecordedAs, Listed
      <4> QED
        BY <4>1, ThoseIs
    <3>2. Len(revoked) \in Nat /\ DOMAIN revoked = 1..Len(revoked)
      BY <3>1
    <3>3. gone \in [1..Len(revoked) -> ToSet(gone)]
      BY <3>2 DEF ToSet
    <3> HIDE DEF gone
    <3> QED
      BY <3>2, <3>3 DEF Listed
  <2>3. Listed(S.said) /\ Listed(L.said)
    BY <1>4, ListedIs
  <2> HIDE DEF gone
  <2>4. Listed(S.said \o gone)
    BY <2>2, <2>3, ConcatListed
  <2>5. Listed(S.said \o gone \o L.said) /\ ToSet(S.said \o gone \o L.said) = ToSet(S.said \o gone) \cup ToSet(L.said)
    BY <2>3, <2>4, ConcatListed
  <2> QED
    BY <2>1, <2>5
<1>7. ASSUME NEW o \in ToSet(S.operations)
      PROVE  \/ o \in R.operations \/ o.id \in page.stored
             \/ \E t \in ToSet(R.said) : t.kind = "inventory" /\ t.id = o.id
  <2>1. PICK j \in DOMAIN S.operations : o = S.operations[j]
    BY <1>7 DEF ToSet
  <2> QED
    BY <1>2, <1>4, <1>6, <2>1
<1>8. ASSUME NEW k \in Told(reply.attempts, KeptKeys(S), R.said)
      PROVE  ToldOnce(R.rows, R.accepted, k)
  <2> DEFINE rows == Rows(reply.attempts, KeptKeys(S), said)
  <2>1. R.rows = Written(rows, accepted, reply, said)
    BY <1>1 DEF RowsOf
  <2>2. k \in Told(reply.attempts, KeptKeys(S), said)
    BY <1>2
  <2>3. rows = Rows(reply.attempts, KeptKeys(S), said) /\ Listed(reply.attempts) /\ Listed(said)
    BY <1>6
  <2> HIDE DEF rows
  <2>4. ToldOnce(R.rows, accepted, k)
    BY <2>1, <2>2, <2>3, TellsOnce
  <2> QED
    BY <1>2, <2>4
<1> QED
  BY <1>2, <1>3, <1>5, <1>7, <1>8 DEF CaptureSound
-----------------------------------------------------------------------------
(* What has been returned and recorded is what the sources and the answer    *)
(* make it.                                                                  *)
ValidationInv ==
    /\ asked \in Questions
    /\ sifted = NotYet \/ sifted = Sifted(asked.page, Answered(asked.page, asked.reply), asked.conservative)
    /\ records = NotYet \/ (sifted # NotYet /\ records = Recorded(asked.page, asked.reply, sifted))

LEMMA ValidationInvSound ==
  ASSUME ValidationInv
  PROVE  ValidationSound
<1> DEFINE page == asked.page
           answer == Answered(asked.page, asked.reply)
           I == AllIds(answer)
<1>1. asked.reply \in AnAnswer
  BY QuestionShape DEF ValidationInv
<1>2. Shaped(answer)
  BY <1>1, AnsweredShaped
<1>3. Listed(asked.reply.attempts)
  <2>1. asked.reply.attempts \in Seq(SUBSET (STRING \X STRING))
    BY <1>1 DEF AnAnswer
  <2> QED
    BY <2>1, ListedIs
<1>4. NotYet.done = FALSE
  BY DEF NotYet
<1> HIDE DEF answer, I
<1>5. sifted.done => /\ Names(sifted) /\ Justified(sifted, page, answer)
                     /\ Listed(sifted.items) /\ Listed(sifted.claims) /\ Listed(sifted.operations)
                     /\ Distinct(sifted.operations) /\ sifted.said \in Seq(Sayings(I))
  <2>1. SUFFICES ASSUME sifted.done
                 PROVE  /\ Names(sifted) /\ Justified(sifted, page, answer)
                        /\ Listed(sifted.items) /\ Listed(sifted.claims) /\ Listed(sifted.operations)
                        /\ Distinct(sifted.operations) /\ sifted.said \in Seq(Sayings(I))
    OBVIOUS
  <2>2. sifted = Sifted(page, answer, asked.conservative)
    BY <1>4, <2>1 DEF ValidationInv, answer
  <2>3. PrepareSound(sifted, page, answer)
    BY <1>2, <2>2, SiftedSound
  <2> QED
    BY <2>3 DEF PrepareSound, I
<1>6. sifted.done => \A i \in DOMAIN sifted.said : sifted.said[i].code \in Codes
  <2>1. \A t \in Sayings(I) : t.code \in Codes
    BY DEF Sayings
  <2> QED
    BY <1>5, <2>1
<1>7. ConservativeKeeps
  BY <1>2, SiftedSaves DEF ConservativeKeeps, answer
<1>8. ASSUME records.done
      PROVE  /\ sifted.done /\ records.operations \subseteq ToSet(sifted.operations)
             /\ \A w \in records.observed : w.claim \in ToSet(sifted.claims) /\ w.episode \in records.episodes
             /\ \A o \in records.operations : <<"item", o.item>> \in records.accepted \/ o.item \in KnownItems(page)
             /\ \A o \in ToSet(sifted.operations) : \/ o \in records.operations \/ o.id \in page.stored
                                                      \/ \E t \in ToSet(records.said) : t.kind = "inventory" /\ t.id = o.id
             /\ \A k \in Told(asked.reply.attempts, KeptKeys(sifted), records.said) : ToldOnce(records.rows, records.accepted, k)
  <2>1. sifted # NotYet /\ records = Recorded(page, asked.reply, sifted)
    BY <1>4, <1>8 DEF ValidationInv
  <2>2. sifted.done
    <3>1. sifted = Sifted(page, answer, asked.conservative)
      BY <2>1 DEF ValidationInv, answer
    <3>2. PrepareSound(sifted, page, answer)
      BY <1>2, <3>1, SiftedSound
    <3> QED
      BY <3>2 DEF PrepareSound
  <2>3. CaptureSound(records, sifted, page, asked.reply)
    BY <1>3, <1>5, <2>1, <2>2, RecordedSound
  <2> QED
    BY <2>2, <2>3 DEF CaptureSound
<1>9. ValidationTypeOK
  BY <1>6, <1>8 DEF ValidationTypeOK
<1>10. ReferencesClosed
  <2>1. SUFFICES ASSUME records.done
                 PROVE  ReferencesClosed
    BY DEF ReferencesClosed
  <2>2. Names(sifted)
    BY <1>5, <1>8, <2>1
  <2> QED
    BY <1>8, <2>1, <2>2 DEF ReferencesClosed, Names
<1>11. QuantityAnswered
  <2>1. ASSUME records.done, NEW i \in DOMAIN sifted.said, sifted.said[i].code = "taken_over"
        PROVE  \E o \in ToSet(sifted.operations) :
                   /\ \/ o \in records.operations \/ o.id \in page.stored
                      \/ \E t \in ToSet(records.said) : t.kind = "inventory" /\ t.id = o.id
                   /\ \E c \in ToSet(answer.claims) :
                         c.id = sifted.said[i].id /\ c.source = o.source /\ c.text = ItemNamed(page, sifted.items, o.item)
    <3>1. PICK o \in ToSet(sifted.operations) : \E c \in ToSet(answer.claims) :
              c.id = sifted.said[i].id /\ c.source = o.source /\ c.text = ItemNamed(page, sifted.items, o.item)
      BY <1>5, <1>8, <2>1 DEF Justified
    <3>2. \/ o \in records.operations \/ o.id \in page.stored
          \/ \E t \in ToSet(records.said) : t.kind = "inventory" /\ t.id = o.id
      BY <1>8, <2>1
    <3> QED
      BY <3>1, <3>2
  <2> QED
    BY <2>1 DEF QuantityAnswered, answer
<1>12. RecordsTellOnce
  <2>1. SUFFICES ASSUME records.done
                 PROVE  RecordsTellOnce
    BY DEF RecordsTellOnce
  <2> QED
    BY <1>8, <2>1 DEF RecordsTellOnce, Told, ToldOnce
<1> QED
  BY <1>7, <1>9, <1>10, <1>11, <1>12 DEF ValidationSound

(* Whatever the sources hold and whatever the extraction answers, prepare and *)
(* capture (multi-actor-capture-service.ts) commit nothing that refers to     *)
(* what is neither known nor committed with it, a conservative repair loses   *)
(* no candidate that the plain checks keep, no quantity is dropped without an *)
(* operation that answers for it, and the candidate records say of every      *)
(* candidate exactly once what became of it.                                  *)
THEOREM ValidationStaysSound == ValidationSpec => []ValidationSound
<1>1. ValidationInit => ValidationInv
  BY DEF ValidationInit, ValidationInv
<1>2. ValidationInv /\ [ValidationNext]_validationVars => ValidationInv'
  <2>1. SUFFICES ASSUME ValidationInv, [ValidationNext]_validationVars
                 PROVE  ValidationInv'
    OBVIOUS
  <2>2. CASE Prepare
    <3>1. records = NotYet
      <4>1. ~sifted.done /\ (sifted # NotYet => sifted.done)
        <5>1. sifted # NotYet => sifted.done
          BY <2>1, SiftedDone DEF ValidationInv
        <5> QED
          BY <2>2, <5>1 DEF Prepare
      <4> QED
        BY <2>1, <4>1 DEF ValidationInv
    <3> QED
      BY <2>1, <2>2, <3>1 DEF ValidationInv, Prepare
  <2>3. CASE Capture
    <3>1. sifted # NotYet
      BY <2>3 DEF Capture, NotYet
    <3> QED
      BY <2>1, <2>3, <3>1 DEF ValidationInv, Capture
  <2>4. CASE UNCHANGED validationVars
    BY <2>1, <2>4 DEF ValidationInv, validationVars
  <2> QED
    BY <2>1, <2>2, <2>3, <2>4 DEF ValidationNext
<1>3. ValidationInv => ValidationSound
  BY ValidationInvSound
<1> QED
  BY <1>1, <1>2, <1>3, PTL DEF ValidationSpec
=============================================================================
