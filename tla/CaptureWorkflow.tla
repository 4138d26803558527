---------------------------- MODULE CaptureWorkflow ----------------------------
(***************************************************************************)
(* MemoryApplication.runMultiActorCaptureWorkflow: a capture job scans a    *)
(* window of the chat batch by batch, each batch one model call and one     *)
(* change set committed together with the job's checkpoint; then the job    *)
(* is finalized, marked completed, and the summary progress moves past the  *)
(* window.  Between any two awaits the user may cancel, switch chats, stop  *)
(* the plugin or undo a change set, the model may fail, the page may be     *)
(* reloaded.                                                                *)
(*                                                                         *)
(* Repository calls are atomic here (ChangeSets has their interleavings).   *)
(* Of the records a change set holds only the job row is modelled: it is    *)
(* the one this workflow itself writes again.  Incremental jobs, without    *)
(* the repair phase.                                                        *)
(***************************************************************************)
EXTENDS Naturals

CONSTANTS
    N,               \* batches of a window
    MaxWindows,      \* bound: windows the chat grows to
    MaxJobs,         \* bound: jobs created
    MaxUpsets,       \* bound: failures, cancels, switches, stops, reloads, undos
    Settings,        \* what the user and the storage may do: see setting
    NoSet            \* no change set

ASSUME Sizes ==
    /\ N \in Nat \ {0}
    /\ MaxWindows \in Nat
    /\ MaxJobs \in Nat
    /\ MaxUpsets \in Nat
    /\ Settings \subseteq [undoes : BOOLEAN, returnsAtOnce : BOOLEAN, rollbackFails : BOOLEAN]

Jobs == 1..MaxJobs
Windows == 1..MaxWindows
Batches == 1..N
\* A batch has a change set, and another one when a failed stage of it is rerun.
SetIds == Jobs \X Batches \X {"batch", "stage"}

ASSUME NoSetIsNone == NoSet \notin SetIds

VARIABLES
    jobs,      \* capture-jobs rows: status, checkpoint, the change set that wrote it
    sets,      \* change sets
    progress,  \* summaryProgressByChat: windows that count as summarized
    floors,    \* complete windows the chat has
    run,       \* the workflow in flight
    away,      \* another chat is selected
    stopped,   \* the application is stopped
    upsets,    \* bound on disturbances so far
    setting    \* fixed: does the user roll change sets back, may the user be
               \* back before the other chat is bound, and may a rollback report
               \* a failure of its own accord?

vars == <<jobs, sets, progress, floors, run, away, stopped, upsets>>

Checkpoint == [batch : 0..N, stage : BOOLEAN]
Start == [batch |-> 0, stage |-> FALSE]

JobRow == [status : {"none", "running", "paused", "failed", "completed"},
           at : Checkpoint, by : SetIds \cup {NoSet}]
NoJob == [status |-> "none", at |-> Start, by |-> NoSet]

\* partial: one of the two extraction stages of the batch failed.
ChangeSet == [status : {"none", "live", "rolledBack"},
              win : 0..MaxWindows, partial : BOOLEAN, before : JobRow]
NoChangeSet == [status |-> "none", win |-> 0, partial |-> FALSE, before |-> NoJob]

Run == [pc : {"off", "begin", "check", "extract", "commit", "committed",
              "discard", "finalize", "derive", "unwind", "settle", "progress",
              "caughtStale", "caughtRollback", "caughtError"},
        job : 0..MaxJobs, win : 0..MaxWindows, next : 0..(N + 1),
        at : Checkpoint, base : Checkpoint, results : SUBSET SetIds,
        bumped : BOOLEAN, aborted : BOOLEAN]
Off == [pc |-> "off", job |-> 0, win |-> 0, next |-> 0, at |-> Start, base |-> Start,
        results |-> {}, bumped |-> FALSE, aborted |-> FALSE]

Init ==
    /\ jobs = [j \in Jobs |-> NoJob]
    /\ sets = [id \in SetIds |-> NoChangeSet]
    /\ progress = 0
    /\ floors = 0
    /\ run = Off
    /\ away = FALSE
    /\ stopped = FALSE
    /\ upsets = 0

Outer == <<progress, floors, away, stopped, upsets>>

-----------------------------------------------------------------------------
\* assertCaptureCurrent, and the same test in executeActorCapture.
Stale == stopped \/ run.bumped \/ away

Goto(pc) == run' = [run EXCEPT !.pc = pc]

\* upsertCaptureJob: every write of the row carries a fresh updatedAt, so the row
\* is no longer what any change set recorded.
Persist(status, at) ==
    jobs' = [jobs EXCEPT ![run.job] = [status |-> status, at |-> at, by |-> NoSet]]

\* The change set the batch in hand commits under its idempotency key.
SetInHand == <<run.job, run.next, IF run.at.stage THEN "stage" ELSE "batch">>

\* rollbackChangeSet: refused unless the job row is still what the set wrote.
Undoable(id) == sets[id].status = "live" /\ jobs[id[1]].by = id
Restored(row) ==
    [row EXCEPT !.status = IF @ \in {"running", "completed"} THEN "paused" ELSE @,
                !.by = NoSet]
UndoSet(id) ==
    /\ jobs' = [jobs EXCEPT ![id[1]] = Restored(sets[id].before)]
    /\ sets' = [sets EXCEPT ![id].status = "rolledBack"]
KeepSets == UNCHANGED <<jobs, sets>>

UndoIfLive(id) ==
    \/ Undoable(id) /\ UndoSet(id)
    \/ sets[id].status # "live" /\ KeepSets
RollbackFails(id) ==
    \/ sets[id].status = "live" /\ ~Undoable(id) /\ KeepSets
    \/ setting.rollbackFails /\ (KeepSets \/ (Undoable(id) /\ UndoSet(id)))

-----------------------------------------------------------------------------
(* retry() after every generation, resumePausedWork() at the start.         *)

Resumable(j) == jobs[j].status \in {"paused", "failed"}

BeginRun(j, at) ==
    run' = [Off EXCEPT !.pc = "begin", !.job = j, !.win = progress + 1,
                       !.next = at.batch + 1, !.at = at, !.base = at]

\* Mutant: the last complete window waits for the next one.
CanBeginLate == run.pc = "off" /\ ~stopped /\ ~away /\ progress + 1 < floors

CanBegin == run.pc = "off" /\ ~stopped /\ ~away /\ progress < floors

Resume(j) ==
    /\ CanBegin
    /\ Resumable(j)
    /\ BeginRun(j, jobs[j].at)
    /\ KeepSets /\ UNCHANGED Outer

\* Without a job to resume a new incremental job takes the next window.
NewJob(j) ==
    /\ CanBegin
    /\ jobs[j].status = "none"
    /\ \A i \in Jobs : i < j => jobs[i].status # "none"
    /\ ~\E i \in Jobs : Resumable(i)
    /\ BeginRun(j, Start)
    /\ KeepSets /\ UNCHANGED Outer

\* No batch left of a resumed job: it is completed, the progress stays.
CompleteResumed ==
    /\ run.pc = "begin"
    /\ run.next > N
    /\ Persist("completed", run.at)
    /\ run' = Off
    /\ UNCHANGED sets /\ UNCHANGED Outer

BeginBatches ==
    /\ run.pc = "begin"
    /\ run.next <= N
    /\ Persist("running", run.at)
    /\ Goto("check")
    /\ UNCHANGED sets /\ UNCHANGED Outer

-----------------------------------------------------------------------------
(* One batch.                                                               *)

\* Mutant: an outdated run waits for its scope.
CheckBatchWaits ==
    /\ run.pc = "check"
    /\ ~Stale
    /\ run' = [run EXCEPT !.pc = "extract", !.aborted = FALSE]
    /\ KeepSets /\ UNCHANGED Outer

CheckBatch ==
    /\ run.pc = "check"
    /\ run' = IF Stale THEN [run EXCEPT !.pc = "caughtStale"]
                       ELSE [run EXCEPT !.pc = "extract", !.aborted = FALSE]
    /\ KeepSets /\ UNCHANGED Outer

Caught == IF Stale THEN "caughtStale" ELSE "caughtError"

\* The model has answered; the last look at the abort signal before the commit.
Extracted ==
    /\ run.pc = "extract"
    /\ Goto(IF run.aborted THEN Caught ELSE "commit")
    /\ KeepSets /\ UNCHANGED Outer

ExtractFails ==
    /\ run.pc = "extract"
    /\ upsets < MaxUpsets
    /\ upsets' = upsets + 1
    /\ Goto(Caught)
    /\ KeepSets /\ UNCHANGED <<progress, floors, away, stopped>>

\* commitCapture: change set and job row together.  A failed stage is committed
\* with the old checkpoint and the stage to retry.
Commit(partial) ==
    /\ run.pc = "commit"
    /\ sets[SetInHand].status # "live"
    /\ partial => ~run.at.stage
    /\ sets' = [sets EXCEPT ![SetInHand] =
                  [status |-> "live", win |-> run.win, partial |-> partial,
                   before |-> jobs[run.job]]]
    /\ jobs' = [jobs EXCEPT ![run.job] =
                  IF partial
                  THEN [status |-> "paused", at |-> [run.at EXCEPT !.stage = TRUE], by |-> SetInHand]
                  ELSE [status |-> "running", at |-> [batch |-> run.next, stage |-> FALSE],
                        by |-> SetInHand]]
    /\ Goto("committed")
    /\ UNCHANGED Outer

\* The key is taken by a live change set: the same extraction is returned as it
\* is, another one (or one of another window) is a conflict.
CommitReplays(same) ==
    /\ run.pc = "commit"
    /\ sets[SetInHand].status = "live"
    /\ same => sets[SetInHand].win = run.win
    /\ Goto(IF same THEN "committed" ELSE Caught)
    /\ KeepSets /\ UNCHANGED Outer

\* executeActorCapture came back to a scope that is gone ...
LeaveScope ==
    /\ run.pc = "committed"
    /\ Stale
    /\ Goto("discard")
    /\ KeepSets /\ UNCHANGED Outer

\* ... and undoes what it committed.  A rollback may report a failure before or
\* (deleting the vectors of the facts) after it was applied.
DiscardCommit ==
    /\ run.pc = "discard"
    /\ \/ UndoIfLive(SetInHand) /\ Goto(Caught)
       \/ RollbackFails(SetInHand) /\ Goto(IF Stale THEN "caughtRollback" ELSE "caughtError")
    /\ UNCHANGED Outer

\* Mutant: a batch whose stage is to be retried counts as done.
KeepPartial ==
    /\ run.pc = "committed"
    /\ ~Stale
    /\ run' = [run EXCEPT !.results = @ \cup {SetInHand}, !.next = @ + 1,
                          !.at = [batch |-> run.next, stage |-> FALSE],
                          !.pc = IF run.next = N THEN "finalize" ELSE "check"]
    /\ KeepSets /\ UNCHANGED Outer

KeepCommit ==
    /\ run.pc = "committed"
    /\ ~Stale
    /\ LET id == SetInHand IN
       run' = IF sets[id].partial
              THEN [run EXCEPT !.results = @ \cup {id}, !.at.stage = TRUE, !.pc = "caughtError"]
              ELSE [run EXCEPT !.results = @ \cup {id}, !.next = @ + 1,
                               !.at = [batch |-> run.next, stage |-> FALSE],
                               !.pc = IF run.next = N THEN "finalize" ELSE "check"]
    /\ KeepSets /\ UNCHANGED Outer

-----------------------------------------------------------------------------
(* finalizeActorCaptureResults and the end of the job.                      *)

ReadForFinalize ==
    /\ run.pc = "finalize"
    /\ Goto(IF Stale THEN "caughtStale" ELSE "derive")
    /\ KeepSets /\ UNCHANGED Outer

\* Derived rows are written; a stale scope discards every change set of the run,
\* unless writing them had failed already.
Derive(failed) ==
    /\ run.pc = "derive"
    /\ Goto(IF Stale /\ ~failed THEN "unwind" ELSE "settle")
    /\ KeepSets /\ UNCHANGED Outer

Newest(ids) == CHOOSE id \in ids : \A other \in ids : other[2] <= id[2]

\* rollbackActorCaptureResults, newest first, going on past failures.  What it
\* throws is masked: the workflow only asks again whether its scope is stale.
Unwind ==
    /\ run.pc = "unwind"
    /\ run.results # {}
    /\ LET id == Newest(run.results) IN
         /\ UndoIfLive(id) \/ RollbackFails(id)
         /\ run' = [run EXCEPT !.results = @ \ {id}]
    /\ UNCHANGED Outer

Unwound ==
    /\ run.pc = "unwind"
    /\ run.results = {}
    /\ Goto("settle")
    /\ KeepSets /\ UNCHANGED Outer

Settle ==
    /\ run.pc = "settle"
    /\ IF Stale THEN Goto("caughtStale") /\ UNCHANGED jobs
                ELSE Goto("progress") /\ Persist("completed", run.at)
    /\ UNCHANGED sets /\ UNCHANGED Outer

\* bindCurrentChat and saveSummaryProgress, after the job row says completed.
SaveProgress ==
    /\ run.pc = "progress"
    /\ progress' = run.win
    /\ run' = Off
    /\ KeepSets /\ UNCHANGED <<floors, away, stopped, upsets>>

ProgressFails ==
    /\ run.pc = "progress"
    /\ upsets < MaxUpsets
    /\ upsets' = upsets + 1
    /\ Goto(Caught)
    /\ KeepSets /\ UNCHANGED <<progress, floors, away, stopped>>

-----------------------------------------------------------------------------
(* The catch of the workflow.                                               *)

PersistStale ==
    /\ run.pc = "caughtStale"
    /\ IF stopped THEN UNCHANGED jobs ELSE Persist("paused", run.at)
    /\ run' = Off
    /\ UNCHANGED sets /\ UNCHANGED Outer

\* The rollback failed: the job fails with the checkpoint the run started from.
PersistRollbackFailed ==
    /\ run.pc = "caughtRollback"
    /\ IF stopped \/ away THEN UNCHANGED jobs ELSE Persist("failed", run.base)
    /\ run' = Off
    /\ UNCHANGED sets /\ UNCHANGED Outer

\* Mutant: the run's first checkpoint is saved, not its last one.
PersistErrorAtBase(status) ==
    /\ run.pc = "caughtError"
    /\ run.at.stage => status = "paused"
    /\ Persist(status, run.base)
    /\ run' = Off
    /\ UNCHANGED sets /\ UNCHANGED Outer

\* A retryable failure pauses the job, any other one fails it.
PersistError(status) ==
    /\ run.pc = "caughtError"
    /\ run.at.stage => status = "paused"
    /\ Persist(status, run.at)
    /\ run' = Off
    /\ UNCHANGED sets /\ UNCHANGED Outer

-----------------------------------------------------------------------------
(* The user, the host and the page.                                         *)

Upset == upsets < MaxUpsets /\ upsets' = upsets + 1
Running == run.pc # "off"

Cancel ==
    /\ Running
    /\ Upset
    /\ run' = [run EXCEPT !.bumped = TRUE, !.aborted = TRUE]
    /\ KeepSets /\ UNCHANGED <<progress, floors, away, stopped>>

\* The other chat is selected and its storage scope bound ...
SwitchAway ==
    /\ ~away
    /\ Upset
    /\ away' = TRUE
    /\ run' = IF Running THEN [run EXCEPT !.aborted = TRUE] ELSE run
    /\ KeepSets /\ UNCHANGED <<progress, floors, stopped>>

\* ... its data is read, and only then is the running capture outdated for good.
Rebound ==
    /\ away
    /\ Running
    /\ ~run.bumped
    /\ run' = [run EXCEPT !.bumped = TRUE]
    /\ KeepSets /\ UNCHANGED Outer

\* Coming back before that leaves the running capture current.
SwitchBack ==
    /\ away
    /\ setting.returnsAtOnce \/ ~Running \/ run.bumped
    /\ away' = FALSE
    /\ KeepSets /\ UNCHANGED <<progress, floors, run, stopped, upsets>>

Stop ==
    /\ ~stopped
    /\ Upset
    /\ stopped' = TRUE
    /\ run' = IF Running THEN [run EXCEPT !.bumped = TRUE, !.aborted = TRUE] ELSE run
    /\ KeepSets /\ UNCHANGED <<progress, floors, away>>

StartAgain ==
    /\ stopped
    /\ stopped' = FALSE
    /\ KeepSets /\ UNCHANGED <<progress, floors, run, away, upsets>>

Reload ==
    /\ Running
    /\ Upset
    /\ run' = Off
    /\ stopped' = FALSE
    /\ KeepSets /\ UNCHANGED <<progress, floors, away>>

\* rollbackActorCapture, from the audit page.
UndoByUser(id) ==
    /\ setting.undoes
    /\ ~away /\ ~stopped
    /\ Upset
    /\ Undoable(id)
    /\ UndoSet(id)
    /\ UNCHANGED <<progress, floors, run, away, stopped>>

Grow ==
    /\ floors < MaxWindows
    /\ floors' = floors + 1
    /\ KeepSets /\ UNCHANGED <<progress, run, away, stopped, upsets>>

-----------------------------------------------------------------------------
Begin == \E j \in Jobs : Resume(j) \/ NewJob(j)

Work ==
    \/ CompleteResumed \/ BeginBatches \/ CheckBatch
    \/ Extracted
    \/ \E partial \in BOOLEAN : Commit(partial)
    \/ \E same \in BOOLEAN : CommitReplays(same)
    \/ LeaveScope \/ DiscardCommit \/ KeepCommit
    \/ \E failed \in BOOLEAN : Derive(failed)
    \/ ReadForFinalize \/ Unwind \/ Unwound \/ Settle \/ SaveProgress
    \/ PersistStale \/ PersistRollbackFailed
    \/ \E status \in {"paused", "failed"} : PersistError(status)

Environment ==
    \/ ExtractFails \/ ProgressFails \/ Cancel \/ SwitchAway \/ Rebound \/ SwitchBack
    \/ Stop \/ StartAgain \/ Reload \/ Grow
    \/ \E id \in SetIds : UndoByUser(id)

Next == Begin \/ Work \/ Environment

Spec == Init /\ setting \in Settings /\ [][Next /\ UNCHANGED setting]_<<vars, setting>>

\* Awaits return; a generation end calls retry() again and again; a stopped or
\* left chat is eventually opened again.
FairSpec ==
    /\ Spec
    /\ WF_vars(Work)
    /\ WF_vars(Begin)
    /\ WF_vars(Rebound)
    /\ WF_vars(SwitchBack)
    /\ WF_vars(StartAgain)

-----------------------------------------------------------------------------
(* Properties.                                                              *)

TypeOK ==
    /\ jobs \in [Jobs -> JobRow]
    /\ sets \in [SetIds -> ChangeSet]
    /\ progress \in 0..MaxWindows
    /\ floors \in 0..MaxWindows
    /\ run \in Run
    /\ away \in BOOLEAN
    /\ stopped \in BOOLEAN
    /\ upsets \in 0..MaxUpsets

Live(id) == sets[id].status = "live"
\* Job j holds everything that was extracted from its batch n.
Holds(j, n) ==
    /\ Live(<<j, n, "batch">>)
    /\ sets[<<j, n, "batch">>].partial => Live(<<j, n, "stage">>)

\* A batch that some live change set holds is never sent to the model again, not
\* after a reload, a resume or a rebind (docs/structured-capture.md:37).
NoRescan ==
    run.pc = "extract" =>
        \A j \in Jobs : Holds(j, run.next) => sets[<<j, run.next, "batch">>].win # run.win

\* The same for the batches of the job that is resumed, unless a rollback that
\* reports a failure leaves or takes the job row against the workflow's belief.
ResumeSkipsHeld ==
    (run.pc = "extract" /\ ~setting.rollbackFails) => ~Holds(run.job, run.next)

\* A job that goes on sends no batch twice that is still held.
ResumesAfterHeld == TypeOK /\ ResumeSkipsHeld

\* The summary progress moves past a window only when the job that moves it holds
\* every batch of it, unless the user undoes a change set meanwhile or is back
\* before the other chat is bound.
SummarizedIsHeld ==
    [][(progress' > progress /\ ~setting.undoes /\ ~setting.returnsAtOnce)
         => \A n \in Batches : Holds(run.job, n)]_vars

\* Every run ends, whatever is cancelled, switched or reloaded under it.
RunsEnd == Running ~> ~Running

\* A complete window is summarized in the end.
WindowsGetSummarized == <>[](progress = floors)
=============================================================================
