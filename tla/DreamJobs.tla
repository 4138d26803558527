------------------------------ MODULE DreamJobs ------------------------------
(***************************************************************************)
(* Dream jobs: per-owner background work over a chat's memory traces. A    *)
(* capture or the user queues a job; a timer per owner runs it once the    *)
(* host is quiet; it applies a change set under a lock and then records    *)
(* itself as applied. Jobs live in the coordinator's memory and as rows    *)
(* (dream-jobs) from which a reload or a return to the chat restores them. *)
(***************************************************************************)
EXTENDS Naturals, Sequences, FiniteSets

CONSTANTS Dreams, DreamOwners,
          DreamOwner,    \* whose traces a job works on
          DreamRuns,     \* calls of runActorDream
          MaxDreamFailures,      \* MAX_AUTOMATIC_DREAM_FAILURES
          MaxSets, MaxUserActs, MaxDreamFaults  \* bounds on change sets per job; on runs and undos by the user;
                                        \* on failures, switches and reloads

ASSUME OwnerOfDreams == DreamOwner \in [Dreams -> DreamOwners]
ASSUME DreamBounds == {MaxDreamFailures, MaxSets} \subseteq Nat \ {0}

VARIABLES dreams,       \* the coordinator's jobs, by status
          dreamRows,    \* dream-jobs; set is the change set the row belongs to
          timers,       \* automaticDreamTimers
          dreamRuns, applyLock, workspaceLock,
          sets,         \* the change sets each job applied, oldest first
          here,         \* whether the host shows this chat
          bound,        \* whether the binding has restored the chat's jobs
          generating, undo, dreamFaults,
          userActs,
          undoCut        \* history: an undo was cut short by a binding or a reload
dreamVars == <<dreams, dreamRows, timers, dreamRuns, applyLock, workspaceLock, sets, here, bound,
               generating, undo, dreamFaults, userActs, undoCut>>

DreamStatus == {"none", "queued", "running", "applied", "failed", "rolled-back"}
NoTimer == [job |-> "none"]
NoRun == [pc |-> "idle"]
NoRow == [status |-> "none", set |-> 0]

DreamTypeOK ==
    /\ dreams \in [Dreams -> DreamStatus]
    /\ dreamRows \in [Dreams -> [status : DreamStatus, set : 0..MaxSets]]
    /\ timers \in [DreamOwners -> {NoTimer} \cup [job : Dreams, attempt : 0..MaxDreamFailures - 1]]
    /\ \A r \in DreamRuns : dreamRuns[r].pc \in {"idle", "reading", "applying", "settling", "writing"}
    /\ undo.pc \in {"idle", "recording"}
    /\ {applyLock, workspaceLock, here, bound, generating} \subseteq BOOLEAN

Unfinished(status) == status \in {"queued", "running"}
rollbackActive == undo.pc # "idle"
NoTimers == [o \in DreamOwners |-> NoTimer]
Scheduled(d, n) == [timers EXCEPT ![DreamOwner[d]] = [job |-> d, attempt |-> n]]
(* Scheduling several jobs: a later one of the same owner replaces the    *)
(* timer of an earlier one.                                               *)
AllScheduled(jobs, before) ==
    {after \in [DreamOwners -> {NoTimer} \cup [job : Dreams, attempt : {0}] \cup {before[o] : o \in DreamOwners}] :
        \A o \in DreamOwners :
            LET own == {d \in jobs : DreamOwner[d] = o}
            IN  IF own = {} THEN after[o] = before[o] ELSE \E d \in own : after[o] = [job |-> d, attempt |-> 0]}

DreamInit ==
    /\ dreams = [d \in Dreams |-> "none"] /\ dreamRows = [d \in Dreams |-> NoRow]
    /\ timers = NoTimers /\ dreamRuns = [r \in DreamRuns |-> NoRun]
    /\ applyLock = FALSE /\ workspaceLock = FALSE /\ sets = [d \in Dreams |-> << >>]
    /\ here = TRUE /\ bound = TRUE /\ generating = FALSE
    /\ undo = NoRun /\ dreamFaults = 0 /\ userActs = 0 /\ undoCut = FALSE

DreamFault == dreamFaults < MaxDreamFaults /\ dreamFaults' = dreamFaults + 1

-----------------------------------------------------------------------------
(* What makes the host busy, and quiet again.                              *)
GenerationStarts ==
    /\ ~generating /\ generating' = TRUE /\ timers' = NoTimers
    /\ UNCHANGED <<dreams, dreamRows, dreamRuns, applyLock, workspaceLock, sets, here, bound, undo, dreamFaults, userActs, undoCut>>
\* Mutant: the end of a generation arms no timer.
GenerationEndsUnnoticed ==
    /\ generating /\ generating' = FALSE
    /\ UNCHANGED <<dreams, dreamRows, timers, dreamRuns, applyLock, workspaceLock, sets, here, bound, undo,
                   dreamFaults, userActs, undoCut>>
GenerationEnds ==
    /\ generating /\ generating' = FALSE
    /\ timers' \in AllScheduled(IF here THEN {d \in Dreams : Unfinished(dreams[d])} ELSE {}, timers)
    /\ UNCHANGED <<dreams, dreamRows, dreamRuns, applyLock, workspaceLock, sets, here, bound, undo, dreamFaults, userActs, undoCut>>

(* finalizeActorCaptureResults: an owner whose traces changed enough gets *)
(* a job, unless a row of one is unfinished: that one is scheduled. The    *)
(* capture itself is in CaptureWorkflow; here it is one step.              *)
Fresh(d) == dreams[d] = "none" /\ dreamRows[d] = NoRow /\ sets[d] = << >>
Queue(d) == /\ dreams' = [dreams EXCEPT ![d] = "queued"]
            /\ dreamRows' = [dreamRows EXCEPT ![d] = [status |-> "queued", set |-> 0]]
OpenRows(o) == {d \in Dreams : DreamOwner[d] = o /\ Unfinished(dreamRows[d].status)}
CaptureFinished ==
    /\ here /\ bound
    /\ \E o \in DreamOwners :
          \/ \E d \in OpenRows(o) : timers' = Scheduled(d, 0) /\ UNCHANGED <<dreams, dreamRows>>
          \/ /\ OpenRows(o) = {}
             /\ \E d \in Dreams : DreamOwner[d] = o /\ Fresh(d) /\ Queue(d) /\ timers' = Scheduled(d, 0)
    /\ UNCHANGED <<dreamRuns, applyLock, workspaceLock, sets, here, bound, generating, undo, dreamFaults, userActs, undoCut>>

(* enqueueActorDream, from the dream page: no timer. *)
Enqueue(d) ==
    /\ here /\ bound /\ Fresh(d) /\ Queue(d)
    /\ UNCHANGED <<timers, dreamRuns, applyLock, workspaceLock, sets, here, bound, generating, undo, dreamFaults, userActs, undoCut>>

-----------------------------------------------------------------------------
(* A timer that fires while the host is busy is armed anew.               *)
Busy == generating \/ rollbackActive
FreeRuns == {r \in DreamRuns : dreamRuns[r].pc = "idle"}
Starts(d, auto, n) ==
    /\ FreeRuns # {}
    /\ dreamRuns' = [dreamRuns EXCEPT ![CHOOSE r \in FreeRuns : TRUE] =
                        [pc |-> "reading", job |-> d, auto |-> auto, attempt |-> n]]
TimerRuns(o) ==
    /\ timers[o] # NoTimer /\ here /\ ~Busy
    /\ Starts(timers[o].job, TRUE, timers[o].attempt)
    /\ timers' = [timers EXCEPT ![o] = NoTimer]
    /\ UNCHANGED <<dreams, dreamRows, applyLock, workspaceLock, sets, here, bound, generating, undo, dreamFaults, userActs, undoCut>>
TimerPassed(o) ==
    /\ timers[o] # NoTimer /\ (~here \/ Busy)
    /\ timers' = IF here THEN Scheduled(timers[o].job, 0) ELSE [timers EXCEPT ![o] = NoTimer]
    /\ UNCHANGED <<dreams, dreamRows, dreamRuns, applyLock, workspaceLock, sets, here, bound, generating, undo, dreamFaults, userActs, undoCut>>

RunByUser(d) ==
    /\ here /\ bound /\ dreams[d] # "none"
    /\ userActs < MaxUserActs /\ userActs' = userActs + 1
    /\ Starts(d, FALSE, 0)
    /\ UNCHANGED <<dreams, dreamRows, timers, applyLock, workspaceLock, sets, here, bound, generating, undo, dreamFaults, undoCut>>

(* A run that throws: an automatic one is retried while the chat is shown. *)
Retried(r) ==
    LET run == dreamRuns[r]
    IN  IF run.auto /\ run.attempt + 1 < MaxDreamFailures /\ here
        THEN Scheduled(run.job, run.attempt + 1) ELSE timers
Throws(r) == dreamRuns' = [dreamRuns EXCEPT ![r] = NoRun] /\ timers' = Retried(r)

(* runActorDream records the job as the coordinator has it when it failed. *)
(* Rows are written one after the other (derivedWriteTail).                *)
RowsAreFree == \A r \in DreamRuns : dreamRuns[r].pc # "writing"
Recorded(d, status) == IF status = "none" THEN dreamRows
                       ELSE [dreamRows EXCEPT ![d] = [status |-> status, set |-> 0]]

\* Mutant: only the lock of the instance is asked.
LockFreeHere == ~applyLock
(* coordinator.run: the static lock is the workspace's, applyLock the      *)
(* instance's, which reset() opens.                                        *)
LockFree == ~applyLock /\ ~workspaceLock
TakeLock(r) ==
    /\ dreamRuns[r].pc = "reading"
    /\ LET d == dreamRuns[r].job
       IN  IF dreams[d] # "none" /\ LockFree
           THEN /\ applyLock' = TRUE /\ workspaceLock' = TRUE
                /\ dreams' = [dreams EXCEPT ![d] = "running"]
                /\ dreamRuns' = [dreamRuns EXCEPT ![r].pc = "applying"]
                /\ UNCHANGED <<dreamRows, timers>>
           ELSE /\ RowsAreFree /\ Throws(r) /\ dreamRows' = Recorded(d, dreams[d])
                /\ UNCHANGED <<dreams, applyLock, workspaceLock>>
    /\ UNCHANGED <<sets, here, bound, generating, undo, dreamFaults, userActs, undoCut>>

Unlock == applyLock' = FALSE /\ workspaceLock' = FALSE

(* upsertDerivedWithAudit commits the claims and links as one change set. *)
(* A change set beyond the bound takes the place of the last one.          *)
WithNewSet(d) == IF Len(sets[d]) < MaxSets THEN Append(sets[d], "live") ELSE [sets[d] EXCEPT ![MaxSets] = "live"]
Apply(r) ==
    /\ dreamRuns[r].pc = "applying"
    /\ LET d == dreamRuns[r].job
       IN  /\ sets' = [sets EXCEPT ![d] = WithNewSet(d)]
           /\ dreams' = [dreams EXCEPT ![d] = "applied"]
           /\ dreamRuns' = [dreamRuns EXCEPT ![r] = [pc |-> "settling", job |-> d, auto |-> @.auto,
                                                     attempt |-> @.attempt, set |-> Len(WithNewSet(d))]]
    /\ Unlock
    /\ UNCHANGED <<dreamRows, timers, here, bound, generating, undo, dreamFaults, userActs, undoCut>>
ApplyFails(r) ==
    /\ dreamRuns[r].pc = "applying" /\ DreamFault
    /\ dreams' = [dreams EXCEPT ![dreamRuns[r].job] = "failed"]
    /\ RowsAreFree /\ dreamRows' = Recorded(dreamRuns[r].job, "failed")
    /\ Throws(r) /\ Unlock
    /\ UNCHANGED <<sets, here, bound, generating, undo, userActs, undoCut>>

(* upsertDerivedForChangeSet: the change set must still stand; the row is *)
(* written after that check.                                               *)
Settle(r) ==
    /\ dreamRuns[r].pc = "settling"
    /\ IF sets[dreamRuns[r].job][dreamRuns[r].set] = "live"
       THEN dreamRuns' = [dreamRuns EXCEPT ![r].pc = "writing"] /\ UNCHANGED timers
       ELSE Throws(r)
    /\ UNCHANGED <<dreams, dreamRows, applyLock, workspaceLock, sets, here, bound, generating, undo, dreamFaults, userActs, undoCut>>
WriteSettled(r) ==
    /\ dreamRuns[r].pc = "writing"
    /\ dreamRows' = [dreamRows EXCEPT ![dreamRuns[r].job] = [status |-> "applied", set |-> dreamRuns[r].set]]
    /\ dreamRuns' = [dreamRuns EXCEPT ![r] = NoRun]
    /\ UNCHANGED <<dreams, timers, applyLock, workspaceLock, sets, here, bound, generating, undo, dreamFaults, userActs, undoCut>>
SettleFails(r) ==
    /\ dreamRuns[r].pc = "writing" /\ DreamFault /\ Throws(r)
    /\ UNCHANGED <<dreams, dreamRows, applyLock, workspaceLock, sets, here, bound, generating, undo, userActs, undoCut>>

-----------------------------------------------------------------------------
(* rollbackActorDream. The change set's rows go with it; a set whose      *)
(* records a later one has overwritten cannot be rolled back.              *)
LastLive(d, n) == sets[d][n] = "live" /\ \A k \in n + 1..Len(sets[d]) : sets[d][k] # "live"
UndoDream(d, n) ==
    /\ here /\ bound /\ undo.pc = "idle" /\ LastLive(d, n)
    /\ userActs < MaxUserActs /\ userActs' = userActs + 1
    /\ sets' = [sets EXCEPT ![d][n] = "undone"]
    /\ dreamRows' = IF dreamRows[d].set = n THEN [dreamRows EXCEPT ![d] = NoRow] ELSE dreamRows
    /\ dreams' = IF dreams[d] = "none" THEN dreams ELSE [dreams EXCEPT ![d] = "rolled-back"]
    /\ undo' = [pc |-> "recording", job |-> d]
    /\ UNCHANGED <<timers, dreamRuns, applyLock, workspaceLock, here, bound, generating, dreamFaults, undoCut>>
RecordUndone ==
    /\ undo.pc = "recording" /\ RowsAreFree
    /\ dreamRows' = IF dreams[undo.job] = "none" THEN dreamRows ELSE Recorded(undo.job, "rolled-back")
    /\ undo' = NoRun
    /\ UNCHANGED <<dreams, timers, dreamRuns, applyLock, workspaceLock, sets, here, bound, generating, dreamFaults, userActs, undoCut>>

-----------------------------------------------------------------------------
(* The host shows another chat, or this one again: the binding that        *)
(* follows clears the timers and resets the coordinator, and then reads    *)
(* this chat's rows. Runs in flight go on.                                 *)
DreamSwitch ==
    /\ IF here THEN DreamFault ELSE UNCHANGED dreamFaults
    /\ here' = ~here /\ bound' = FALSE
    /\ UNCHANGED <<dreams, dreamRows, timers, dreamRuns, applyLock, workspaceLock, sets, generating, undo, userActs, undoCut>>
Bind ==
    /\ ~bound /\ bound' = TRUE
    /\ applyLock' = FALSE
    /\ dreams' = [d \in Dreams |-> IF here THEN dreamRows[d].status ELSE "none"]
    /\ timers' \in AllScheduled({d \in Dreams : here /\ Unfinished(dreamRows[d].status)}, NoTimers)
    /\ undoCut' = (undoCut \/ rollbackActive)
    /\ UNCHANGED <<dreamRows, dreamRuns, workspaceLock, sets, here, generating, undo, dreamFaults, userActs>>

DreamReload ==
    /\ DreamFault
    /\ dreams' = [d \in Dreams |-> "none"] /\ timers' = NoTimers
    /\ dreamRuns' = [r \in DreamRuns |-> NoRun] /\ Unlock /\ undo' = NoRun
    /\ bound' = FALSE /\ generating' = FALSE
    /\ undoCut' = (undoCut \/ rollbackActive)
    /\ UNCHANGED <<dreamRows, sets, here, userActs>>

DreamRunStep(r) == TakeLock(r) \/ Apply(r) \/ ApplyFails(r) \/ Settle(r) \/ WriteSettled(r)
DreamNext ==
    \/ GenerationStarts \/ GenerationEnds \/ CaptureFinished \/ RecordUndone
    \/ \E d \in Dreams : \/ Enqueue(d) \/ RunByUser(d)
                         \/ \E n \in DOMAIN sets[d] : UndoDream(d, n)
    \/ \E o \in DreamOwners : TimerRuns(o) \/ TimerPassed(o)
    \/ \E r \in DreamRuns : DreamRunStep(r) \/ SettleFails(r)
    \/ DreamSwitch \/ Bind \/ DreamReload
DreamSpec == DreamInit /\ [][DreamNext]_dreamVars

-----------------------------------------------------------------------------
(* Two dreams never apply to one workspace at a time, also when a binding *)
(* has reset the coordinator under a run.                                  *)
OneDreamApplies == Cardinality({r \in DreamRuns : dreamRuns[r].pc = "applying"}) <= 1

(* Between calls, a row that says applied belongs to a change set that     *)
(* still stands: what the user rolled back is not shown as applied, unless *)
(* the rollback was cut short.                                             *)
AppliedIsBacked ==
    (~undoCut /\ undo.pc = "idle" /\ \A r \in DreamRuns : dreamRuns[r].pc = "idle")
        => \A d \in Dreams : dreamRows[d].status = "applied" => \E n \in DOMAIN sets[d] : sets[d][n] = "live"

(* Dreams of one chat and of a workspace they may share with other runs. *)
DreamsSound == DreamTypeOK /\ OneDreamApplies /\ AppliedIsBacked

(* While its chat stays in view a queued job is run: its timer, cleared by *)
(* every generation and armed again after it, catches a quiet moment.      *)
QueuedRuns == \A d \in Dreams : (here /\ dreams[d] = "queued") ~> (~here \/ dreams[d] # "queued")
=============================================================================
