# SS-Helper-Memory in TLA+

SS-Helper-Memory is a browser plugin that gives a role-playing chat a long-term
memory. After each generation it captures the new floors of the chat with a
language model, turns the answer into facts, evidence and per-character memory
traces, stores them in an SDK workspace, and before the next generation recalls
what the characters of the scene may know. This directory models the parts of it
whose correctness depends on the order of things: the change sets of the
repository, the capture workflow above them, what a capture does with the model's
answer, the path from a prepared generation to its stored completion, and what runs
beside the chat. It checks them on small instances and proves the results that
matter most for every instance.

All paths below are relative to the repository (`src/...` is its source tree).

## 1. The system

### Components

| Component | State it keeps | Operations | Interacts with |
|---|---|---|---|
| Workspace store (`infrastructure/memory-store.ts`, SDK) | records with revisions, applied idempotency keys, open sessions | `bind`, `reset`, `read`, `scan`, `apply`, `write` | every repository |
| Change sets (`infrastructure/multi-actor-memory-repository.ts`) | facts, traces, jobs, candidates, derived rows, `change-audits` | `commitCapture`, `rollbackChangeSet`, `upsertDerivedForChangeSet`, `upsertCaptureJob` | store, workflow, UI |
| Fact ledger (same file) | fact heads, supersession links | `upsertManualFact`, `removeFact` | change sets (shares rows) |
| Repair queue (same file, `memory-application.ts`) | rejected items, attempts, evidence hashes | enqueue, claim, settle, reconcile | change sets, workflow |
| Capture workflow (`memory-application.ts`) | `capturePromise`, `captureVersion`, abort controller, job in memory, `summaryProgressByChat` | `flushCapture`, `retry`, `cancelCapture`, `finalizeActorCaptureResults`, catch paths | capture service, repository, chat binding |
| Capture service and extraction pipeline (`multi-actor-capture-service.ts`, `extraction/*`) | one extraction in flight, stage audits | `capture`, stages, tool rounds | model client, repository |
| Chat binding (`memory-application.ts`, `host/sdk-host-context.ts`) | chat key, `bindVersion`, `boundScopeKey`, repository of the scope | `bindCurrentChat`, `bindStorageScope` | everything that checks "still current" |
| Generation completion (`host/memory-runtime.ts`, `generation/*`) | completion scope, claimed flag, pending completions, the plan prepared last, prompt revision | host events, preparation, completion, flush, comparison | application, host |
| Dream (`dream/dream-coordinator.ts`) | jobs, attempts, idle timers per owner | enqueue, schedule, run, apply, roll back | change sets, generation flag |
| Vector index, memory graph | queues, barriers, embeddings | schedule, sync, rebuild | facts, settings |
| Actor registry, locations, scene state, inventory | owners, aliases, pending candidates; hierarchy; cast; quantities | resolve, merge, split, undo; reduce; apply events | capture service, UI |
| Recall (`recall/*`) | index, exposures | intent, scope, ranking, coverage | registry, facts, graph |
| Agent tools, model client, capability monitor | budgets, probes with versions | tool rounds, probes | extraction |
| Settings, statistics, host adapters, UI | settings rows, views | read and write | application |

### What is hard in it

Everything is asynchronous TypeScript on one event loop, with several tabs over one
workspace. A handler reads, awaits, and uses what it read; the chat may be switched,
the capture cancelled, the plugin stopped or the page reloaded at every await. The
store offers one atomic `apply` with optimistic revisions and durable idempotency
keys; everything else (exactly-once capture, undo, resumption) is built above it.
`PROJECT.json` lists the hazards at the line where each bites. In short:

* two tabs capture, retry and roll back the same batch; facts are edited meanwhile;
* derived rows are attached after the change set they belong to may be gone;
* the scope of a running capture becomes stale between two checks of it;
* a reload leaves a job `running`; a rollback leaves a checkpoint that is ahead;
* rollbacks of several batches compare a job row that each of them changes;
* two events announce one reply, in either order, and its text settles later still;
* the next message prepares its plan while completions of the last are on their way.

### What makes each component correct

* Change sets: one live change set per batch; an acknowledged capture is stored; an
  undo restores exactly what was replaced and never destroys a later value; no derived
  row outlives its change set; every call ends.
* Workflow: progress moves only over stored windows; the checkpoint is backed by
  live change sets; no stored batch goes to the model again; a completed capture can
  be undone; every run ends and every window is summarized in the end.
* Generation completion: a reply is captured once, and kept and stored in order
  whatever fails; a plan is compared once, with the reply of its own generation; a
  new plan waits for earlier completions; every call ends.
* Details and buttons: a detail follows its reply, an invalidated one and its prompt
  never come back, no button is hidden for good.
* Background work: one dream applies at a time and what says applied stands; a vector
  of an outdated text is an exception that is accounted for; a repair is settled once.
* Ledgers: one head and an unbroken chain of facts; the stock is what its events add up
  to, and each message counts once; names are not given away.
* Capture and recall: a claim rests on current reads, reaches only those who may know
  it, and is told only where its permission reaches.

## 2. Modules

| Module | What it is |
|---|---|
| `ChangeSets` | the repository: reads one by one, then one transaction; any number of clients |
| `UndoLedger` | what the repository promises: a memory, and one undoable change set per batch |
| `CaptureWorkflow` | capture jobs above the repository, with the user, the host and the page |
| `Extraction`, `PromptReferences` | one extraction with its stages and reads; the numbering of a prompt's references |
| `CaptureValidation`, `Knowledge` | which records of an answer are kept; who learns what from them |
| `RepairQueue` | rejected records, asked for once more |
| `GenerationCompletion` | from `message-sent` to the stored completion and the comparison of its plan |
| `SceneStates`, `CastPlanning`, `OwnerRecall` | what is prepared before a generation: the scene, the cast, what is told to whom |
| `RecallIndex`, `SemanticRecall` | the index of facts, and the search around it (extends `RecallIndex`) |
| `GenerationDetails`, `PreviewLookup` | stored recall details of replies, and the buttons that open them |
| `ChatBinding` | which chat the application works for |
| `DreamJobs`, `VectorSync`, `MemoryGraph` | background work: dreams, vectors, the graph |
| `FactLedger`, `InventoryLedger`, `ActorRegistry` | rows that captures and the user rewrite: facts of a slot, stock of an item, names of people (whom a mention is for, branch by branch) |
| `MCChangeSets`, `MCCaptureWorkflow`, `MCRecall`, `MCValidation` | small instances: batches, disturbances, libraries, answers |
| `MCWriters`, `MCCapturing`, `MCFollowing`, `MCTurns`, `MCBackground`, `MCLedgers` | what one run checks: several components side by side |
| `ChangeSets_proofs`, `CaptureWorkflow_proofs`, `GenerationCompletion_proofs`, `Preparation_proofs`, `Ledgers_proofs`, `GraphAndPeople_proofs`, `Background_proofs`, `Following_proofs` | proofs for all constants, section 4 |

`ChangeSets` and `UndoLedger` are composed by refinement, `RecallIndex` and
`SemanticRecall` by extension. The others meet at narrow interfaces, which each takes as
its environment: `CaptureWorkflow` takes repository calls as atomic (their interleavings
are `ChangeSets`), `GenerationCompletion` takes a chat switch with its rebinding as one
step (`ChatBinding` opens it up), `DreamJobs` takes what a dream writes as one change set.

### ChangeSets

A client is a tab or a concurrent caller in one tab. `op[c]` is the call it has in
flight: `pc` names the await it stands at, `got`/`read` the rows read so far with
their revisions, `before`/`after` the change set a rollback loaded. Each awaited
read is an action; each transaction is one action that checks every precondition.

| Code | Actions |
|---|---|
| `commitCapture`, `commitCaptureOnce` | `StartCapture`, `WalkChain` (the retry chain: unused, duplicate, conflict, rolled back), `ReadRecord`, `ApplyCapture`; `Conflicts` is the single rebuild of 1416-1429, which a request that carries stock does not get (1424), `Repeats` when a link holds the request (1499-1517) |
| `rollbackChangeSet` | `BeginRollback`, `Preflight`, `Reread`, `ScanDerived`, `ReadAudit`, `ApplyRollback` |
| `upsertDerivedForChangeSet` | `StartDerive`, then `WriteDerived` row by row |
| manual edits, `upsertCaptureJob`, `updateCaptureAuditRejections` | `EditRecord`, `PersistJob`, `ResolveRejections` |
| a closed or reloaded tab | `Crash` |

Abstractions. A record's value is a content and a stamp; the stamp stands for the
fields filled with `Date.now()` and is fresh where the code writes one. The code
reads the records of a commit in a fixed order, the model in any order (more
behaviours). The SDK's `apply` is external: it is atomic, revisions only grow, an
applied key is never applied again. A used key is answered with the first result,
whatever the second request asks, as the comment at 1472-1475 says of the SDK; the caller
does not look whether its result is a replay (1899). A record of `StockRecs` stands for the
inventory states and events of a request. `clearCurrentChatData` is not modelled. The last link of the bounded retry chain is
not rolled back, so that the chain never runs out inside the bound.

### CaptureWorkflow

One chat, incremental jobs, windows of `N` batches. `jobs` are the capture-jobs rows
with the change set that wrote them last (`by`), `sets` the change sets (a batch has
one, and a second one for a rerun stage), `progress` the summary progress, `run` the
workflow in flight with its in-memory checkpoint (`at`), the checkpoint it started
from (`base`), the change sets it committed (`results`) and the two things the code
asks before going on: whether `captureVersion` moved (`bumped`) and whether the
abort signal fired (`aborted`).

| Code | Actions |
|---|---|
| `retry`, `resumePausedWork`, `flushCapture` | `Resume`, `NewJob`, `CompleteResumed`, `BeginBatches` |
| the batch loop and `executeActorCapture` | `CheckBatch`, `Extracted`, `ExtractFails`, `Commit`, `CommitReplays`, `LeaveScope`, `DiscardCommit`, `KeepCommit` |
| `finalizeActorCaptureResults` | `ReadForFinalize`, `Derive`, `Unwind`, `Unwound` |
| the end of the job | `Settle`, `SaveProgress`, `ProgressFails` |
| the catch | `PersistStale`, `PersistRollbackFailed`, `PersistError` |
| user, host, page | `Cancel`, `SwitchAway`, `Rebound`, `SwitchBack`, `Stop`, `StartAgain`, `Reload`, `UndoByUser`, `Grow` |

Abstractions. Repository calls are atomic (their interleavings are `ChangeSets`);
of the records of a change set only the job row matters to this workflow and is kept.
`Resume` takes any resumable job where the code takes the most recently updated one.
The repair phase, initialize mode, usage accounting and failing job writes are not
modelled, nor is a settings write that fails after the progress in memory moved.
A setting, chosen once from `Settings`, says what the environment may do: `undoes` (undo
from the audit page), `returnsAtOnce` (the user is back before the other chat is bound, so
that `captureVersion` was not bumped, 2677) and `rollbackFails` (a rollback reports a
failure of its own accord, before or after it was applied: the vectors are deleted
after the transaction, repository 2046).

### GenerationCompletion

The host goes through turns (`phase`, `left` the events of the turn it may still send,
`settled` the replies whose text is complete) and shows one of the `Chats`. The plugin's
state keeps the names of the code where it has one: `plan` is `lastPreparedGeneration`,
`scope` `activeGenerationCompletionScope`, `claimed` `generationCompletionClaimedByMessage`,
`prompted` `promptPreparedForActiveGeneration`, `queue` `pendingGenerationCompletions`,
`flush` the run behind `pendingGenerationCompletionPromise`. `prep` is the
`onPromptReady` in flight, `handlers` are the `onGenerationEnded` calls that wait for
something. `stored` is the workspace, `captured` and `reconciled` are histories.

| Code | Actions |
|---|---|
| `message-sent`, `prompt-ready`, `onPromptReady`, `buildActorMemoryPrompt` | `SendMessage`, `PromptReady`, `Prepared`, `LateReturns` |
| `generation-started`, `message-received`, `generation-ended` | `GenerationStarted`, `Received`, `Ended`, with `Complete` for the synchronous part of `onGenerationEnded` |
| `readCompletedAssistant` | `ReadReply`, `ReadNothing` |
| `flushPendingGenerationCompletion`, `persistCompletedGeneration`, `recordCompletedGeneration` | `Persist`, `PersistFails`, `FlushAudited`, `FlushCompared` (`Continue` and `Abandon` end a round) |
| `reconcileGeneratedMessage` | `Audited` and `Compared` in a handler, `FlushAudited` and `FlushCompared` in the flush |
| `chat-changed` | `SwitchChat` |
| host and user | `Regenerate`, `Generate`, `Settle`, `TurnOver` |

Abstractions. A scope is a chat; the workspace, which follows it with a delay, is left to
`ChatBinding`, and so is the rebinding: the switch, its handler and the rebinding are one
step. An `onPromptReady` of a chat that was left can prepare nothing more and is only
remembered as `late`. The host sends its events with the chat they are about, and waits for
the handlers of `message-sent` and `prompt-ready` before it generates; it does not wait for
the handlers of a finished generation. The rounds of a poll are one step that may take any
reply there is, or give up. A reply is the turn it belongs to; the ones a chat had before
are turn 0; floors of two chats are unrelated. The flush ends and releases its promise in
one step. Two completions of one message share a row in the workspace; `stored` tells them
apart. Edits and deletions of messages are in `GenerationDetails`; snapshots of the final
prompt, the leak audit's own writes and the plugin's stop are not modelled.

### The other components

| Module | Code | Actions | Left out |
|---|---|---|---|
| `Extraction` | `extraction-pipeline.ts`, `stage-runner.ts`, `agent-tool-gateway.ts` | `Prefetch`, `RefuseUntooled`, `TurnAnswers`, `TurnCallsTools`, `RejectArguments`, `TurnFails`, `executeBatch`, `CheckReads`, `Refresh`, `RecheckReads`, `Plan`; beside it `StoreRecord`, `CancelExtraction` | prompts and repair of JSON; a read of several lists is one step |
| `PromptReferences` | `context-prefetcher.ts`, `actorDirectory` of the capture service | `AnswerAbout`, `StoreClaim` | locations and items, numbered alike |
| `CaptureValidation` | `prepare`, `capture`, `buildCandidateRecords` of the capture service | `Prepare`, `Capture` | a text is whom it names and what it quotes; quantities kept as history only (`append_history`) |
| `Knowledge` | the same, `knowledge-projector.ts`, the merge in `commitCapture` | `Learn` | strength and clarity of a trace |
| `RepairQueue` | the repair phase of `memory-application.ts`, the queue of the repository | `RepairStep` (release, claim, attempt, outcome, settlement), `ReleaseChanged`, `Interrupt`, `AuditFails`, `Reload`, `UserIgnore`, `EditSource` | the user's review queue |
| `SceneStates` | `scene-state-reducer.ts`, `active-cast-resolver.ts`, `saveSceneState` | `Speak`, `PrepareScene`, `CommitPrepared`, `AbandonPrepared`, `ReconcileScene`, `CorrectScene`, `SaveScene` | time expressions; `persistPresenceUntilTransition` switched off (on by default), which drops the quiet |
| `CastPlanning` | `cast-candidate-resolver.ts`, `generation-cast-planner.ts` | `AskPlan`, `DirectorAnswers`, `DirectorFails`, `NextTurn` | matching names in text |
| `OwnerRecall` | `recall-intent-planner.ts`, `owner-aware-recall-coordinator.ts`, `recall-coverage-verifier.ts`, `build-memory-prompt.ts` | `Recall`, `Expand`, `Verified`, `BuildPrompt` | what is relevant, any set of facts; the two owners an expansion falls back to (coordinator 197-213), who get public facts only |
| `RecallIndex`, `SemanticRecall` | `memory-recall-index.ts`, `semantic-recall-service.ts`, `graph-recall-index.ts` | `AskWords`, `VectorsAnswer`, `GraphAnswers`, `GraphFails`, `RouteAnswers`, `RankingAnswers`, `IndexChanges` | real-valued scores: percents |
| `GenerationDetails` | details in `memory-repository.ts`, message events in `memory-runtime.ts` | `Reply`, `CommitDetail`, `DeleteMessages`, `EditMessage`, `DeleteSwipe`, `ScanDetails`, `ReadPrompts`, `WriteChanges`, `WriteFails` | the content of a detail |
| `PreviewLookup` | `message-recall-action.ts` | `StoreDetail`, `EditReply`, `Clear`, `Resolve`, `FailLookup`, `LookupWork` | aborted questions of the host |
| `ChatBinding` | `bindCurrentChat`, `bindStorageScope`, the health check, `clearCurrentChatData`, the runtime's rebind, `sdk-host-context.ts` | `BindingWork`, `RefreshFails`, `SwitchChat`, `SendMessage`, `CaptureBinds`, `BeginCheck`, `BeginClear`, `OverviewFails`; the other writers of the recall index: `BeginWrite`, `UndoReads`, `EndWrite` | `clearAllMemoryData`, saving settings; two such writers at once |
| `DreamJobs` | `dream-coordinator.ts`, timers and runs in `memory-application.ts` | `Enqueue`, `RunByUser`, `TimerRuns`, `TimerPassed`, `DreamRunStep`, `SettleFails`, `UndoDream`, `RecordUndone`, generations, captures, `DreamSwitch`, `Bind`, `DreamReload` | undoing the capture of a trace a running dream reads |
| `VectorSync` | `vector-index-service.ts`, the initialization barrier | `EditText` and, in a later call, `deleteFactVectors` or `DeletionFails`, `ReloadPage`, `AskForSync`, `RaiseBarrier`, `finishInitializationVectorSync`, `RebuildIndex`, `RepairFacts`, `StopIndex`, `StartIndex`, `ClearVectors`, `TaskStep`, `NoRoute`, `EmbedFails` | the choice of routes, the query cache |
| `MemoryGraph` | `memory-graph-service.ts`, `memory-graph.ts`, `reconcile` in `memory-repository.ts` | `ChangeFacts`, `ScheduleGraph`, `SetGraphEnabled`, `RebuildByUser`, `BeginScheduled`, `GraphStep`, `GraphFails` | weights |
| `FactLedger` | reconciliation in the capture service, `commitCaptureOnce`, `upsertManualFact`, `removeFact` | `ReadForCapture`, `CommitReconciled`, `BeginEdit`, `ApplyEdit`, `RemoveFact` | validation of texts |
| `InventoryLedger` | `inventory-ledger.ts`, `inventory-update-planner.ts`, item commands of the repository, inventory operations of a capture | `createInventoryItem`, `invalidateInventoryItem`, `AskCommand`, `ReadForCommand`, `applyInventoryCommand`, `ReadStock`, `PlanUpdates`, `CommitVersions`, `CommitStock` | several items of one command |
| `ActorRegistry` | `actor-registry.ts`, corrections in `memory-application.ts` | `DiscoveryStep`, `BeginCommit`, `CorrectionStep`, `UndoCorrection`, `WriteLands`, `WriteIsLost`, `ReloadRegistry` | traits, migration of owners; undoing a correction's or a capture's change set in the store; a second capture beside one that commits |

## 3. Runs

Six runs check what holds, six show where the code does not do what it says (section 5).
The components of one run share no rows, so each behaviour follows one of them (`part`)
and leaves the others as they are: a run explores the sum of its components, not their
product. A property that several components of a paragraph share is a conjunction; its
parts are named.

| Run (module) | Instance | Properties |
|---|---|---|
| `Writers` (`MCWriters`) | 1 client, 2 batches, 1 derived row, 2 outside writes; a graph of 2 facts and 3 entities, batches of 2, 2 changes, 2 rebuilds, 1 fault | `TypeOK`; `AckedIsStored`; `NoOrphans`; `ActsAsLedger` (refines `UndoLedger`); `CallsEnd`; `GraphFollowsFacts` = `NoDanglingEdge`, `ReadyIsCurrent` |
| `CaptureResumes` (`MCCapturing`) | 2 windows of 2 batches, 2 jobs, 2 disturbances, with undo and quick return, or with failing rollbacks; an extraction over 2 records, 2 outside writes, 2 rounds; 2 captures of 12 claims; the answers of `MCQuestions`; names a, b and a fresh id, 1 discovery and 1 correction with its undo while writes overlap and one fails, or 2 discoveries and 2 writes at a time, or 2 corrections and 1 write at a time | `ResumesAfterHeld`; `SummarizedIsHeld`; `ExtractionSound` = `ClaimsRestOnCurrentReads`, `StageBudget`, `SessionsClosed`; `KnowledgeSound` = `PrivateReachesSpeakers`, `LearnsByWitness`, `PrivacyIsStrictest`, `RehearsedByObservations`; `ValidationSound` = `ReferencesClosed`, `ConservativeKeeps`, `QuantityAnswered`, `RecordsTellOnce`; `NamesStand` = `NothingDangles`, `ReloadKeepsNames`, `DiscoveryKeepsNames` |
| `CaptureEnds` (`MCFollowing`) | 1 window, 3 jobs, 2 disturbances; a page of 2 replies looked up one by one, 1 detail stored, 1 edit, 1 fault; 2 chats, 2 switches, 1 call that binds or writes the index, 1 that checks, 1 that fails | `RunsEnd`; `WindowsGetSummarized`; `ButtonsAreRight` = `HiddenHasNone`; `ButtonsAppear`; `BindingSound` = `IndexIsOfBoundChat`, `DirectoryIsOwn`, `LookupFollows`; `HostIsFollowed` |
| `Completion` (`MCTurns`) | 2 chats, 2 turns, 1 switch, 1 failed write, 2 attempts, every way to announce a reply; a scene of 3 lines, 1 correction, 3 reconciliations; a cast of 3 over 2 floors, a cache of 1; 3 facts, 2 actors | `CompletionsInOrder` = `KeptInOrder`; `CapturedOnce`; `PlanOnce`; `SavedFirst`; `CallsSettle`; `SceneSound` = `PlacedOnce`, `QuietStaysPresent`; `CastSound` = `PrivateNeedsAPart`, `AddresseeAnswers`, `DirectorOnce`; `RecallSound` = `SecretsNeedPermission`, `ProtectedAreHeard`, `IncludedIsSent` |
| `Background` (`MCBackground`) | 2 rejections of 2 states of evidence, 1 fault; 1 dream, 2 runs, 2 failures, 2 change sets, 1 act of the user, 1 fault; 2 chats of 2 texts, 1 restart or reload, 2 requests, 1 fault; searches over 4 small libraries, graphs entered at no more than 2 nodes (the code: 8) | `RepairsSound` = `RepairedIsStored`, `AnswersBounded`, `RepairedStays`; `PhaseEnds`; `DreamsSound` = `OneDreamApplies`, `AppliedIsBacked`; `QueuedRuns`; `VectorsSound` = `SyncsAlone`, `VectorsMatch`; `RequestsAreServed`; `SearchSound` = `IndexIsExact`, `OneValuePerSlot`, `RankingIsAPermutation`, `PresentComesFirst`, `PartsAnswered`, `BudgetKept`, `NominatedByDistance` |
| `Ledgers` (`MCLedgers`) | 2 clients (symmetric), 2 batches sharing a fact, 1 retry; 3 claims on one slot, 1 manual fact, 1 edit; an item in 2 units, 2 commands, 2 captures; 3 replies, 2 changes of the chat | `OneLiveLink`; `FactsInOrder` = `HeadIsCurrent`, `SupersededHasSuccessor`, `RemovalRestores`; `StockSound` = `LedgerAddsUp`; `StockKept` = `CountedOnce`, `EditsWhatWasSeen`, `VoidedStays`; `DetailsFollow`; `DetailsKept` = `PromptsGoWithDetails`, `InvalidatedForGood` |
| `ChangeSetsOrphans`, `CaptureRescan`, `ActorRebinding`, `InventoryCorrections`, `PromptReferences`, `BindingDirectory` | the smallest that shows it | findings, section 5 |

Bounds. Two clients suffice for every race of the repository, which is between one
call's reads and another's transaction; two batches that share a fact and differ in
their other records (a candidate, a job row) are the smallest case in which undoing
one batch can hit the other. One retry link per batch exercises the chain (the chain is
proved for every length). `CallsEnd` and `AckedIsStored` are checked with one client, beside outside
writers that make its transactions conflict; with two, the latter is false when they extract a batch differently (section 5). Two batches and two windows let a checkpoint be ahead,
behind or applied to the wrong window; two disturbances combine a switch or cancel
with a reload or an undo (the theorems hold for any number). A finite instance caps writes, jobs and disturbances in the
guards (`MaxWrites`, `MaxJobs`, `MaxUpsets`, `MaxWindows`, `MaxRetry`). Two turns put one
reply's handling beside the next one's preparation; a switch is the only thing another chat
can do to it (leaving and coming back is not covered); a failure is a retry that succeeds or
a flush that gives up at once, and does what it does when its attempts are used up (the code
has three). Where several starts are alike one stands for them: the host shows the first
of two chats, or none; one reply of the page has a detail; one rejection is out of the ordinary.
Of the background work one dream with two runs, two chats of which one waits, and two
rejections that may be asked for together are the smallest in which tasks cross. Two corrections of
the directory whose writes overlap and fail as well are too many for TLC; the theorem covers them. What
`Ledgers` leaves out is `EditsOverlap`: `upsertManualFact` beside another writer of the same
facts is what section 5 says of it.

Deadlock is checked in `ChangeSetsOrphans` only. In the others it is switched off: when the
chat is summarized, the jobs, changes or calls of the instance are used up, or the host
rests, the plugin rests as well.

Fairness. `ChangeSets`: weak fairness of each client's next step, as awaited storage
calls return; starting a call or crashing is never forced. `CaptureWorkflow`: weak
fairness of the workflow's own steps (awaits return, model calls have timeouts), of
beginning a run (each generation end calls `retry()` or captures again), of binding the
selected chat, and of coming back to a chat that was left or stopped (the liveness
properties speak of a chat that is used again). Failures, cancels, reloads and undos are
never forced and are bounded, as the properties say what happens once they cease.
`GenerationCompletion`: weak fairness of the flush, of a preparation and of the handlers
(what they await are storage calls, bounded polls and the flush itself); the host and the
user are never forced. `RepairQueue`: weak fairness of the phase's own steps. `DreamJobs`:
weak fairness of the calls under way, of binding the chat and of the generations of a chat
that is used, and strong fairness of each owner's timer, which captures and generations
stop and start again and again: some quiet moment is long enough. `VectorSync`: weak fairness
of each task and of the deletion that a stop has begun. `PreviewLookup`: weak fairness of the
lookups and of their answers. `ChatBinding`: weak fairness of the awaits of calls that bind.

## 4. Proofs

All theorems are for any values of the constants, under the assumptions the modules name.
Each is `Init => Inv`, `Inv /\ [Next]_vars => Inv'` with a lemma per action, and
`Inv => Property`; the invariants were model-checked before they were proved.

### Change sets: `ChangeSets_proofs`

From `RecordKinds`, `BatchShape`, `Bounds`, `Sentinels`, and `NoEntry` (the mark for "no
change set" is not itself a change set):

* `TypeCorrect`: `Spec => []TypeOK`.
* `AtMostOneLiveLink`: `Spec => []OneLiveLink`.
* `AcknowledgedIsStored`: `Spec => []AckedIsStored`, assuming a single client (`Alone`), or that
  each batch has one possible extraction (`OneReading`); nothing is assumed of what the SDK
  makes of a used key with another request. With two clients and two extractions it is false
  (section 5).
* `LeavesNoOrphans`: `Spec => []NoOrphans`, assuming a single client (`Alone`); with two
  the run `ChangeSetsOrphans` refutes it.
* `ImplementsLedger`: `Spec => ActsAsLedger`, the refinement of `UndoLedger`.

`OneLiveLink` is not inductive: a client deep in the chain acts on what it saw on the way.
The strengthening `ChainInv` adds `ChainWalked` (a capture that has come to link *n* saw
links *0..n-1* rolled back, and a rolled back link stays so) and `RollsBackCommitted` (a
rollback in flight is of a change set that was committed). `CallStep` and `LinkStep` say
how a step may move one client's call and one link's audit; each action's preservation
then follows from these two. `OrphanInv` adds to `NoOrphans` that rows are derived for a live
change set only, and that a rollback deletes every row with its stamp among those it has
scanned; it scans them all before it applies.

The refinement maps the store to its values and the links of a batch to its one live
link. A commit maps to `Commit` because the transaction compares every row with what was
read, so the recorded `before` values are those it replaces. A rollback is harder: it acts
on a change set it loaded many reads ago, and `updateCaptureAuditRejections` may have
rewritten that change set and its job row since. `LedgerInv` says why this is harmless:

* `RollbackLoaded`: what a rollback in flight loaded is still what its change set says,
  except for job rows that are `Superseded`, whose row in the store already carries a
  later stamp than the loaded one, and for ever will;
* `StampsBounded`: the stamp of a job row is at most its revision, so a new one is fresh;
* `Matched`: the rows a rollback read for the second time are those its change set wrote;
* `RolledBackIsApplied`: a change set that is rolled back has used its rollback key.

The transaction therefore applies only if the loaded change set is the current one, which
is live (`RollbackMatches`), and its step is the ledger's `Undo`. `WritingSteps` reduces
`Next` to the five kinds of step that write; all others leave what the ledger sees.

### Capture jobs: `CaptureWorkflow_proofs`

`JobsResumeAfterHeld` and `SummariesAreHeld`, for any windows, batches, jobs and
disturbances (`Sizes`). Neither is inductive. `CaptureInv` says what the run in flight knows
at each await (`RunShape`: between commit and settlement its change set is in hand and live,
its results are backed by the base it started from, a stopped or cancelled run is about to
unwind) and what the rows say (`RowsShape`: a job's change sets are those of its batches).
From these follow `NothingAhead` - no job row leaves a held batch open - while rollbacks do
not fail, and `NothingLost` - no completed job lacks a held batch - while the user neither
undoes nor returns at once (`Steady`). The four settings differ in which of the two a step
may rely on, and the proof of each action keeps them apart.

The module also holds what a capture does inside:

* `ExtractionStaysSound`, for any records, fact records and outside writers. `ExtractionInv`
  says, for every await of an extraction, which gateways are open and what their books say
  (`GatesSound`: nothing was shown, issued or held in a newer revision than the store has), and
  that what a stage's claims rest on was issued to that stage by the gateway of its last run
  (`BackedAt`). With it a claim that passed `CheckReads` or `RecheckReads` rests on the revisions
  that were compared (`Judged`), and the second model call of a stage is the last (`Affordable`).
* `KnowledgeStaysSound`, for any claims and number of captures. `KnowledgeInv` adds to
  `KnowledgeSound` that traces rest on claims that were captured (`TraceSound`) and that whoever
  a told claim made learn has a trace (`ToldSound`). The proof found `RehearsedByObservations`
  wrong for the unknown owner, whose traces start at one rehearsal less: the model's `Projected`
  and the property now say so.

* `ValidationStaysSound`, from `QuestionShape` (an answer has the types of `ingest/types.ts`).
  `ValidationInv` says that what prepare returns is `Sifted` of the sources and the answer, and the
  records are `Recorded` of these: nothing else is needed, as nobody acts in between. The work is in
  the passes. Each list goes through the recursive function of `Through`, and `ThroughKeeps` proves
  once, by the first place that would break it, that what every pass preserves holds of its result.
  From it follow that whatever passed the checks passed them against ids taken before it (`SiftIs`),
  and which ids are kept: of claims those of any that passes the checks other than "taken before"
  (`ClaimIdsAre`), of episodes those of the first that opens with its id, if it passes
  (`EpisodeIdsAre`). A repair makes more of them pass (`CleanClaimIs`) and changes no opening, so it
  keeps more ids although each candidate that is saved takes its own. `LedgerIs` says what the
  ledger counted, held or refused; `RowsAre` and `TellsOnce` that one row of a candidate has no later.

### Generation completion: `GenerationCompletion_proofs`

* `CompletionsAreInOrder`, `RepliesAreCapturedOnce`, `PlansAreComparedOnce` and the action
  property `CompletionsAreSavedFirst`. `CompletionInv` has four parts: `CaptureInv`
  (`TakenOnce`, `NoneAhead`, and `TakenIsClosed`: a reply that some handler has taken leaves
  no event open that would take it again), `PlanInv` (`Apart`: a plan is in one place -
  prepared, about to be compared by one party, or compared; `PlansPast`: and no later
  preparation makes it again), `InOrder` (the queue is the end of what was captured and the
  workspace the rest, but for a first element that may be both: a write that was applied
  although it failed) and `Marked` (what a preparation waits for was captured).

### Before a generation: `Preparation_proofs`

From `LineShape`, `NoSceneIsNone`, `RecallSettings`, `RoomForAPlan`, `FactShape` and
`InquiryShape` (lines, settings and inquiries are of their types; a plan fits the cache):

* `SceneStaysSound`. `SceneInv`: every scene, stored, drafted or waiting to be saved, has each
  owner in one place, and one that was worked out of the version now stored keeps whoever stayed
  but those its own lines let go. One worked out of an older version may lose somebody, as the
  store takes it over the newer one (section 5): such a scene, and a correction of the user,
  starts the count of who stayed anew (`Keep`), and the property speaks of those since.
* `CastStaysSound`. `CastInv`: a plan that is still in the making exists only where the rules do
  not decide by the addressee, and the turn of the last call of the director is in the cache
  (`MaxKept` is not zero, so the newest plan never gives way to another): so it is not asked again.
* `RecallStaysSound`. `RecallInv`: whatever an owner is told is of an owner in scope and opened by
  that owner's permission, whichever of recall, expansion and verification added it.

### Ledgers: `Ledgers_proofs`

* `DetailsAreKept`. A handler writes back rows it read before awaits; `Knows` says that a row
  at the version it read is the row it read, so that its optimistic write deletes the prompts
  of exactly those details it invalidates.
* `DetailsFollowTheChat`. `FollowInv`: until two handlers cross, either all changes have been
  followed and the rows, with those of the generations still to be stored, show the chat
  (`InStep`); or one change is being followed, and what it is about to make of the rows will
  (`Effect`). A deletion shifts every later floor, in the chat and in the rows alike.
* `StockStaysSound` and `StockIsKept`, from `StockShape`. `AddsUp` relates the events of a unit to
  its state by their numbers: revision *n* is written by the event that found revision *n-1*, with
  the amount that one left. Events kept for history alone (`append_history`, number 0) are no part of
  this: they are written beside whatever state there is, and change none. The operations of a message are a recursive function (`Course`); that
  each of them keeps `AddsUp` is proved for the least step that would not. `StockInv` carries this
  past the awaits: what a command saw is the state of its unit or an older one (`SawSound`), and no
  event of a message was written since the capture in flight read which there are (`ReadingSound`),
  which is why a message that is captured again counts once (`CountSound`).
* `FactsStayInOrder`, from `ClaimShape` and for a ledger in which nobody writes between the reads
  and the write of an edit (`~EditsOverlap`; section 5 says what happens otherwise). `FactInv`:
  a superseded fact leads to a stored successor that is recorded as having replaced it (`Chained`),
  until a claim is captured again (`rescanned`); nothing of a claim is stored before it is captured
  (`Unseen`); and what a capture in flight read were facts in force, each as mutable as the row
  now stored, and each knowing what it replaced of the facts superseded since (`SeenOk`).
  The proof asked for `named`: an id of a manual fact is a fresh UUID and is not given twice
  (repository 249, 1199), where the model before let a removed one return. An id that the caller
  hands in again is not modelled.

### Background work: `Background_proofs`, `GraphAndPeople_proofs`

* `RepairsAreSound`. `RepairInv`: a resolved row has a stored repair, a row held by the phase
  is not resolved, and what is decided but not yet recorded is stored - so the audit, which is
  written second, never says more than the queue; and attempts in the row, in the snapshot of
  the phase and answers are counted against each other (`AttemptsCounted`, `AnswersCounted`).
* `DreamsAreSound`. `DreamInv`: one run holds the lock (`Locked`), and, as long as no reload
  cut an undo in two (`undoCut`), a job leaves a row (`RowsTell`) and whoever says applied is
  backed by a live change set or is being undone (`Backed`).
* `VectorsAreSound`. `VectorInv`: the service's books agree with its tasks (`Booked`), and what
  a task embeds is the text of its chat unless that was edited under way (`SeenOf`). An edit
  changes the text in one step and deletes the vector in another: in between (`leaving`), after
  a failed deletion and after a reload that cut it off (`kept`) the old vector stays.
* `GraphKeepsUp`. `GraphInv`: the operations a rebuild has left are in order - nodes, edges,
  edges to go, nodes to go - and are exactly what differs from what it wants (`LeftIsRest`);
  what it wants has both ends of each edge (`WantsHang`). After any transaction an edge with
  a missing end would be wanted, with the node still to come behind it, or unwanted, with its
  node gone before it: the order excludes both. `Promised` is why a ready graph is current:
  after an announcement a rebuild is due, or one under way will read or has read these facts.
  That `Operations` enumerates each set once (`SetInOrder`) rests on the library's theorems
  about finite sets.

### Names of people: `GraphAndPeople_proofs`

`NamesAlwaysStand`: `RegistrySpec => NamesStand`, from `RegistryShape` (no owner and no write are
told from all others; bounds are numbers). `NamesInv` holds of the registry in memory, of the one
stored, of the rows of every write in flight and of every audit an undo may bring back:

* `Regular`: a row's key is its owner and name, unless the user moved that name (`corrected`);
* `Sound`, unless a write failed, an older one landed after the last correction, or a discovery or
  a reload fell into a write (`behind`): the owner of a row is there and has the row's name in the
  list, but for names in `adrift`; who a candidate is tied to is there;
* what is in flight: the last correction (`Latest`) writes what is listed now, so whatever lands
  before it does not matter; a capture that took its rows after the last correction (`Carried`)
  holds all that is stored, and only discoveries came after it (`Covered`, `Same`). A commit of a
  capture deletes no rows (`Upserted`), so `Covered` is what makes the store its rows rather than a
  mixture.

Every discovery, whichever of its branches it takes, tells more of one owner or asks about
nobody (`Discovers`): rows of others stay, and rows it writes have the key of the owner it is for.
From this alone follows `DiscoveryKeepsNames`: for another owner a name can only get a second
meaning, which makes it unclear. Each correction keeps `Sound` for all names but those its own
result leaves adrift (`Keeps`).

The proof showed the property as it was stated before to be true only because of small bounds.
A person who was renamed keeps the id made of the old name. When several people wait with that
name, a discovery of it makes a new person of the same id (`actor-registry.ts` 453), whose list
does not have the names of the one it replaces, while their rows stay; a later confirmation
for another person then leaves these rows to whoever is merged away. The variable `adrift` names
them, and `NothingDangles` excuses them; what names *mean* stands in any case.

### The host: `Following_proofs`

* `ButtonsStayRight`. `LookupInv`: if a lookup in flight will hide the button of a reply whose
  detail is stored, the store was not announced yet or an edit is still to be followed
  (`AnswersAreExcused`), and an answer from before an announcement is dropped by its revision.
* `BindingStaysSound`. `BindInv`: at most one call of those that overlap is the latest
  (`OneLatest`), only that one is past the point where the application's chat is set, and each
  call that owns the actor repository is of the workspace it opened (`Bound`). The recall index has
  other writers: undoing a capture and editing a fact do not ask whether their chat is still bound,
  so `IndexIsOfBoundChat` allows the scopes these have written late (`late`); what the binds
  themselves write is of the bound chat only.

### Only model-checked

* Liveness under fairness and `ENABLED`, which the prover does not handle: `CallsEnd`,
  `RunsEnd`, `WindowsGetSummarized`, `ButtonsAppear`, `HostIsFollowed`, `CallsSettle`,
  `PhaseEnds`, `QueuedRuns`, `RequestsAreServed`.
* `SearchSound`. A ranking is a sequence that several passes score, sort, diversify and cut: what
  each pass computes is a fold over data, and the prover has no induction over data but the one by
  a least counterexample used for `Course` and `Through`, which would have to be repeated for each
  pass, with what sorting by a score returns. TLC checks it on all the libraries of its MC module.

## 5. Where the code and its documentation part

Each of these is a run with `expect: violation`; the trace TLC prints is the scenario, and
`PROJECT.json` quotes the line of the repository that says otherwise.

1. `ChangeSetsOrphans` - `upsertDerivedForChangeSet` (repository 2109) checks the audit once
   and writes without a precondition; a rollback in between leaves derived rows of the
   change set it removed.
2. `CaptureRescan` - a reload leaves the job `running`, which nothing resumes (5399, 2930);
   its stored batches go to the model again under a new job.
3. `ActorRebinding` - an alias keeps the id of its first owner (`actor-registry.ts` 237), so
   the first owner's next capture takes back a name that the user moved to another person.
4. `InventoryCorrections` - a capture computes the stock of an explicit snapshot from what it read
   before the model call (`multi-actor-capture-service.ts` 1784, 1827) and compares the version read
   at the commit: a command of the user in between is overwritten. What the model said itself goes
   through the update planner, which reads the states again after the call and keeps as history
   what is older; there only a command between the plan and the commit is overwritten.
5. `PromptReferences` - two numberings of people are merged in the prompt
   (`context-prefetcher.ts` 68), the answer is looked up in one: a claim may be stored for
   another person.
6. `BindingDirectory` - the directories are loaded only when the binding changes the scope of
   the repository (application 2648); after a start with a chat open they stay empty.

Behaviours the models show that have no run of their own:

* Capture. Leaving the chat during finalization and returning before the other is bound: the
  sets are rolled back, the job is completed (5186) and the progress moves on. Completing a
  job rewrites the row its change sets recorded (5211), so none passes the rollback preflight.
  A stale switch persists a paused job whose checkpoint is past batches that were rolled back
  (1568, 5289). A paused job left behind applies its batch index to a later window (4717). On a
  bind, reconciliation of repairs (897-926) marks queued and running jobs cancelled.
* Completion. While the last reply is polled or audited the queue is empty (runtime 573): the
  next message prepares its plan at once, the comparison of the last reply takes it
  (application 2073). `readCompletedAssistant` (runtime 683) asks which chat is open once and
  then polls whichever is.
* Change sets and facts. A capture compares the request of a used key when it walks the chain and
  sends its transaction many reads later: if another window committed another extraction of the
  batch in between, the SDK answers with that one's result (comment at repository 1472-1475) and
  the caller is told that its own is stored (1898-1900); TLC shows it with `AckedIsStored` for two
  clients of one batch with two `Payloads`. `upsertManualFact` (1199-1211) picks the facts it supersedes before
  it reads their versions; removing a fact in the middle of a chain (1331) makes its predecessor
  active again beside its successor.
* Recall. The list of facts that may be told is not applied before the nearest vectors are
  chosen (`memory-recall-index.ts` 605-613); facts removed while a search waits are still told;
  items cut by the limit have no reason of omission. A merge may take a required owner's only
  packet; `markUsed` writes whole traces read before awaits (1945-1964).
* Scene and cast. A likely or mentioned part overwrites the permission the rules required
  (`generation-cast-planner.ts` 281-294); a viewpoint that left stays complete; who leaves and
  comes back within 12 floors is in no list (`scene-state-reducer.ts` 166-186); a preparation
  committed late overwrites a correction (repository 634-663).
* Background. A dream that is scheduled while it runs is applied again (2131); the retry timer
  of a failed one is lost when a generation starts in its pause. A repair may embed beside a
  rebuild; a request between a sync's last empty scan and its end is lost (234-236); only one
  waiting chat is remembered. A rebuild of the user that crosses a scheduled one may leave a
  stale graph called ready; a failed rebuild is not tried again. The user's dismissal of a
  rejection (3598) is overwritten by a repair in flight; a crash between 1463 and 1468 leaves
  its row running. The vectors of an edited fact go in a later call whose failure is swallowed
  (repository 1188), or that a reload cuts off: the old vector stays until a rebuild or a repair.
* Details and buttons. Handlers whose writes conflict lose the later change; a detail
  committed beside a deletion is not moved. An edit taken back leaves a cached answer; a failed
  lookup hides the button until the next change.
* Binding. Undoing a capture (application 2420-2427), or editing a fact (432-434), while the chat
  is switched writes the facts of the chat left into the recall index of the chat bound since
  (`late`). The search filters by chat (`memory-recall-index.ts` 355), so nothing of the other chat
  is told, but after an undo the bound chat's own facts are not found until it is bound again; the
  finalizer of a capture takes care not to do so (1642-1645). A switch during the start is not heard; a failed refresh leaves the old workspace,
  which is why `HostIsFollowed` is stated relative to `lost`.
* People. `confirm()` (`actor-registry.ts` 581-585) drops all candidates without an owner; an
  undo of an older audit discards newer changes; a failed write leaves memory ahead of the store.
  A capture lists the people when it calls `commitCapture` (capture service 2429-2431) and sends
  the same rows again after a conflict (repository 1416-1429): a correction saved in between is
  overwritten in the store and is lost at the next reload. `ReloadKeepsNames` excuses it (`behind`).
  The old name of a renamed person, met in a capture while several people wait with it, makes a
  person of the same id in place of the renamed one (453).

`PROJECT.json` lists the forty hazards that matter most. Smaller ones it does not list: a key
that a cleared chat leaves behind in the SDK (2307), `flushCapture` returning the capture of
the chat left (4632), the scope compared again after several awaits while a prompt is built
(1975), derived vectors deleted after the transaction of a rollback (2046), and the review of
a rejection that captures the sources of one chat into the next (2249-2277).

## 6. Plan

Every safety property that a run checks, but one, is a theorem. What is left, in this order.

1. `SearchSound`: a lemma for each pass over a ranking, proved like `ThroughKeeps` for the least
   element that breaks it.
2. `FactLedger` with two edits that overlap (`EditsOverlap` taken apart into what a crossing
   write may lose) and with manual ids that a caller hands in again.
3. `CaptureWorkflow` with repository calls that are not atomic, composed with `ChangeSets`.
4. `ChatBinding` with several late writers of the index at once, and with saving settings.
5. The locations registry beside `ActorRegistry`: its hierarchy is what the names do not have.

## 7. Not modelled

Rendering and views (`ui/*`), prompt texts, JSON repair of model answers, scores beyond small
integers, settings forms and translations: they keep no shared state, or their correctness is
not a matter of order. The locations registry has the shape of `ActorRegistry`; the agent
tools' gateway appears in `Extraction` as what a turn may read; the capability monitor and the
review queue of the user are independent of what is modelled. The SDK, the host and the model
are external: they appear by what the code relies on. `PROJECT.json` gives every component its
status and the reason.
