------------------------- MODULE GenerationCompletion -------------------------
(***************************************************************************)
(* MemoryRuntime's handling of finished generations: message-received and   *)
(* generation-ended both announce a reply, either may come first or never;  *)
(* the reply's text may settle later, so a handler polls for it; the        *)
(* completion is put into a queue, which one flush at a time writes to the  *)
(* workspace with bounded retries; then the plan the generation was         *)
(* prepared with is compared with the reply.  The next message flushes the  *)
(* queue before it prepares a plan of its own.  The user may switch chats   *)
(* at any point.                                                           *)
(*                                                                         *)
(* A plan stands for lastPreparedGeneration, a turn for one generation of   *)
(* the host and the reply it produces.  A chat switch, its chat-changed     *)
(* handler and the rebinding it schedules are one step.                    *)
(***************************************************************************)
EXTENDS Naturals, Sequences, FiniteSetsExt

CONSTANTS
    Chats,
    MaxTurns,     \* bound: generations
    MaxSwitches,  \* bound: chat switches
    MaxFails,     \* bound: failed writes
    Attempts,     \* writes a flush tries for one completion
    Reports,      \* how the host may announce a reply
    NoChat, NoPlan, NoScope, NoPrep, NoMessage

ASSUME Sizes ==
    /\ MaxTurns \in Nat
    /\ MaxSwitches \in Nat
    /\ MaxFails \in Nat
    /\ Attempts \in Nat \ {0}

\* "carried": message-received with the reply; "bare": message-received without
\* it; "ended": generation-ended without a message-received before it.
ASSUME ReportsKnown == Reports \subseteq {"carried", "bare", "ended"}

Turns == 1..MaxTurns
Plans == [turn : Turns, chat : Chats]
\* The reply of a turn, or (turn 0) one the chat had before.
Messages == [turn : 0..MaxTurns, chat : Chats]
Commits == [by : Turns, via : {"received", "ended"}, epoch : 0..MaxSwitches,
            chat : Chats, plan : Plans \cup {NoPlan}, msg : Messages \cup {NoMessage}]
Handlers == [by : Turns, via : {"received", "ended"}, epoch : 0..MaxSwitches,
             chat : Chats, plan : Plans \cup {NoPlan}, step : {"read", "audit", "collect"}]

ASSUME NoneIsNoValue ==
    /\ NoChat \notin Chats
    /\ NoPlan \notin Plans
    /\ NoMessage \notin Messages

VARIABLES
    chat,        \* the chat the host shows
    turn, home,  \* generations so far, and the chat of each
    phase,       \* of the current turn: "idle", "sent", "started", "generating"
    left,        \* its events not yet delivered
    settled,     \* turns whose reply is in the chat
    plan,        \* lastPreparedGeneration
    prep,        \* the onPromptReady call in flight
    late,        \* one of a chat that was left is still in flight
    prompted,    \* promptPreparedForActiveGeneration
    scope,       \* activeGenerationCompletionScope
    claimed,     \* generationCompletionClaimedByMessage
    handlers,    \* onGenerationEnded calls that wait for something
    queue,       \* pendingGenerationCompletions
    flush,       \* the flush in progress
    stored,      \* completions in the workspace, in the order of their first write
    captured,    \* history: completions in the order they were queued
    reconciled,  \* history: plans compared with a reply
    switches, fails

host == <<chat, turn, home, phase, left, settled, switches>>
preparing == <<plan, prep, late, prompted>>
ending == <<scope, claimed, handlers>>
saving == <<queue, flush, stored, captured, fails>>
vars == <<host, preparing, ending, saving, reconciled>>

Idle == [pc |-> "idle", try |-> 1, by |-> 0, plan |-> NoPlan]
Persisting == [pc |-> "persist", try |-> 1, by |-> 0, plan |-> NoPlan]

Init ==
    /\ chat \in Chats
    /\ turn = 0 /\ home = [t \in Turns |-> NoChat]
    /\ phase = "idle" /\ left = {} /\ settled = {}
    /\ plan = NoPlan /\ prep = NoPrep /\ late = FALSE /\ prompted = FALSE
    /\ scope = NoScope /\ claimed = FALSE /\ handlers = {}
    /\ queue = <<>> /\ flush = Idle
    /\ stored = <<>> /\ captured = <<>> /\ reconciled = <<>>
    /\ switches = 0 /\ fails = 0

-----------------------------------------------------------------------------
\* flushPendingGenerationCompletion on a queue q: one flush at a time.
StartFlush(q) == flush' = IF q # <<>> /\ flush = Idle THEN Persisting ELSE flush

\* Mutant: the flush goes on only for itself.
ContinueAlone(q) ==
    /\ flush' = IF q = <<>> THEN Idle ELSE Persisting
    /\ prep' = prep

\* The flush goes on with the next completion or ends; a caller that waited for
\* it then goes on.
Continue(q) ==
    /\ flush' = IF q = <<>> THEN Idle ELSE Persisting
    /\ prep' = IF q = <<>> /\ prep # NoPrep /\ prep.step = "wait"
               THEN [prep EXCEPT !.step = "build"] ELSE prep

\* Mutant: a failed flush does not stop the caller that waited for it.
AbandonUnnoticed ==
    /\ flush' = Idle
    /\ prep' = IF prep # NoPrep /\ prep.step = "wait" THEN [prep EXCEPT !.step = "build"] ELSE prep

\* The flush failed: so does the onPromptReady that waited for it.
Abandon ==
    /\ flush' = Idle
    /\ prep' = IF prep # NoPrep /\ prep.step = "wait" THEN NoPrep ELSE prep

Enqueue(c) ==
    /\ queue' = Append(queue, c)
    /\ captured' = Append(captured, c)
    /\ StartFlush(queue')
    /\ UNCHANGED <<stored, fails>>

\* What a reader of the chat on screen may take for the reply to plan p: the
\* newest reply at or above the floor the plan is based on.  Floors of two chats
\* have nothing to do with each other.
Replies(p) ==
    LET newest == [chat |-> chat, turn |-> Max({0} \cup {t \in settled : home[t] = chat})]
    IN  IF p = NoPlan THEN {newest}
        ELSE IF p.chat # chat THEN {newest, NoMessage}
        ELSE IF newest.turn >= p.turn THEN {newest} ELSE {NoMessage}

-----------------------------------------------------------------------------
(* The next turn. *)

\* onPromptReady up to its first await.
BeginPrep(t, inWindow) ==
    /\ prep' = [turn |-> t, inWindow |-> inWindow, mark |-> Len(captured),
                step |-> IF queue = <<>> THEN "build" ELSE "wait"]
    /\ StartFlush(queue)
    /\ UNCHANGED <<queue, stored, captured, fails>>

\* The user sends a message.
SendMessage ==
    /\ phase = "idle" /\ turn < MaxTurns
    /\ turn' = turn + 1
    /\ home' = [home EXCEPT ![turn'] = chat]
    /\ phase' = "sent" /\ left' = {}
    /\ prompted' = FALSE
    /\ BeginPrep(turn', TRUE)
    /\ UNCHANGED <<chat, settled, switches, plan, late, ending, reconciled>>

\* The user asks for another reply: no message-sent.
Regenerate ==
    /\ phase = "idle" /\ turn < MaxTurns
    /\ turn' = turn + 1
    /\ home' = [home EXCEPT ![turn'] = chat]
    /\ phase' = "sent" /\ left' = {}
    /\ UNCHANGED <<chat, settled, switches, preparing, ending, saving, reconciled>>

\* prompt-ready prepares what message-sent did not; nothing is built when the
\* last message is not recent.
PromptReady(inWindow) ==
    /\ phase \in {"sent", "started"} /\ prep = NoPrep /\ ~prompted
    /\ BeginPrep(turn, inWindow)
    /\ UNCHANGED <<host, plan, late, prompted, ending, reconciled>>

\* buildActorMemoryPrompt has a plan, or it failed, or was not called.
Prepared(works) ==
    /\ prep # NoPrep /\ prep.step = "build"
    /\ works => prep.inWindow
    /\ plan' = IF works THEN [turn |-> prep.turn, chat |-> chat] ELSE plan
    /\ prep' = NoPrep /\ prompted' = TRUE
    /\ UNCHANGED <<host, late, ending, saving, reconciled>>

\* A call of a chat that was left returns without a plan; its handler takes that
\* for a preparation, unless the flush it waited for failed.
LateReturns(flushed) ==
    /\ late /\ late' = FALSE
    /\ prompted' = (flushed \/ prompted)
    /\ UNCHANGED <<host, plan, prep, ending, saving, reconciled>>

GenerationStarted ==
    /\ phase = "sent"
    /\ phase' = "started"
    /\ scope' = [chat |-> chat, plan |-> plan]
    /\ claimed' = FALSE
    /\ UNCHANGED <<chat, turn, home, left, settled, switches, preparing, handlers, saving, reconciled>>

\* The host waits for the handlers of message-sent and prompt-ready.
Generate ==
    /\ phase = "started" /\ prep = NoPrep
    /\ phase' = "generating" /\ left' = {"received", "ended"}
    /\ UNCHANGED <<chat, turn, home, settled, switches, preparing, ending, saving, reconciled>>

\* The reply's text is complete.
Settle ==
    /\ phase = "generating" /\ turn \notin settled
    /\ settled' = settled \cup {turn}
    /\ UNCHANGED <<chat, turn, home, phase, left, switches, preparing, ending, saving, reconciled>>

\* The host takes the next message; an event it has not sent by then never comes.
TurnOver ==
    /\ phase = "generating"
    /\ phase' = "idle" /\ left' = {}
    /\ UNCHANGED <<chat, turn, home, settled, switches, preparing, ending, saving, reconciled>>

\* chat-changed: an onPromptReady in flight is no longer current; the plan
\* prepared last stays.
SwitchChat(c) ==
    /\ c # chat /\ switches < MaxSwitches
    /\ chat' = c /\ switches' = switches + 1
    /\ phase' = "idle"
    /\ scope' = NoScope /\ claimed' = FALSE
    /\ prep' = NoPrep /\ late' = (late \/ prep # NoPrep) /\ prompted' = FALSE
    /\ UNCHANGED <<turn, home, left, settled, plan, handlers, saving, reconciled>>

-----------------------------------------------------------------------------
(* The end of a generation. *)

\* onGenerationEnded up to its first await: the scope takes the plan prepared
\* last; with the reply at hand the completion is queued at once.
Complete(via, s, msg) ==
    LET p == IF s.chat = chat /\ plan # NoPlan THEN plan ELSE s.plan
    IN  IF msg # NoMessage
        THEN /\ Enqueue([by |-> turn, via |-> via, epoch |-> switches,
                         chat |-> s.chat, plan |-> p, msg |-> msg])
             /\ UNCHANGED handlers
        ELSE /\ handlers' = handlers \cup
                    {[by |-> turn, via |-> via, epoch |-> switches,
                      chat |-> s.chat, plan |-> p,
                      step |-> IF s.chat = chat THEN "read" ELSE "audit"]}
             /\ UNCHANGED saving

\* Mutant: the claim is not remembered.
ClaimUnnoticed == scope' = NoScope /\ claimed' = FALSE

\* generation-ended is to leave this generation alone.
Claim == scope' = NoScope /\ claimed' = TRUE

Received(how) ==
    /\ "received" \in left /\ how \in Reports
    /\ how = "carried" => turn \in settled /\ home[turn] = chat
    /\ left' = left \ {"received"}
    /\ IF scope = NoScope
       THEN UNCHANGED <<ending, prompted, saving>>
       ELSE /\ Claim /\ prompted' = FALSE
            /\ Complete("received", scope,
                        IF how = "carried" THEN [turn |-> turn, chat |-> chat] ELSE NoMessage)
    /\ UNCHANGED <<chat, turn, home, phase, settled, switches, plan, prep, late, reconciled>>

\* generation-ended: nothing to do when message-received had the scope; without
\* a scope the current one is taken, and refused if the event names another chat.
Ended ==
    /\ "ended" \in left
    /\ "ended" \in Reports \/ "received" \notin left
    /\ left' = left \ {"ended"}
    /\ prompted' = FALSE /\ claimed' = FALSE
    /\ IF claimed THEN UNCHANGED <<scope, handlers, saving>>
       ELSE /\ scope' = NoScope
            /\ LET s == IF scope # NoScope THEN scope ELSE [chat |-> chat, plan |-> plan]
               IN  IF home[turn] # s.chat THEN UNCHANGED <<handlers, saving>>
                   ELSE Complete("ended", s, NoMessage)
    /\ UNCHANGED <<chat, turn, home, phase, settled, switches, plan, prep, late, reconciled>>

\* readCompletedAssistant polls until the chat on screen has a reply with text,
\* or gives up; it looks at which chat that is only before the first poll.
ReadReply(h) ==
    /\ h.step = "read"
    /\ handlers' = handlers \ {h}
    /\ \E m \in Replies(h.plan) :
          Enqueue([by |-> h.by, via |-> h.via, epoch |-> h.epoch,
                   chat |-> h.chat, plan |-> h.plan, msg |-> m])
    /\ UNCHANGED <<host, preparing, scope, claimed, reconciled>>

\* The chat on screen has no message at all (another one than the turn's): no
\* usage, nothing to store.
ReadNothing(h) ==
    /\ h.step = "read" /\ \A t \in Turns : home[t] # chat
    /\ handlers' = (handlers \ {h}) \cup {[h EXCEPT !.step = "audit"]}
    /\ UNCHANGED <<host, preparing, scope, claimed, saving, reconciled>>

-----------------------------------------------------------------------------
(* The flush. *)

\* The write of the first completion in the queue; a retry of a write that did
\* reach the workspace changes nothing there.
Write == stored' = IF \E i \in DOMAIN stored : stored[i] = Head(queue)
                   THEN stored ELSE Append(stored, Head(queue))

\* Stored and taken off the queue; a reply of another chat than the current one
\* is not looked at further.
Persist ==
    /\ flush.pc = "persist"
    /\ Write
    /\ queue' = Tail(queue)
    /\ IF Head(queue).chat = chat
       THEN /\ flush' = [Idle EXCEPT !.pc = "audit", !.by = Head(queue).by]
            /\ UNCHANGED prep
       ELSE Continue(queue')
    /\ UNCHANGED <<host, plan, late, prompted, ending, captured, fails, reconciled>>

DropsFailed == queue' = Tail(queue)

\* Attempts are bounded, and a completion outlives them.
MayRetry == flush.try < Attempts
KeepsFailed == queue' = queue

\* A write is reported as failed, whether or not it was applied: it is tried
\* again, or the flush gives up and the completion stays where it is.
PersistFails(applied, retryable) ==
    /\ flush.pc = "persist" /\ fails < MaxFails
    /\ fails' = fails + 1
    /\ IF applied THEN Write ELSE UNCHANGED stored
    /\ IF retryable /\ MayRetry
       THEN flush' = [flush EXCEPT !.try = @ + 1] /\ UNCHANGED <<prep, queue>>
       ELSE Abandon /\ KeepsFailed
    /\ UNCHANGED <<host, plan, late, prompted, ending, captured, reconciled>>

\* Mutant: the plan stays while it is compared.
TakePlanLater == plan' = plan

\* reconcileGeneratedMessage takes the plan of the current chat, once.
TakePlan == plan' = NoPlan
HasPlan == plan # NoPlan /\ plan.chat = chat

\* ... and compares it with the newest reply on screen.
Compare(by, p) ==
    \E m \in Replies(p) :
        reconciled' = IF m = NoMessage THEN reconciled
                      ELSE Append(reconciled, [by |-> by, plan |-> p, msg |-> m])

FlushAudited ==
    /\ flush.pc = "audit"
    /\ IF HasPlan
       THEN /\ TakePlan
            /\ flush' = [flush EXCEPT !.pc = "collect", !.plan = plan]
            /\ UNCHANGED prep
       ELSE Continue(queue) /\ UNCHANGED plan
    /\ UNCHANGED <<host, late, prompted, ending, queue, stored, captured, fails, reconciled>>

FlushCompared ==
    /\ flush.pc = "collect"
    /\ Compare(flush.by, flush.plan)
    /\ Continue(queue)
    /\ UNCHANGED <<host, plan, late, prompted, ending, queue, stored, captured, fails>>

\* The same for a handler that had nothing to store.
Audited(h) ==
    /\ h.step = "audit"
    /\ IF HasPlan
       THEN /\ TakePlan
            /\ handlers' = (handlers \ {h}) \cup {[h EXCEPT !.step = "collect", !.plan = plan]}
       ELSE handlers' = handlers \ {h} /\ UNCHANGED plan
    /\ UNCHANGED <<host, prep, late, prompted, scope, claimed, saving, reconciled>>

Compared(h) ==
    /\ h.step = "collect"
    /\ handlers' = handlers \ {h}
    /\ Compare(h.by, h.plan)
    /\ UNCHANGED <<host, preparing, scope, claimed, saving>>

-----------------------------------------------------------------------------
Host ==
    \/ SendMessage
    \/ Regenerate
    \/ \E inWindow \in BOOLEAN : PromptReady(inWindow)
    \/ GenerationStarted
    \/ Generate
    \/ Settle
    \/ TurnOver
    \/ \E c \in Chats : SwitchChat(c)
    \/ \E how \in {"carried", "bare"} : Received(how)
    \/ Ended

Flushing ==
    \/ Persist
    \/ \E applied, retryable \in BOOLEAN : PersistFails(applied, retryable)
    \/ FlushAudited
    \/ FlushCompared

Handling(h) ==
    \/ ReadReply(h)
    \/ ReadNothing(h)
    \/ Audited(h)
    \/ Compared(h)

Next ==
    \/ Host
    \/ \E works \in BOOLEAN : Prepared(works)
    \/ \E flushed \in BOOLEAN : LateReturns(flushed)
    \/ Flushing
    \/ \E h \in handlers : Handling(h)

\* A promise that is awaited settles: the plugin's own calls go on; the host and
\* the user need not.
Fairness ==
    /\ WF_vars(Flushing)
    /\ WF_vars(\E works \in BOOLEAN : Prepared(works))
    /\ WF_vars(\E h \in handlers : Handling(h))

Spec == Init /\ [][Next]_vars /\ Fairness

-----------------------------------------------------------------------------
\* The shape of the state; no flush tries more often than it may.
TypeOK ==
    /\ chat \in Chats
    /\ turn \in 0..MaxTurns /\ home \in [Turns -> Chats \cup {NoChat}]
    /\ phase \in {"idle", "sent", "started", "generating"}
    /\ left \subseteq {"received", "ended"} /\ settled \subseteq Turns
    /\ plan \in Plans \cup {NoPlan}
    /\ prep \in [turn : Turns, inWindow : BOOLEAN, mark : Nat, step : {"wait", "build"}]
                \cup {NoPrep}
    /\ late \in BOOLEAN /\ prompted \in BOOLEAN /\ claimed \in BOOLEAN
    /\ scope \in [chat : Chats, plan : Plans \cup {NoPlan}] \cup {NoScope}
    /\ handlers \subseteq Handlers
    /\ queue \in Seq(Commits) /\ stored \in Seq(Commits) /\ captured \in Seq(Commits)
    /\ flush \in [pc : {"idle", "persist", "audit", "collect"}, try : 1..Attempts,
                  by : 0..MaxTurns, plan : Plans \cup {NoPlan}]
    /\ reconciled \in Seq([by : Turns, plan : Plans, msg : Messages])
    /\ switches \in 0..MaxSwitches /\ fails \in 0..MaxFails

\* Every completion is either off the queue and in the workspace, or in the
\* queue, in the order the replies came; only the first one in the queue may have
\* reached the workspace already: whatever fails, and however often, nothing is
\* lost, stored twice or overtaken.  pendingGenerationCompletions is pushed to
\* while a flush is shifting it.
KeptInOrder ==
    LET off == Len(captured) - Len(queue)
    IN  /\ off >= 0
        /\ queue = SubSeq(captured, off + 1, Len(captured))
        /\ \/ stored = SubSeq(captured, 1, off)
           \/ queue # <<>> /\ stored = SubSeq(captured, 1, off + 1)

\* The completions of the replies reach the workspace in order, and stay there.
CompletionsInOrder == TypeOK /\ KeptInOrder

\* message-received and generation-ended announce the same reply: while its chat
\* stays open it is captured once, in whatever order they come.
CapturedOnce ==
    \A i, j \in DOMAIN captured :
        captured[i].by = captured[j].by /\ captured[i].epoch = captured[j].epoch => i = j

\* No plan is compared with two replies, although a flush and handlers of replies
\* without usage run side by side.
PlanOnce ==
    \A i, j \in DOMAIN reconciled : reconciled[i].plan = reconciled[j].plan => i = j

\* A new plan replaces the last one only when every completion captured before its
\* preparation began is in the workspace.
SavedFirst ==
    [][plan' \notin {plan, NoPlan} => Len(stored) >= prep.mark]_vars

\* Every call ends: no preparation waits for a flush that does not come to an end,
\* and no flush, poll or comparison stays behind.
CallsSettle ==
    /\ prep # NoPrep ~> prep = NoPrep
    /\ flush # Idle ~> flush = Idle
    /\ handlers # {} ~> handlers = {}
=============================================================================
