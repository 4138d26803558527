----------------------------- MODULE ChatBinding -----------------------------
(***************************************************************************)
(* Which chat Memory works for.  The host tells of a switch; its context is *)
(* read again, the single-chat repository follows at once, and a rebind is  *)
(* scheduled that opens the chat's workspace, loads the directory of people  *)
(* and places and fills the recall index.  Captures and checks of the        *)
(* storage bind the chat as well, so several calls may be on their way: each *)
(* asks after every await whether it is the latest and its chat still open.  *)
(*                                                                         *)
(* A chat is a number, and belongs to a workspace (a character) of the same  *)
(* number; 0 is none.                                                       *)
(***************************************************************************)
EXTENDS Naturals, FiniteSets

CONSTANTS
    Chats,          \* chats of the host
    MaxSwitches,    \* bound: switches of the host's chat
    MaxBinds,       \* bound: binds by captures, messages sent, clearings, writes of the index
    MaxChecks,      \* bound: checks of the storage
    MaxBindFaults   \* bound: reads and openings that fail

VARIABLES
    host,        \* the chat open in the host
    context,     \* the host context: chat and workspace, as last read
    refreshes,   \* reads of the context on their way
    app,         \* what the application is bound to
    binds,       \* calls of bindCurrentChat on their way
    loop,        \* the coalescing rebind of the runtime
    check,       \* the check of the storage on its way
    clearing,    \* the clearing of a chat's data on its way
    writing,     \* the edit, undo or capture on its way that will write the recall index
    spent,       \* how much of the bounds is used
    lost,        \* history: something happened that only a later event mends
    late         \* history: scopes written into the index when another one was bound

bindingVars == <<host, context, refreshes, app, binds, loop, check, clearing, writing, spent, lost, late>>

Chatless == 0
Scope(chat, work) == [chat |-> chat, work |-> work]
Nowhere == Scope(Chatless, 0)
NoActors == [scope |-> Nowhere, directory |-> Nowhere]
NoWrite == [kind |-> "none", scope |-> Nowhere, chat |-> Chatless, bound |-> Nowhere, own |-> FALSE]

\* The index holds the facts of scopes; a scope without a chat has none.
FactsOf(scope) == IF scope.chat = Chatless THEN {} ELSE {scope}

\* bindStorageScope: a repository and registries of their own, still empty.
Actors(scope) == IF scope.work = 0 THEN NoActors ELSE [scope |-> scope, directory |-> Nowhere]

\* The runtime has read the context and bound the storage; the application starts.
BindingInit ==
    /\ host \in Chats \cup {Chatless}
    /\ context = Scope(host, host)
    /\ refreshes = {} /\ binds = {}
    /\ app = [lookup |-> context, actors |-> Actors(context), index |-> {}, bound |-> Nowhere,
              chat |-> Chatless, error |-> FALSE, available |-> FALSE]
    /\ loop = [phase |-> "start", requested |-> FALSE, refresh |-> FALSE]
    /\ check = [step |-> "none", ready |-> FALSE]
    /\ clearing = [chat |-> Chatless, own |-> FALSE] /\ writing = NoWrite /\ late = {}
    /\ spent = [switches |-> 0, binds |-> 0, checks |-> 0, faults |-> 0]
    /\ lost = FALSE

Spend(what) == spent' = [spent EXCEPT ![what] = @ + 1]

\* An await that may fail.
Answered(ok) ==
    IF ok THEN UNCHANGED spent ELSE spent.faults < MaxBindFaults /\ Spend("faults")

-----------------------------------------------------------------------------
(* bindCurrentChat *)

Elsewhere(scope) == app.actors = NoActors \/ app.actors.scope # scope

\* The call goes on as far as it can without waiting.
Entered(a, scope) ==
    [a EXCEPT !.bound = scope, !.chat = Chatless,
              !.index = IF scope.work = 0 THEN {} ELSE @,
              !.error = IF scope.work = 0 THEN FALSE ELSE @]
StepAfter(a, scope) ==
    IF scope.work = 0 THEN "done" ELSE IF a.available THEN "facts" ELSE "reopen"

Bind(caller, scope, step) == [caller |-> caller, scope |-> scope, step |-> step, latest |-> TRUE, own |-> TRUE]

\* Mutant: a request that comes while a rebind runs is left.
TurnOnce(asked) == [loop EXCEPT !.phase = "idle", !.requested = asked]

\* The rebind has ended, whatever came of it, and looks for another request.
Turn(asked) == [loop EXCEPT !.phase = IF asked THEN "turn" ELSE "idle", !.requested = asked]

OfRuntime(caller) == caller \in {"loop", "start"}

\* The calls on their way once `others` go on and one more has come to a step.
Calls(others, b) == IF b.step = "done" THEN others ELSE others \cup {b}

\* A call that was on its way when another begins.
Overtaken(o, moved) == [o EXCEPT !.latest = FALSE, !.own = @ /\ ~moved]

\* A call begins, over the application state a: the calls before it are stale.
\* asked: another rebind is asked for already.
BeginBind(caller, a, scope, asked) ==
    LET moved == Elsewhere(scope)
        there == [a EXCEPT !.lookup = scope, !.actors = IF moved THEN Actors(scope) ELSE @]
        opens == moved /\ scope.work # 0
        b == Bind(caller, scope, IF opens THEN "open" ELSE StepAfter(there, scope))
    IN  /\ app' = IF opens THEN there ELSE Entered(there, scope)
        /\ binds' = Calls({Overtaken(o, moved) : o \in binds}, b)
        /\ clearing' = [clearing EXCEPT !.own = @ /\ ~moved]
        /\ writing' = [writing EXCEPT !.own = @ /\ ~moved]
        /\ loop' = IF ~OfRuntime(caller) THEN loop
                   ELSE IF b.step = "done" THEN Turn(asked)
                   ELSE [loop EXCEPT !.phase = "bind", !.requested = asked]

\* Mutant: a call goes on whatever has happened since.
WhicheverCall(b) == TRUE

\* isCurrent
Current(b) == b.latest /\ context = b.scope

\* The call goes on to a step, or has returned.
GoesOn(b, step) ==
    /\ binds' = Calls(binds \ {b}, [b EXCEPT !.step = step])
    /\ loop' = IF step = "done" /\ OfRuntime(b.caller) THEN Turn(loop.requested) ELSE loop

BindFailed(b) == IF Current(b) THEN [app EXCEPT !.index = {}, !.error = TRUE] ELSE app

BindElse == UNCHANGED <<host, context, refreshes, check, clearing, writing, lost, late>>

\* The workspace is opened with its collections.
OpenScope ==
    \E b \in binds, ok \in BOOLEAN :
        /\ b.step = "open" /\ Answered(ok)
        /\ GoesOn(b, IF ok /\ Current(b) THEN "directory" ELSE "done")
        /\ app' = IF ok THEN app ELSE BindFailed(b)
        /\ BindElse

\* hydrate: into the registries the call was made for, if they are still in use.
Hydrated(b) == IF b.own THEN [app EXCEPT !.actors.directory = b.scope] ELSE app

\* reloadActorDirectoryState
LoadDirectory ==
    \E b \in binds, ok \in BOOLEAN :
        /\ b.step = "directory" /\ Answered(ok)
        /\ GoesOn(b, IF ok /\ Current(b) THEN StepAfter(app, b.scope) ELSE "done")
        /\ app' = IF ~ok THEN BindFailed(b)
                  ELSE IF Current(b) THEN Entered(Hydrated(b), b.scope) ELSE Hydrated(b)
        /\ BindElse

\* A storage that was away is opened again.
Reopen ==
    \E b \in binds, ok \in BOOLEAN :
        /\ b.step = "reopen" /\ Answered(ok)
        /\ GoesOn(b, IF ok /\ Current(b) THEN "settings" ELSE "done")
        /\ app' = IF ~ok THEN BindFailed(b) ELSE [app EXCEPT !.available = @ \/ Current(b)]
        /\ BindElse

LoadSettings ==
    \E b \in binds, ok \in BOOLEAN :
        /\ b.step = "settings" /\ Answered(ok)
        /\ GoesOn(b, IF ok /\ Current(b) THEN "facts" ELSE "done")
        /\ app' = IF ok THEN app ELSE BindFailed(b)
        /\ BindElse

\* The facts fill the index, and the chat is bound.
LoadFacts ==
    \E b \in binds, ok \in BOOLEAN :
        /\ b.step = "facts" /\ Answered(ok) /\ GoesOn(b, "done")
        /\ app' = IF ~ok THEN BindFailed(b)
                  ELSE IF ~Current(b) THEN app
                  ELSE [app EXCEPT !.index = FactsOf(b.scope),
                                   !.chat = b.scope.chat, !.error = FALSE]
        /\ BindElse

-----------------------------------------------------------------------------
(* The runtime: start, events, the coalescing rebind. *)

\* MemoryApplication.start: a failure leaves it without a storage.
StartApplication ==
    /\ loop.phase = "start"
    /\ \E ok \in BOOLEAN :
          /\ Answered(ok)
          /\ IF ok THEN BeginBind("start", [app EXCEPT !.available = TRUE], context, FALSE)
             ELSE /\ app' = [app EXCEPT !.error = TRUE] /\ loop' = Turn(FALSE)
                  /\ UNCHANGED <<binds, clearing, writing>>
    /\ UNCHANGED <<host, context, refreshes, check, lost, late>>

\* Events are heard once the application has started and bound its chat.
Heard == loop.phase # "start" /\ ~\E b \in binds : b.caller = "start"

\* The chat's key is taken from the event, its workspace read afterwards.
SwitchChat ==
    /\ spent.switches < MaxSwitches /\ Spend("switches")
    /\ \E c \in (Chats \cup {Chatless}) \ {host} :
          /\ host' = c
          /\ IF Heard
             THEN /\ context' = [context EXCEPT !.chat = c]
                  /\ refreshes' = refreshes \cup {[caller |-> "event", id |-> spent.switches, step |-> "chat"]}
                  /\ UNCHANGED lost
             ELSE lost' = TRUE /\ UNCHANGED <<context, refreshes>>
    /\ UNCHANGED <<app, binds, loop, check, clearing, writing, late>>

Schedule(refresh) ==
    loop' = [phase |-> IF loop.phase = "idle" THEN "turn" ELSE loop.phase, requested |-> TRUE,
             refresh |-> loop.refresh \/ refresh]

SendMessage ==
    /\ Heard /\ spent.binds < MaxBinds /\ Spend("binds")
    /\ Schedule(TRUE)
    /\ UNCHANGED <<host, context, refreshes, app, binds, check, clearing, writing, lost, late>>

\* The chat first, then the character.
RefreshChat ==
    \E r \in refreshes :
        /\ r.step = "chat"
        /\ context' = [context EXCEPT !.chat = host]
        /\ refreshes' = (refreshes \ {r}) \cup {[r EXCEPT !.step = "character"]}
        /\ UNCHANGED <<host, app, binds, loop, check, clearing, writing, spent, lost, late>>

\* prepareCurrentChatLookupScope
LookupFirst(scope) == [app EXCEPT !.lookup = scope]

RefreshCharacter ==
    \E r \in refreshes :
        /\ r.step = "character" /\ refreshes' = refreshes \ {r}
        /\ context' = [context EXCEPT !.work = host]
        /\ IF r.caller = "event"
           THEN Schedule(FALSE) /\ app' = LookupFirst(context') /\ UNCHANGED <<binds, clearing, writing>>
           ELSE BeginBind("loop", app, context', loop.requested)
        /\ UNCHANGED <<host, check, spent, lost, late>>

\* The host's answer fails: a warning, and for the rebind the end of its turn.
RefreshFails ==
    \E r \in refreshes :
        /\ Answered(FALSE) /\ refreshes' = refreshes \ {r} /\ lost' = TRUE
        /\ loop' = IF r.caller = "loop" THEN Turn(loop.requested) ELSE loop
        /\ UNCHANGED <<host, context, app, binds, check, clearing, writing, late>>

\* A turn of the rebind: what was asked for is taken, all at once.
RebindTurn ==
    /\ loop.phase = "turn"
    /\ IF loop.refresh
       THEN /\ refreshes' = refreshes \cup {[caller |-> "loop", id |-> 0, step |-> "chat"]}
            /\ loop' = [phase |-> "refresh", requested |-> FALSE, refresh |-> FALSE]
            /\ UNCHANGED <<app, binds, clearing, writing>>
       ELSE UNCHANGED refreshes /\ BeginBind("loop", app, context, FALSE)
    /\ UNCHANGED <<host, context, check, spent, lost, late>>

-----------------------------------------------------------------------------
(* Others that bind the chat. *)

\* A capture has ended.
CaptureBinds ==
    /\ Heard /\ app.available /\ context.chat # Chatless
    /\ spent.binds < MaxBinds /\ Spend("binds")
    /\ BeginBind("capture", app, context, loop.requested)
    /\ UNCHANGED <<host, context, refreshes, check, lost, late>>

\* getSqliteStatus: the health, then the collections of the bound workspace.
BeginCheck ==
    /\ Heard /\ check.step = "none" /\ spent.checks < MaxChecks /\ Spend("checks")
    /\ check' = [check EXCEPT !.step = "health"]
    /\ UNCHANGED <<host, context, refreshes, app, binds, loop, clearing, writing, lost, late>>

CheckFailed == check' = [step |-> "none", ready |-> FALSE] /\ app' = [app EXCEPT !.available = FALSE, !.error = TRUE]
CheckElse == UNCHANGED <<host, context, refreshes, lost, late>>

ReadHealth ==
    /\ check.step = "health"
    /\ \/ /\ \E ready \in BOOLEAN : Answered(ready) /\ check' = [step |-> "guard", ready |-> ready]
          /\ UNCHANGED app
       \/ Answered(FALSE) /\ CheckFailed
    /\ CheckElse /\ UNCHANGED <<binds, loop, clearing, writing>>

\* A storage that is back, or a chat in error, is bound again.
GuardCheck ==
    /\ check.step = "guard"
    /\ LET back == [app EXCEPT !.available = check.ready]
           Done == check' = [step |-> "none", ready |-> FALSE]
       IN  \/ /\ UNCHANGED spent
              /\ IF check.ready /\ ~app.available
                 THEN check' = [check EXCEPT !.step = "settings"] /\ app' = back /\ UNCHANGED <<binds, loop, clearing, writing>>
                 ELSE IF check.ready /\ app.error THEN Done /\ BeginBind("check", back, context, loop.requested)
                 ELSE Done /\ app' = back /\ UNCHANGED <<binds, loop, clearing, writing>>
           \/ /\ check.ready /\ app.actors # NoActors /\ Answered(FALSE)
              /\ CheckFailed /\ UNCHANGED <<binds, loop, clearing, writing>>
    /\ CheckElse

CheckSettings ==
    /\ check.step = "settings"
    /\ \/ UNCHANGED spent /\ check' = [step |-> "none", ready |-> FALSE] /\ BeginBind("check", app, context, loop.requested)
       \/ Answered(FALSE) /\ CheckFailed /\ UNCHANGED <<binds, loop, clearing, writing>>
    /\ CheckElse

\* clearCurrentChatData: the calls on their way become stale, none takes their place.
BeginClear ==
    /\ Heard /\ app.available /\ context.chat # Chatless /\ clearing.chat = Chatless
    /\ spent.binds < MaxBinds /\ Spend("binds")
    /\ clearing' = [chat |-> context.chat, own |-> TRUE]
    /\ lost' = (lost \/ app.chat # context.chat)
    /\ binds' = {[b EXCEPT !.latest = FALSE] : b \in binds}
    /\ UNCHANGED <<host, context, refreshes, app, loop, check, writing, late>>

EndClear ==
    /\ clearing.chat # Chatless
    /\ clearing' = [chat |-> Chatless, own |-> FALSE]
    /\ \E ok \in BOOLEAN :
          /\ Answered(ok)
          /\ IF ok /\ clearing.own /\ context.chat = clearing.chat
             THEN /\ app' = [app EXCEPT !.index = {}, !.error = FALSE]
                  /\ lost' = (lost \/ app.chat # context.chat)
             ELSE UNCHANGED <<app, lost>>
    /\ UNCHANGED <<host, context, refreshes, binds, loop, check, writing, late>>

-----------------------------------------------------------------------------
(* Others that write the index. *)

\* A fact is edited, a capture undone, or its facts are read again when it has
\* ended: the facts are those of the repository in use when the call was made.
BeginWrite(kind) ==
    /\ Heard /\ app.actors # NoActors /\ context.chat # Chatless /\ writing = NoWrite
    /\ spent.binds < MaxBinds /\ Spend("binds")
    /\ writing' = [kind |-> kind, scope |-> app.actors.scope, chat |-> context.chat,
                   bound |-> app.bound, own |-> TRUE]
    /\ UNCHANGED <<host, context, refreshes, app, binds, loop, check, clearing, lost, late>>

WriteElse == UNCHANGED <<host, context, refreshes, binds, loop, check, clearing, lost>>
Late(scope) == late' = IF scope = app.bound THEN late ELSE late \cup {scope}

\* An undo reads the directory again, and then the facts of the repository in use by now.
UndoReads ==
    /\ writing.kind = "undo"
    /\ \E ok \in BOOLEAN :
          /\ Answered(ok)
          /\ app' = IF ok /\ writing.own THEN [app EXCEPT !.actors.directory = writing.scope] ELSE app
          /\ writing' = IF ok /\ app.actors # NoActors
                        THEN [writing EXCEPT !.kind = "undone", !.scope = app.actors.scope, !.own = FALSE]
                        ELSE NoWrite
    /\ WriteElse /\ UNCHANGED late

\* A capture asks whether its chat is still the one of the context and the scope
\* that is bound the same; an edit and an undo do not ask.
Asked(w) == w.kind = "capture" => context.chat = w.chat /\ app.bound = w.bound

\* An edited fact is added; the others fill the index anew.
EndWrite ==
    /\ writing.kind \in {"edit", "undone", "capture"} /\ writing' = NoWrite
    /\ \E ok \in BOOLEAN :
          /\ Answered(ok)
          /\ IF ok /\ Asked(writing)
             THEN /\ app' = [app EXCEPT !.index = FactsOf(writing.scope) \cup (IF writing.kind = "edit" THEN @ ELSE {})]
                  /\ Late(writing.scope)
             ELSE UNCHANGED <<app, late>>
    /\ WriteElse

\* The overview cannot be read.
OverviewFails ==
    /\ Heard /\ app.available /\ context.chat # Chatless /\ Answered(FALSE)
    /\ app' = [app EXCEPT !.index = {}, !.error = TRUE]
    /\ WriteElse /\ UNCHANGED <<writing, late>>

BindingWork ==
    \/ StartApplication \/ RefreshChat \/ RefreshCharacter \/ RebindTurn
    \/ OpenScope \/ LoadDirectory \/ Reopen \/ LoadSettings \/ LoadFacts
    \/ ReadHealth \/ GuardCheck \/ CheckSettings \/ EndClear \/ UndoReads \/ EndWrite
BindingNext ==
    \/ BindingWork \/ RefreshFails
    \/ SwitchChat \/ SendMessage \/ CaptureBinds \/ BeginCheck \/ BeginClear \/ OverviewFails
    \/ \E kind \in {"edit", "undo", "capture"} : BeginWrite(kind)
\* Awaited answers come, and the turns of the rebind are taken.
BindingSpec == BindingInit /\ [][BindingNext]_bindingVars /\ WF_bindingVars(BindingWork)

-----------------------------------------------------------------------------
BindingTypeOK ==
    /\ app.chat \in Chats \cup {Chatless}
    /\ loop.phase \in {"start", "idle", "turn", "refresh", "bind"}
    /\ Cardinality({b \in binds : b.latest}) <= 1

\* However the calls that fill the recall index overlap, it holds the facts of the
\* bound chat only; those of another chat were written by an edit or an undo that
\* ended when that chat was bound no longer, or by a capture before it was bound.
IndexIsOfBoundChat ==
    app.chat # Chatless => app.bound.chat = app.chat /\ app.index \subseteq {app.bound} \cup late

\* The directory of people in use is the one of the workspace in use, or empty.
DirectoryIsOwn == app.actors.directory \in {Nowhere, app.actors.scope}

\* The buttons under messages look up details in the chat the context shows as
\* soon as the context is read, whether or not the chat is bound.
LookupFollows == (refreshes = {} /\ ~lost) => app.lookup = context

\* What serves the bound chat is that chat's, however the calls that bind overlap.
BindingSound == BindingTypeOK /\ IndexIsOfBoundChat /\ DirectoryIsOwn /\ LookupFollows

\* In the end the chat of the host is bound, or an error says that it is not.
HostIsFollowed == <>[](lost \/ app.error \/ app.chat = host)

\* Once a chat is bound, its people are known.
DirectoryIsLoaded ==
    (app.chat # Chatless /\ binds = {}) => app.actors.directory = app.actors.scope
=============================================================================
