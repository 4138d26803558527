----------------------------- MODULE VectorSync -----------------------------
(***************************************************************************)
(* The vector index: syncs that embed the facts of a chat which have no    *)
(* vector, a full rebuild, and the repair after an undo. One promise names *)
(* the sync or repair in flight, one the rebuild, and one chat may wait.   *)
(* A chat's facts are one fact, told apart by its text; 0 is no fact, or   *)
(* no vector. Embedding routes do not change.                              *)
(***************************************************************************)
EXTENDS Naturals, Sequences

CONSTANTS VectorChats, NoChat,
          MaxTexts,       \* bound on the edits of a chat
          MaxLives,       \* bound on starts and stops
          MaxRequests,    \* bound on syncs that a binding or setting asks for
          MaxVectorFaults

ASSUME NoChatIsNone == NoChat \notin VectorChats
ASSUME VectorBounds == MaxTexts \in Nat \ {0}

VARIABLES text, vectors,
          index,          \* the service: its three tasks, promises, the waiting chat
          shown,          \* the chat the repository is bound to
          barrier, buffered,   \* an initialization holds requests back
          requests, vectorFaults,
          leaving,        \* edits of each chat whose vector is still to be deleted
          owed,           \* history: the chat of the last request, until it is scanned
          raced,          \* history: chats edited while a text of theirs was embedded
          kept            \* history: chats whose vector an edit failed to delete
histories == <<raced, kept>>
vectorVars == <<text, vectors, index, shown, barrier, buffered, requests, vectorFaults, leaving, owed, histories>>

NoTask == [pc |-> "idle", chat |-> NoChat, life |-> 0, seen |-> 0]
TaskNames == {"sync", "rebuild", "repair"}
Rebuilding(x) == x.rebuild.pc # "idle"
Embeds(task) == task.pc \in {"embed", "write"}

VectorTypeOK ==
    /\ text \in [VectorChats -> 0..MaxTexts] /\ vectors \in [VectorChats -> 0..MaxTexts]
    /\ \A t \in TaskNames :
          index[t].pc \in {"idle", "waitRebuild", "wait", "clear", "route", "scan", "embed", "write", "cover"}
    /\ index.current \in {"none", "sync", "repair"} /\ index.pending \in VectorChats \cup {NoChat}
    /\ index.current # "none" => index[index.current].pc # "idle"
    /\ {barrier, index.active} \subseteq BOOLEAN /\ owed \in VectorChats \cup {NoChat}
    /\ leaving \in [VectorChats -> Nat]

VectorInit ==
    /\ text = [c \in VectorChats |-> 1] /\ vectors = [c \in VectorChats |-> 0]
    /\ index = [sync |-> NoTask, rebuild |-> NoTask, repair |-> NoTask, current |-> "none",
                pending |-> NoChat, active |-> TRUE, life |-> 0]
    /\ shown \in VectorChats /\ barrier = FALSE /\ buffered = << >>
    /\ requests = 0 /\ vectorFaults = 0 /\ leaving = [c \in VectorChats |-> 0]
    /\ owed = NoChat /\ raced = {} /\ kept = {}

VectorFault == vectorFaults < MaxVectorFaults /\ vectorFaults' = vectorFaults + 1

-----------------------------------------------------------------------------
(* The service's bookkeeping, as functions from its state to the next.     *)
Begun(x, pc, c) == [pc |-> pc, chat |-> c, life |-> x.life, seen |-> 0]
\* Mutant: a rebuild does not hold syncs back.
scheduleDuringRebuild(x, c) ==
    IF ~x.active THEN x
    ELSE IF x.current # "none" THEN [x EXCEPT !.pending = c]
    ELSE [x EXCEPT !.sync = Begun(x, "route", c), !.current = "sync"]
scheduleSync(x, c) ==
    IF ~x.active THEN x
    ELSE IF Rebuilding(x) \/ x.current # "none" THEN [x EXCEPT !.pending = c]
    ELSE [x EXCEPT !.sync = Begun(x, "route", c), !.current = "sync"]
Promoted(x) ==
    LET rest == [x EXCEPT !.pending = NoChat]
    IN  IF x.pending = NoChat THEN rest ELSE scheduleSync(rest, x.pending)
(* Everyone in waitForSyncIdle goes on once no sync is in flight. *)
Woken(x) ==
    IF x.current # "none" THEN x
    ELSE LET y == IF x.rebuild.pc = "wait" THEN [x EXCEPT !.rebuild.pc = "clear"] ELSE x
         IN  IF y.repair.pc = "wait"
             THEN [y EXCEPT !.repair = Begun(y, "route", y.repair.chat), !.current = "repair"] ELSE y
finishSync(x, t) ==
    LET y == [x EXCEPT ![t] = NoTask, !.current = "none"]
    IN  Woken(IF Rebuilding(y) THEN y ELSE Promoted(y))
\* Mutant: the end of a rebuild forgets the chat that waits.
finishRebuildQuietly(x) ==
    LET y == [x EXCEPT !.rebuild = NoTask, !.pending = NoChat]
    IN  IF y.repair.pc = "waitRebuild" THEN Woken([y EXCEPT !.repair.pc = "wait"]) ELSE y
finishRebuild(x) ==
    LET y == Promoted([x EXCEPT !.rebuild = NoTask])
    IN  IF y.repair.pc = "waitRebuild" THEN Woken([y EXCEPT !.repair.pc = "wait"]) ELSE y
(* A rebuild takes a request for its own chat as covered. *)
Covered(x) == IF x.pending = x.rebuild.chat THEN [x EXCEPT !.pending = NoChat] ELSE x

-----------------------------------------------------------------------------
(* scheduleVectorSync: a change of facts, a binding or a setting asks for  *)
(* a sync; the last request is owed a scan, but for the ones of a chat     *)
(* whose rebuild is in flight.                                             *)
OwedAfter(x, c) == IF ~x.active THEN owed ELSE IF Rebuilding(x) /\ x.rebuild.chat = c THEN NoChat ELSE c
HeldBack(c) == \E n \in DOMAIN buffered : buffered[n] = c
Request(x, c) ==
    IF barrier THEN index' = x /\ buffered' = (IF HeldBack(c) THEN buffered ELSE Append(buffered, c)) /\ UNCHANGED owed
    ELSE index' = scheduleSync(x, c) /\ owed' = OwedAfter(x, c) /\ UNCHANGED buffered

(* A fact is edited or removed; its vector goes in a later call, which may *)
(* fail unnoticed. The caller asks for a sync when both have returned.     *)
RacedAfter(c) == IF \E t \in TaskNames : Embeds(index[t]) /\ index[t].chat = c THEN raced \cup {c} ELSE raced
EditText(v) ==
    /\ text[shown] \in 1..MaxTexts - 1 /\ v \in {0, text[shown] + 1}
    /\ text' = [text EXCEPT ![shown] = v] /\ leaving' = [leaving EXCEPT ![shown] = @ + 1]
    /\ raced' = RacedAfter(shown)
    /\ UNCHANGED <<vectors, index, shown, barrier, buffered, requests, vectorFaults, owed, kept>>
EditReturns(c) ==
    /\ leaving[c] > 0 /\ leaving' = [leaving EXCEPT ![c] = @ - 1]
    /\ Request(index, c)
    /\ UNCHANGED <<text, shown, barrier, requests, raced>>
deleteFactVectors(c) ==
    /\ EditReturns(c) /\ vectors' = [vectors EXCEPT ![c] = 0] /\ kept' = kept \ {c}
    /\ UNCHANGED vectorFaults
DeletionFails(c) ==
    /\ EditReturns(c) /\ VectorFault /\ kept' = kept \cup {c}
    /\ UNCHANGED vectors
AskForSync ==
    /\ requests < MaxRequests /\ requests' = requests + 1
    /\ \E c \in VectorChats : shown' = c /\ Request(index, c)
    /\ UNCHANGED <<text, vectors, barrier, vectorFaults, leaving, histories>>

(* An initialization raises the barrier; its end hands the held chats over *)
(* in the order they came: the first may start a sync, and each after it   *)
(* takes the waiting place of the one before, so that the last one waits.  *)
HandedOver(x, chats) ==
    IF chats = << >> THEN x
    ELSE LET first == scheduleSync(x, Head(chats))
         IN  IF Len(chats) = 1 THEN first ELSE scheduleSync(first, chats[Len(chats)])
RaiseBarrier ==
    /\ ~barrier /\ requests < MaxRequests /\ requests' = requests + 1 /\ barrier' = TRUE
    /\ UNCHANGED <<text, vectors, index, shown, buffered, vectorFaults, leaving, owed, histories>>
finishInitializationVectorSync ==
    /\ barrier /\ barrier' = FALSE /\ buffered' = << >>
    /\ index' = HandedOver(index, buffered)
    /\ owed' = IF buffered = << >> THEN owed ELSE OwedAfter(index, buffered[Len(buffered)])
    /\ UNCHANGED <<text, vectors, shown, requests, vectorFaults, leaving, histories>>

(* rebuild: one at a time; it drops the waiting chat and waits for syncs.  *)
RebuildIndex ==
    /\ index.active /\ ~Rebuilding(index) /\ requests < MaxRequests /\ requests' = requests + 1
    /\ index' = Woken([index EXCEPT !.rebuild = Begun(index, "wait", shown), !.pending = NoChat])
    /\ owed' = IF index.pending = owed /\ owed # shown THEN NoChat ELSE owed
    /\ UNCHANGED <<text, vectors, shown, barrier, buffered, vectorFaults, leaving, histories>>

(* rebuildFacts, after an undo that touched the facts of the chat. *)
RepairFacts ==
    /\ index.active /\ index.repair.pc = "idle" /\ requests < MaxRequests /\ requests' = requests + 1
    /\ LET waits(pc) == [index EXCEPT !.repair = Begun(index, pc, shown)]
       IN  index' = IF Rebuilding(index) THEN waits("waitRebuild") ELSE Woken(waits("wait"))
    /\ UNCHANGED <<text, vectors, shown, barrier, buffered, vectorFaults, leaving, owed, histories>>

StopIndex ==
    /\ index.active /\ index.life < MaxLives
    /\ index' = [index EXCEPT !.active = FALSE, !.life = @ + 1, !.pending = NoChat] /\ owed' = NoChat
    /\ UNCHANGED <<text, vectors, shown, barrier, buffered, requests, vectorFaults, leaving, histories>>
StartIndex ==
    /\ ~index.active
    /\ index' = [index EXCEPT !.active = TRUE, !.life = @ + 1]
    /\ UNCHANGED <<text, vectors, shown, barrier, buffered, requests, vectorFaults, leaving, owed, histories>>
(* A reload of the page drops the tasks, what was asked for and the edits' *)
(* deletions that are still to come.                                       *)
ReloadPage ==
    /\ index.life < MaxLives
    /\ index' = [sync |-> NoTask, rebuild |-> NoTask, repair |-> NoTask, current |-> "none",
                 pending |-> NoChat, active |-> TRUE, life |-> index.life + 1]
    /\ leaving' = [c \in VectorChats |-> 0] /\ kept' = kept \cup {c \in VectorChats : leaving[c] > 0}
    /\ barrier' = FALSE /\ buffered' = << >> /\ owed' = NoChat
    /\ UNCHANGED <<text, vectors, shown, requests, vectorFaults, raced>>

-----------------------------------------------------------------------------
(* The tasks. An error or a changed lifecycle ends a task; the caller of a *)
(* repair then asks for a sync of the chat that is shown.                  *)
Goes(t, pc) == index' = [index EXCEPT ![t].pc = pc] /\ UNCHANGED <<buffered, owed>>
Ends(t) ==
    CASE t = "sync"    -> index' = finishSync(index, t) /\ UNCHANGED <<buffered, owed>>
      [] t = "rebuild" -> index' = finishRebuild(Covered(index)) /\ UNCHANGED <<buffered, owed>>
      [] t = "repair"  -> Request(finishSync(index, t), shown)
Outlived(t) == ~index.active \/ index[t].life # index.life
Served(c) == owed' = IF owed = c THEN NoChat ELSE owed

ClearVectors ==
    /\ index.rebuild.pc = "clear"
    /\ IF index.rebuild.chat = shown
       THEN /\ vectors' = [vectors EXCEPT ![shown] = 0]
            /\ kept' = kept \ {shown}
            /\ index' = IF index.active
                        THEN [index EXCEPT !.rebuild = Begun(index, "route", shown)]
                        ELSE finishRebuild(Covered(index))
       ELSE index' = finishRebuild(index) /\ UNCHANGED <<vectors, kept>>
    /\ UNCHANGED <<text, shown, barrier, buffered, requests, vectorFaults, leaving, owed, raced>>

RouteFound(t) ==
    /\ index[t].pc = "route" /\ Goes(t, "scan")
    /\ UNCHANGED <<text, vectors, shown, barrier, requests, vectorFaults, leaving, histories>>
EndsServed(t) ==
    IF t = "repair" THEN Ends(t)
    ELSE /\ index' = IF t = "sync" THEN finishSync(index, t) ELSE finishRebuild(Covered(index))
         /\ Served(index[t].chat) /\ UNCHANGED buffered
NoRoute(t) ==
    /\ index[t].pc = "route" /\ VectorFault /\ EndsServed(t)
    /\ UNCHANGED <<text, vectors, shown, barrier, requests, leaving, histories>>

(* Syncs and rebuilds look for facts without a vector until there is none, *)
(* a repair takes the facts it was given. A chat that is not bound fails.  *)
Needed(t) == text[shown] # 0 /\ (t = "repair" \/ vectors[shown] = 0)
Scan(t) ==
    /\ index[t].pc = "scan"
    /\ IF Outlived(t) THEN Ends(t)
       ELSE IF index[t].chat # shown THEN EndsServed(t)
       ELSE IF Needed(t)
       THEN /\ index' = [index EXCEPT ![t].pc = "embed", ![t].seen = text[shown]]
            /\ IF t = "repair" THEN UNCHANGED owed ELSE Served(shown)
            /\ UNCHANGED buffered
       ELSE IF t = "repair" THEN Ends(t)
       ELSE index' = [index EXCEPT ![t].pc = "cover"] /\ Served(shown) /\ UNCHANGED buffered
    /\ UNCHANGED <<text, vectors, shown, barrier, requests, vectorFaults, leaving, histories>>
Embedded(t) ==
    /\ index[t].pc = "embed"
    /\ IF Outlived(t) THEN Ends(t) ELSE Goes(t, "write")
    /\ UNCHANGED <<text, vectors, shown, barrier, requests, vectorFaults, leaving, histories>>
EmbedFails(t) ==
    /\ index[t].pc = "embed" /\ VectorFault /\ Ends(t)
    /\ UNCHANGED <<text, vectors, shown, barrier, requests, leaving, histories>>
(* The vector of the text that was read is stored if the fact still is. *)
WriteVectors(t) ==
    /\ index[t].pc = "write"
    /\ IF index[t].chat # shown \/ text[shown] = 0 THEN Ends(t) /\ UNCHANGED <<vectors, kept>>
       ELSE /\ vectors' = [vectors EXCEPT ![shown] = index[t].seen] /\ kept' = kept \ {shown}
            /\ IF t = "repair" THEN Ends(t) ELSE Goes(t, "scan")
    /\ UNCHANGED <<text, shown, barrier, requests, vectorFaults, leaving, raced>>
CoverageRead(t) ==
    /\ index[t].pc = "cover" /\ Ends(t)
    /\ UNCHANGED <<text, vectors, shown, barrier, requests, vectorFaults, leaving, histories>>

TaskStep(t) == RouteFound(t) \/ Scan(t) \/ Embedded(t) \/ WriteVectors(t) \/ CoverageRead(t)
VectorNext ==
    \/ \E v \in 0..MaxTexts : EditText(v)
    \/ \E c \in VectorChats : deleteFactVectors(c) \/ DeletionFails(c)
    \/ AskForSync \/ RaiseBarrier \/ finishInitializationVectorSync
    \/ RebuildIndex \/ RepairFacts \/ StopIndex \/ StartIndex \/ ReloadPage \/ ClearVectors
    \/ \E t \in TaskNames : TaskStep(t) \/ NoRoute(t) \/ EmbedFails(t)
VectorSpec == VectorInit /\ [][VectorNext]_vectorVars

-----------------------------------------------------------------------------
(* A sync never embeds beside a rebuild, however requests, repairs, stops *)
(* and starts fall between them. (A repair may: both wait for the same     *)
(* sync and go on together.)                                               *)
SyncsAlone == ~(Embeds(index.sync) /\ Embeds(index.rebuild))

(* A vector of another text than its fact's is about to be deleted by the  *)
(* edit, or was left there in one of two ways: an embedding was under way  *)
(* at the edit, or the deletion failed or was cut off by a reload. Coverage *)
(* does not compare texts: only a rebuild or a repair replaces such a one. *)
VectorsMatch == \A c \in VectorChats :
    vectors[c] \in {0, text[c]} \/ leaving[c] > 0 \/ c \in raced \cup kept

(* The vectors, and who may write them. *)
VectorsSound == VectorTypeOK /\ SyncsAlone /\ VectorsMatch

(* The chat last asked for is looked at again in the end, whatever was in *)
(* flight when it was asked for, unless the service is stopped.            *)
RequestsAreServed == \A c \in VectorChats : owed = c ~> owed # c
=============================================================================
