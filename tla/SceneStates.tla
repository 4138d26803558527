----------------------------- MODULE SceneStates -----------------------------
(***************************************************************************)
(* The persistent scene of a chat: who is present, nearby or gone, and      *)
(* where.  Before a generation SceneStateReducer works a scene out of the   *)
(* stored one and the messages of the last floors, and the preparation      *)
(* stores it at its end; after the generation ActualCastReconciler does the *)
(* same with the cast of the reply, and the user may correct it.  Each of   *)
(* them reads the stored scene first and writes a whole scene later.        *)
(*                                                                         *)
(* A message is what the resolvers read in it: its speaker, at most one     *)
(* person it names and what that person does, a place, a break in time or   *)
(* scene.  The host sets no transition metadata on its messages, so scenes  *)
(* move by text only.                                                      *)
(***************************************************************************)
EXTENDS Naturals, Sequences, FiniteSets

CONSTANTS
    People,       \* the actors of the registry
    Lines,        \* messages the chat may get
    Lookback,     \* actorScanLookbackFloors
    MaxLines,     \* bound: messages
    MaxFixes,     \* bound: corrections by the user
    MaxWorks,     \* bound: scenes worked out
    NoScene

ASSUME LineShape ==
    /\ IsFiniteSet(Lines)
    /\ \A l \in Lines : /\ l.speaker \in People \cup {"player", "narrator"}
                        /\ l.who \in People \cup {"player", "narrator", "nobody"}

VARIABLES
    log,      \* the messages of the chat
    scene,    \* the stored scene
    version,  \* of its record
    draft,    \* the scene of the preparation in progress
    saves,    \* scenes of reconciliations and corrections, not yet stored
    applied,  \* revisions saveSceneState has stored: its idempotency keys
    works, fixes,
    kept      \* history: who was stored as present and was not moved since

sceneVars == <<log, scene, version, draft, saves, applied, works, fixes, kept>>

Anyone == People \cup {"player", "narrator"}
Nobody == "nobody"
Nowhere == "nowhere"
None == [spots |-> {}, present |-> {}, nearby |-> {}, exited |-> {},
         viewpoint |-> "narrator", epoch |-> 0, revision |-> 0]

SceneInit ==
    /\ log = <<>> /\ scene = NoScene /\ version = 0
    /\ draft = NoScene /\ saves = {} /\ applied = {}
    /\ works = 0 /\ fixes = 0 /\ kept = {}

Recent == {i \in DOMAIN log : i + Lookback >= Len(log)}

-----------------------------------------------------------------------------
(* The cast of a set S of messages. *)

Speakers(S) == {log[i].speaker : i \in S}
Does(S, what) == {log[i].who : i \in {j \in S : log[j].does = what}} \ {Nobody}
\* Who speaks is present, and who is told to be; the last one who speaks is the
\* viewpoint.
ActiveCast(S) ==
    LET heard == {i \in S : log[i].speaker # "narrator"}
    IN  [speakers  |-> Speakers(S),
         present   |-> (Speakers(S) \ {"narrator"}) \cup Does(S, "enters"),
         viewpoint |-> IF heard = {} THEN "narrator"
                       ELSE log[CHOOSE i \in heard : \A j \in heard : j <= i].speaker]

\* The places named in S, each with its rank by first mention.
Places(S) ==
    LET named == {i \in S : log[i].place # Nowhere}
        first(p) == CHOOSE i \in named : log[i].place = p /\ \A j \in named : log[j].place = p => i <= j
    IN  {<<log[i].place, Cardinality({log[j].place : j \in {k \in named : first(log[k].place) < first(log[i].place)}})>>
            : i \in named}

\* The viewpoint of a cast: the player is not one, another speaker or the one of
\* before is.
Viewpoint(cast, before) ==
    IF cast.viewpoint # "player" THEN {cast.viewpoint}
    ELSE IF cast.speakers \cap People # {} THEN cast.speakers \cap People
    ELSE IF before.viewpoint = "player" THEN {"narrator"} ELSE {before.viewpoint}

\* Mutant: presence ages out with the messages that told of it.
PresentOfWindow(before, entered, exited) == entered \ exited

\* Presence persists until somebody goes. (The setting that ends it for the quiet,
\* persistPresenceUntilTransition = false, is not modelled; it is on by default.)
PresentNow(before, entered, exited) == (before.present \cup entered) \ exited

\* Who is gone stays so until told to enter.
GoneNow(before, entered, exited) == (before.exited \cup exited) \ entered

\* SceneStateReducer.resolve with the messages S, their cast (of fewer messages
\* after a generation) and the stored scene; a scene that moved gets a new epoch.
Resolved(S, cast) ==
    LET before == IF scene = NoScene THEN None ELSE scene
        entered == Does(S, "enters") \cup cast.present
        exited == Does(S, "exits")
        present == PresentNow(before, entered, exited)
        spots == IF Places(S) # {} THEN Places(S) ELSE before.spots
        moved == scene # NoScene /\ spots # {} /\ spots # before.spots
        turned == moved \/ \E i \in S : log[i].breaks
    IN  {[spots |-> spots, present |-> present,
          nearby |-> (before.nearby \ present) \ exited,
          exited |-> GoneNow(before, entered, exited),
          viewpoint |-> v,
          epoch |-> before.epoch + (IF turned THEN 1 ELSE 0),
          revision |-> before.revision + 1]
         : v \in Viewpoint(cast, before)}

\* correctCurrentSceneState: the stored scene with one person placed elsewhere.
Placed(p, where) ==
    [scene EXCEPT !.present = IF where \in {"present", "viewpoint"} THEN @ \cup {p} ELSE @ \ {p},
                  !.nearby  = IF where = "nearby" THEN @ \cup {p} ELSE @ \ {p},
                  !.exited  = IF where = "exited" THEN @ \cup {p} ELSE @ \ {p},
                  !.viewpoint = IF where = "viewpoint" THEN p ELSE @,
                  !.revision = @ + 1]

-----------------------------------------------------------------------------
\* A scene worked out and not yet stored; base: the version of the stored scene
\* it rests on.
Work(s, by, gone) == [scene |-> s, base |-> version, by |-> by, gone |-> gone]
Works == works < MaxWorks /\ works' = works + 1

\* Who was present and was not moved since: a scene that rests on another one
\* than the stored one, or that the user corrected, starts anew.
Keep(w) == kept' = IF w.base = version /\ w.by # "user" THEN (kept \cup w.scene.present) \ w.gone
                   ELSE w.scene.present

Speak(line) ==
    /\ Len(log) < MaxLines
    /\ log' = Append(log, line)
    /\ UNCHANGED <<scene, version, draft, saves, applied, works, fixes, kept>>

\* prepareGenerationMemory works the scene out first ...
PrepareScene ==
    /\ log # <<>> /\ draft = NoScene /\ Works
    /\ \E s \in Resolved(Recent, ActiveCast(Recent)) :
          draft' = Work(s, "preparation", Does(Recent, "exits"))
    /\ UNCHANGED <<log, scene, version, saves, applied, fixes, kept>>

\* ... and stores it at its end, under a key of the plan's, ...
CommitPrepared ==
    /\ draft # NoScene
    /\ scene' = draft.scene /\ version' = version + 1 /\ draft' = NoScene
    /\ Keep(draft)
    /\ UNCHANGED <<log, saves, applied, works, fixes>>

\* ... unless it failed, or the chat was left.
AbandonPrepared ==
    /\ draft # NoScene /\ draft' = NoScene
    /\ UNCHANGED <<log, scene, version, saves, applied, works, fixes, kept>>

\* ActualCastReconciler: the cast is the one of the newest message alone.
ReconcileScene ==
    /\ log # <<>> /\ log[Len(log)].speaker # "player"
    /\ Works
    /\ \E s \in Resolved(Recent, ActiveCast({Len(log)})) :
          saves' = saves \cup {Work(s, "reply", Does(Recent, "exits"))}
    /\ UNCHANGED <<log, scene, version, draft, applied, fixes, kept>>

CorrectScene(p, where) ==
    /\ scene # NoScene /\ fixes < MaxFixes /\ Works
    /\ fixes' = fixes + 1
    /\ saves' = saves \cup {Work(Placed(p, where), "user", {})}
    /\ UNCHANGED <<log, scene, version, draft, applied, kept>>

\* saveSceneState: a revision that was stored before is answered as stored.
SaveScene(w) ==
    /\ saves' = saves \ {w}
    /\ IF w.scene.revision \in applied THEN UNCHANGED <<scene, version, applied, kept>>
       ELSE /\ scene' = w.scene /\ version' = version + 1
            /\ applied' = applied \cup {w.scene.revision}
            /\ Keep(w)
    /\ UNCHANGED <<log, draft, works, fixes>>

SceneNext ==
    \/ \E line \in Lines : Speak(line)
    \/ PrepareScene
    \/ CommitPrepared
    \/ AbandonPrepared
    \/ ReconcileScene
    \/ \E p \in People, where \in {"present", "nearby", "exited", "viewpoint"} : CorrectScene(p, where)
    \/ \E w \in saves : SaveScene(w)

SceneSpec == SceneInit /\ [][SceneNext]_sceneVars

-----------------------------------------------------------------------------
Scenes == [spots : SUBSET ({l.place : l \in Lines} \X (0..Cardinality(Lines))),
           present : SUBSET Anyone, nearby : SUBSET Anyone, exited : SUBSET Anyone,
           viewpoint : Anyone, epoch : Nat, revision : Nat]

ASSUME NoSceneIsNone == NoScene \notin Scenes

SceneTypeOK ==
    /\ log \in Seq(Lines)
    /\ scene = NoScene \/ scene \in Scenes
    /\ draft = NoScene \/ draft.scene \in Scenes
    /\ \A w \in saves : w.scene \in Scenes
    /\ kept \subseteq Anyone

\* A person of the stored scene is in one place: present, nearby or gone, also
\* when the scene was worked out of a stored one that was replaced meanwhile.
PlacedOnce ==
    scene # NoScene =>
        /\ scene.present \cap scene.nearby = {}
        /\ scene.present \cap scene.exited = {}
        /\ scene.nearby \cap scene.exited = {}

\* Nobody ages out of a scene by being quiet ("without aging quiet actors out"):
\* who was stored as present is present until told to leave or moved by the user,
\* for more floors than the resolver looks back.
QuietStaysPresent == scene # NoScene => kept \subseteq scene.present

\* The stored scene, through corrections, reloads and late saves.
SceneSound == SceneTypeOK /\ PlacedOnce /\ QuietStaysPresent
=============================================================================
