-------------------------- MODULE Preparation_proofs --------------------------
(* What holds of the preparation of a reply for any people, messages, cast,  *)
(* inquiries and orders of requests: the scene of the chat, the plan of the  *)
(* turn, and what the prompt tells each owner.                               *)
EXTENDS SceneStates, CastPlanning, OwnerRecall, FiniteSetTheorems, SequenceTheorems,
        WellFoundedInduction, TLAPS

-----------------------------------------------------------------------------
(* Of some places in a sequence one is the last. *)
LEMMA LastPlace ==
  ASSUME NEW n \in Nat, NEW S \in SUBSET (0..n), S # {}
  PROVE  \E i \in S : \A j \in S : j <= i
<1> DEFINE back == {n - i : i \in S}
<1>1. back \subseteq Nat /\ back # {}
  <2>1. \A i \in S : i \in 0..n
    OBVIOUS
  <2>2. \A i \in 0..n : n - i \in Nat
    OBVIOUS
  <2> QED
    BY <2>1, <2>2
<1>2. PICK m \in back : \A k \in back : ~(<<k, m>> \in OpToRel(<, Nat))
  BY <1>1, WFMin, NatLessThanWellFounded, Zenon
<1>3. \A k \in back : ~(k < m)
  BY <1>1, <1>2 DEF OpToRel
<1>4. PICK i \in S : m = n - i
  BY <1>2
<1>5. \A j \in S : j <= i
  BY <1>3, <1>4
<1> QED
  BY <1>5

(* The scene. *)
(* The inductive invariant.  A scene keeps everybody in one place; one that  *)
(* rests on the stored scene and was not made by the user keeps everybody who *)
(* stayed, except those its messages let go.                                 *)
OnePlace(s) == s.present \cap s.nearby = {} /\ s.present \cap s.exited = {} /\ s.nearby \cap s.exited = {}
SceneWork(w) ==
    /\ w.scene \in Scenes /\ OnePlace(w.scene)
    /\ w.base \in Nat /\ w.base <= version
    /\ w.base = version /\ w.by # "user" => kept \ w.gone \subseteq w.scene.present
SceneInv ==
    /\ log \in Seq(Lines) /\ version \in Nat
    /\ scene = NoScene => kept = {}
    /\ scene # NoScene => scene \in Scenes /\ OnePlace(scene) /\ kept \subseteq scene.present
    /\ draft # NoScene => SceneWork(draft)
    /\ \A w \in saves : SceneWork(w)

-----------------------------------------------------------------------------
(* What the resolvers find in messages.                                      *)

LEMMA CastOfMessages ==
  ASSUME LineShape, log \in Seq(Lines), NEW S \in SUBSET DOMAIN log
  PROVE  /\ ActiveCast(S).present \subseteq Anyone
         /\ ActiveCast(S).speakers \subseteq Anyone
         /\ ActiveCast(S).viewpoint \in Anyone
         /\ \A what : Does(S, what) \subseteq Anyone
<1>1. \A i \in S : log[i] \in Lines
  OBVIOUS
<1>2. \A what : Does(S, what) \subseteq Anyone
  BY <1>1 DEF LineShape, Does, Anyone, Nobody
<1>3. Speakers(S) \subseteq Anyone
  BY <1>1 DEF LineShape, Speakers, Anyone
<1> DEFINE heard == {i \in S : log[i].speaker # "narrator"}
<1>4. ActiveCast(S).viewpoint \in Anyone
  <2>1. CASE heard = {}
    BY <2>1 DEF ActiveCast, Anyone
  <2>2. CASE heard # {}
    <3>1. heard \in SUBSET (0..Len(log)) /\ Len(log) \in Nat
      OBVIOUS
    <3>2. \E i \in heard : \A j \in heard : j <= i
      BY <2>2, <3>1, LastPlace
    <3>3. (CHOOSE i \in heard : \A j \in heard : j <= i) \in S
      BY <3>2
    <3>4. ActiveCast(S).viewpoint = log[CHOOSE i \in heard : \A j \in heard : j <= i].speaker
      BY <2>2 DEF ActiveCast
    <3> QED
      BY <1>1, <3>3, <3>4 DEF LineShape, Anyone
  <2> QED
    BY <2>1, <2>2
<1> QED
  BY <1>2, <1>3, <1>4 DEF ActiveCast

(* The rank of a place is smaller than the number of places there are. *)
LEMMA PlacesOfMessages ==
  ASSUME LineShape, log \in Seq(Lines), NEW S \in SUBSET DOMAIN log
  PROVE  Places(S) \subseteq {l.place : l \in Lines} \X (0..Cardinality(Lines))
<1> DEFINE all == {l.place : l \in Lines}
           PlaceOf == [l \in Lines |-> l.place]
<1>1. \A i \in S : log[i] \in Lines
  OBVIOUS
<1>2. PlaceOf \in Surjection(Lines, all)
  BY DEF Surjection
<1>3. IsFiniteSet(all) /\ Cardinality(all) <= Cardinality(Lines)
  BY <1>2, FS_Surjection DEF LineShape
<1>4. Cardinality(Lines) \in Nat
  BY FS_CardinalityType DEF LineShape
<1>5. \A T \in SUBSET all : Cardinality(T) \in 0..Cardinality(Lines)
  BY <1>3, <1>4, FS_Subset, FS_CardinalityType
<1>6. ASSUME NEW T \in SUBSET S
      PROVE  Cardinality({log[j].place : j \in T}) \in 0..Cardinality(Lines)
  <2>1. {log[j].place : j \in T} \in SUBSET all
    BY <1>1
  <2> QED
    BY <1>5, <2>1
<1> DEFINE named == {i \in S : log[i].place # Nowhere}
           first(p) == CHOOSE i \in named : log[i].place = p /\ \A j \in named : log[j].place = p => i <= j
           before(i) == {k \in named : first(log[k].place) < first(log[i].place)}
<1>7. Places(S) = {<<log[i].place, Cardinality({log[j].place : j \in before(i)})>> : i \in named}
  BY DEF Places
<1>8. \A i \in named : before(i) \in SUBSET S /\ log[i].place \in all
  BY <1>1
<1>9. ASSUME NEW i \in named
      PROVE  <<log[i].place, Cardinality({log[j].place : j \in before(i)})>> \in all \X (0..Cardinality(Lines))
  <2>1. Cardinality({log[j].place : j \in before(i)}) \in 0..Cardinality(Lines)
    BY <1>6, <1>8
  <2> QED
    BY <1>8, <2>1
<1> QED
  BY <1>7, <1>9

-----------------------------------------------------------------------------
(* A scene worked out of the stored one.                                     *)
LEMMA ResolvedScene ==
  ASSUME LineShape, SceneInv, NEW S \in SUBSET DOMAIN log, NEW T \in SUBSET DOMAIN log,
         NEW s \in Resolved(S, ActiveCast(T))
  PROVE  /\ s \in Scenes /\ OnePlace(s)
         /\ kept \ Does(S, "exits") \subseteq s.present
<1> DEFINE active == ActiveCast(T)
           before == IF scene = NoScene THEN None ELSE scene
           entered == Does(S, "enters") \cup active.present
           exited == Does(S, "exits")
           spots == IF Places(S) # {} THEN Places(S) ELSE before.spots
           turned == (scene # NoScene /\ spots # {} /\ spots # before.spots) \/ \E i \in S : log[i].breaks
<1>1. log \in Seq(Lines)
  BY DEF SceneInv
<1>2. before \in Scenes /\ OnePlace(before) /\ kept \subseteq before.present
  BY DEF SceneInv, None, Scenes, Anyone, OnePlace
<1>3. /\ active.present \subseteq Anyone /\ active.speakers \subseteq Anyone /\ active.viewpoint \in Anyone
      /\ entered \subseteq Anyone /\ exited \subseteq Anyone
  BY <1>1, CastOfMessages
<1>4. PICK v \in Viewpoint(active, before) :
        s = [spots |-> spots, present |-> PresentNow(before, entered, exited),
             nearby |-> (before.nearby \ PresentNow(before, entered, exited)) \ exited,
             exited |-> GoneNow(before, entered, exited),
             viewpoint |-> v,
             epoch |-> before.epoch + (IF turned THEN 1 ELSE 0),
             revision |-> before.revision + 1]
  BY DEF Resolved
<1>5. v \in Anyone
  <2>1. before.viewpoint \in Anyone
    BY <1>2 DEF Scenes
  <2> HIDE DEF active, before
  <2> QED
    BY <1>3, <1>4, <2>1 DEF Viewpoint, Anyone
<1>6. spots \in SUBSET ({l.place : l \in Lines} \X (0..Cardinality(Lines)))
  BY <1>1, <1>2, PlacesOfMessages DEF Scenes
<1> HIDE DEF active, before, entered, exited, spots, turned
<1>7. s \in Scenes
  BY <1>2, <1>3, <1>4, <1>5, <1>6 DEF Scenes, PresentNow, GoneNow
<1>8. OnePlace(s)
  BY <1>2, <1>4 DEF OnePlace, PresentNow, GoneNow
<1>9. kept \ exited \subseteq s.present
  BY <1>2, <1>4 DEF PresentNow
<1> QED
  BY <1>7, <1>8, <1>9 DEF exited

LEMMA PlacedScene ==
  ASSUME SceneInv, scene # NoScene, NEW p \in People,
         NEW where \in {"present", "nearby", "exited", "viewpoint"}
  PROVE  Placed(p, where) \in Scenes /\ OnePlace(Placed(p, where))
<1>1. scene \in Scenes /\ OnePlace(scene)
  BY DEF SceneInv
<1>2. Placed(p, where) \in Scenes
  <2>1. p \in Anyone
    BY DEF Anyone
  <2>2. /\ (IF where \in {"present", "viewpoint"} THEN scene.present \cup {p} ELSE scene.present \ {p}) \in SUBSET Anyone
        /\ (IF where = "nearby" THEN scene.nearby \cup {p} ELSE scene.nearby \ {p}) \in SUBSET Anyone
        /\ (IF where = "exited" THEN scene.exited \cup {p} ELSE scene.exited \ {p}) \in SUBSET Anyone
        /\ (IF where = "viewpoint" THEN p ELSE scene.viewpoint) \in Anyone
        /\ scene.revision + 1 \in Nat
    BY <1>1, <2>1 DEF Scenes
  <2> QED
    BY <1>1, <2>2 DEF Placed, Scenes
<1>3. OnePlace(Placed(p, where))
  BY <1>1 DEF Placed, Scenes, OnePlace
<1> QED
  BY <1>2, <1>3

LEMMA NewWork ==
  ASSUME LineShape, SceneInv, NEW s, NEW by, NEW gone, s \in Scenes, OnePlace(s),
         by # "user" => kept \ gone \subseteq s.present
  PROVE  SceneWork(Work(s, by, gone))
BY DEF SceneInv, SceneWork, Work

(* A work that was not written yet rests on an older scene once another is   *)
(* stored.                                                                  *)
LEMMA OvertakenWork ==
  ASSUME SceneInv, NEW w, SceneWork(w), version' = version + 1
  PROVE  SceneWork(w)'
BY DEF SceneInv, SceneWork

LEMMA StoredWork ==
  ASSUME SceneInv, NoSceneIsNone, NEW w, SceneWork(w),
         scene' = w.scene, version' = version + 1, Keep(w)
  PROVE  /\ version' \in Nat /\ scene' # NoScene /\ scene' \in Scenes /\ OnePlace(scene') /\ kept' \subseteq scene'.present
BY DEF SceneInv, SceneWork, Keep, NoSceneIsNone

-----------------------------------------------------------------------------
LEMMA SceneInvInit == SceneInit => SceneInv
BY DEF SceneInit, SceneInv

LEMMA SceneInvNext ==
  ASSUME LineShape, NoSceneIsNone, SceneInv, [SceneNext]_sceneVars
  PROVE  SceneInv'
<1> USE DEF SceneInv
<1>1. ASSUME NEW line \in Lines, Speak(line)
      PROVE  SceneInv'
  BY <1>1 DEF Speak, SceneWork
<1>2. CASE PrepareScene
  <2>1. PICK s \in Resolved(Recent, ActiveCast(Recent)) : draft' = Work(s, "preparation", Does(Recent, "exits"))
    BY <1>2 DEF PrepareScene
  <2>2. Recent \in SUBSET DOMAIN log
    BY DEF Recent
  <2>3. SceneWork(Work(s, "preparation", Does(Recent, "exits")))
    BY <2>2, ResolvedScene, NewWork
  <2>4. UNCHANGED <<log, scene, version, saves, kept>>
    BY <1>2 DEF PrepareScene
  <2>5. \A w : SceneWork(w)' <=> SceneWork(w)
    BY <2>4 DEF SceneWork
  <2> QED
    BY <2>1, <2>3, <2>4, <2>5
<1>3. CASE CommitPrepared
  <2>1. SceneWork(draft)
    BY <1>3 DEF CommitPrepared
  <2>2. version' \in Nat /\ scene' # NoScene /\ scene' \in Scenes /\ OnePlace(scene') /\ kept' \subseteq scene'.present
    BY <1>3, <2>1, StoredWork DEF CommitPrepared
  <2>3. \A w \in saves : SceneWork(w)'
    BY <1>3, OvertakenWork DEF CommitPrepared
  <2> QED
    BY <1>3, <2>2, <2>3 DEF CommitPrepared
<1>4. CASE AbandonPrepared
  BY <1>4 DEF AbandonPrepared, SceneWork
<1>5. CASE ReconcileScene
  <2>1. PICK s \in Resolved(Recent, ActiveCast({Len(log)})) :
          saves' = saves \cup {Work(s, "reply", Does(Recent, "exits"))}
    BY <1>5 DEF ReconcileScene
  <2>2. Recent \in SUBSET DOMAIN log /\ {Len(log)} \in SUBSET DOMAIN log
    BY <1>5 DEF Recent, ReconcileScene
  <2>3. SceneWork(Work(s, "reply", Does(Recent, "exits")))
    BY <2>2, ResolvedScene, NewWork
  <2>4. UNCHANGED <<log, scene, version, draft, kept>>
    BY <1>5 DEF ReconcileScene
  <2>5. \A w : SceneWork(w)' <=> SceneWork(w)
    BY <2>4 DEF SceneWork
  <2> QED
    BY <2>1, <2>3, <2>4, <2>5
<1>6. ASSUME NEW p \in People, NEW where \in {"present", "nearby", "exited", "viewpoint"}, CorrectScene(p, where)
      PROVE  SceneInv'
  <2>1. SceneWork(Work(Placed(p, where), "user", {}))
    BY <1>6, PlacedScene, NewWork DEF CorrectScene
  <2>2. UNCHANGED <<log, scene, version, draft, kept>> /\ saves' = saves \cup {Work(Placed(p, where), "user", {})}
    BY <1>6 DEF CorrectScene
  <2>3. \A w : SceneWork(w)' <=> SceneWork(w)
    BY <2>2 DEF SceneWork
  <2> QED
    BY <2>1, <2>2, <2>3
<1>7. ASSUME NEW w \in saves, SaveScene(w)
      PROVE  SceneInv'
  <2>1. CASE w.scene.revision \in applied
    <3>1. UNCHANGED <<log, scene, version, draft, kept>> /\ saves' = saves \ {w}
      BY <1>7, <2>1 DEF SaveScene
    <3>2. \A v : SceneWork(v)' <=> SceneWork(v)
      BY <3>1 DEF SceneWork
    <3> QED
      BY <3>1, <3>2
  <2>2. CASE w.scene.revision \notin applied
    <3>1. /\ scene' = w.scene /\ version' = version + 1 /\ Keep(w)
          /\ saves' = saves \ {w} /\ UNCHANGED <<log, draft>>
      BY <1>7, <2>2 DEF SaveScene
    <3>2. version' \in Nat /\ scene' # NoScene /\ scene' \in Scenes /\ OnePlace(scene') /\ kept' \subseteq scene'.present
      BY <3>1, StoredWork
    <3>3. (\A v \in saves : SceneWork(v)') /\ (draft # NoScene => SceneWork(draft)')
      BY <3>1, OvertakenWork
    <3> QED
      BY <3>1, <3>2, <3>3 DEF SceneWork
  <2> QED
    BY <2>1, <2>2
<1>8. CASE UNCHANGED sceneVars
  BY <1>8 DEF sceneVars, SceneWork
<1> QED
  BY <1>1, <1>2, <1>3, <1>4, <1>5, <1>6, <1>7, <1>8 DEF SceneNext

LEMMA SceneInvSound ==
  ASSUME SceneInv
  PROVE  SceneSound
<1>1. \A w : SceneWork(w) => w.scene \in Scenes
  BY DEF SceneWork
<1>2. kept \subseteq Anyone
  BY DEF SceneInv, Scenes
<1> QED
  BY <1>1, <1>2 DEF SceneInv, SceneSound, SceneTypeOK, PlacedOnce, QuietStaysPresent, OnePlace

(* However preparations, reconciliations, corrections and their late writes  *)
(* interleave, the stored scene has everybody in one place and nobody ages   *)
(* out of it, for any people, messages, lookback and bounds.                 *)
THEOREM SceneStaysSound == SceneSpec => []SceneSound
<1> USE LineShape, NoSceneIsNone
<1>1. SceneInit => SceneInv
  BY SceneInvInit
<1>2. SceneInv /\ [SceneNext]_sceneVars => SceneInv'
  BY SceneInvNext
<1>3. SceneInv => SceneSound
  BY SceneInvSound
<1> QED
  BY <1>1, <1>2, <1>3, PTL DEF SceneSpec

-----------------------------------------------------------------------------
(* The plan. *)
(* The inductive invariant.  A plan that is still in the making is the       *)
(* director's; the plan of the current turn is never the one that gives way,  *)
(* so a turn the director was asked about is a turn that is kept.             *)
PlanSound(c) ==
    /\ c.by \in {"rules", "director"} /\ c.permissions \in [DOMAIN c.permissions -> Permissions]
    /\ \A a \in DOMAIN c.permissions :
          c.permissions[a] \in {"full", "focused"} => a \in Cast \cap (c.required \cup c.viewpoint)
    /\ (Cardinality(Those("addressed")) = 1 /\ occasion.mode # "director")
          => Those("addressed") \cap Stayed \subseteq c.required
(* An occasion the rules do not decide by its addressee.                     *)
Undecided == ~(Cardinality(Those("addressed")) = 1 /\ occasion.mode # "director")
Plans == [floor : Nat, made : BOOLEAN]
CastInv ==
    /\ occasion \in Occasions /\ floor \in Nat
    /\ cache \in Seq(Plans) /\ Len(cache) <= MaxKept
    /\ calls \in Seq(Nat)
    /\ \A c \in planned : PlanSound(c)
    /\ \A i \in DOMAIN cache : ~cache[i].made => Undecided
    /\ \A i \in DOMAIN calls : calls[i] <= floor
    /\ \A i \in DOMAIN calls : calls[i] = floor => Cached # {}
    /\ DirectorOnce

-----------------------------------------------------------------------------
(* The plans.                                                                *)
LEMMA PermittedSound ==
  ASSUME RecallSettings, occasion \in Occasions, NEW required \in SUBSET Cast, NEW likely, NEW background,
         NEW mentioned, NEW excluded, NEW viewpoint \in SUBSET Cast,
         NEW p, p = Permitted(required, likely, background, mentioned, excluded, viewpoint)
  PROVE  /\ p \in [DOMAIN p -> Permissions]
         /\ \A a \in DOMAIN p : p[a] \in {"full", "focused"} => a \in Cast \cap (required \cup viewpoint)
<1>1. occasion.likelyRecall \in {"public_only", "identity_only", "none"}
  BY DEF RecallSettings
<1>2. occasion.backgroundRecall \in {"public_only", "identity_only", "none"}
  BY DEF RecallSettings
<1>3. \A a \in DOMAIN p : p[a] \in Permissions
  BY <1>1, <1>2 DEF Permitted, Permissions
<1>4. \A a \in DOMAIN p : p[a] \in {"full", "focused"} => a \in Cast \cap (required \cup viewpoint)
  BY <1>1, <1>2 DEF Permitted
<1>5. p = [a \in DOMAIN p |-> p[a]]
  BY DEF Permitted
<1> QED
  BY <1>3, <1>4, <1>5

LEMMA RequiredAreActors == Required \subseteq Cast
BY DEF Required, Primary, First, Viable, Stayed, Those

LEMMA RulesSound ==
  ASSUME RecallSettings, occasion \in Occasions
  PROVE  PlanSound(DeterministicPlan)
<1>1. Required \in SUBSET Cast /\ Those("viewpoint") \in SUBSET Cast
  BY RequiredAreActors DEF Those
<1> DEFINE p == DeterministicPlan
<1>2. /\ p.permissions = Permitted(Required, Likely, Background, Mentioned, Those("exited"), Those("viewpoint"))
      /\ p.by = "rules" /\ p.required = Required /\ p.viewpoint = Those("viewpoint")
  BY DEF DeterministicPlan
<1>3. /\ p.permissions \in [DOMAIN p.permissions -> Permissions]
      /\ \A a \in DOMAIN p.permissions :
            p.permissions[a] \in {"full", "focused"} => a \in Cast \cap (p.required \cup p.viewpoint)
  BY <1>1, <1>2, PermittedSound
<1>4. Those("addressed") \cap Stayed \subseteq Required
  BY DEF Required, Primary
<1> QED
  BY <1>2, <1>3, <1>4 DEF PlanSound

(* What the director answers is taken only for an occasion that needs it.    *)
LEMMA DirectedSound ==
  ASSUME RecallSettings, occasion \in Occasions, Undecided, NEW d
  PROVE  PlanSound(DirectedPlan(d))
<1> DEFINE p == DirectedPlan(d)
<1>1. p.required \in SUBSET Cast /\ p.viewpoint \in SUBSET Cast /\ p.by = "director"
  BY RequiredAreActors DEF DirectedPlan, Allowed, Those
<1>2. \E likely, background, mentioned, excluded :
        p.permissions = Permitted(p.required, likely, background, mentioned, excluded, p.viewpoint)
  BY DEF DirectedPlan
<1>3. /\ p.permissions \in [DOMAIN p.permissions -> Permissions]
      /\ \A a \in DOMAIN p.permissions :
            p.permissions[a] \in {"full", "focused"} => a \in Cast \cap (p.required \cup p.viewpoint)
  BY <1>1, <1>2, PermittedSound
<1> HIDE DEF p
<1> QED
  BY <1>1, <1>3 DEF PlanSound, Undecided, p

-----------------------------------------------------------------------------
LEMMA KeptPlans ==
  ASSUME RoomForAPlan, cache \in Seq(Plans), Len(cache) <= MaxKept, NEW e \in Plans,
         NEW q, q = KeepPlans(Append(cache, e))
  PROVE  /\ q \in Seq(Plans) /\ Len(q) <= MaxKept
         /\ \A i \in DOMAIN q : q[i] = e \/ \E j \in DOMAIN cache : q[i] = cache[j]
         /\ \E i \in DOMAIN q : q[i] = e
<1>0. Len(cache) \in Nat /\ MaxKept \in Nat \ {0}
  BY DEF RoomForAPlan
<1>1. /\ Append(cache, e) \in Seq(Plans) /\ Len(Append(cache, e)) = Len(cache) + 1
      /\ \A i \in 1..Len(cache) : Append(cache, e)[i] = cache[i]
      /\ Append(cache, e)[Len(cache) + 1] = e
  OBVIOUS
<1>2. CASE Len(cache) + 1 > MaxKept
  <2>1. q = Tail(Append(cache, e)) /\ Len(cache) = MaxKept
    BY <1>0, <1>1, <1>2 DEF KeepPlans
  <2>2. /\ q \in Seq(Plans) /\ Len(q) = Len(cache)
        /\ \A i \in 1..Len(q) : q[i] = Append(cache, e)[i + 1]
    BY <1>0, <1>1, <2>1, HeadTailProperties
  <2>3. q[Len(cache)] = e /\ Len(cache) \in DOMAIN q
    BY <1>0, <1>1, <2>1, <2>2
  <2>4. \A i \in DOMAIN q : q[i] = e \/ \E j \in DOMAIN cache : q[i] = cache[j]
    <3>1. SUFFICES ASSUME NEW i \in 1..Len(cache)
                   PROVE  q[i] = e \/ \E j \in DOMAIN cache : q[i] = cache[j]
      BY <2>2
    <3>2. CASE i = Len(cache)
      BY <2>3, <3>2
    <3>3. CASE i # Len(cache)
      <4>1. i + 1 \in 1..Len(cache) /\ i + 1 \in DOMAIN cache
        BY <1>0, <3>3
      <4>2. q[i] = cache[i + 1]
        BY <1>1, <2>2, <4>1
      <4> QED
        BY <4>1, <4>2
    <3> QED
      BY <3>2, <3>3
  <2> QED
    BY <1>0, <2>1, <2>2, <2>3, <2>4
<1>3. CASE Len(cache) + 1 <= MaxKept
  <2>1. q = Append(cache, e)
    BY <1>0, <1>1, <1>3 DEF KeepPlans
  <2> QED
    BY <1>0, <1>1, <1>3, <2>1
<1> QED
  BY <1>0, <1>2, <1>3

LEMMA CastInvInit ==
  ASSUME RoomForAPlan, CastInit
  PROVE  CastInv
BY DEF CastInit, CastInv, RoomForAPlan, DirectorOnce

LEMMA AskPlanKeeps ==
  ASSUME RecallSettings, RoomForAPlan, CastInv, AskPlan
  PROVE  CastInv'
<1> USE DEF CastInv
<1> DEFINE asked == NeedsDirector
           e == [floor |-> floor, made |-> ~asked]
<1>1. /\ UNCHANGED <<occasion, floor>>
      /\ cache' = KeepPlans(Append(cache, e)) /\ e \in Plans
  BY DEF AskPlan, Plans
<1>2. /\ cache' \in Seq(Plans) /\ Len(cache') <= MaxKept
      /\ \A i \in DOMAIN cache' : cache'[i] = e \/ \E j \in DOMAIN cache : cache'[i] = cache[j]
      /\ \E i \in DOMAIN cache' : cache'[i] = e
  BY <1>1, KeptPlans, SMTT(30)
<1>3. Undecided' <=> Undecided
  BY <1>1 DEF Undecided, Those, Is
<1>4. \A i \in DOMAIN cache' : ~cache'[i].made => Undecided'
  <2>1. ~e.made => Undecided
    BY DEF NeedsDirector, Decided, Undecided
  <2> HIDE DEF e
  <2> QED
    BY <1>2, <1>3, <2>1
<1>5. Cached' # {}
  BY <1>1, <1>2 DEF Cached
<1>6. \A c : PlanSound(c)' <=> PlanSound(c)
  BY <1>1 DEF PlanSound, Those, Is, Stayed
<1>7. \A c \in planned' : PlanSound(c)'
  BY <1>6, RulesSound DEF AskPlan
<1>8. \A i \in DOMAIN calls : calls[i] # floor
  BY DEF AskPlan
<1>9. /\ calls' \in Seq(Nat) /\ \A i \in DOMAIN calls' : calls'[i] <= floor
      /\ DirectorOnce'
  <2>1. CASE NeedsDirector
    <3>1. calls' = Append(calls, floor)
      BY <2>1 DEF AskPlan
    <3> QED
      BY <1>8, <3>1 DEF DirectorOnce
  <2>2. CASE ~NeedsDirector
    <3>1. calls' = calls
      BY <2>2 DEF AskPlan
    <3> QED
      BY <3>1 DEF DirectorOnce
  <2> QED
    BY <2>1, <2>2
<1> QED
  BY <1>1, <1>2, <1>4, <1>5, <1>7, <1>9

LEMMA AnsweredKeeps ==
  ASSUME CastInv, NEW f, NEW plan, PlanSound(plan), Answered(f, plan)
  PROVE  CastInv'
<1> USE DEF CastInv
<1>1. /\ UNCHANGED <<occasion, floor, calls>>
      /\ cache' = [i \in DOMAIN cache |-> [cache[i] EXCEPT !.made = @ \/ cache[i].floor = f]]
  BY DEF Answered
<1>2. /\ cache' \in Seq(Plans) /\ Len(cache') = Len(cache) /\ DOMAIN cache' = DOMAIN cache
      /\ \A i \in DOMAIN cache : cache'[i].floor = cache[i].floor /\ (cache[i].made => cache'[i].made)
  <2>1. \A i \in DOMAIN cache : cache[i] \in Plans
    OBVIOUS
  <2>2. \A i \in DOMAIN cache : (cache[i].made \/ cache[i].floor = f) \in BOOLEAN
    OBVIOUS
  <2>3. ASSUME NEW i \in DOMAIN cache
        PROVE  /\ cache'[i] \in Plans /\ cache'[i].floor = cache[i].floor
               /\ cache[i].made => cache'[i].made
    <3>1. cache'[i] = [cache[i] EXCEPT !.made = cache[i].made \/ cache[i].floor = f]
      BY <1>1
    <3>2. cache[i].made \in BOOLEAN
      BY <2>1 DEF Plans
    <3> QED
      BY <2>1, <2>2, <3>1, <3>2 DEF Plans
  <2>4. cache' \in [1..Len(cache) -> Plans] /\ Len(cache) \in Nat
    <3>1. DOMAIN cache = 1..Len(cache)
      OBVIOUS
    <3>2. cache' = [i \in 1..Len(cache) |-> cache'[i]]
      BY <1>1, <3>1, Zenon
    <3> QED
      BY <2>3, <3>1, <3>2
  <2>5. cache' \in Seq(Plans) /\ Len(cache') = Len(cache)
    BY <2>4
  <2> QED
    BY <1>1, <2>3, <2>5
<1>3. Undecided' <=> Undecided
  BY <1>1 DEF Undecided, Those, Is
<1>4. \A c : PlanSound(c)' <=> PlanSound(c)
  BY <1>1 DEF PlanSound, Those, Is, Stayed
<1>5. \A c \in planned' : PlanSound(c)'
  BY <1>4 DEF Answered
<1>6. Cached' = Cached
  BY <1>1, <1>2 DEF Cached
<1> QED
  BY <1>1, <1>2, <1>3, <1>5, <1>6 DEF DirectorOnce

LEMMA CastInvNext ==
  ASSUME RecallSettings, RoomForAPlan, CastInv, [CastNext]_castVars
  PROVE  CastInv'
<1>1. CASE AskPlan
  BY <1>1, AskPlanKeeps
<1>2. ASSUME NEW i \in DOMAIN cache, ~cache[i].made, DirectorAnswers(cache[i].floor)
      PROVE  CastInv'
  <2>1. PICK d \in Proposals : Answered(cache[i].floor, DirectedPlan(d))
    BY <1>2 DEF DirectorAnswers
  <2>2. PlanSound(DirectedPlan(d))
    BY <1>2, DirectedSound DEF CastInv
  <2> QED
    BY <2>1, <2>2, AnsweredKeeps
<1>3. ASSUME NEW i \in DOMAIN cache, DirectorFails(cache[i].floor)
      PROVE  CastInv'
  BY <1>3, RulesSound, AnsweredKeeps DEF DirectorFails, CastInv
<1>4. CASE NextTurn
  <2>1. UNCHANGED <<occasion, cache, calls, planned>> /\ floor' = floor + 1 /\ floor \in Nat
    BY <1>4 DEF NextTurn, CastInv
  <2>2. Undecided' <=> Undecided
    BY <2>1 DEF Undecided, Those, Is
  <2>3. \A c : PlanSound(c)' <=> PlanSound(c)
    BY <2>1 DEF PlanSound, Those, Is, Stayed
  <2>4. \A i \in DOMAIN calls : calls[i] \in Nat /\ calls[i] <= floor
    BY DEF CastInv
  <2>5. \A i \in DOMAIN calls : calls[i] <= floor' /\ calls[i] # floor'
    BY <2>1, <2>4
  <2> QED
    BY <2>1, <2>2, <2>3, <2>5 DEF CastInv, DirectorOnce
<1>5. CASE UNCHANGED castVars
  <2>1. UNCHANGED <<occasion, floor, cache, calls, planned>>
    BY <1>5 DEF castVars
  <2>2. Undecided' <=> Undecided
    BY <2>1 DEF Undecided, Those, Is
  <2>3. \A c : PlanSound(c)' <=> PlanSound(c)
    BY <2>1 DEF PlanSound, Those, Is, Stayed
  <2> QED
    BY <2>1, <2>2, <2>3 DEF CastInv, DirectorOnce, Cached
<1> QED
  BY <1>1, <1>2, <1>3, <1>4, <1>5 DEF CastNext

(* Whatever a message says of whom and whatever the director answers, a plan *)
(* opens private memories only to actors with a part in the reply; who alone *)
(* is addressed has to answer; and no turn asks the director twice, for any   *)
(* actors, occasions, proposals, turns and size of the cache.                *)
THEOREM CastStaysSound == CastSpec => []CastSound
<1> USE RecallSettings, RoomForAPlan
<1>1. CastInit => CastInv
  BY CastInvInit
<1>2. CastInv /\ [CastNext]_castVars => CastInv'
  BY CastInvNext
<1>3. CastInv => CastSound
  <2>1. CastInv => CastTypeOK
    <3>1. \A c : PlanSound(c) => c.by \in {"rules", "director"} /\ c.permissions \in [DOMAIN c.permissions -> Permissions]
      BY DEF PlanSound
    <3> QED
      BY <3>1 DEF CastInv, CastTypeOK
  <2>2. CastInv => PrivateNeedsAPart
    BY DEF CastInv, PrivateNeedsAPart, PlanSound
  <2>3. CastInv => AddresseeAnswers
    BY DEF CastInv, AddresseeAnswers, PlanSound
  <2> QED
    BY <2>1, <2>2, <2>3 DEF CastInv, CastSound
<1> QED
  BY <1>1, <1>2, <1>3, PTL DEF CastSpec

-----------------------------------------------------------------------------
(* The recall. *)
(* The inductive invariant.  Whatever an owner is told, in the order of the   *)
(* search, is of an owner in scope and opened by its permission; what a       *)
(* prompt includes is something somebody is told.                             *)
Opening(told_, o, f) == f \in told_[o] => o \in Scope /\ f \in Eligible(o)
RecallInv ==
    /\ inquiry \in Inquiries
    /\ step \in {"planned", "recalled", "verified", "prompted"}
    /\ told \in [Opened -> SUBSET Facts]
    /\ \A o \in Opened, f \in Facts : Opening(told, o, f)
    /\ seen \subseteq Facts
    /\ prompt.included \cup prompt.omitted \subseteq Opened \X Facts
    /\ ProtectedAreHeard
    /\ IncludedIsSent

(* What is searched depends on the inquiry alone. *)
LEMMA SameInquiry ==
  ASSUME inquiry' = inquiry
  PROVE  /\ Scope' = Scope
         /\ \A o : Eligible(o)' = Eligible(o)
         /\ Protected' = Protected
         /\ \A o, items : Budget(o, items)' = Budget(o, items)
         /\ \A o, items, excluded : Searched(o, items, excluded)' = Searched(o, items, excluded)
         /\ \A o, found : Remembered(o, found)' = Remembered(o, found)
<1>0. Leading' = Leading /\ Named' = Named /\ cast' = cast
  BY DEF Leading, Named, cast
<1>1. Scope' = Scope
  BY <1>0, Zenon DEF Scope, Asks
<1>2. \A o : Permission(o)' = Permission(o)
  BY <1>0, <1>1 DEF Permission, Asks
<1>3. \A o : Eligible(o)' = Eligible(o)
  BY <1>2 DEF Eligible, Trace
<1>4. Protected' = Protected
  BY <1>0 DEF Protected
<1>5. \A o, items : Budget(o, items)' = Budget(o, items)
  <2>1. \A o : Share(o)' = Share(o)
    BY <1>0, Zenon DEF Share
  <2>2. \A o : Planned(o)' = Planned(o)
    BY <1>0 DEF Planned
  <2>3. \A o : Capped(o)' = Capped(o)
    BY <2>1, <2>2, Zenon DEF Capped
  <2> QED
    BY <1>1, <2>3 DEF Budget
<1>6. \A o : Priority(o)' = Priority(o)
  BY <1>0, Zenon DEF Priority
<1>7. \A o, f : Trace(o, f)' = Trace(o, f)
  BY DEF Trace
<1>8. \A f, items : Canonical(f, items)' = Canonical(f, items)
  BY <1>1, <1>3, <1>5, <1>6, <1>7 DEF Canonical
<1>9. \A o, items, excluded : Searched(o, items, excluded)' = Searched(o, items, excluded)
  BY <1>1, <1>3, <1>5, <1>7, <1>8, Zenon DEF Searched
<1>10. \A o, found : Remembered(o, found)' = Remembered(o, found)
  BY <1>7, Zenon DEF Remembered
<1> QED
  BY <1>1, <1>3, <1>4, <1>5, <1>9, <1>10

(* Everybody in scope has memories to open, and nobody else is told a fact. *)
LEMMA ScopeIsOpened ==
  ASSUME InquiryShape, inquiry \in Inquiries
  PROVE  /\ Scope \subseteq Opened
         /\ Scope \ (Fixed \cup Named) \subseteq DOMAIN cast.permissions
<1>1. /\ Leading \subseteq DOMAIN cast.permissions
      /\ cast.likely \subseteq DOMAIN cast.permissions
      /\ DOMAIN cast.permissions \cup Named \cup Fixed \subseteq Opened
  BY DEF InquiryShape, Leading, Named, cast, Opened
<1>2. Scope \in {{}, Fixed, Fixed \cup Named, Named, Leading \cup cast.likely, Leading, Fixed \cup Leading \cup cast.likely}
  BY Zenon DEF Scope
<1> QED
  BY <1>1, <1>2

LEMMA PacketsAreOpen ==
  ASSUME NEW relevant, NEW items, NEW excluded,
         NEW p \in Packets(relevant, items, excluded)
  PROVE  /\ p = <<p[1], p[2]>> /\ p[1] \in Scope
         /\ p[2] \in Remembered(p[1], Best(Searched(p[1], items, excluded) \cap relevant, Budget(p[1], items)))
         /\ p[2] \in Eligible(p[1]) /\ p[2] \in Facts
<1>1. PICK o \in Scope :
         p \in {o} \X Remembered(o, Best(Searched(o, items, excluded) \cap relevant, Budget(o, items)))
  BY DEF Packets
<1> DEFINE found == Best(Searched(o, items, excluded) \cap relevant, Budget(o, items))
<1>2. Searched(o, items, excluded) \subseteq Eligible(o) /\ Eligible(o) \subseteq Facts
  BY DEF Searched, Eligible
<1>3. found \subseteq Searched(o, items, excluded)
  BY DEF Best
<1>4. Remembered(o, found) \subseteq found
  BY DEF Remembered
<1>5. p = <<p[1], p[2]>> /\ p[1] = o /\ p[2] \in Remembered(o, found)
  <2> HIDE DEF found
  <2>1. p \in {o} \X Remembered(o, found)
    BY <1>1, Zenon DEF found
  <2> QED
    BY <2>1
<1> QED
  <2>1. p[2] \in Remembered(p[1], Best(Searched(p[1], items, excluded) \cap relevant, Budget(p[1], items)))
    BY <1>5, Zenon DEF found
  <2>2. p[2] \in Eligible(p[1]) /\ p[2] \in Facts
    <3> HIDE DEF found
    <3> QED
      BY <1>2, <1>3, <1>4, <1>5
  <2> QED
    BY <1>1, <1>5, <2>1, <2>2, Zenon

LEMMA ToldIsOpen ==
  ASSUME NEW relevant, NEW items, NEW excluded
  PROVE  /\ Told(relevant, items, excluded) \in [Opened -> SUBSET Facts]
         /\ \A o \in Opened, f \in Facts : Opening(Told(relevant, items, excluded), o, f)
<1> DEFINE packets == Packets(relevant, items, excluded)
           divided == Divided(packets, items)
<1>1. divided \subseteq packets
  BY DEF Divided, Kept
<1>2. \A o : FactsOf(o, divided) \subseteq Facts
  BY DEF FactsOf
<1>3. \A o, f : f \in FactsOf(o, divided) => o \in Scope /\ f \in Eligible(o)
  <2> SUFFICES ASSUME NEW o, NEW f, f \in FactsOf(o, divided)
               PROVE  o \in Scope /\ f \in Eligible(o)
    OBVIOUS
  <2>1. <<o, f>> \in packets
    BY <1>1 DEF FactsOf
  <2>2. \A p \in packets : p[1] \in Scope /\ p[2] \in Eligible(p[1])
    BY PacketsAreOpen
  <2> HIDE DEF packets
  <2> QED
    BY <2>1, <2>2
<1> QED
  BY <1>2, <1>3 DEF Told, Opening

(* The second search takes nothing an owner may not be told, and adds none. *)
LEMMA MergedIsOpen ==
  ASSUME NEW expansion \in [Opened -> SUBSET Facts], NEW limit,
         told \in [Opened -> SUBSET Facts],
         \A o \in Opened, f \in Facts : Opening(told, o, f) /\ Opening(expansion, o, f)
  PROVE  /\ Merge(expansion, limit) \in [Opened -> SUBSET Facts]
         /\ \A o \in Opened, f \in Facts : Opening(Merge(expansion, limit), o, f)
<1> DEFINE merged == Merge(expansion, limit)
<1>1. \A S, o : FactsOf(o, S) \subseteq Facts
  BY DEF FactsOf
<1>2. merged \in [Opened -> SUBSET Facts]
  BY <1>1 DEF Merge
<1>3. ASSUME NEW o \in Opened, NEW f \in merged[o]
      PROVE  f \in told[o] \/ f \in expansion[o]
  <2>1. <<o, f>> \in Shown \cup PairsOf(expansion)
    BY <1>3 DEF Merge, FactsOf
  <2> QED
    BY <2>1 DEF Shown, PairsOf
<1> QED
  BY <1>2, <1>3 DEF Opening

(* Of the packets of a protected owner the best is kept. *)
LEMMA BestIsKept ==
  ASSUME FactShape, NEW packets, \A p \in packets : p = <<p[1], p[2]>> /\ p[2] \in Facts,
         NEW p \in packets, p[1] \in Protected
  PROVE  \E q \in Kept(packets) : q[1] = p[1]
<1> DEFINE own == {f \in Facts : <<p[1], f>> \in packets}
           n == Cardinality(Facts)
<1>1. n \in Nat
  BY FS_CardinalityType DEF FactShape
<1>2. own \in SUBSET (0..n) /\ own # {}
  BY <1>1 DEF FactShape
<1>3. PICK f \in own : \A g \in own : g <= f
  <2> HIDE DEF own, n
  <2> QED
    BY <1>1, <1>2, LastPlace
<1>4. <<p[1], f>> \in Kept(packets)
  BY <1>3 DEF Kept
<1> QED
  BY <1>4

(* A protected owner with something to remember among what was found is told  *)
(* a fact by the first search.                                                *)
LEMMA ProtectedIsTold ==
  ASSUME FactShape, InquiryShape, inquiry \in Inquiries, NEW relevant \in SUBSET Facts,
         NEW o \in Protected \cap Scope,
         Remembered(o, Best(Searched(o, inquiry.items, {}) \cap Considered(relevant, inquiry.items, {}),
                            Budget(o, inquiry.items))) # {}
  PROVE  Told(relevant, inquiry.items, {})[o] # {}
<1> DEFINE items == inquiry.items
           packets == Packets(relevant, items, {})
           searched == Searched(o, items, {})
           found == Remembered(o, Best(searched \cap relevant, Budget(o, items)))
<1>1. searched \cap Considered(relevant, items, {}) = searched \cap relevant
  BY DEF Considered
<1>2. PICK f : f \in found
  BY <1>1
<1>3. <<o, f>> \in packets
  <2> DEFINE own(q) == {q} \X Remembered(q, Best(Searched(q, items, {}) \cap relevant, Budget(q, items)))
  <2>1. <<o, f>> \in own(o)
    BY <1>2
  <2>2. packets = UNION {own(q) : q \in Scope}
    BY DEF Packets
  <2> HIDE DEF packets, own
  <2> QED
    BY <2>1, <2>2
<1>4. \A p \in packets : p = <<p[1], p[2]>> /\ p[2] \in Facts
  BY PacketsAreOpen
<1>5. PICK q \in Kept(packets) : q[1] = o
  <2> HIDE DEF packets
  <2> QED
    BY <1>3, <1>4, BestIsKept
<1>6. q \in Divided(packets, items)
  BY <1>5 DEF Divided
<1>7. q = <<o, q[2]>> /\ q[2] \in Facts
  BY <1>4, <1>5 DEF Kept
<1>8. q[2] \in FactsOf(o, Divided(packets, items))
  BY <1>6, <1>7 DEF FactsOf
<1> QED
  BY <1>8, ScopeIsOpened DEF Told

LEMMA PairsAreFinite ==
  ASSUME FactShape
  PROVE  IsFiniteSet(Opened) /\ IsFiniteSet(Opened \X Facts)
<1>1. Fixed = {"world"} \cup {"narrator"}
  BY DEF Fixed
<1>2. IsFiniteSet(Fixed)
  BY <1>1, FS_Singleton, FS_Union
<1>3. IsFiniteSet(Opened)
  BY <1>2, FS_Union DEF FactShape, Opened
<1> QED
  BY <1>3, FS_Product DEF FactShape

(* A set of lines has a length. *)
LEMMA LengthIsNat ==
  ASSUME FactShape, NEW pairs \in SUBSET (Opened \X Facts)
  PROVE  Length(pairs) \in Nat
<1> DEFINE Characters == [p \in pairs |-> {p} \X (1..Size[p[2]])]
           all == {{p} \X (1..Size[p[2]]) : p \in pairs}
<1>2. IsFiniteSet(pairs)
  BY PairsAreFinite, FS_Subset
<1>3. Characters \in Surjection(pairs, all)
  BY DEF Surjection
<1>4. IsFiniteSet(all)
  <2> HIDE DEF Characters, all
  <2> QED
    BY <1>2, <1>3, FS_Surjection
<1>5. \A T \in all : IsFiniteSet(T)
  <2> SUFFICES ASSUME NEW p \in pairs
               PROVE  IsFiniteSet({p} \X (1..Size[p[2]]))
    OBVIOUS
  <2>1. Size[p[2]] \in Nat
    BY DEF FactShape
  <2>2. IsFiniteSet(1..Size[p[2]])
    <3> DEFINE last == Size[p[2]]
    <3> HIDE DEF last
    <3>1. last \in Int
      BY <2>1 DEF last
    <3>2. IsFiniteSet(1..last)
      BY <3>1, FS_Interval
    <3> QED
      BY <3>2 DEF last
  <2>3. IsFiniteSet({p})
    BY FS_Singleton
  <2> QED
    BY <2>2, <2>3, FS_Product
<1>6. IsFiniteSet(UNION all)
  <2> HIDE DEF all
  <2> QED
    BY <1>4, <1>5, FS_UNION
<1> QED
  BY <1>6, FS_CardinalityType DEF Length

(* A prompt takes up some room. *)
LEMMA UsedIsPositive ==
  ASSUME FactShape, NEW pairs \in SUBSET (Opened \X Facts)
  PROVE  Used(pairs) \in Nat \ {0}
<1>1. Partitions \subseteq Opened
  BY DEF Partitions, Opened, Current, Others
<1>2. IsFiniteSet(Opened)
  BY PairsAreFinite
<1>3. Cardinality(Partitions) \in Nat
  BY <1>1, <1>2, FS_Subset, FS_CardinalityType
<1>4. Cardinality(Partitions) * TagSize \in Nat
  BY <1>3 DEF FactShape
<1> HIDE DEF FactShape
<1>5. Length(pairs) \in Nat
  BY LengthIsNat
<1> QED
  BY <1>4, <1>5 DEF Used, FactShape

(* What is left of lines that are too long is not. *)
LEMMA TrimmedFits ==
  ASSUME NEW pairs, IsFiniteSet(pairs), NEW room \in Nat
  PROVE  /\ Trimmed(pairs, room) \subseteq pairs
         /\ Trimmed(pairs, room) # {} => Used(Trimmed(pairs, room)) <= room /\ ~(room < Smallest)
<1> DEFINE first(n) == {p \in pairs : Cardinality({q \in pairs : LineBefore(q, p)}) < n}
           enough == {n \in 0..Cardinality(pairs) : Used(first(n)) <= room}
           longest == CHOOSE n \in enough : \A m \in enough : m <= n
<1>1. Trimmed(pairs, room) = IF room < Smallest \/ enough = {} THEN {} ELSE first(longest)
  BY DEF Trimmed
<1>2. first(longest) \subseteq pairs
  OBVIOUS
<1>3. enough # {} => longest \in enough
  <2>1. Cardinality(pairs) \in Nat
    BY FS_CardinalityType
  <2>2. enough \in SUBSET (0..Cardinality(pairs))
    OBVIOUS
  <2> HIDE DEF enough
  <2>3. enough # {} => \E n \in enough : \A m \in enough : m <= n
    BY <2>1, <2>2, LastPlace
  <2> QED
    BY <2>3
<1>4. longest \in enough => Used(first(longest)) <= room
  OBVIOUS
<1> HIDE DEF first, enough, longest
<1> QED
  BY <1>1, <1>2, <1>3, <1>4

LEMMA RecallInvInit == FactShape /\ RecallInit => RecallInv
BY DEF RecallInit, RecallInv, NoPrompt, Opening, ProtectedAreHeard, IncludedIsSent, FactShape

LEMMA RecallKeeps ==
  ASSUME FactShape, InquiryShape, RecallInv, Recall
  PROVE  RecallInv'
<1>1. PICK relevant \in SUBSET Facts :
         /\ told' = Told(relevant, inquiry.items, {})
         /\ seen' = Considered(relevant, inquiry.items, {})
  BY DEF Recall
<1>2. inquiry' = inquiry /\ prompt' = prompt /\ step' = "recalled" /\ inquiry \in Inquiries
  BY DEF Recall, RecallInv
<1>3. Scope' = Scope /\ \A o : Eligible(o)' = Eligible(o)
  BY <1>2, SameInquiry
<1>4. /\ told' \in [Opened -> SUBSET Facts]
      /\ \A o \in Opened, f \in Facts : Opening(told', o, f)
  BY <1>1, ToldIsOpen
<1>5. \A o \in Opened, f \in Facts : Opening(told, o, f)'
  BY <1>3, <1>4 DEF Opening
<1>6. seen' \subseteq Facts
  BY <1>1 DEF Considered
<1>7. ProtectedAreHeard'
  <2> SUFFICES ASSUME NEW o \in Protected \cap Scope,
                      Remembered(o, Best(Searched(o, inquiry.items, {}) \cap seen',
                                         Budget(o, inquiry.items))) # {}
               PROVE  told'[o] # {}
    BY <1>2, SameInquiry DEF ProtectedAreHeard
  <2> QED
    BY <1>1, <1>2, ProtectedIsTold
<1>8. IncludedIsSent'
  BY <1>2 DEF RecallInv, IncludedIsSent
<1> QED
  BY <1>2, <1>4, <1>5, <1>6, <1>7, <1>8 DEF RecallInv

LEMMA ExpandKeeps ==
  ASSUME FactShape, InquiryShape, RecallInv, Expand
  PROVE  RecallInv'
<1>0. PICK relevant \in SUBSET Facts :
         \E limit : told' = Merge(Told(relevant, inquiry.items + 2, seen), limit)
  BY Zenon DEF Expand
<1>1. PICK limit : told' = Merge(Told(relevant, inquiry.items + 2, seen), limit)
  BY <1>0
<1>2. inquiry' = inquiry /\ prompt' = prompt /\ seen' = seen /\ step' = "verified"
  BY DEF Expand
<1>3. Scope' = Scope /\ \A o : Eligible(o)' = Eligible(o)
  BY <1>2, SameInquiry
<1> DEFINE expansion == Told(relevant, inquiry.items + 2, seen)
<1>4. /\ expansion \in [Opened -> SUBSET Facts]
      /\ \A o \in Opened, f \in Facts : Opening(expansion, o, f)
  BY ToldIsOpen
<1>5. /\ told' \in [Opened -> SUBSET Facts]
      /\ \A o \in Opened, f \in Facts : Opening(told', o, f)
  <2> HIDE DEF expansion
  <2>1. told' = Merge(expansion, limit)
    BY <1>1 DEF expansion
  <2> QED
    BY <1>4, <2>1, MergedIsOpen DEF RecallInv
<1>6. \A o \in Opened, f \in Facts : Opening(told, o, f)'
  BY <1>3, <1>5 DEF Opening
<1>7. ProtectedAreHeard'
  BY <1>2 DEF ProtectedAreHeard
<1>8. IncludedIsSent'
  BY <1>2 DEF RecallInv, IncludedIsSent
<1> QED
  BY <1>2, <1>5, <1>6, <1>7, <1>8 DEF RecallInv

(* A prompt includes what somebody is told and it has room for. *)
LEMMA BuildPromptKeeps ==
  ASSUME FactShape, InquiryShape, RecallInv, BuildPrompt
  PROVE  RecallInv'
<1>1. inquiry' = inquiry /\ told' = told /\ seen' = seen /\ step' = "prompted" /\ inquiry \in Inquiries
  BY DEF BuildPrompt, RecallInv
<1>2. PICK room \in inquiry.rooms :
         LET included == Trimmed(FittingLines(room), room)
         IN  prompt' = [room |-> room,
                        used |-> IF Silent \/ room < Smallest \/ Used(included) > room THEN 0
                                 ELSE Used(included),
                        included |-> included, omitted |-> Shown \ included]
  BY DEF BuildPrompt
<1> DEFINE lines == FittingLines(room)
           included == Trimmed(lines, room)
<1>3. lines \subseteq Shown
  BY DEF FittingLines, Offered
<1>4. Shown \subseteq Opened \X Facts
  BY DEF Shown, PairsOf
<1>5. room \in Nat
  BY <1>1 DEF InquiryShape
<1>6. IsFiniteSet(lines)
  BY <1>3, <1>4, PairsAreFinite, FS_Subset
<1>7. /\ included \subseteq lines
      /\ included # {} => Used(included) <= room /\ ~(room < Smallest)
  <2> HIDE DEF lines
  <2> QED
    BY <1>5, <1>6, TrimmedFits
<1>8. Used(included) \in Nat \ {0}
  <2> HIDE DEF included
  <2> QED
    BY <1>3, <1>4, <1>7, UsedIsPositive
<1>9. Silent => included = {}
  BY <1>3, <1>7 DEF Silent
<1>10. /\ prompt'.room = room /\ prompt'.included = included /\ prompt'.omitted = Shown \ included
       /\ prompt'.used = IF Silent \/ room < Smallest \/ Used(included) > room THEN 0 ELSE Used(included)
  BY <1>2
<1> HIDE DEF included
<1>11. IncludedIsSent'
  <2>1. prompt'.used <= prompt'.room
    BY <1>5, <1>8, <1>10
  <2>2. prompt'.used = 0 => prompt'.included = {}
    BY <1>5, <1>7, <1>8, <1>9, <1>10
  <2> QED
    BY <2>1, <2>2 DEF IncludedIsSent
<1>12. prompt'.included \cup prompt'.omitted \subseteq Opened \X Facts
  BY <1>3, <1>4, <1>7, <1>10
<1>13. ProtectedAreHeard'
  BY <1>1 DEF ProtectedAreHeard
<1>14. \A o \in Opened, f \in Facts : Opening(told, o, f)'
  <2>1. Scope' = Scope /\ \A o : Eligible(o)' = Eligible(o)
    BY <1>1, SameInquiry
  <2> QED
    BY <1>1, <2>1 DEF Opening, RecallInv
<1> QED
  BY <1>1, <1>11, <1>12, <1>13, <1>14 DEF RecallInv

LEMMA RecallInvNext ==
  ASSUME FactShape, InquiryShape, RecallInv, [RecallNext]_recallVars
  PROVE  RecallInv'
<1>1. CASE Recall
  BY <1>1, RecallKeeps
<1>2. CASE Expand
  BY <1>2, ExpandKeeps
<1>3. CASE Verified \/ UNCHANGED recallVars
  <2>1. inquiry' = inquiry /\ told' = told /\ seen' = seen /\ prompt' = prompt
    BY <1>3 DEF Verified, recallVars
  <2>2. step' = "verified" \/ step' = step
    BY <1>3 DEF Verified, recallVars
  <2>3. /\ Scope' = Scope /\ Protected' = Protected
        /\ \A o : Eligible(o)' = Eligible(o)
        /\ \A o, items : Budget(o, items)' = Budget(o, items)
        /\ \A o, items, excluded : Searched(o, items, excluded)' = Searched(o, items, excluded)
        /\ \A o, found : Remembered(o, found)' = Remembered(o, found)
    BY <2>1, SameInquiry
  <2>4. ProtectedAreHeard'
    BY <2>1, <2>2, <2>3 DEF RecallInv, ProtectedAreHeard
  <2>5. \A o \in Opened, f \in Facts : Opening(told, o, f)'
    BY <2>1, <2>3 DEF RecallInv, Opening
  <2>6. IncludedIsSent'
    BY <2>1 DEF RecallInv, IncludedIsSent
  <2> QED
    BY <2>1, <2>2, <2>4, <2>5, <2>6 DEF RecallInv
<1>4. CASE BuildPrompt
  BY <1>4, BuildPromptKeeps
<1> QED
  BY <1>1, <1>2, <1>3, <1>4 DEF RecallNext

(* What is recalled of an owner the message does not name, and keeps to       *)
(* itself, the plan opened.                                                  *)
LEMMA RecallInvSound ==
  ASSUME InquiryShape, RecallInv
  PROVE  RecallSound
<1>1. SecretsNeedPermission
  <2> SUFFICES ASSUME NEW p \in Shown, p[1] \notin Fixed, Trace(p[1], p[2]).privacy = "private"
               PROVE  /\ ~Asks("actor_entity")
                      /\ p[1] \notin Named =>
                           p[1] \in DOMAIN cast.permissions /\ cast.permissions[p[1]] \in {"full", "focused"}
    BY DEF SecretsNeedPermission
  <2>1. p[1] \in Opened /\ p[2] \in Facts /\ p[2] \in told[p[1]]
    BY DEF Shown, PairsOf
  <2>2. p[1] \in Scope /\ p[2] \in Eligible(p[1])
    BY <2>1 DEF RecallInv, Opening
  <2>3. Permission(p[1]) \in {"full", "focused"}
    BY <2>2 DEF Eligible
  <2>4. ~Asks("actor_entity")
    BY <2>3 DEF Permission
  <2>5. ASSUME p[1] \notin Named
        PROVE  p[1] \in DOMAIN cast.permissions
    BY <2>2, <2>5, ScopeIsOpened DEF RecallInv
  <2> QED
    BY <2>3, <2>4, <2>5 DEF Permission
<1> QED
  BY <1>1 DEF RecallInv, RecallSound, RecallTypeOK

(* What an actor keeps to itself is recalled only for an actor the message     *)
(* names or the plan opens, a protected owner is never left out, and a prompt  *)
(* includes no line it has no room for: for any memories, plans and settings.  *)
THEOREM RecallStaysSound == RecallSpec => []RecallSound
<1>1. RecallInit => RecallInv
  BY FactShape, RecallInvInit
<1>2. RecallInv /\ [RecallNext]_recallVars => RecallInv'
  BY FactShape, InquiryShape, RecallInvNext
<1>3. RecallInv => RecallSound
  BY InquiryShape, RecallInvSound
<1> QED
  BY <1>1, <1>2, <1>3, PTL DEF RecallSpec
=============================================================================
