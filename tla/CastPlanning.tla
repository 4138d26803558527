---------------------------- MODULE CastPlanning ----------------------------
(***************************************************************************)
(* Who takes part in the next reply, decided before it is generated:        *)
(* CastCandidateResolver scores the actors, GenerationCastPlanner turns the *)
(* candidates into a plan by rules, and may ask a model, the director, for  *)
(* another one.  The plan says who may open which memories.  Plans are kept *)
(* by turn: a second request for a turn gets the plan of the first,         *)
(* finished or not.                                                        *)
(*                                                                         *)
(* An occasion is what a plan depends on: for each actor the set of things  *)
(* the scene, the sources and the message say of it, hints of the message,  *)
(* and the settings.  A score is in hundredths.                             *)
(***************************************************************************)
EXTENDS Integers, Sequences, FiniteSetsExt

CONSTANTS
    Candidates,   \* the actors, in the order localeCompare gives their ids
    Occasions,
    Proposals,    \* what the director may answer
    MaxFloor,     \* bound: turns
    MaxKept       \* plans turnCache holds

\* What the settings may open for who is likely to speak or in the background.
ASSUME RecallSettings ==
    \A o \in Occasions : {o.likelyRecall, o.backgroundRecall} \subseteq {"public_only", "identity_only", "none"}
ASSUME RoomForAPlan == MaxKept \in Nat \ {0}

VARIABLES
    occasion,
    floor,    \* the turn: floor, message, scene revision and settings, one key
    cache,    \* turnCache, oldest first: turns whose plan is in the making or made
    calls,    \* history: turns the director was asked about
    planned   \* history: the plans the turns got

castVars == <<occasion, floor, cache, calls, planned>>

Cast == {Candidates[i] : i \in DOMAIN Candidates}
Traits == {"host", "addressed", "viewpoint", "present", "recent", "participant",
           "located", "mentioned", "exited"}
Permissions == {"full", "focused", "public_only", "identity_only", "none"}

-----------------------------------------------------------------------------
(* CastCandidateResolver. *)

Is(a, what) == what \in occasion.says[a]
Those(what) == {a \in Cast : Is(a, what)}

Weight == [host |-> 100, addressed |-> 95, viewpoint |-> 90, present |-> 80, recent |-> 65,
           participant |-> 50, located |-> 35, mentioned |-> 10, exited |-> -100]
Reasons(a) == occasion.says[a] \ (IF Is(a, "present") \/ Is(a, "addressed") THEN {"mentioned"} ELSE {})
Score(a) == Max({-100, Min({100, MapThenSumSet(LAMBDA r : Weight[r], Reasons(a))})})

\* Mentioned, and nothing that makes an actor one of the scene.
MentionedOnly(a) ==
    /\ Is(a, "mentioned")
    /\ occasion.says[a] \cap {"present", "viewpoint", "recent", "addressed", "host"} = {}

Before(a, b) ==
    \/ Is(b, "exited") /\ ~Is(a, "exited")
    \/ /\ Is(a, "exited") = Is(b, "exited")
       /\ \/ Score(a) > Score(b)
          \/ Score(a) = Score(b)
             /\ \E i, j \in DOMAIN Candidates : i < j /\ Candidates[i] = a /\ Candidates[j] = b
First(S, n) == {a \in S : Cardinality({b \in S : Before(b, a)}) < n}
\* The score of the n-th, 0 when there is none.
PlacedScore(S, n) ==
    LET nth == First(S, n) \ First(S, n - 1)
    IN  IF nth = {} THEN 0 ELSE Max({Score(a) : a \in nth})

Stayed == Cast \ Those("exited")
DirectFollowUp == "follow_up" \in occasion.hints /\ Those("addressed") = {}

\* In quarters of a hundredth: the second candidate counts a quarter.
Confidence ==
    IF Cardinality(Those("addressed")) = 1 \/ Those("host") # {} THEN 400
    ELSE Max({0, Min({400, 4 * PlacedScore(Stayed, 1) - Max({0, PlacedScore(Stayed, 2)})})})

-----------------------------------------------------------------------------
(* GenerationCastPlanner: by rules. *)

Viable == {a \in Stayed : ~MentionedOnly(a)}
Primary == (Those("host") \cup Those("addressed")) \cap Stayed
Required ==
    IF Primary # {} THEN Primary
    ELSE IF DirectFollowUp /\ Viable \cap Those("recent") # {} THEN First(Viable \cap Those("recent"), 1)
    ELSE First(Viable, 1)

ExclusiveTarget ==
    /\ Cardinality(Required) = 1
    /\ 1 \in {Cardinality(Those(w) \cap Stayed) : w \in {"addressed", "host"}}

Likely == IF ExclusiveTarget THEN {}
          ELSE First({a \in Viable \ Required : Score(a) >= occasion.threshold}, occasion.candidates)
Background == IF ExclusiveTarget THEN {} ELSE (Those("present") \ Required) \ Likely
Mentioned == {a \in Cast : Is(a, "mentioned")} \ (Required \cup Likely \cup Background)

\* Later entries of permissionByOwner overwrite earlier ones; the viewpoint of
\* the scene opens everything.
Permitted(required, likely, background, mentioned, excluded, viewpoint) ==
    [a \in required \cup likely \cup background \cup mentioned \cup excluded \cup viewpoint |->
        IF a \in viewpoint THEN "full"
        ELSE IF a \in excluded \cup mentioned THEN "none"
        ELSE IF a \in background THEN occasion.backgroundRecall
        ELSE IF a \in likely THEN occasion.likelyRecall
        ELSE "full"]

DeterministicPlan ==
    [by |-> "rules", viewpoint |-> Those("viewpoint"),
     required |-> Required, likely |-> Likely, background |-> Background,
     mentioned |-> Mentioned, excluded |-> Those("exited"),
     permissions |-> Permitted(Required, Likely, Background, Mentioned, Those("exited"), Those("viewpoint"))]

PlanConfidence ==
    IF Cardinality(Those("addressed") \cap Stayed) = 1 \/ Those("host") \cap Stayed # {} THEN 400
    ELSE Max({0, Confidence} \cup {4 * Score(a) : a \in First(Required, 1)})

\* Cases in which the rules decide: one addressee, the host's choice, one likely
\* speaker, an answer to the last one.
Decided ==
    \/ Cardinality(Those("addressed")) = 1
    \/ Those("host") \cap Viable # {}
    \/ Cardinality({a \in Viable : Score(a) >= 50}) = 1
    \/ DirectFollowUp

NeedsDirector ==
    /\ occasion.mode # "fast" /\ occasion.plannerCalls > 0
    /\ \/ occasion.mode = "director"
       \/ /\ ~Decided
          /\ \/ Cardinality(Those("present")) > 2 /\ "go_on" \in occasion.hints
             \/ Cardinality(Those("addressed")) > 1
             \/ "transition" \in occasion.hints
             \/ Required = {}
             \/ "new_actor" \in occasion.hints
             \/ PlanConfidence < 4 * occasion.threshold
             \/ /\ Cardinality(Viable) > 2
                /\ PlacedScore(Viable, 1) - PlacedScore(Viable, 2) <= 8

-----------------------------------------------------------------------------
(* ... and by the director. *)

\* Only candidates count.
Allowed(named) == named \cap Cast

\* The proposal p, list by list without whom an earlier list has; nobody required
\* or in the background is taken from the rules.
DirectedPlan(p) ==
    LET proposed == Allowed(p.required)
        required == IF proposed = {} THEN Required ELSE proposed
        wanted == Allowed(p.likely) \ proposed
        likely == {a \in wanted : a \in Cast => Score(a) >= occasion.threshold}
        behind == (Allowed(p.background) \ proposed) \ wanted
        background == ((IF behind = {} THEN Background ELSE behind) \cup (wanted \ likely)) \ (required \cup likely)
        mentioned == Allowed(p.mentioned) \ (proposed \cup wanted \cup behind)
        excluded == Allowed(p.excluded) \ (proposed \cup wanted \cup behind)
        viewpoint == IF Allowed(p.viewpoint) # {} THEN Allowed(p.viewpoint) ELSE Those("viewpoint")
    IN  [by |-> "director", viewpoint |-> viewpoint,
         required |-> required, likely |-> likely, background |-> background,
         mentioned |-> mentioned, excluded |-> Those("exited") \cup excluded,
         permissions |-> Permitted(required, likely, background, mentioned, excluded, viewpoint)]

-----------------------------------------------------------------------------
CastInit ==
    /\ occasion \in Occasions
    /\ floor = 1
    /\ cache = <<>> /\ calls = <<>> /\ planned = {}

\* Mutant: a plan in the making is not kept.
KeepFinished(q) == SelectSeq(q, LAMBDA e : e.made)

\* The oldest plan goes.
KeepPlans(q) == IF Len(q) > MaxKept THEN Tail(q) ELSE q

Cached == {i \in DOMAIN cache : cache[i].floor = floor}

\* A request for the turn: kept at once, decided now or by the director.
AskPlan ==
    /\ Cached = {}
    /\ IF NeedsDirector
       THEN /\ Len(calls) < MaxFloor + 1 /\ calls' = Append(calls, floor)
            /\ cache' = KeepPlans(Append(cache, [floor |-> floor, made |-> FALSE]))
            /\ UNCHANGED planned
       ELSE /\ cache' = KeepPlans(Append(cache, [floor |-> floor, made |-> TRUE]))
            /\ planned' = planned \cup {DeterministicPlan}
            /\ UNCHANGED calls
    /\ UNCHANGED <<occasion, floor>>

\* The director answers for a turn, or fails and the rules decide.
Answered(f, plan) ==
    /\ cache' = [i \in DOMAIN cache |-> [cache[i] EXCEPT !.made = @ \/ cache[i].floor = f]]
    /\ planned' = planned \cup {plan}
    /\ UNCHANGED <<occasion, floor, calls>>
DirectorAnswers(f) == \E p \in Proposals : Answered(f, DirectedPlan(p))
DirectorFails(f) == Answered(f, DeterministicPlan)

NextTurn ==
    /\ floor < MaxFloor
    /\ floor' = floor + 1
    /\ UNCHANGED <<occasion, cache, calls, planned>>

CastNext ==
    \/ AskPlan
    \/ \E i \in DOMAIN cache :
          ~cache[i].made /\ (DirectorAnswers(cache[i].floor) \/ DirectorFails(cache[i].floor))
    \/ NextTurn

CastSpec == CastInit /\ [][CastNext]_castVars

-----------------------------------------------------------------------------
CastTypeOK ==
    /\ \A c \in planned : c.by \in {"rules", "director"} /\ c.permissions \in [DOMAIN c.permissions -> Permissions]
    /\ Len(cache) <= MaxKept

\* A plan opens private memories only to candidates that must take part or whose
\* view is told, whoever made it: the director names nobody else into it.
PrivateNeedsAPart ==
    \A c \in planned : \A a \in DOMAIN c.permissions :
        c.permissions[a] \in {"full", "focused"} => a \in Cast \cap (c.required \cup c.viewpoint)

\* Who is addressed by name, alone and still there, has to answer, unless the
\* settings give every turn to the director.
AddresseeAnswers ==
    \A c \in planned :
        (Cardinality(Those("addressed")) = 1 /\ occasion.mode # "director")
            => Those("addressed") \cap Stayed \subseteq c.required

\* The director is asked at most once for a turn, however many requests for it
\* overlap (a scene stored in between begins another turn, with a key of its own).
DirectorOnce == \A i, j \in DOMAIN calls : calls[i] = calls[j] => i = j

\* The plans of a turn, by the rules and by the director.
CastSound == CastTypeOK /\ PrivateNeedsAPart /\ AddresseeAnswers /\ DirectorOnce
=============================================================================
