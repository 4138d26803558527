------------------------------ MODULE MCTurns ------------------------------
(* The turns of a chat: generations that complete, and what is prepared     *)
(* before one: the scene, the cast, what each owner is told. They are kept  *)
(* apart, so a behaviour follows one of them (part).                        *)
EXTENDS GenerationCompletion, SceneStates, CastPlanning, OwnerRecall, TLC

CONSTANT A
VARIABLE part
turnVars == <<vars, sceneVars, castVars, recallVars, part>>

Line(speaker, who, does, place, breaks) ==
    [speaker |-> speaker, who |-> who, does |-> does, place |-> place, breaks |-> breaks]
ChatLines == {Line("player", "a", "enters", "hall", FALSE), Line("a", Nobody, "named", Nowhere, FALSE),
              Line("b", "a", "exits", Nowhere, FALSE), Line("narrator", "b", "named", "yard", TRUE)}

Proposal(r, l, b, m, e, v) ==
    [required |-> r, likely |-> l, background |-> b, mentioned |-> m, excluded |-> e, viewpoint |-> v]
MCProposals == {Proposal({}, {"a"}, {}, {}, {}, {}), Proposal({"b"}, {"c"}, {}, {"a"}, {}, {}),
                Proposal({"z"}, {}, {"a"}, {}, {"b"}, {"z"})}
Sayings == {{"present"}, {"present", "recent"}, {"mentioned", "addressed"}, {"addressed", "present"},
            {"exited", "mentioned"}, {"participant"}}
Occasion(x, y, z, hints, mode) ==
    [says |-> [a |-> x, b |-> y, c |-> z], hints |-> hints, mode |-> mode, plannerCalls |-> 1,
     threshold |-> 72, candidates |-> 1, likelyRecall |-> "public_only", backgroundRecall |-> "identity_only"]
MCOccasions ==
    {Occasion(x \cup h, y, z, hints, mode) :
        x, y \in Sayings, h \in {{}, {"host"}, {"viewpoint"}}, z \in {{}, {"present", "viewpoint"}},
        hints \in {{}, {"follow_up"}, {"transition", "go_on"}}, mode \in {"fast", "hybrid", "director"}}

T(privacy, strength) == [privacy |-> privacy, strength |-> strength]
U == T("unknown", 0)
Minds(world, narrator, a, b) == "world" :> world @@ "narrator" :> narrator @@ "a" :> a @@ "b" :> b
MCMinds == {
    Minds(<<U, U, T("public", 2)>>, <<U, U, U>>,
          <<T("private", 2), T("public", 1), T("public", 2)>>, <<T("private", 2), T("public", 1), U>>),
    Minds(<<U, U, U>>, <<U, T("private", 1), U>>,
          <<U, T("private", 1), T("private", 1)>>, <<T("public", 1), U, T("private", 0)>>)}
CastOf(v, r, l, p) == [viewpoint |-> v, required |-> r, likely |-> l, permissions |-> p]
MCCasts == {CastOf({"a"}, {"b"}, {}, "a" :> "full" @@ "b" :> "full"),
            CastOf({}, {"b"}, {"a"}, "b" :> "full" @@ "a" :> "public_only"),
            CastOf({}, {}, {"a", "b"}, "a" :> "focused" @@ "b" :> "identity_only"),
            CastOf({}, {"a", "b"}, {}, "a" :> "none" @@ "b" :> "full")}
MCInquiries ==
    {[cast |-> c, kind |-> k, named |-> n, traces |-> t, items |-> i, rooms |-> {200, 300, 400}] :
        c \in MCCasts, n \in {{}, {"a"}}, t \in MCMinds, i \in {1, 2},
        k \in {"recent_context", "world_knowledge", "actor_entity", "actor_knowledge", "scene_action",
               "timeline", "general"}}
FactKinds == <<"identity", "event", "state">>
LineSizes == <<10, 20, 30>>
ABC == <<"a", "b", "c">>
AB == <<"a", "b">>

\* The chats differ in nothing: one of them is open first.
MCInit == /\ part \in {"completion", "scene", "cast", "recall"}
          /\ occasion \in IF part = "cast" THEN MCOccasions ELSE {CHOOSE o \in MCOccasions : TRUE}
          /\ inquiry \in IF part = "recall" THEN MCInquiries ELSE {CHOOSE i \in MCInquiries : TRUE}
          /\ Init /\ chat = A /\ SceneInit /\ CastInit /\ RecallInit
MCNext == \/ part = "completion" /\ Next /\ UNCHANGED <<sceneVars, castVars, recallVars, part>>
          \/ part = "scene" /\ SceneNext /\ UNCHANGED <<vars, castVars, recallVars, part>>
          \/ part = "cast" /\ CastNext /\ UNCHANGED <<vars, sceneVars, recallVars, part>>
          \/ part = "recall" /\ RecallNext /\ UNCHANGED <<vars, sceneVars, castVars, part>>
MCSpec == MCInit /\ [][MCNext]_turnVars /\ Fairness
=============================================================================
