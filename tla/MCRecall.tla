------------------------------ MODULE MCRecall ------------------------------
(* Libraries, and what may be asked of them: a gun, a maid called Ann,     *)
(* food and water.                                                         *)
EXTENDS SemanticRecall, TLC

Forever == 99
Fact(id, kind, subject, words, at) ==
    [id |-> id, kind |-> kind, subject |-> subject, slot |-> subject, words |-> words \cup {subject},
     entities |-> {subject}, scope |-> {}, anchor |-> FALSE, status |-> "active", confidence |-> 80,
     from |-> 0, until |-> Forever, at |-> at, floor |-> at, snapshot |-> FALSE]
Shots == Fact(1, "state", "gun", {"shots", "x"}, 1)
ShotsNow == [Fact(2, "state", "gun", {"left", "y"}, 3) EXCEPT !.from = 2]
GunRead == [Fact(2, "state", "gun", {"left"}, 3) EXCEPT !.snapshot = TRUE, !.slot = "variables"]
Maid == [Fact(3, "identity", "ann", {"food"}, 1) EXCEPT !.scope = {"card"}, !.anchor = TRUE]
Meal == [Fact(4, "event", "ann", {"food", "x", "y"}, 2) EXCEPT !.floor = 0]
Well == [Fact(5, "event", "well", {"water"}, 3) EXCEPT !.entities = {"well", "ann"}]
Order == Fact(6, "goal", "ann", {"water", "food"}, 1)
MCLibraries == {{}, {Shots, ShotsNow, Maid, Meal, Well}, {Shots, GunRead, Meal, Well, Order},
                {Shots, Meal, Order}}
MCRevisions == {[Shots EXCEPT !.status = "superseded", !.words = {"gun", "water"}], [Maid EXCEPT !.scope = {}]}

Inquest(words, of, requested, rerank) ==
    [words |-> words, entities |-> {}, scope |-> {"card"}, named |-> {}, kinds |-> {}, historical |-> FALSE,
     current |-> "now" \in words, topic |-> FALSE, earliest |-> FALSE, directive |-> FALSE, segments |-> <<>>,
     allowed |-> of, now |-> 3, forever |-> Forever, requested |-> requested, rerank |-> rerank, client |-> TRUE,
     hops |-> 0, edges |-> 4, pool |-> 4, items |-> 2]
All == 1..6
MCInquests ==
    {Inquest({"now", "shots", "left"}, All, m, r) : m \in {"vector", "hybrid"}, r \in {"off", "adaptive", "always"}}
    \cup {[Inquest({"now", "gun"}, All, "hybrid", "always") EXCEPT !.scope = {}, !.hops = 2, !.edges = 5]}
    \cup {[Inquest({"food"}, All \ {4}, "vector", "adaptive") EXCEPT !.hops = h, !.edges = 2] : h \in {1, 2}}
    \cup {[Inquest({"gun", "food", "water"}, All, m, "off") EXCEPT
              !.segments = <<{"food"}, {"water"}, {"gun"}>>, !.items = 4, !.historical = h] :
                  m \in {"lexical", "hybrid"}, h \in BOOLEAN}
    \cup {[Inquest({"gun", "food", "ann"}, All, "lexical", "off") EXCEPT !.segments = <<{"food"}, {"gun"}>>]}
    \cup {[Inquest({"x", "ann"}, All, m, "always") EXCEPT
              !.earliest = TRUE, !.historical = TRUE, !.kinds = {"event"}, !.directive = d, !.named = {"ann"}] :
                  m \in {"lexical", "hybrid"}, d \in BOOLEAN}
MCHits == {<<>>, 5 :> 90 @@ 4 :> 80, 1 :> 95 @@ 3 :> 90 @@ 5 :> 60, 2 :> 70 @@ 1 :> 90 @@ 6 :> 80}
Edge(id, from, to, fact, sure) == [id |-> id, from |-> from, to |-> to, fact |-> fact, sure |-> sure, at |-> id]
MCWebs == {{}, {Edge(1, "gun", "ann", 1, 80), Edge(2, "ann", "well", 5, 90), Edge(3, "well", "gun", 5, 76)},
           {Edge(1, "ann", "well", 5, 90), Edge(2, "well", "gun", 2, 95), Edge(3, "ann", "gun", 2, 60)}}
R(i, s) == [index |-> i, score |-> s]
MCRankings == {<<>>, <<R(2, 90), R(1, 20)>>, <<R(1, 30), R(1, 40), R(2, 35)>>, <<R(3, 100), R(2, 101), R(7, 50)>>}
=============================================================================
