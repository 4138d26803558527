--------------------------- MODULE SemanticRecall ---------------------------
(***************************************************************************)
(* SemanticRecallService.recall over the index: vectors are asked first,    *)
(* then the graph of relations (MemoryGraphRecallIndex), then, when it is    *)
(* worth it, a model that ranks the best items; whoever fails or answers     *)
(* late is done without.  The index may change during every wait.           *)
(***************************************************************************)
EXTENDS RecallIndex
LOCAL INSTANCE FiniteSetsExt
LOCAL INSTANCE SequencesExt

CONSTANTS
    VectorHits,   \* what a vector search may bring: id -> score
    Webs,         \* verified relations: sets of edges, each backed by a fact
    Rankings,     \* what the ranking model may answer: sequences of results
    MaxSeeds,     \* 8: nodes a search of relations starts from
    Waits,        \* how long somebody may need, in tens of seconds
    FewDocuments, ManyDocuments, \* 4 and 8 items are ranked
    WorthRanking, \* 4: fewer items are not ranked unless always
    RankTimeout,  \* 3
    TotalBudget   \* 4

VARIABLES
    step,      \* where the call is: asked, linking, routing, ranking, answered
    near,      \* the vector scores that count
    linked,    \* the relations searched, from where, and the facts they nominate
    base,      \* what the index answered
    ordered,   \* the items in the order they are told
    elapsed,   \* since the call
    began      \* elapsed when ranking was decided

semanticVars == <<indexVars, question, step, near, linked, base, ordered, elapsed, began>>

NoLinks == [web |-> {}, seeds |-> {}, scores |-> <<>>, whole |-> TRUE]
SemanticInit ==
    /\ IndexInit
    /\ step = "asked" /\ near = <<>> /\ linked = NoLinks /\ base = NothingFound /\ ordered = <<>>
    /\ elapsed = 0 /\ began = 0

-----------------------------------------------------------------------------
(* The graph. *)

EdgeFirst(e, d) == e.sure > d.sure \/ (e.sure = d.sure /\ (e.at > d.at \/ (e.at = d.at /\ e.id < d.id)))
NodesOf(e) == {e.from, e.to}

BetterScore(old, new) == Max({old, new})

Nominate(scores, e, hop) ==
    LET old == IF e.fact \in DOMAIN scores THEN scores[e.fact] ELSE 0
        new == BetterScore(old, Max({1, e.sure}) \div hop)
    IN  [f \in DOMAIN scores \cup {e.fact} |-> IF f = e.fact THEN new ELSE scores[f]]

\* One hop: the edges of the frontier not seen yet, the surest first, while there
\* is room; then their other ends. An edge with both ends in the frontier is met,
\* and counted, twice.
Hop(reached, hop) ==
    LET edges == {e \in reached.web \ reached.seen : NodesOf(e) \cap reached.frontier # {}}
        met == UNION {{e} \X (1..Cardinality(NodesOf(e) \cap reached.frontier)) : e \in edges}
        inOrder == Ordered(met, LAMBDA m, n : EdgeFirst(m[1], n[1]) \/ (m[1] = n[1] /\ m[2] < n[2]))
        taken == [n \in DOMAIN FirstN(inOrder, reached.room) |-> inOrder[n][1]]
        beyond == (UNION {NodesOf(e) : e \in Range(taken)}) \ reached.visited
    IN  [web |-> reached.web, room |-> reached.room - Len(taken), seen |-> reached.seen \cup Range(taken),
         frontier |-> beyond, visited |-> reached.visited \cup beyond,
         scores |-> FoldLeft(LAMBDA s, e : Nominate(s, e, hop), reached.scores, taken)]

\* From the entities of the items found so far, then from nodes the question names,
\* until there are enough; the order of the nodes is arbitrary.
Seeds(web, entities) ==
    LET nodes == UNION {NodesOf(e) : e \in web}
        first == entities \cap nodes
        all == first \cup (question.words \cap nodes)
    IN  {S \in SUBSET all : Cardinality(S) = Min({MaxSeeds, Cardinality(all)}) /\ (S \subseteq first \/ first \subseteq S)}

\* search()
Links(web, seeds) ==
    LET valid == {e \in web : e.sure >= 75}
        start == [web |-> valid, room |-> question.edges, seen |-> {}, frontier |-> seeds, visited |-> seeds,
                  scores |-> <<>>]
        end == FoldLeft(Hop, start, [n \in 1..question.hops |-> n])
    IN  [web |-> valid, seeds |-> seeds, scores |-> end.scores,
         whole |-> end.room > 0]

-----------------------------------------------------------------------------
(* What the ranking model is shown. *)

\* Items at the head that ranking leaves where they are.
TemporalHead(n) ==
    CASE question.earliest /\ question.directive -> Min({6, n})
      [] ~(question.earliest /\ question.directive) /\ question.historical /\ question.topic -> Min({2, n})
      [] ~(question.earliest /\ question.directive) /\ ~(question.historical /\ question.topic) /\ question.current ->
            Min({1, n})
      [] OTHER -> 0

DocumentLimit ==
    IF question.kinds # {} \/ question.historical \/ question.current \/ Len(question.segments) >= 2
    THEN ManyDocuments ELSE FewDocuments

EachOnce(s) == FoldLeft(LAMBDA taken, f : IF f \in Range(taken) THEN taken ELSE Append(taken, f), <<>>, s)

\* selectRerankItems: leaders first, then what the question is about.
Documents(items) ==
    LET candidates == SubSeq(items, TemporalHead(Len(items)) + 1, Len(items))
        leaders == FirstN(candidates, Min({4, Max({2, (DocumentLimit + 2) \div 3})}))
        ofKind == SelectSeq(candidates, LAMBDA f : f.kind \in question.kinds)
        eldest == Ordered({f \in Range(candidates) : question.kinds # {} => f.kind \in question.kinds},
                          LAMBDA f, g : f.floor < g.floor \/ (f.floor = g.floor /\ (f.at < g.at \/ (f.at = g.at /\ f.id < g.id))))
        named == SelectSeq(candidates, LAMBDA f : ({f.subject} \cup f.entities) \cap question.words # {})
    IN  IF Len(candidates) <= DocumentLimit THEN candidates
        ELSE FirstN(EachOnce(leaders \o (IF question.earliest THEN FirstN(eldest, 1) ELSE <<>>)
                             \o ofKind \o named \o candidates), DocumentLimit)

\* adaptiveRerankRequired: the signals disagree, or the best two are close.
TopOf(ranking, documents) == FirstN(SelectSeq(ranking, LAMBDA f : f \in Range(documents)), 1)
WorthIt(documents, found) ==
    LET words == TopOf(found.words, documents)
        vectors == TopOf(found.near, documents)
        graph == TopOf(found.linked, documents)
        differ(a, b) == a # <<>> /\ b # <<>> /\ a # b
        top == documents[1]
        first == found.score[top.id]
        second == found.score[documents[2].id]
        gap == IF first >= second THEN first - second ELSE second - first
    IN  /\ Len(documents) >= WorthRanking
        /\ \/ differ(words, vectors) \/ differ(graph, words) \/ differ(graph, vectors)
           \/ top \in found.bare
           \/ first > 0 /\ 100 * gap <= 8 * first

\* The results that make sense, each item once.
ValidResults(results, n) ==
    LET sound == SelectSeq(results, LAMBDA r : r.index \in 1..n /\ r.score \in 0..100)
    IN  FoldLeft(LAMBDA taken, r : IF \E i \in DOMAIN taken : taken[i].index = r.index THEN taken ELSE Append(taken, r),
                 <<>>, sound)

\* The head, what was ranked, what was shown but not ranked, and the rest.
Reranked(items, results) ==
    LET documents == Documents(items)
        head == FirstN(items, TemporalHead(Len(items)))
        valid == ValidResults(results, Len(documents))
        byModel == SortSeq(valid, LAMBDA r, s : r.score > s.score \/ (r.score = s.score /\ r.index < s.index))
        ranked == [i \in DOMAIN byModel |-> documents[byModel[i].index]]
    IN  head \o ranked \o Others(documents, ranked) \o Others(items, head \o documents)

-----------------------------------------------------------------------------
(* The call. *)

\* Everything is found: ask the model for an order, if there is one to be asked.
Onward(found, now) ==
    LET documents == Documents(found.items)
        wanted == question.rerank = "always" \/ (question.rerank = "adaptive" /\ WorthIt(documents, found))
    IN  /\ base' = found /\ ordered' = found.items /\ elapsed' = now /\ began' = now
        /\ step' = IF wanted /\ Len(documents) > 1 /\ question.client /\ now < TotalBudget THEN "routing"
                   ELSE "answered"

Allowed(scores) == [i \in DOMAIN scores \cap question.allowed |-> scores[i]]

\* With hits, allowed or not, vectors decide; without, words do.
FoundNear(hits, now) ==
    \E found \in {Search(IF hits = <<>> THEN "lexical" ELSE question.requested, Allowed(hits), <<>>, question.pool)} :
        /\ near' = Allowed(hits)
        /\ \/ question.hops = 0 /\ Onward(found, now) /\ linked' = linked
           \/ /\ question.hops # 0
              /\ step' = "linking" /\ base' = found /\ ordered' = found.items /\ elapsed' = now
              /\ linked' = [linked EXCEPT !.seeds = UNION {f.entities : f \in Range(found.items)}]
              /\ began' = now

AskWords ==
    /\ step = "asked" /\ question.requested = "lexical"
    /\ FoundNear(<<>>, 0)
    /\ UNCHANGED <<indexVars, question>>

\* <<>> stands for no hit and for a failure.
VectorsAnswer ==
    /\ step = "asked" /\ question.requested # "lexical"
    /\ \E hits \in VectorHits, wait \in Waits : FoundNear(hits, wait)
    /\ UNCHANGED <<indexVars, question>>

GraphAnswers ==
    /\ step = "linking"
    /\ \E links \in UNION {{Links(web, seeds) : seeds \in Seeds(web, linked.seeds)} : web \in Webs} :
          /\ linked' = links
          /\ \E found \in {IF DOMAIN Allowed(links.scores) = {} THEN base
                           ELSE Search("hybrid", near, Allowed(links.scores), question.pool)}, wait \in Waits :
                Onward(found, elapsed + wait)
    /\ UNCHANGED <<indexVars, question, near>>

GraphFails ==
    /\ step = "linking"
    /\ Onward(base, elapsed)
    /\ linked' = NoLinks
    /\ UNCHANGED <<indexVars, question, near>>

TimeLeft(now) == Min({RankTimeout, TotalBudget - now})

\* previewRoute: which model would rank; it may fail or be late.
RouteAnswers ==
    /\ step = "routing"
    /\ \E wait \in Waits, works \in BOOLEAN :
          /\ elapsed' = elapsed + Min({wait, TimeLeft(elapsed)})
          /\ step' = IF works /\ wait <= TimeLeft(elapsed) /\ elapsed + wait < TotalBudget THEN "ranking" ELSE "answered"
    /\ UNCHANGED <<indexVars, question, near, linked, base, ordered, began>>

\* An answer that is late or none leaves the order as it was.
RankingAnswers ==
    /\ step = "ranking"
    /\ \E wait \in Waits, results \in Rankings :
          /\ elapsed' = elapsed + Min({wait, TimeLeft(elapsed)})
          /\ ordered' = IF wait <= TimeLeft(elapsed) THEN Reranked(base.items, results) ELSE ordered
    /\ step' = "answered"
    /\ UNCHANGED <<indexVars, question, near, linked, base, began>>

IndexChanges ==
    /\ step # "answered"
    /\ Revise
    /\ UNCHANGED <<question, step, near, linked, base, ordered, elapsed, began>>

SemanticNext ==
    \/ AskWords \/ VectorsAnswer \/ GraphAnswers \/ GraphFails \/ RouteAnswers \/ RankingAnswers \/ IndexChanges
SemanticSpec == SemanticInit /\ [][SemanticNext]_semanticVars

-----------------------------------------------------------------------------
SemanticTypeOK ==
    /\ step \in {"asked", "linking", "routing", "ranking", "answered"}
    /\ DOMAIN near \subseteq question.allowed
    /\ elapsed \in Nat /\ began \in Nat /\ revisions \in 0..MaxRevisions

\* The answer to a question about the present never holds two values of one slot
\* (memory-recall-index.ts: two active values must not enter the prompt together),
\* however it was found and however often the index changed meanwhile.
OneValuePerSlot ==
    question.historical \/ \A f, g \in Range(ordered) : InSlot(f, g) => f = g

\* The model that ranks can neither lose an item nor tell one twice, whatever it
\* answers.
RankingIsAPermutation ==
    Range(ordered) = Range(base.items) /\ Len(ordered) = Len(base.items)

\* A question about the present begins with the value found for it, whatever the
\* model prefers; only anchors, and the parts of a question in parts, go before.
PresentComesFirst ==
    (/\ question.current /\ ~question.historical /\ ~question.earliest /\ Len(question.segments) < 2
     /\ base.safety # <<>> /\ base.anchors = 0)
        => ordered[1] = base.safety[1]

\* Every part of a question in parts that some good fact answers is answered, as
\* long as there is room for one fact per part.
PartsAnswered ==
    LET parts == question.segments
        told == Range(FirstN(base.items, question.items))
    IN  (/\ ~(question.historical /\ Len(parts) >= 3) /\ ~question.earliest /\ Len(parts) >= 2
         /\ base.anchors + Len(parts) <= question.items)
            => \A n \in DOMAIN parts :
                  (\E f \in base.good : Matches(f, parts[n]) > 0) => \E f \in told : Matches(f, parts[n]) > 0

\* Ranking never takes the call beyond its budget.
BudgetKept == elapsed <= Max({TotalBudget, began})

\* The graph nominates the facts within its hops, each by its surest and nearest
\* relation, as long as there are fewer than the search may follow.
NominatedByDistance ==
    LET touching(nodes) == {e \in linked.web : NodesOf(e) \cap nodes # {}}
        near1 == touching(linked.seeds)
        near2 == touching(linked.seeds \cup (UNION {NodesOf(e) : e \in near1})) \ near1
        reached == near1 \cup (IF question.hops = 2 THEN near2 ELSE {})
        worth(e) == IF e \in near1 THEN e.sure ELSE e.sure \div 2
    IN  (linked.web # {} /\ linked.whole) =>
            linked.scores = [f \in {e.fact : e \in reached} |-> Max({worth(e) : e \in {d \in reached : d.fact = f}})]

\* Searches by words, vectors and relations, and what becomes of their answers.
SearchSound ==
    /\ SemanticTypeOK /\ IndexIsExact /\ OneValuePerSlot /\ RankingIsAPermutation
    /\ PresentComesFirst /\ PartsAnswered /\ BudgetKept /\ NominatedByDistance
=============================================================================
