---------------------------- MODULE RecallIndex ----------------------------
(***************************************************************************)
(* MemoryRecallIndex: the facts of the bound chat in memory, the words,      *)
(* entities and scopes they are found by, and the search over them.        *)
(*                                                                         *)
(* A text is the set of its words, an entity's name is a word; every share  *)
(* and score is in percent of what the code calls 1, or in a fixed fraction  *)
(* of that.  One word of a query in common counts as 1 for the BM25 score.  *)
(* A fact declares at most one key of each dimension of its scope, the chat  *)
(* is the bound one (another chat replaces the index), and every fact has a  *)
(* source.                                                                 *)
(***************************************************************************)
EXTENDS Naturals, Sequences, FiniteSets
LOCAL INSTANCE FiniteSetsExt
LOCAL INSTANCE SequencesExt

CONSTANTS
    Libraries,   \* what the index may be built from: sets of facts, one per id
    Revisions,   \* facts that are stored later
    Inquests,    \* what is asked
    StrongWords, \* words of more than one character
    MaxAnchors,  \* 3
    MaxRevisions \* bound: changes of the index in a behaviour

VARIABLES
    library,     \* records: id -> fact
    postings,    \* word -> ids
    entityIds,   \* entity -> ids
    scopeIds,    \* key of a scope -> ids (hostCardIds, characterIds, worldIds, sceneIds)
    revisions,
    question     \* RecallQuery and the settings of the search

indexVars == <<library, postings, entityIds, scopeIds, revisions>>

-----------------------------------------------------------------------------
(* What is stored. *)

KeysOf(facts, Has(_)) == UNION {Has(f) : f \in facts}
IndexOf(facts, Has(_)) == [k \in KeysOf(facts, Has) |-> {f.id : f \in {g \in facts : k \in Has(g)}}]
WordsOf(f) == f.words
EntitiesOf(f) == f.entities
ScopeOf(f) == f.scope

\* removeFromIndex: a key nobody has any more goes.
Without(index, keys, i) ==
    LET left == [k \in DOMAIN index |-> IF k \in keys THEN index[k] \ {i} ELSE index[k]]
    IN  [k \in {j \in DOMAIN left : left[j] # {}} |-> left[k]]

\* addToIndex
With(index, keys, i) ==
    [k \in DOMAIN index \cup keys |->
        (IF k \in DOMAIN index THEN index[k] ELSE {}) \cup (IF k \in keys THEN {i} ELSE {})]

\* remove(): the keys that the fact of this id was found by, if there is one.
Known(i) == IF i \in DOMAIN library THEN library[i] ELSE [words |-> {}, entities |-> {}, scope |-> {}]

StoreFact(f) ==
    /\ library' = [i \in DOMAIN library \cup {f.id} |-> IF i = f.id THEN f ELSE library[i]]
    /\ postings' = With(Without(postings, Known(f.id).words, f.id), f.words, f.id)
    /\ entityIds' = With(Without(entityIds, Known(f.id).entities, f.id), f.entities, f.id)
    /\ scopeIds' = With(Without(scopeIds, Known(f.id).scope, f.id), f.scope, f.id)

RemoveFact(i) ==
    /\ library' = [j \in DOMAIN library \ {i} |-> library[j]]
    /\ postings' = Without(postings, Known(i).words, i)
    /\ entityIds' = Without(entityIds, Known(i).entities, i)
    /\ scopeIds' = Without(scopeIds, Known(i).scope, i)

ById(facts) == [i \in {f.id : f \in facts} |-> CHOOSE f \in facts : f.id = i]

\* replace(), or the constructor: the facts one after the other.
ReplaceFacts(facts) ==
    /\ library' = ById(facts)
    /\ postings' = IndexOf(facts, WordsOf)
    /\ entityIds' = IndexOf(facts, EntitiesOf)
    /\ scopeIds' = IndexOf(facts, ScopeOf)

IndexInit ==
    /\ revisions = 0 /\ question \in Inquests
    /\ \E facts \in Libraries :
          /\ library = ById(facts)
          /\ postings = IndexOf(facts, WordsOf)
          /\ entityIds = IndexOf(facts, EntitiesOf)
          /\ scopeIds = IndexOf(facts, ScopeOf)

\* A capture, an edit, an undo or another chat, while somebody waits for an answer.
Revise ==
    /\ revisions < MaxRevisions
    /\ revisions' = revisions + 1
    /\ \/ \E f \in Revisions : StoreFact(f)
       \/ \E i \in DOMAIN library : RemoveFact(i)
       \/ \E facts \in Libraries : ReplaceFacts(facts)

-----------------------------------------------------------------------------
(* Who may be told at all. *)

TemporalKinds == {"state", "location"}   \* the kinds that are not append-only

\* isEligible
Recallable(f) ==
    /\ f.status = "active" \/ (f.status = "superseded" /\ question.historical)
    /\ f.confidence >= 75
    /\ f.from <= question.now
    /\ question.historical \/ f.until >= question.now

\* temporalSlotKey: a value that changes has a slot, in its scope.
InSlot(f, g) == f.kind \in TemporalKinds /\ g.kind \in TemporalKinds /\ f.slot = g.slot /\ f.scope = g.scope

\* isNewerTemporalFact; validFrom is 0 when there is none.
Effective(f) == IF f.from = 0 THEN f.at ELSE f.from
NewerFact(f, g) ==
    \/ Effective(f) > Effective(g)
    \/ Effective(f) = Effective(g) /\ (f.at > g.at \/ (f.at = g.at /\ f.id > g.id))

\* A state row read from the variables of the chat.
Snapshot(f) == f.kind = "state" /\ f.snapshot
CoveredBy(f, s) == f.id # s.id /\ NewerFact(s, f) /\ f.kind \in TemporalKinds /\ f.subject = s.subject

QueryEntities == question.entities \cup (question.words \cap DOMAIN entityIds)

Found(index, keys) == UNION {index[k] : k \in keys \cap DOMAIN index}
LexicalIds ==
    Found(postings, question.words) \cup Found(entityIds, QueryEntities) \cup Found(scopeIds, question.scope)

NeedsTemporalSafety == question.current \/ (question.historical /\ question.topic)

\* The facts a search looks at: found by word, by vector, through the graph; of
\* the allowed ones only, but for values that change when vectors alone decide.
Considering(mode, vectors, graph) ==
    LET found == (IF mode = "vector" THEN {} ELSE LexicalIds)
                 \cup (IF mode = "lexical" THEN {} ELSE DOMAIN vectors) \cup DOMAIN graph
        changing == {i \in LexicalIds : i \in DOMAIN library /\ library[i].kind \in TemporalKinds}
    IN  ((found \cap question.allowed)
            \cup (IF mode = "vector" /\ NeedsTemporalSafety THEN changing ELSE {})) \cap DOMAIN library

RecallableFacts(ids) == {f \in {library[i] : i \in ids} : Recallable(f)}

\* The newest fact of every slot, and the newest snapshot of every subject.
Winners(facts) == {f \in facts : f.kind \in TemporalKinds /\ \A g \in facts : InSlot(f, g) /\ f # g => NewerFact(f, g)}
Snapshots(facts) ==
    {f \in facts : Snapshot(f) /\ \A g \in facts : Snapshot(g) /\ g.subject = f.subject /\ f # g => NewerFact(f, g)}

\* Mutant: the words of a value count more than its age.
AnyValue(f, facts) == TRUE

\* A value is told unless a newer one, or a newer snapshot, is considered too.
Current(f, facts) ==
    \/ question.historical
    \/ /\ f.kind \in TemporalKinds => f \in Winners(facts)
       /\ Snapshot(f) \/ \A s \in Snapshots(facts) : ~CoveredBy(f, s)

-----------------------------------------------------------------------------
(* How good a fact is. *)

Share(n, of) == IF of = 0 THEN 0 ELSE (100 * n) \div of

Common(f) == f.words \cap question.words
\* hasMinimumLexicalOverlap
EnoughWords(f) == Common(f) \cap StrongWords # {} \/ Cardinality(Common(f)) >= 2
EntityScore(f) ==
    Share(Cardinality(QueryEntities \cap f.entities), Min({Cardinality(QueryEntities), Cardinality(f.entities)}))
ScopeScore(f) == Share(Cardinality(f.scope \cap question.scope), Cardinality(f.scope))
IsAnchor(f) == f.anchor /\ ScopeScore(f) > 0

\* Found by more than a word or two, of the name that was asked for, and, if it is
\* an anchor, of the scope that was asked for.
Relevant(f, mode, vectors, graph) ==
    LET related == (mode # "lexical" /\ f.id \in DOMAIN vectors) \/ f.id \in DOMAIN graph
                   \/ EntityScore(f) > 0 \/ ScopeScore(f) > 0
    IN  /\ question.named = {} \/ question.named \cap f.words # {}
        /\ related \/ EnoughWords(f)
        /\ (f.anchor /\ f.scope # {}) => IsAnchor(f)

\* recallKindAffinity
Affinity(f) ==
    IF f.kind \in question.kinds THEN 100
    ELSE CASE "state" \in question.kinds /\ f.kind = "location" -> 80
           [] "event" \in question.kinds /\ f.kind \in {"commitment", "goal"} -> 45
           [] "capability" \in question.kinds /\ f.kind = "state" -> 35
           [] "state" \in question.kinds /\ f.kind = "capability" -> 25
           [] "relationship" \in question.kinds /\ f.kind = "identity" -> 25
           [] OTHER -> 0

Recency(f) == IF f.at >= question.now THEN 100 ELSE 100 \div (2 ^ (question.now - f.at))

\* The score by words, in 1/10000.
WordScore(f) ==
    LET n == Cardinality(Common(f))
    IN  58 * Share(n, n + 3) + 18 * EntityScore(f) + 14 * ScopeScore(f)
        + 5 * (IF f.from = 0 /\ f.until = question.forever THEN 50 ELSE 100) + 5 * Recency(f) + 16 * Affinity(f)
        + (IF IsAnchor(f) THEN 400 ELSE 0) + (IF Snapshot(f) THEN 1200 ELSE 0)

Ordered(S, Before(_, _)) ==
    [n \in 1..Cardinality(S) |-> CHOOSE x \in S : Cardinality({y \in S : Before(y, x)}) = n - 1]

Ahead(score, f, g) ==
    \/ score[f.id] > score[g.id]
    \/ score[f.id] = score[g.id] /\ (f.at > g.at \/ (f.at = g.at /\ f.id < g.id))
ByScore(facts, score) == Ordered(facts, LAMBDA f, g : Ahead(score, f, g))
RankIn(ranking, f) == IF \E n \in DOMAIN ranking : ranking[n] = f THEN CHOOSE n \in DOMAIN ranking : ranking[n] = f
                      ELSE 0
Part(weight, rank) == IF rank = 0 THEN 0 ELSE weight \div (60 + rank)

Ids(facts) == {f.id : f \in facts}
WordRanking(facts) == ByScore({f \in facts : f.id \in LexicalIds}, [i \in Ids(facts) |-> WordScore(library[i])])
SignalRanking(facts, signal) == ByScore({f \in facts : f.id \in DOMAIN signal}, signal)

\* applyModeScore: by words, by vector, or by the ranks fused (in 1/1000000).
ModeScores(facts, mode, vectors, graph) ==
    LET words == WordRanking(facts)
        near == SignalRanking(facts, IF mode = "lexical" THEN <<>> ELSE vectors)
        linked == SignalRanking(facts, graph)
    IN  [i \in Ids(facts) |->
            LET f == library[i]
            IN  CASE mode = "lexical" -> WordScore(f)
                  [] mode = "vector" -> (IF i \in DOMAIN vectors THEN 100 * vectors[i] ELSE 0) + 8 * Affinity(f)
                  [] mode = "hybrid" -> Part(400000, RankIn(words, f)) + Part(400000, RankIn(near, f))
                                        + Part(200000, RankIn(linked, f)) + 40 * Affinity(f)]

-----------------------------------------------------------------------------
(* What is told. *)

FirstN(s, n) == SubSeq(s, 1, Min({n, Len(s)}))
Others(s, gone) == SelectSeq(s, LAMBDA f : f \notin Range(gone))

\* A temporal value found by words keeps a place when vectors take part.
SafetyItem(f, mode) ==
    mode # "lexical" /\ NeedsTemporalSafety /\ f.id \in LexicalIds /\ f.kind \in TemporalKinds

\* The regular items that are good enough.
GoodEnough(regular, score, mode, vectors) ==
    LET best == IF regular = <<>> THEN 0 ELSE score[regular[1].id]
        cutoff == IF mode # "lexical" THEN 0
                  ELSE IF question.historical THEN 800 ELSE Max({800, (best * 82) \div 100})
        named(f) == f.kind \in {"identity", "goal", "commitment", "capability"} /\ f.subject \in question.words
        isGood(f) == IF mode = "vector" THEN f.id \in DOMAIN vectors \/ SafetyItem(f, mode)
                     ELSE score[f.id] > cutoff \/ EntityScore(f) > 0 \/ ScopeScore(f) > 0 \/ named(f)
    IN  SelectSeq(regular, isGood)

SafetyItems(good, mode) ==
    FirstN(Ordered({f \in Range(good) : SafetyItem(f, mode)},
                   LAMBDA f, g : Ahead([i \in DOMAIN library |-> WordScore(library[i])], f, g)),
           IF question.historical THEN 2 ELSE 1)

\* "At first": the fact of the earliest floor, or all the orders given there.
EarliestItems(good, score, limit) ==
    LET fitting == {f \in Range(good) : Affinity(f) >= 80}
        ranked == Ordered(fitting, LAMBDA f, g : \/ f.floor < g.floor
                                                 \/ f.floor = g.floor /\ score[f.id] > score[g.id]
                                                 \/ /\ f.floor = g.floor /\ score[f.id] = score[g.id]
                                                    /\ (f.at < g.at \/ (f.at = g.at /\ f.id < g.id)))
    IN  IF ~question.earliest \/ ranked = <<>> THEN <<>>
        ELSE IF question.directive
             THEN FirstN(SelectSeq(ranked, LAMBDA f : f.floor = ranked[1].floor), Min({6, limit}))
        ELSE FirstN(ranked, 1)

Matches(f, segment) == Cardinality(f.words \cap segment)

\* A question in parts: the best fact of each part; of a history in three parts or
\* more, the oldest facts.
PartItems(good, picked, score, limit) ==
    LET pick(taken, segment) ==
            LET fitting == {f \in Range(good) \ Range(taken) : Matches(f, segment) > 0}
                ranked == Ordered(fitting, LAMBDA f, g :
                              \/ question.historical /\ f.at < g.at
                              \/ /\ question.historical => f.at = g.at
                                 /\ \/ Matches(f, segment) > Matches(g, segment)
                                    \/ /\ Matches(f, segment) = Matches(g, segment)
                                       /\ score[f.id] > score[g.id] \/ (score[f.id] = score[g.id] /\ f.id < g.id))
            IN  taken \o FirstN(ranked, 1)
        oldest == Ordered(Range(good) \ Range(picked), LAMBDA f, g : f.at < g.at \/ (f.at = g.at /\ f.id < g.id))
    IN  CASE question.historical /\ Len(question.segments) >= 3 -> picked \o FirstN(oldest, limit)
          [] Len(question.segments) >= 2 /\ ~(question.historical /\ Len(question.segments) >= 3) ->
                FoldLeft(pick, picked, question.segments)
          [] OTHER -> picked

NothingFound == [items |-> <<>>, anchors |-> 0, safety |-> <<>>, words |-> <<>>, near |-> <<>>, linked |-> <<>>,
                 score |-> <<>>, good |-> {}, bare |-> {}]

\* recall()
Search(mode, vectors, graph, limit) ==
    LET recallable == RecallableFacts(Considering(mode, vectors, graph))
        passing == {f \in recallable : Current(f, recallable) /\ Relevant(f, mode, vectors, graph)}
        score == ModeScores(passing, mode, vectors, graph)
        ranked == ByScore(passing, score)
        anchors == FirstN(SelectSeq(ranked, IsAnchor), Min({MaxAnchors, limit}))
        good == GoodEnough(SelectSeq(ranked, LAMBDA f : ~IsAnchor(f)), score, mode, vectors)
        safety == SafetyItems(good, mode)
        diversified == PartItems(good, EarliestItems(good, score, limit), score, limit)
        regular == diversified \o Others(safety, diversified) \o Others(good, diversified \o safety)
    IN  [items |-> anchors \o FirstN(regular, limit - Len(anchors)),
         anchors |-> Len(anchors), safety |-> safety,
         words |-> WordRanking(passing), near |-> SignalRanking(passing, IF mode = "lexical" THEN <<>> ELSE vectors),
         linked |-> SignalRanking(passing, graph),
         score |-> score, good |-> Range(good),
         bare |-> {f \in passing : f.id \in DOMAIN vectors /\ Common(f) = {} /\ EntityScore(f) = 0 /\ ScopeScore(f) = 0}]

-----------------------------------------------------------------------------
\* Whatever was stored, stored again, removed or replaced: the index finds a fact
\* by the words, the entities and the scope it has now, and by no other.
IndexIsExact ==
    LET facts == {library[i] : i \in DOMAIN library}
    IN  /\ postings = IndexOf(facts, WordsOf)
        /\ entityIds = IndexOf(facts, EntitiesOf)
        /\ scopeIds = IndexOf(facts, ScopeOf)
=============================================================================
