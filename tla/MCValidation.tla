---------------------------- MODULE MCValidation ----------------------------
(* Sources and answers for CaptureValidation. An answer varies in one list   *)
(* of candidates at a time, and in the entities that the list may name.     *)
EXTENDS CaptureValidation

\* "m" may be written from, "ctx" is context only.
Page(named, tagged, voided, snapshot, orders, counted, stored) ==
    [writable |-> {"m"}, named |-> [m |-> named, ctx |-> {"A01", "p", "q"}], tagged |-> [m |-> tagged, ctx |-> {"L01"}],
     voided |-> voided, snapshot |-> snapshot, orders |-> orders, counted |-> counted, stored |-> stored]
PeoplePages ==
    {Page(named, tagged, FALSE, "", orders, {}, {}) :
        named \in {{"A01", "L01", "p", "q"}, {"A01", "p"}, {"L01"}}, tagged \in {{}, {"A01", "p"}}, orders \in BOOLEAN}
StockPages ==
    {Page({"A01"}, {}, voided, snapshot, FALSE, counted, stored) :
        voided \in BOOLEAN, snapshot \in {"", "lamp", "rope"}, counted \in {{}, {"lamp"}}, stored \in {{}, {"o", "c"}}}

Thing(id, name, source, quote, sure) == [id |-> id, name |-> name, source |-> source, quote |-> quote, sure |-> sure]
Good(id) == Thing(id, "new", "m", "exact", TRUE)
Persons == {<< >>, <<Good("p")>>, <<Thing("p", "vague", "m", "exact", TRUE)>>, <<Thing("p", "new", "m", "exact", FALSE)>>,
            <<Thing("p", "new", "m", "none", TRUE), Good("p")>>}
Sites == {<< >>, <<Thing("q", "new", "m", "variant", TRUE)>>, <<Good("p"), Thing("q", "new", "ctx", "exact", TRUE)>>}
Items == {<< >>, <<Thing("i", "lamp", "m", "exact", TRUE)>>, <<Thing("i", "rope", "m", "exact", FALSE)>>,
          <<Thing("i", "rope", "m", "exact", TRUE)>>}

Told(id, sources, long, backed, people, place) ==
    [id |-> id, sources |-> sources, long |-> long, backed |-> backed, people |-> people, place |-> place]
OneEpisode == <<Told("e", {"m"}, TRUE, TRUE, {"A01"}, "")>>
Episodes ==
    {<<Told("e", {"m", "ctx"}, TRUE, backed, people, place), Told(id, {"m"}, long, TRUE, {"player"}, "")>> :
        backed \in BOOLEAN, long \in {TRUE}, id \in {"e", "f"}, people \in {{}, {"A01"}, {"A01", "p"}}, place \in {"", "L01", "q"}}

Claims3(id, kind, text, object, episode) ==
    [id |-> id, source |-> "m", quote |-> "exact", backed |-> TRUE, kind |-> kind, sure |-> TRUE, long |-> TRUE,
     subject |-> "A01", text |-> text, object |-> object, otext |-> FALSE, episode |-> episode, speaker |-> "",
     owners |-> {}, private |-> FALSE, told |-> FALSE, number |-> FALSE]
PlainClaim == Claims3("c", "event", "", "", "e")
SomeClaims ==
    {[PlainClaim EXCEPT !.subject = s, !.text = t, !.object = o, !.otext = ot, !.kind = k] :
        s \in {"", "p", "L01"}, t \in {"", "order"}, o \in {"", "A01", "q"}, ot \in BOOLEAN, k \in {"event", "relationship"}}
    \cup {[PlainClaim EXCEPT !.speaker = s, !.owners = w, !.private = v, !.episode = "f"] :
        s \in {"", "A01", "p"}, w \in {{}, {"A01", "p"}}, v \in BOOLEAN}
    \cup {[PlainClaim EXCEPT !.sure = FALSE], [PlainClaim EXCEPT !.quote = "none"], [PlainClaim EXCEPT !.source = "ctx"]}
ClaimLists == {<<c>> : c \in SomeClaims} \cup {<<c, [PlainClaim EXCEPT !.id = id]>> : c \in SomeClaims, id \in {"c", "d"}}
Lamp == [PlainClaim EXCEPT !.kind = "state", !.text = "lamp", !.number = TRUE, !.episode = ""]
Stock == {<<[Lamp EXCEPT !.text = t, !.id = id], [Lamp EXCEPT !.text = "rope", !.number = id = "c"]>> :
             t \in {"lamp", "rope"}, id \in {"c", "d"}}

Counts(id, item, change, backed, source) ==
    [id |-> id, item |-> item, change |-> change, backed |-> backed, source |-> source, quote |-> "exact"]
Operations ==
    {<<Counts("o", item, change, backed, "m"), Counts(id, "I01", "increase", TRUE, "m")>> :
        item \in {"i", "I01"}, change \in {"set", "increase"}, backed \in BOOLEAN, id \in {"o", "o2"}}

Answer(persons, sites, items, episodes, claims, operations, attempts, reviews) ==
    [persons |-> persons, sites |-> sites, items |-> items, episodes |-> episodes, claims |-> claims,
     operations |-> operations, attempts |-> attempts, reviews |-> reviews, noops |-> {<<"claim", "z">>}]
Tries == {<<>>, <<{<<"claim", "c">>, <<"claim", "z">>}, {<<"claim", "c">>, <<"inventory", "o">>}>>}
MCQuestions ==
    [page : PeoplePages, conservative : BOOLEAN,
     reply : {Answer(p, s, << >>, e, <<PlainClaim>>, << >>, << >>, {}) : p \in Persons, s \in Sites, e \in Episodes}]
    \cup [page : {g \in PeoplePages : g.named["m"] # {"L01"}}, conservative : BOOLEAN,
          reply : {Answer(p, << >>, << >>, OneEpisode, c, << >>, << >>, {}) : p \in Persons, c \in ClaimLists}]
    \cup [page : StockPages, conservative : {FALSE},
          reply : {Answer(<< >>, << >>, i, OneEpisode, c, o, a, {"d"}) :
                      i \in Items, c \in Stock, o \in Operations, a \in Tries}]
=============================================================================
