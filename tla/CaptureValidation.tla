------------------------- MODULE CaptureValidation -------------------------
(***************************************************************************)
(* MultiActorCaptureService after the extraction has answered: prepare      *)
(* keeps or refuses every candidate of the answer, capture turns what was  *)
(* kept into records, and buildCandidateRecords writes down what became of *)
(* every candidate. A repair may run the same checks conservatively: it     *)
(* drops a reference that no source supports instead of refusing the        *)
(* candidate that holds it.                                                 *)
(* A text is what the checks see of it: whom it names, whether an excerpt   *)
(* is quoted (Located), whether a number is in its evidence. The resolution *)
(* of an entity never fails here: nobody edits the registries meanwhile.    *)
(***************************************************************************)
EXTENDS Naturals, Sequences, SequencesExt, FiniteSetsExt

CONSTANT Questions   \* what the sources of a capture hold, and what the extraction answers

(* What an answer is made of.                                              *)
AThing == [id : STRING, name : STRING, source : STRING, quote : STRING, sure : BOOLEAN]
AnEpisode == [id : STRING, sources : SUBSET STRING, long : BOOLEAN, backed : BOOLEAN,
              people : SUBSET STRING, place : STRING]
AClaim == [id : STRING, source : STRING, quote : STRING, backed : BOOLEAN, kind : STRING, sure : BOOLEAN,
           long : BOOLEAN, subject : STRING, text : STRING, object : STRING, otext : BOOLEAN, episode : STRING,
           speaker : STRING, owners : SUBSET STRING, private : BOOLEAN, told : BOOLEAN, number : BOOLEAN]
AnOperation == [id : STRING, source : STRING, quote : STRING, backed : BOOLEAN, change : STRING, item : STRING]
AnAnswer == [persons : Seq(AThing), sites : Seq(AThing), items : Seq(AThing), episodes : Seq(AnEpisode),
             claims : Seq(AClaim), operations : Seq(AnOperation), attempts : Seq(SUBSET (STRING \X STRING)),
             reviews : SUBSET STRING, noops : SUBSET (STRING \X STRING)]
ASSUME QuestionShape == \A q \in Questions : q.reply \in AnAnswer /\ q.page.snapshot \in STRING

VARIABLES asked,      \* the sources, the answer and how it is checked
          sifted,     \* what prepare returns
          records     \* what capture commits, and the candidate records
validationVars == <<asked, sifted, records>>

Fixed == {"world", "narrator", "player"}
KnownPeople == {"A01"}
KnownPlaces == {"L01"}
(* An item that the user has voided is not in the directory.               *)
KnownItems(page) == IF page.voided THEN {} ELSE {"I01"}
NotYet == [done |-> FALSE]

ValidationInit ==
    /\ asked \in Questions
    /\ sifted = NotYet /\ records = NotYet

-----------------------------------------------------------------------------
AutoIgnored == {"duplicate_proposal"}
(* A vague name and a quantity that the ledger has taken over are ignored, *)
(* too.                                                                    *)
rejection(kind, id, code) ==
    [kind |-> kind, id |-> id, code |-> code,
     status |-> IF code \in AutoIgnored \cup {"vague", "taken_over", "voided"} THEN "ignored" ELSE "unresolved"]
(* An excerpt is found verbatim, or once up to punctuation.                *)
Located(quote) == quote \in {"exact", "variant"}
Writable(page, s) == s \in page.writable

IdsOf(list) == {list[i].id : i \in DOMAIN list}

(* The checks of one candidate, in the order of the code: the code of the   *)
(* first that fails, or "". The name of a person or a place is known to the *)
(* directory, new, or too vague to be a name.                              *)
PersonFault(page, c, taken) ==
    IF c.name = "" THEN "invalid_shape"
    ELSE IF c.id \in taken THEN "duplicate_proposal"
    ELSE IF ~Writable(page, c.source) THEN "invalid_reference"
    ELSE IF ~Located(c.quote) THEN "excerpt_mismatch"
    ELSE IF c.name = "vague" THEN "vague"
    ELSE IF ~c.sure THEN "invalid_confidence"
    ELSE ""
SiteFault(page, c, taken) == PersonFault(page, c, taken)
ItemFault(page, c, taken) ==
    IF c.name = "" THEN "invalid_shape"
    ELSE IF c.id \in taken THEN "duplicate_proposal"
    ELSE IF ~Writable(page, c.source) THEN "invalid_reference"
    ELSE IF ~Located(c.quote) THEN "excerpt_mismatch"
    ELSE IF ~c.sure THEN "invalid_confidence"
    ELSE ""

(* Who and what is named: by the text of a source, or by its metadata. A    *)
(* claim counts metadata only for what the directory knows.                *)
EpisodeSupports(page, ref, sources) ==
    ref \in Fixed \/ \E s \in sources : ref \in page.named[s] \cup page.tagged[s]
ClaimSupports(page, ref, s) ==
    ref \in Fixed \cup page.named[s] \cup (page.tagged[s] \cap (KnownPeople \cup KnownPlaces))
(* buildSupportedReferenceDirectory: what a repair may refer to. It knows   *)
(* no entity that the answer itself proposes.                              *)
Supported(page) ==
    {r \in KnownPeople \cup KnownPlaces : \E s \in page.writable : r \in page.named[s] \cup page.tagged[s]}
Allows(page, ref) == ref \in Supported(page) \cup Fixed

-----------------------------------------------------------------------------
(* Episodes.                                                               *)
CleanEpisode(page, people, e) ==
    [e EXCEPT !.people = {r \in @ : Allows(page, r) /\ EpisodeSupports(page, r, e.sources)},
              !.place = IF @ # "" /\ (@ \notin Supported(page) \/ ~EpisodeSupports(page, @, e.sources)) THEN "" ELSE @]
EpisodeFault(page, people, places, e, taken) ==
    IF e.sources = {} \/ ~(e.sources \subseteq DOMAIN page.named) \/ e.sources \cap page.writable = {} THEN "no_source"
    ELSE IF ~e.long THEN "invalid_shape"
    ELSE IF e.id \in taken THEN "duplicate_proposal"
    ELSE IF ~e.backed THEN "excerpt_mismatch"
    ELSE IF ~(e.people \subseteq people \cup Fixed) THEN "invalid_reference"
    ELSE IF \E r \in e.people : ~EpisodeSupports(page, r, e.sources) THEN "entity_ref_unsupported"
    ELSE IF e.place \notin places \cup {""} THEN "invalid_reference"
    ELSE IF e.place # "" /\ ~EpisodeSupports(page, e.place, e.sources) THEN "entity_ref_unsupported"
    ELSE ""

(* Claims. A reference that is not supported gives way to the text beside   *)
(* it when there is one.                                                   *)
Droppable(page, c, ref, text) ==
    /\ ref # "" /\ ~(Allows(page, ref) /\ ClaimSupports(page, ref, c.source))
    /\ c.kind # "relationship" /\ text
CleanClaim(page, people, c) ==
    [c EXCEPT !.subject = IF Droppable(page, c, @, c.text # "") THEN "" ELSE @,
              !.object = IF Droppable(page, c, @, c.otext) THEN "" ELSE @,
              !.owners = {r \in @ : Allows(page, r) /\ r \in people \cup Fixed /\ ClaimSupports(page, r, c.source)}]
ClaimFault(page, people, places, c, taken) ==
    LET placed == people \cup places \cup Fixed
        mayTell(r) == r \in people \cup Fixed /\ ClaimSupports(page, r, c.source)
    IN  IF ~Writable(page, c.source) THEN "invalid_reference"
        ELSE IF ~Located(c.quote) \/ ~c.backed THEN "excerpt_mismatch"
        ELSE IF ~c.sure THEN "invalid_confidence"
        ELSE IF ~c.long THEN "invalid_shape"
        ELSE IF c.subject \notin placed \cup {""} THEN "invalid_reference"
        ELSE IF c.subject # "" /\ ~ClaimSupports(page, c.subject, c.source) THEN "entity_ref_unsupported"
        ELSE IF c.kind = "relationship" /\ c.subject \notin people \cup {"player"} THEN "invalid_reference"
        ELSE IF c.object \notin placed \cup {""} THEN "invalid_reference"
        ELSE IF c.object # "" /\ ~ClaimSupports(page, c.object, c.source) THEN "entity_ref_unsupported"
        ELSE IF c.kind = "relationship" /\ c.object = "" THEN "invalid_reference"
        ELSE IF c.subject = "" /\ c.text = "" THEN "invalid_shape"
        ELSE IF \E r \in c.owners \cup ({c.speaker} \ {""}) : ~mayTell(r) THEN "entity_ref_unsupported"
        ELSE IF (c.private \/ c.told) /\ c.speaker = "" THEN "invalid_reference"
        ELSE IF c.id \in taken THEN "duplicate_proposal"
        ELSE ""
(* What is kept of a claim: the episode only when it was kept itself, and   *)
(* its speaker among the owners of a private one.                          *)
KeptClaim(episodes, c) ==
    [c EXCEPT !.episode = IF @ \in episodes THEN @ ELSE "",
              !.owners = IF c.private THEN @ \cup {c.speaker} ELSE @]

(* Inventory. What an item is called.                                       *)
ItemNamed(page, items, ref) ==
    CHOOSE n \in {"lamp", "rope", ""} :
        IF ref \in KnownItems(page) THEN n = "lamp"
        ELSE IF \E i \in DOMAIN items : items[i].id = ref
             THEN \E i \in DOMAIN items : items[i].id = ref /\ items[i].name = n
             ELSE n = ""
OperationFault(page, items, o, taken) ==
    IF ~Writable(page, o.source) THEN "invalid_reference"
    ELSE IF o.item \notin KnownItems(page) \cup IdsOf(items) THEN "invalid_reference"
    ELSE IF ~Located(o.quote) \/ ~o.backed THEN "excerpt_mismatch"
    ELSE IF o.id \in taken THEN "duplicate_proposal"
    ELSE ""
(* An increase needs a quantity to add to; an item that the user has voided *)
(* is gone; an event that is stored already is passed over in silence.     *)
(* (What is kept as history only, which needs no quantity, is left out.)    *)
Counted(with, acc, o) ==
    LET name == ItemNamed(with.page, with.items, o.item)
    IN  IF o.item \notin KnownItems(with.page) \cup with.there
        THEN [acc EXCEPT !.said = Append(@, rejection("inventory", o.id, "voided"))]
        ELSE IF o.change = "increase" /\ name \notin acc.counted
        THEN [acc EXCEPT !.said = Append(@, rejection("inventory", o.id, "dependency_invalid"))]
        ELSE IF o.id \in with.page.stored THEN acc
        ELSE [acc EXCEPT !.kept = @ \cup {o.id}, !.counted = @ \cup {name}]
(* The episode of a claim: its own, or the first that its source is part    *)
(* of, or one made for the source.                                         *)
WithEpisode(acc, c) ==
    LET fits == {i \in DOMAIN acc.episodes : c.source \in acc.episodes[i].sources}
        id == IF c.episode # "" THEN c.episode ELSE IF fits # {} THEN acc.episodes[Min(fits)].id ELSE c.source
    IN  [episodes |-> IF c.episode = "" /\ fits = {} THEN Append(acc.episodes, [id |-> c.source, sources |-> {c.source}])
                      ELSE acc.episodes,
         of |-> acc.of \cup {[claim |-> c, episode |-> id]}]

-----------------------------------------------------------------------------
(* The candidates of a list go through their checks one after the other.    *)
(* The checks see the ids that were taken before; prepare takes the id of  *)
(* an episode before it looks at its numbers and references.               *)
FaultOf(with, c, taken) ==
    CASE with.kind = "actor" -> PersonFault(with.page, c, taken)
      [] with.kind = "location" -> SiteFault(with.page, c, taken)
      [] with.kind = "item" -> ItemFault(with.page, c, taken)
      [] with.kind = "episode" -> EpisodeFault(with.page, with.people, with.places, c, taken)
      [] with.kind = "claim" -> ClaimFault(with.page, with.people, with.places, c, taken)
      [] with.kind = "inventory" -> OperationFault(with.page, with.items, c, taken)
Reserves(kind, code) ==
    code = "" \/ (kind = "episode" /\ code \notin {"no_source", "invalid_shape", "duplicate_proposal"})
Checked(with, acc, c) ==
    LET code == FaultOf(with, c, acc.taken)
    IN  [kept |-> IF code = "" THEN Append(acc.kept, c) ELSE acc.kept,
         taken |-> IF Reserves(with.kind, code) THEN acc.taken \cup {c.id} ELSE acc.taken,
         said |-> IF code = "" THEN acc.said ELSE Append(acc.said, rejection(with.kind, c.id, code))]
(* A pass over a list: the checks of a kind, the ledger, the episodes of    *)
(* the claims, or only those of a set.                                     *)
Pass(with, acc, c) ==
    CASE with.kind = "ledger" -> Counted(with, acc, c)
      [] with.kind = "observed" -> WithEpisode(acc, c)
      [] with.kind = "those" -> IF c \in with.set THEN Append(acc, c) ELSE acc
      [] OTHER -> Checked(with, acc, c)
Through(with, start, list) ==
    LET upto[n \in 0..Len(list)] == IF n = 0 THEN start ELSE Pass(with, upto[n - 1], list[n])
    IN  upto[Len(list)]
Sift(with, list, taken) == Through(with, [kept |-> << >>, taken |-> taken, said |-> << >>], list)
Those(list, set) == Through([kind |-> "those", set |-> set], << >>, list)

-----------------------------------------------------------------------------
(* The parts of an answer that a snapshot in the text of "m" makes           *)
(* superfluous give way to the server's own.                               *)
mergeDeterministicInventory(page, reply) ==
    IF page.snapshot = "" THEN reply
    ELSE LET known == page.snapshot = "lamp" /\ ~page.voided
             listed == [id |-> "listed", source |-> "m", quote |-> "exact", name |-> page.snapshot, sure |-> TRUE]
             counted == [id |-> "counted", source |-> "m", quote |-> "exact", backed |-> TRUE, change |-> "set",
                         item |-> IF known THEN "I01" ELSE "listed"]
             Doubled(source, name) == source = "m" /\ name = page.snapshot
         IN  [reply EXCEPT
                 !.items = Those(@, {i \in ToSet(@) : ~Doubled(i.source, i.name)}) \o (IF known THEN << >> ELSE <<listed>>),
                 !.operations = <<counted>> \o
                     Those(@, {o \in ToSet(@) : ~Doubled(o.source, ItemNamed(page, reply.items, o.item))})]
(* extractExplicitDirectiveClaims: an order that "m" quotes becomes a claim *)
(* unless the answer holds one about it.                                   *)
Directive == [id |-> "directive", source |-> "m", quote |-> "exact", backed |-> TRUE, kind |-> "event", sure |-> TRUE,
              long |-> TRUE, subject |-> "A01", text |-> "", object |-> "", otext |-> TRUE, episode |-> "",
              speaker |-> "A01", owners |-> {"A01"}, private |-> FALSE, told |-> TRUE, number |-> FALSE]
WithDirectives(page, reply) ==
    IF page.orders /\ ~\E i \in DOMAIN reply.claims : reply.claims[i].source = "m" /\ reply.claims[i].text = "order"
    THEN [reply EXCEPT !.claims = Append(@, Directive)] ELSE reply
Answered(page, reply) == WithDirectives(page, mergeDeterministicInventory(page, reply))

(* A quantity that the ledger records is no claim besides.                 *)
\* Mutant: an operation takes over the quantities of all items.
TakenOverAny(page, items, operations, c) ==
    c.kind = "state" /\ c.number /\ c.text # "" /\ \E i \in DOMAIN operations : operations[i].source = c.source
TakenOver(page, items, operations, c) ==
    /\ c.kind = "state" /\ c.number /\ c.text # ""
    /\ \E i \in DOMAIN operations :
          operations[i].source = c.source /\ ItemNamed(page, items, operations[i].item) = c.text

(* prepare: the people, places and items of the answer first, then what     *)
(* may name them.                                                          *)
SiftedEntities(page, reply) ==
    LET persons == Sift([kind |-> "actor", page |-> page], reply.persons, KnownPeople \cup KnownPlaces \cup Fixed)
        sites == Sift([kind |-> "location", page |-> page], reply.sites, persons.taken)
    IN  [persons |-> persons, sites |-> sites,
         items |-> Sift([kind |-> "item", page |-> page], reply.items, sites.taken \cup KnownItems(page)),
         people |-> persons.taken \ (KnownPlaces \cup Fixed),
         places |-> KnownPlaces \cup (sites.taken \ persons.taken)]
SiftedNaming(entities, page, reply, conservative) ==
    LET with(kind) == [kind |-> kind, page |-> page, people |-> entities.people, places |-> entities.places,
                       items |-> entities.items.kept]
        episodes == [i \in DOMAIN reply.episodes |-> IF conservative THEN CleanEpisode(page, entities.people, reply.episodes[i])
                                                     ELSE reply.episodes[i]]
        claims == [i \in DOMAIN reply.claims |-> IF conservative THEN CleanClaim(page, entities.people, reply.claims[i])
                                                 ELSE reply.claims[i]]
    IN  [episodes |-> Sift(with("episode"), episodes, {}),
         claims |-> Sift(with("claim"), claims, {}),
         operations |-> Sift(with("inventory"), reply.operations, {})]
SiftedTogether(page, entities, naming) ==
    LET taken == {c \in ToSet(naming.claims.kept) : TakenOver(page, entities.items.kept, naming.operations.kept, c)}
        ours == Those(naming.claims.kept, ToSet(naming.claims.kept) \ taken)
        theirs == Those(naming.claims.kept, taken)
    IN  [done |-> TRUE, persons |-> entities.persons.kept, sites |-> entities.sites.kept, items |-> entities.items.kept,
         episodes |-> naming.episodes.kept,
         claims |-> [i \in DOMAIN ours |-> KeptClaim(IdsOf(naming.episodes.kept), ours[i])],
         operations |-> naming.operations.kept,
         said |-> entities.persons.said \o entities.sites.said \o entities.items.said
                  \o naming.episodes.said \o naming.claims.said \o naming.operations.said
                  \o [i \in DOMAIN theirs |-> rejection("claim", theirs[i].id, "taken_over")]]
SiftedFrom(entities, page, reply, conservative) ==
    SiftedTogether(page, entities, SiftedNaming(entities, page, reply, conservative))
Sifted(page, reply, conservative) == SiftedFrom(SiftedEntities(page, reply), page, reply, conservative)
Prepare ==
    /\ ~sifted.done
    /\ sifted' = Sifted(asked.page, Answered(asked.page, asked.reply), asked.conservative)
    /\ UNCHANGED <<asked, records>>

-----------------------------------------------------------------------------
(* capture: an item that the user has voided comes back under no name.     *)
Revoked(page, i) == page.voided /\ i.name = "lamp"
(* buildCandidateRecords: a row for each candidate of each attempt of the   *)
(* extraction, then for what prepare kept and what was refused without one. *)
Keys(kind, list) == {<<kind, id>> : id \in IdsOf(list)}
KeptKeys(s) ==
    Keys("actor", s.persons) \cup Keys("location", s.sites) \cup Keys("item", s.items) \cup Keys("episode", s.episodes)
    \cup Keys("claim", s.claims) \cup Keys("inventory", s.operations)
Key(r) == <<r.kind, r.id>>
Rows(attempts, kept, said) ==
    LET tried == UNION ToSet(attempts)
        refused == {i \in DOMAIN said : /\ Key(said[i]) \notin tried \cup kept
                                        /\ \A j \in 1..(i - 1) : Key(said[j]) # Key(said[i])}
    IN  (UNION {attempts[i] \X {i - 1} : i \in DOMAIN attempts})
        \cup ((kept \ tried) \X {Len(attempts)}) \cup {<<Key(said[i]), Len(attempts) + i - 1>> : i \in refused}
Superseded(rows, row) == \E later \in rows : later[1] = row[1] /\ later[2] > row[2]
Ignored(said, key) ==
    \E i \in DOMAIN said : /\ Key(said[i]) = key /\ said[i].status = "ignored"
                           /\ \A j \in DOMAIN said : Key(said[j]) = key => j <= i
Status(rows, row, accepted, reply, said) ==
    IF Superseded(rows, row) THEN "superseded_attempt"
    ELSE IF row[1] \in accepted THEN "accepted"
    ELSE IF row[1] \in reply.noops THEN "duplicate_noop"
    ELSE IF row[1][2] \in reply.reviews THEN "pending_review"
    ELSE IF Ignored(said, row[1]) THEN "ignored"
    ELSE "rejected"

(* What capture commits, and the candidate records.                         *)
Recorded(page, reply, kept) ==
    LET there == {i \in ToSet(kept.items) : ~Revoked(page, i)}
        revoked == Those(kept.items, ToSet(kept.items) \ there)
        ledger == Through([kind |-> "ledger", page |-> page, items |-> kept.items, there |-> {i.id : i \in there}],
                          [kept |-> {}, counted |-> page.counted, said |-> << >>], kept.operations)
        said == kept.said \o [i \in DOMAIN revoked |-> rejection("item", revoked[i].id, "voided")] \o ledger.said
        accepted == Keys("actor", kept.persons) \cup Keys("location", kept.sites) \cup {<<"item", i.id>> : i \in there}
                    \cup Keys("episode", kept.episodes) \cup Keys("claim", kept.claims)
                    \cup {<<"inventory", o>> : o \in ledger.kept}
        episodes == [i \in DOMAIN kept.episodes |-> [id |-> kept.episodes[i].id, sources |-> kept.episodes[i].sources]]
        observed == {w \in Through([kind |-> "observed"], [episodes |-> episodes, of |-> {}], kept.claims).of :
                        w.claim.id \notin page.stored}
        rows == Rows(reply.attempts, KeptKeys(kept), said)
    IN  [done |-> TRUE, accepted |-> accepted, said |-> said, observed |-> observed,
         episodes |-> IdsOf(kept.episodes) \cup {w.episode : w \in observed},
         operations |-> {o \in ToSet(kept.operations) : o.id \in ledger.kept},
         rows |-> {[key |-> r[1], status |-> Status(rows, r, accepted, reply, said)] : r \in rows}]
Capture ==
    /\ sifted.done /\ ~records.done
    /\ records' = Recorded(asked.page, asked.reply, sifted)
    /\ UNCHANGED <<asked, sifted>>

ValidationNext == Prepare \/ Capture
ValidationSpec == ValidationInit /\ [][ValidationNext]_validationVars

-----------------------------------------------------------------------------
Codes == {"invalid_shape", "duplicate_proposal", "invalid_reference", "no_source", "excerpt_mismatch", "vague",
          "invalid_confidence", "entity_ref_unsupported", "dependency_invalid", "taken_over", "voided"}
\* The results have the shapes that prepare and capture give them.
ValidationTypeOK ==
    /\ sifted.done => \A i \in DOMAIN sifted.said : sifted.said[i].code \in Codes
    /\ records.done => /\ sifted.done /\ records.operations \subseteq ToSet(sifted.operations)
                       /\ \A w \in records.observed : w.claim \in ToSet(sifted.claims)

\* Whatever a committed record refers to is known or committed with it: the
\* people and places of its episodes and claims, the episode of each
\* observation, the item of each operation. Each list is checked against the
\* ids that the lists before it have left (multi-actor-capture-service.ts
\* 1132-1135, 1436-1469, 2300-2310), and an item may still fall out after that.
ReferencesClosed ==
    records.done =>
        LET people == KnownPeople \cup Fixed \cup IdsOf(sifted.persons)
            places == KnownPlaces \cup IdsOf(sifted.sites)
        IN  /\ \A e \in ToSet(sifted.episodes) : e.people \subseteq people /\ e.place \in places \cup {""}
            /\ \A w \in records.observed :
                  /\ {w.claim.subject, w.claim.object} \subseteq people \cup places \cup {""}
                  /\ w.claim.owners \subseteq people /\ w.episode \in records.episodes
            /\ \A o \in records.operations : <<"item", o.item>> \in records.accepted \/ o.item \in KnownItems(asked.page)

\* A conservative repair only ever saves candidates: an episode or a claim that
\* the plain rules keep, the conservative rules keep as well, or the ledger has
\* taken it over (fieldActions drop optional references, 1360-1397, 1501-1548).
ConservativeKeeps ==
    sifted.done =>
        LET answer == Answered(asked.page, asked.reply)
            plain == Sifted(asked.page, answer, FALSE)
            saved == Sifted(asked.page, answer, TRUE)
        IN  /\ IdsOf(plain.episodes) \subseteq IdsOf(saved.episodes)
            /\ IdsOf(plain.claims) \subseteq
                  IdsOf(saved.claims) \cup {r.id : r \in {r \in ToSet(saved.said) : r.code = "taken_over"}}

\* A quantity that a claim states is not lost when the claim is dropped for the
\* ledger (1706-1716): the ledger records an operation about that item of that
\* source, holds it already, or the audit says why it does not.
QuantityAnswered ==
    records.done =>
        \A i \in DOMAIN sifted.said : sifted.said[i].code = "taken_over" =>
            \E o \in ToSet(sifted.operations) :
                /\ \/ o \in records.operations \/ o.id \in asked.page.stored
                   \/ \E r \in ToSet(records.said) : r.kind = "inventory" /\ r.id = o.id
                /\ \E c \in ToSet(Answered(asked.page, asked.reply).claims) :
                      /\ c.id = sifted.said[i].id /\ c.source = o.source
                      /\ c.text = ItemNamed(asked.page, sifted.items, o.item)

\* The candidate records (buildCandidateRecords 256-412) say of every candidate
\* exactly once what became of it, whatever attempts the extraction made: it was
\* committed just when its one row that no later attempt replaced says so.
RecordsTellOnce ==
    records.done =>
        \A k \in (UNION ToSet(asked.reply.attempts)) \cup KeptKeys(sifted) \cup {Key(r) : r \in ToSet(records.said)} :
            LET told == {r.status : r \in {r \in records.rows : r.key = k}} \ {"superseded_attempt"}
            IN  \E status \in told : told = {status} /\ (status = "accepted" <=> k \in records.accepted)

\* What the checks of an answer let through, and what they say of the rest.
ValidationSound ==
    ValidationTypeOK /\ ReferencesClosed /\ ConservativeKeeps /\ QuantityAnswered /\ RecordsTellOnce
=============================================================================
