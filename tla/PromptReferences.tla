--------------------------- MODULE PromptReferences ---------------------------
(***************************************************************************)
(* The short references of one extraction request. The capture numbers the *)
(* people it knows (actorDirectory): those that the metadata of the        *)
(* sources name come first, the others by name. Before the prompt is       *)
(* written the prefetcher numbers the people that the text of the sources  *)
(* names on its own, and its rows replace those of the capture. The model  *)
(* answers with a reference of the prompt; the capture looks it up in its  *)
(* own directory.                                                          *)
(* Locations are numbered the same way, items too except that the two      *)
(* sides use different letters. The directories' sizes (128 and 50) are    *)
(* not reached.                                                            *)
(***************************************************************************)
EXTENDS Naturals, Sequences, FiniteSets
LOCAL INSTANCE SequencesExt
LOCAL INSTANCE Functions

CONSTANTS Persons,     \* rows of people
          Nobody

VARIABLES directory,   \* what one request is made from
          answer       \* the model's claim, and for whom it is stored
referenceVars == <<directory, answer>>

Orders(n) == {order \in [1..n -> Persons] : IsInjective(order)}
(* listed: confirmed or pending people that were not merged into another;   *)
(* named: whom the text names; metadata: whom the metadata name, in order. *)
ReferencesInit ==
    /\ directory \in [listed : SUBSET Persons, named : SUBSET Persons,
                      metadata : UNION {Orders(n) : n \in 0..Cardinality(Persons)},
                      byName : Orders(Cardinality(Persons)), byId : Orders(Cardinality(Persons))]
    /\ answer = [pc |-> "prompt", meant |-> Nobody, ref |-> 0, stored |-> Nobody]

(* actorDirectory, locationDirectory.                                      *)
KnownActors ==
    LET first == SelectSeq(directory.metadata, LAMBDA p : p \in directory.listed)
        rest == directory.listed \ ToSet(directory.metadata)
    IN  first \o SelectSeq(directory.byName, LAMBDA p : p \in rest)
PrefetchedActors == SelectSeq(directory.byId, LAMBDA p : p \in directory.named)
(* uniqueBy keeps the later of two rows of a person.                       *)
RefIn(rows, p) == CHOOSE i \in DOMAIN rows : rows[i] = p
ShownRef(p) == RefIn(IF p \in directory.named THEN PrefetchedActors ELSE KnownActors, p)

(* The text or the metadata of the sources name the person.                *)
referenceSupported(p) == p \in directory.named \cup ToSet(directory.metadata)

AnswerAbout(p) ==
    /\ answer.pc = "prompt" /\ p \in ToSet(KnownActors) \cup ToSet(PrefetchedActors)
    /\ answer' = [answer EXCEPT !.pc = "answered", !.meant = p, !.ref = ShownRef(p)]
    /\ UNCHANGED directory
StoreClaim ==
    /\ answer.pc = "answered"
    /\ LET valid == answer.ref \in DOMAIN KnownActors /\ referenceSupported(KnownActors[answer.ref])
       IN  answer' = [answer EXCEPT !.pc = "done", !.stored = IF valid THEN KnownActors[answer.ref] ELSE Nobody]
    /\ UNCHANGED directory
ReferencesNext == (\E p \in Persons : AnswerAbout(p)) \/ StoreClaim
ReferencesSpec == ReferencesInit /\ [][ReferencesNext]_referenceVars

-----------------------------------------------------------------------------
\* A claim is stored for the person whom the prompt gave its reference to, or not
\* at all (docs/structured-capture.md:79-85).
StoredForItsPerson == answer.stored \in {Nobody, answer.meant}
=============================================================================
