------------------------------ MODULE Knowledge ------------------------------
(***************************************************************************)
(* Who knows what after a capture: the claims of the model are validated   *)
(* (prepare), made into observations (capture), the observations into      *)
(* traces of single owners (KnowledgeProjector), and the traces merged     *)
(* with those of earlier captures (commitCapture).                         *)
(*                                                                         *)
(* A fact stands for its slot and content, so two claims of a fact are     *)
(* duplicates; FactLedger has the slots that are superseded. Strength,     *)
(* clarity and the mode of a trace are left out.                           *)
(***************************************************************************)
EXTENDS Naturals, Sequences, FiniteSets

CONSTANTS Actors,
          Claims,       \* claims the model may answer with
          MaxCaptures   \* bound

VARIABLES traces,      \* by owner and fact
          observed,    \* observations in the store, by id
          evidence,    \* the facts and the excerpts they rest on
          told,        \* history: stored claims, with the owners of the traces they made, with those whose trace rests on them
          captures     \* bound so far
knowledgeVars == <<traces, observed, evidence, told, captures>>

Nobody == "nobody"
FixedOwners == {"world", "narrator", "unknown"}
Owners == Actors \cup FixedOwners
TracedFacts == {c.fact : c \in Claims}
Privacies == <<"public", "limited", "private", "secret">>
Secrecy == {Privacies[i] : i \in DOMAIN Privacies}
PrivacyRank(p) == CHOOSE i \in DOMAIN Privacies : Privacies[i] = p
MoreSecret(p, q) == IF PrivacyRank(p) >= PrivacyRank(q) THEN p ELSE q
Private(c) == c.privacy \in {"private", "secret"}

\* What the model answers, and that a fact is about one subject.
ASSUME ClaimShape ==
    /\ MaxCaptures \in Nat
    /\ Actors \cap (FixedOwners \cup {Nobody}) = {}
    /\ \A c \in Claims :
         c \in [id : {c.id}, message : {c.message}, excerpt : {c.excerpt}, fact : {c.fact}, source : {"message", "world", "state"},
                mode : {"self_reported", "heard", "believed", "suspected", "inferred", "experienced", "asserted", "unknown"},
                privacy : Secrecy, speaker : Actors \cup {Nobody}, subject : Actors \cup {Nobody},
                owners : SUBSET Actors, observers : SUBSET Actors, present : SUBSET Actors, named : SUBSET Actors]
    /\ \A c, d \in Claims : c.fact = d.fact => c.subject = d.subject

NoTrace == [known |-> FALSE, obs |-> {}, privacy |-> "public", rehearsals |-> 0]

KnowledgeTypeOK ==
    /\ \A o \in Owners, f \in TracedFacts :
         traces[<<o, f>>].obs \subseteq observed /\ traces[<<o, f>>].privacy \in Secrecy
    /\ \A t \in told : t.learners \subseteq Owners
    /\ captures <= MaxCaptures

KnowledgeInit ==
    /\ traces = [key \in Owners \X TracedFacts |-> NoTrace]
    /\ observed = {} /\ evidence = {} /\ told = {} /\ captures = 0

-----------------------------------------------------------------------------
(* prepare, the knowledge of a claim. A conservative repair drops the      *)
(* people of the lists that the source does not name, anything else        *)
(* refuses the claim; what is private needs a speaker.                     *)
Filtered(c) ==
    LET only(people) == people \cap c.named
    IN  [c EXCEPT !.owners = only(@), !.observers = only(@), !.present = only(@)]
SpeakerGiven(c) == Private(c) \/ c.mode \in {"self_reported", "heard"} => c.speaker # Nobody
Acceptable(c) ==
    /\ ({c.speaker, c.subject} \ {Nobody}) \cup c.owners \cup c.observers \cup c.present \subseteq c.named
    /\ SpeakerGiven(c)
Said(answers, conservative) == [i \in DOMAIN answers |-> IF conservative THEN Filtered(answers[i]) ELSE answers[i]]
(* The places of what is acceptable; the first claim of a local id is kept. *)
Prepared(said) ==
    {i \in DOMAIN said : Acceptable(said[i]) /\ \A j \in DOMAIN said : j < i /\ said[j].id = said[i].id => ~Acceptable(said[j])}

(* capture, observationChannel and the observation of a claim.             *)
SpokenChannel(c) ==
    IF c.mode \in {"self_reported", "heard"} THEN "public_speech"
    ELSE IF c.mode \in {"believed", "suspected"} THEN "rumor"
    ELSE IF c.mode = "inferred" THEN "inference"
    ELSE IF c.mode = "experienced" /\ c.owners # {} THEN "state" ELSE "narration"
Channel(c) ==
    IF c.source = "world" THEN "worldbook"
    ELSE IF c.source = "state" THEN "state"
    ELSE IF Private(c) /\ c.speaker # Nobody THEN "private_thought" ELSE SpokenChannel(c)
Observation(c) ==
    LET channel == Channel(c)
        knowers == IF Private(c) THEN {c.speaker} \ {Nobody} ELSE c.owners
    IN  [id |-> <<c.id, c.message>>, fact |-> c.fact, channel |-> channel, privacy |-> c.privacy, mode |-> c.mode,
         speaker |-> IF c.speaker # Nobody THEN c.speaker
                     ELSE IF c.mode = "self_reported" /\ c.subject # Nobody THEN c.subject
                     ELSE IF channel = "narration" THEN "narrator" ELSE "unknown",
         observers |-> IF Private(c) THEN knowers ELSE knowers \cup c.observers, present |-> c.present]
(* A duplicate that brings no new excerpt is left out.                     *)
Excerpt(c) == <<c.fact, c.message, c.excerpt>>
New(said) == {i \in Prepared(said) : Excerpt(said[i]) \notin evidence}
Stored(said) ==
    {said[i] : i \in {j \in New(said) : \A k \in New(said) : Excerpt(said[k]) = Excerpt(said[j]) => j <= k}}

-----------------------------------------------------------------------------
(* KnowledgeProjector.project: who learns a fact from an observation.      *)
WorldSource(o) == o.channel = "worldbook" \/ (o.channel = "state" /\ o.observers = {} /\ o.speaker = "unknown")
Heard(o) == {o.speaker} \cup (o.observers \cap o.present)
Learners(o) ==
    IF o.channel = "private_thought" \/ Private(o) THEN {o.speaker}
    ELSE IF o.channel \in {"rumor", "inference"} \/ o.mode \in {"believed", "suspected", "inferred"}
         THEN {o.speaker} \cup o.observers
    ELSE IF o.channel = "public_speech" THEN Heard(o)
    ELSE IF o.channel = "narration" THEN {"narrator"} ELSE o.observers
(* A fact with an observation of the world is the world's, and its         *)
(* subject's; what nobody learns is kept by the unknown owner.             *)
OfWorld(obs) == \E o \in obs : WorldSource(o)
Knowers(obs, subject) ==
    IF OfWorld(obs) THEN {"world", subject} \ {Nobody}
    ELSE LET all == UNION {Learners(o) : o \in obs} IN IF all = {} THEN {"unknown"} ELSE all
(* The trace an owner gets from the observations of one capture: as private *)
(* as the most private of them.                                            *)
Strictest(ps) == CHOOSE p \in ps : \A q \in ps : PrivacyRank(q) <= PrivacyRank(p)
Projected(owner, obs) ==
    LET mine == IF OfWorld(obs) THEN obs ELSE {o \in obs : owner \in Learners(o)}
        least == IF mine = {} \/ (owner # "world" /\ OfWorld(obs)) THEN "limited" ELSE "public"
    IN  [known |-> TRUE, obs |-> {o.id : o \in mine}, rehearsals |-> 0,
         privacy |-> Strictest({least} \cup {o.privacy : o \in mine})]

(* commitCapture: an observation the trace does not have yet rehearses it. *)
Novel(old, new) == ~(new.obs \subseteq old.obs)
\* Mutant: the newer trace says how private the knowledge is.
MergedLoosely(old, new) ==
    IF ~old.known THEN new
    ELSE [new EXCEPT !.obs = old.obs \cup @, !.rehearsals = old.rehearsals + IF Novel(old, new) THEN 1 ELSE 0]
Merged(old, new) ==
    IF ~old.known THEN new
    ELSE [new EXCEPT !.obs = old.obs \cup @, !.privacy = MoreSecret(@, old.privacy),
                     !.rehearsals = old.rehearsals + IF Novel(old, new) THEN 1 ELSE 0]

Observed(claims, f) == {Observation(c) : c \in {d \in claims : d.fact = f}}
Subject(claims, f) == (CHOOSE c \in claims : c.fact = f).subject
Learned(claims, o, f) == Observed(claims, f) # {} /\ o \in Knowers(Observed(claims, f), Subject(claims, f))
RestingOn(claims, c) ==
    {o \in Owners : Learned(claims, o, c.fact) /\ Observation(c).id \in Projected(o, Observed(claims, c.fact)).obs}
Learn(answers, conservative) ==
    /\ captures < MaxCaptures /\ captures' = captures + 1
    /\ LET claims == Stored(Said(answers, conservative))
       IN  /\ traces' = [key \in Owners \X TracedFacts |->
                           IF Learned(claims, key[1], key[2])
                           THEN Merged(traces[key], Projected(key[1], Observed(claims, key[2]))) ELSE traces[key]]
           /\ observed' = observed \cup {Observation(c).id : c \in claims}
           /\ evidence' = evidence \cup {Excerpt(c) : c \in claims}
           /\ told' = told \cup {[claim |-> c, learners |-> RestingOn(claims, c)] : c \in claims}
KnowledgeNext == \E answers \in {<<c>> : c \in Claims} \cup (Claims \X Claims), conservative \in BOOLEAN :
                     Learn(answers, conservative)
KnowledgeSpec == KnowledgeInit /\ [][KnowledgeNext]_knowledgeVars

-----------------------------------------------------------------------------
(* Properties.                                                             *)
ToldOf(f) == {t.claim : t \in {u \in told : u.claim.fact = f}}

\* What was only ever said in private is known to those who said it, whoever the
\* model lists as owners, observers or present: "Presence is not knowledge"
\* (multi-actor-capture-service.ts:2068-2070).
PrivateReachesSpeakers ==
    \A o \in Owners, f \in TracedFacts :
        traces[<<o, f>>].known /\ (\A c \in ToldOf(f) : Private(c) /\ c.source # "world")
            => \E c \in ToldOf(f) : c.speaker = o

\* Nobody learns a fact by being mentioned or present: an actor with a trace said
\* it, observed it, or is the one the world's own text is about
\* (knowledge-projector.ts:72-75).
LearnsByWitness ==
    \A o \in Actors, f \in TracedFacts :
        traces[<<o, f>>].known =>
            \E c \in ToldOf(f) : \/ o \in {c.speaker} \cup c.owners \cup c.observers
                                 \/ c.source # "message" /\ c.subject = o

\* A trace is at least as private as every claim it rests on, in whatever order and
\* however often the captures brought them (knowledge-projector.ts:92-95).
PrivacyIsStrictest ==
    \A t \in told : \A o \in t.learners :
        PrivacyRank(traces[<<o, t.claim.fact>>].privacy) >= PrivacyRank(t.claim.privacy)

\* Telling the same again does not strengthen a memory: every rehearsal has an
\* observation of its own, beside the one an owner learned by
\* (multi-actor-memory-repository.ts:1739-1740). The unknown owner may have learned
\* by none.
RehearsedByObservations ==
    \A o \in Owners, f \in TracedFacts :
        traces[<<o, f>>].known =>
            /\ traces[<<o, f>>].rehearsals <= Cardinality(traces[<<o, f>>].obs)
            /\ o # "unknown" => traces[<<o, f>>].rehearsals < Cardinality(traces[<<o, f>>].obs)

\* Who knows what, how privately and how firmly.
KnowledgeSound ==
    /\ KnowledgeTypeOK /\ PrivateReachesSpeakers /\ LearnsByWitness
    /\ PrivacyIsStrictest /\ RehearsedByObservations
=============================================================================
