---------------------------- MODULE OwnerRecall ----------------------------
(***************************************************************************)
(* What the prompt of a generation tells each owner: the intent planner     *)
(* chooses whose memories to open, OwnerAwareRecallCoordinator searches     *)
(* them owner by owner, RecallCoverageVerifier lets it search once more if   *)
(* somebody was left without, and the prompt takes what fits.              *)
(*                                                                         *)
(* An inquiry is what all this depends on: the cast plan, the intent the    *)
(* message was classified as, the traces of the chat, the settings.  A fact  *)
(* is a number, the better the higher; what the search finds relevant is    *)
(* any set of facts, and what of it counts as an answer to a sub-query any   *)
(* choice.                                                                 *)
(***************************************************************************)
EXTENDS Naturals, Sequences, FiniteSetsExt

CONSTANTS
    Actors,      \* a sequence, in the order localeCompare gives the ids
    Facts,       \* 1..n
    KindOf,      \* KindOf[f]: identity, state or event, by what a permission opens
    Inquiries,
    Size,        \* Size[f]: characters of the line of fact f
    Envelope,    \* characters of the cast and the rules
    TagSize,     \* of the tags of a partition
    Smallest     \* below so many characters no prompt is built

Acting == {Actors[i] : i \in DOMAIN Actors}

\* What is looked for, and how it is measured.
ASSUME FactShape ==
    /\ IsFiniteSet(Acting)
    /\ IsFiniteSet(Facts) /\ Facts = 1..Cardinality(Facts)
    /\ Size \in [Facts -> Nat]
    /\ Envelope \in Nat \ {0} /\ TagSize \in Nat /\ Smallest \in Nat

\* The plan permits something to everybody it names (CastPlanning, Permitted); the
\* owners a message names are actors, and so are those of the plan.
ASSUME InquiryShape ==
    \A i \in Inquiries :
        /\ i.cast.viewpoint \cup i.cast.required \cup i.cast.likely \subseteq DOMAIN i.cast.permissions
        /\ DOMAIN i.cast.permissions \cup i.named \subseteq Acting
        /\ \A o \in DOMAIN i.cast.permissions :
              i.cast.permissions[o] \in {"full", "focused", "public_only", "identity_only", "none"}
        /\ i.rooms \subseteq Nat

VARIABLES
    inquiry,
    step,       \* planned, recalled, verified, prompted
    told,       \* what each owner is told: a set of facts
    seen,       \* candidates of the first search: excluded from the second
    prompt      \* [room, used, included, omitted]

recallVars == <<inquiry, step, told, seen, prompt>>

Fixed == {"world", "narrator"}
Everybody == <<"world", "narrator">> \o Actors
Opened == Fixed \cup Acting
NoPrompt == [room |-> 0, used |-> 0, included |-> {}, omitted |-> {}]

cast == inquiry.cast
Named == inquiry.named
Asks(kind) == inquiry.kind = kind

RecallInit ==
    /\ inquiry \in Inquiries
    /\ step = "planned"
    /\ told = [o \in Opened |-> {}]
    /\ seen = {} /\ prompt = NoPrompt

-----------------------------------------------------------------------------
(* Whose memories: RecallOwnerScopeResolver. *)

Leading == cast.viewpoint \cup cast.required
Scope ==
    CASE Asks("recent_context") -> {}
      [] Asks("world_knowledge") -> Fixed
      [] Asks("actor_entity") -> Fixed \cup Named
      [] inquiry.kind \in {"actor_knowledge", "relationship"} -> Named
      [] Asks("scene_action") -> Leading \cup cast.likely
      [] Asks("timeline") -> IF Named # {} THEN Named ELSE Leading
      [] OTHER -> Fixed \cup Leading \cup cast.likely

\* Mutant: who is in scope is open, whatever the plan says.
OpenScope(o) ==
    IF o \in Fixed \cup Named \cup Scope THEN "full" ELSE "none"

Permission(o) ==
    IF o \in Fixed THEN (IF o = "world" \/ o \in Scope THEN "full" ELSE "focused")
    ELSE IF Asks("actor_entity") THEN "public_only"
    ELSE IF o \in Named THEN "full"
    ELSE IF o \in DOMAIN cast.permissions THEN cast.permissions[o]
    ELSE IF o \in Scope THEN "full" ELSE "none"

Share(o) ==
    CASE o = "world" -> 4 [] o = "narrator" -> 2
      [] o \in cast.viewpoint -> 6 [] o \in cast.required -> 5
      [] o \in cast.likely -> 2 [] OTHER -> 0
Planned(o) == IF o \in DOMAIN cast.permissions THEN cast.permissions[o] ELSE "unplanned"
Capped(o) ==
    CASE Planned(o) = "none" -> 0
      [] Planned(o) = "focused" -> IF Share(o) = 0 THEN 3 ELSE Min({Share(o), 3})
      [] Planned(o) = "identity_only" -> 1
      [] OTHER -> Share(o)

Budget(o, items) == Min({Max({1, items}), IF Capped(o) = 0 /\ o \in Scope THEN 4 ELSE Capped(o)})

Priority(o) ==
    CASE o \in Named -> 60 [] o \in cast.required -> 50 [] o \in cast.viewpoint -> 40
      [] o = "world" -> 30 [] o = "narrator" -> 20 [] o \in cast.likely -> 10 [] OTHER -> 0

-----------------------------------------------------------------------------
(* The search: OwnerAwareRecallCoordinator. *)

Trace(o, f) == inquiry.traces[o][f]
Eligible(o) ==
    {f \in Facts :
        /\ Trace(o, f).privacy # "unknown"
        /\ \/ Permission(o) = "full"
           \/ Permission(o) = "focused" /\ KindOf[f] \in {"state", "event"}
           \/ Permission(o) = "public_only" /\ Trace(o, f).privacy = "public"
           \/ /\ Permission(o) = "identity_only" /\ Trace(o, f).privacy = "public"
              /\ KindOf[f] \in {"identity", "state"}}

Place(o) == CHOOSE i \in DOMAIN Everybody : Everybody[i] = o
Rank(o) == IF o = "world" THEN 2 ELSE IF o = "narrator" THEN 1 ELSE 0

\* A public fact several owners know is told to one of them.
Canonical(f, items) ==
    LET knowers == {o \in Scope : Budget(o, items) > 0 /\ f \in Eligible(o) /\ Trace(o, f).privacy = "public"}
        ahead(o, p) ==
            \/ Rank(o) > Rank(p)
            \/ /\ Rank(o) = Rank(p)
               /\ \/ Priority(o) > Priority(p)
                  \/ /\ Priority(o) = Priority(p)
                     /\ \/ Trace(o, f).strength > Trace(p, f).strength
                        \/ Trace(o, f).strength = Trace(p, f).strength /\ Place(o) < Place(p)
    IN  {o \in knowers : \A p \in knowers \ {o} : ahead(o, p)}

\* Facts an owner may be told, without the ones searched before.
Searched(o, items, excluded) ==
    IF o \notin Scope \/ Budget(o, items) = 0 THEN {}
    ELSE {f \in Eligible(o) \ excluded : Trace(o, f).privacy = "public" => o \in Canonical(f, items)}

Best(S, n) == {f \in S : Cardinality({g \in S : g > f}) < n}

\* Who is not fixed has forgotten a weak trace.
Remembered(o, found) == {f \in found : o \in Fixed \/ Trace(o, f).strength > 0}

\* The packets of all owners, and which of two is ahead.
Packets(relevant, items, excluded) ==
    UNION {{o} \X Remembered(o, Best(Searched(o, items, excluded) \cap relevant, Budget(o, items))) :
               o \in Scope}

Ahead(p, q) ==
    LET strength(r) == IF r[1] \in Fixed THEN 100 ELSE Trace(r[1], r[2]).strength
    IN  \/ p[2] > q[2]
        \/ /\ p[2] = q[2]
           /\ \/ Priority(p[1]) > Priority(q[1])
              \/ /\ Priority(p[1]) = Priority(q[1])
                 /\ \/ strength(p) > strength(q)
                    \/ strength(p) = strength(q) /\ Place(p[1]) < Place(q[1])

PacketLimit(items) ==
    CASE Asks("recent_context") -> 0
      [] inquiry.kind \in {"world_knowledge", "actor_entity", "actor_knowledge"} -> Min({items, 4})
      [] inquiry.kind \in {"relationship", "timeline"} -> Min({items, 6})
      [] OTHER -> Max({1, items})

Protected == Named \cup cast.required

\* Every protected owner keeps its best packet (the limit is never below their
\* number), the others fill what is left.
Kept(packets) ==
    {p \in packets : p[1] \in Protected /\ \A q \in packets : q[1] = p[1] => q[2] <= p[2]}

Divided(packets, items) ==
    LET kept == Kept(packets)
        left == Max({PacketLimit(items), Cardinality(kept)}) - Cardinality(kept)
        rest == packets \ kept
    IN  kept \cup {p \in rest : Cardinality({q \in rest : Ahead(q, p)}) < left}

FactsOf(o, pairs) == {f \in Facts : <<o, f>> \in pairs}

Told(relevant, items, excluded) ==
    LET divided == Divided(Packets(relevant, items, excluded), items)
    IN  [o \in Opened |-> FactsOf(o, divided)]

Considered(relevant, items, excluded) == UNION {Searched(o, items, excluded) \cap relevant : o \in Scope}

Recall ==
    /\ step = "planned"
    /\ \E relevant \in SUBSET Facts :
          /\ told' = Told(relevant, inquiry.items, {})
          /\ seen' = Considered(relevant, inquiry.items, {})
    /\ step' = "recalled"
    /\ UNCHANGED <<inquiry, prompt>>

-----------------------------------------------------------------------------
(* RecallCoverageVerifier. *)

PairsOf(what) == {p \in Opened \X Facts : p[2] \in what[p[1]]}
Shown == PairsOf(told)

\* Packets the plan of the cast does not permit: no second search then.
Violated ==
    \E p \in Shown : p[1] \in DOMAIN cast.permissions /\
        \/ cast.permissions[p[1]] = "none"
        \/ cast.permissions[p[1]] \in {"public_only", "identity_only"} /\ Trace(p[1], p[2]).privacy # "public"

\* What an owner is told, in order: of the first search before the second, the
\* better first.
FactBefore(f, g) == IF (f \in seen) = (g \in seen) THEN f > g ELSE f \in seen

\* mergeResponses: in the order of the partitions, first come, first served, no
\* fact twice.
Merge(expansion, limit) ==
    LET all == Shown \cup PairsOf(expansion)
        before(p, q) == \/ Place(p[1]) < Place(q[1])
                        \/ p[1] = q[1] /\ FactBefore(p[2], q[2])
        fresh == {p \in all : ~\E q \in all : q[2] = p[2] /\ before(q, p)}
        accepted == {p \in fresh : Cardinality({q \in fresh : before(q, p)}) < limit}
    IN  [o \in Opened |-> FactsOf(o, accepted)]

\* A second search, wider, for facts the first one did not come upon; the owners it
\* falls back to, who get public facts only, are left out. A sub-query
\* without an answer is a reason for it, whoever is told what.
Expand ==
    /\ step = "recalled" /\ ~Violated
    /\ \E relevant \in SUBSET Facts :
          /\ Considered(relevant, inquiry.items + 2, seen) # {}
          /\ told' = Merge(Told(relevant, inquiry.items + 2, seen),
                           IF Asks("general") \/ Asks("scene_action") THEN inquiry.items + 2
                           ELSE PacketLimit(inquiry.items + 2))
    /\ step' = "verified"
    /\ UNCHANGED <<inquiry, seen, prompt>>

\* Covered, or nothing new was found.
Verified ==
    /\ step = "recalled"
    /\ step' = "verified"
    /\ UNCHANGED <<inquiry, told, seen, prompt>>

-----------------------------------------------------------------------------
(* buildActorMemoryPromptResult. *)

Current == cast.viewpoint \cap Scope \cap Acting
Others == (Scope \cap Acting) \ Current
Partitions == Fixed \cup Current \cup Others

\* Who speaks now comes before the other actors.
Turn(o) == IF o \in Fixed THEN 0 ELSE IF o \in Current THEN 1 ELSE 2
PartitionBefore(o, p) == Turn(o) < Turn(p) \/ (Turn(o) = Turn(p) /\ Place(o) < Place(p))
LineBefore(p, q) == PartitionBefore(p[1], q[1]) \/ (p[1] = q[1] /\ FactBefore(p[2], q[2]))

\* A thousandth of the room is the unit.
PartitionBudget(o, room) ==
    CASE o = "world" -> (room * 200) \div 1000
      [] o = "narrator" -> (room * 100) \div 1000
      [] Current = {} -> (room * 700) \div (1000 * Max({1, Cardinality(Others)}))
      [] o \in Current -> (room * 455) \div (1000 * Cardinality(Current))
      [] OTHER -> (room * 245) \div (1000 * Max({1, Cardinality(Others)}))

\* A line is its characters.
Length(pairs) == Cardinality(UNION {{p} \X (1..Size[p[2]]) : p \in pairs})

\* The lines that fit in the room and in the budget of their partition, after
\* the lines before them that do.
Offered == {p \in Shown : p[1] \in Partitions}
FittingLines(room) ==
    LET fits[p \in Offered] ==
            LET taken == {q \in Offered : LineBefore(q, p) /\ fits[q]}
                tags == {o \in Partitions : ~PartitionBefore(p[1], o)}
            IN  /\ TagSize + Length({q \in taken : q[1] = p[1]}) + Size[p[2]] <= PartitionBudget(p[1], room)
                /\ Envelope + Cardinality(tags) * TagSize + Length(taken) + Size[p[2]] <= room
    IN  {p \in Offered : fits[p]}

Used(pairs) == Envelope + Cardinality(Partitions) * TagSize + Length(pairs)

\* The tags that follow a line may not fit any more: lines go from the end.
Trimmed(pairs, room) ==
    LET first(n) == {p \in pairs : Cardinality({q \in pairs : LineBefore(q, p)}) < n}
        enough == {n \in 0..Cardinality(pairs) : Used(first(n)) <= room}
        longest == CHOOSE n \in enough : \A m \in enough : m <= n
    IN  IF room < Smallest \/ enough = {} THEN {} ELSE first(longest)

\* An answer outside the play that nobody is told anything for has no prompt.
Silent == Shown = {} /\ inquiry.kind \notin {"scene_action", "general", "recent_context"}

BuildPrompt ==
    /\ step = "verified"
    /\ \E room \in inquiry.rooms :
          LET included == Trimmed(FittingLines(room), room)
          IN  prompt' = [room |-> room,
                         used |-> IF Silent \/ room < Smallest \/ Used(included) > room THEN 0
                                  ELSE Used(included),
                         included |-> included, omitted |-> Shown \ included]
    /\ step' = "prompted"
    /\ UNCHANGED <<inquiry, told, seen>>

RecallNext == Recall \/ Expand \/ Verified \/ BuildPrompt
RecallSpec == RecallInit /\ [][RecallNext]_recallVars

-----------------------------------------------------------------------------
RecallTypeOK ==
    /\ step \in {"planned", "recalled", "verified", "prompted"}
    /\ told \in [Opened -> SUBSET Facts]
    /\ seen \subseteq Facts
    /\ prompt.included \cup prompt.omitted \subseteq Opened \X Facts

\* What an actor keeps to itself is recalled only for an actor the message names
\* or the plan of the cast opens, and never when the message asks who somebody is.
SecretsNeedPermission ==
    \A p \in Shown :
        (p[1] \notin Fixed /\ Trace(p[1], p[2]).privacy = "private")
            => /\ ~Asks("actor_entity")
               /\ p[1] \notin Named =>
                    p[1] \in DOMAIN cast.permissions /\ cast.permissions[p[1]] \in {"full", "focused"}

\* The first search leaves no protected owner out, however good the memories of
\* the others are: a named or required owner who still remembers a fact that was
\* searched for it and belongs to its best ones is told one.
ProtectedAreHeard ==
    step = "recalled" =>
        \A o \in Protected \cap Scope :
            Remembered(o, Best(Searched(o, inquiry.items, {}) \cap seen, Budget(o, inquiry.items))) # {}
                => told[o] # {}

\* What counts as included, and may be rehearsed when the reply uses it, is in
\* the prompt: nothing is in a prompt that was dropped for its length.
IncludedIsSent ==
    /\ prompt.used <= prompt.room
    /\ prompt.used = 0 => prompt.included = {}

\* What is told of whose memories, and what the prompt holds of it.
RecallSound == RecallTypeOK /\ SecretsNeedPermission /\ ProtectedAreHeard /\ IncludedIsSent
=============================================================================
