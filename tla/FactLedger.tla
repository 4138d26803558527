----------------------------- MODULE FactLedger -----------------------------
(***************************************************************************)
(* The facts of one slot (one subject and predicate) and the head that     *)
(* names its current value, under captures, manual edits and removals.     *)
(* A capture reads the slot when it assembles its commit and writes later, *)
(* over whatever the slot has become; an edit takes a snapshot too, a      *)
(* removal checks the version of everything it read.                       *)
(***************************************************************************)
EXTENDS Naturals

CONSTANTS Claims,        \* what captures may extract for the slot
          ManualIds,     \* ids of facts written by hand
          Texts,
          NoFact,
          LedgerCallers,
          MaxEdits,      \* bound on manual edits
          EditsOverlap   \* whether others may write while an edit is between its reads and its write

VARIABLES facts, head, calls, edits,
          named,               \* ids given to facts written by hand
          captured, rescanned  \* histories: the claims captured so far; whether one came again
factVars == <<facts, head, calls, edits, named, captured, rescanned>>

FactIds == {k.id : k \in Claims} \cup ManualIds
Newest(k) == \A l \in Claims : k.at >= l.at
Now == (CHOOSE k \in Claims : Newest(k)).at + edits + 1

Fact == [mutable : BOOLEAN, text : Texts, status : {"active", "pending", "superseded"},
         sure : 0..2, at : Nat, sources : SUBSET Claims,
         prev : FactIds \cup {NoFact}, next : FactIds \cup {NoFact}]

\* A fact's id is a hash of what its claim says and where, or a fresh UUID.
ASSUME ClaimShape ==
    /\ \A k \in Claims : /\ k.text \in Texts /\ k.at \in Nat /\ k.mutable \in BOOLEAN
                         /\ k.sure \in 0..2 /\ k.known \in BOOLEAN /\ k.approved \in BOOLEAN
                         /\ k.id \notin ManualIds /\ \A l \in Claims : k.id = l.id => k = l
    /\ \E k \in Claims : \A l \in Claims : k.at >= l.at
    /\ NoFact \notin FactIds \cup Fact
    /\ MaxEdits \in Nat

FactTypeOK ==
    /\ facts \in [FactIds -> Fact \cup {NoFact}]
    /\ head \in FactIds \cup {NoFact}
    /\ edits \in 0..MaxEdits /\ named \subseteq ManualIds /\ captured \subseteq Claims /\ rescanned \in BOOLEAN

Stored(rows) == {i \in FactIds : rows[i] # NoFact}
Current(f) == f.status \in {"active", "pending"}
CurrentIn(rows) == {i \in Stored(rows) : Current(rows[i])}
MutableIn(rows) == {i \in CurrentIn(rows) : rows[i].mutable}

(* The order every selection uses: active before pending, then the        *)
(* freshest evidence; what is left to row times and ids is left open.     *)
Ahead(f, g) == \/ f.status = "active" /\ g.status # "active"
               \/ f.status = g.status /\ f.at > g.at
Best(ids, rows) == {i \in ids : \A j \in ids : ~Ahead(rows[j], rows[i])}
BestOrNone(ids, rows) == IF ids = {} THEN {NoFact} ELSE Best(ids, rows)

(* sure: 0 below 0.6, 1 below ACTIVE_CONFIDENCE_THRESHOLD, 2 from there. *)
decideFactReconciliation(f, k) ==
    IF f.text = k.text THEN "duplicate"
    ELSE IF ~f.mutable \/ ~k.mutable THEN "insert"
    ELSE IF k.at > f.at /\ k.sure = 2 THEN "supersede"
    ELSE "pending"

Accepted(k) == k.approved \/ (k.sure > 0 /\ k.known)
FactOf(k) == [mutable |-> k.mutable, text |-> k.text, sure |-> k.sure, at |-> k.at,
              status |-> IF Accepted(k) THEN "active" ELSE "pending",
              sources |-> {k}, prev |-> NoFact, next |-> NoFact]

(* What is written over the stored rows: nothing, or the rows of some ids. *)
NoRows == [i \in {} |-> NoFact]
Only(i, f) == [j \in {i} |-> f]
Over(written, rows) == [i \in FactIds |-> IF i \in DOMAIN written THEN written[i] ELSE rows[i]]

(* The rows a capture decides to write for claim k, having seen the slot. *)
MergedInto(f, k) == [f EXCEPT !.sources = @ \cup {k}, !.at = IF k.at > @ THEN k.at ELSE @]
Supersede(k, seen, i) ==
    [j \in {k.id, i} |-> IF j = k.id THEN [FactOf(k) EXCEPT !.prev = i]
                         ELSE [seen[i] EXCEPT !.status = "superseded", !.next = k.id]]
Reconciled(k, seen, i) ==
    LET decision == decideFactReconciliation(seen[i], k)
    IN  IF decision = "duplicate"
        THEN IF k \in seen[i].sources THEN NoRows ELSE Only(i, MergedInto(seen[i], k))
        ELSE IF decision = "supersede" \/ (decision = "pending" /\ k.approved) THEN Supersede(k, seen, i)
        ELSE Only(k.id, IF decision = "pending" THEN [FactOf(k) EXCEPT !.status = "pending"] ELSE FactOf(k))

Duplicates(k, seen) == {i \in CurrentIn(seen) : decideFactReconciliation(seen[i], k) = "duplicate"}
Matches(k, seen) == IF Duplicates(k, seen) # {} THEN Duplicates(k, seen)
                    ELSE BestOrNone(CurrentIn(seen), seen)
Plans(k, seen) == {IF i = NoFact THEN Only(k.id, FactOf(k)) ELSE Reconciled(k, seen, i) : i \in Matches(k, seen)}

-----------------------------------------------------------------------------
NotAsked == [pc |-> "idle"]
FactInit ==
    /\ facts = [i \in FactIds |-> NoFact] /\ head = NoFact
    /\ calls = [c \in LedgerCallers |-> NotAsked] /\ edits = 0
    /\ named = {} /\ captured = {} /\ rescanned = FALSE

(* With EditsOverlap FALSE an edit is over before another call writes. *)
MayWrite(c) == EditsOverlap \/ \A d \in LedgerCallers \ {c} : calls[d].pc # "edit"

(* The capture service lists the facts while it materializes its claims;  *)
(* a window has one capture in flight.                                     *)
ReadForCapture(c, k) ==
    /\ calls[c].pc = "idle" /\ \A d \in LedgerCallers : calls[d].pc # "capture"
    /\ calls' = [calls EXCEPT ![c] = [pc |-> "capture", claim |-> k,
                                      seen |-> [i \in FactIds |-> IF i \in CurrentIn(facts) THEN facts[i] ELSE NoFact]]]
    /\ UNCHANGED <<facts, head, edits, named, captured, rescanned>>

\* Mutant: a head whose fact is stored is left alone.
HeadOnceSet(written, rows) ==
    LET batch == {i \in DOMAIN written : rows[i].mutable}
    IN  IF batch = {} \/ head \in Stored(rows) THEN {head} ELSE BestOrNone(batch \cap MutableIn(rows), rows)
(* commitCapture writes over the versions it finds then. The head is      *)
(* chosen among its current fact and the batch, if the batch has mutable  *)
(* facts at all.                                                           *)
HeadAfterCapture(written, rows) ==
    LET batch == {i \in DOMAIN written : rows[i].mutable}
        kept  == {head} \cap Stored(rows)
    IN  IF batch = {} THEN {head}
        ELSE BestOrNone((kept \cup batch) \cap MutableIn(rows), rows)
CommitReconciled(c) ==
    /\ calls[c].pc = "capture" /\ MayWrite(c)
    /\ \E written \in Plans(calls[c].claim, calls[c].seen) :
          LET rows == Over(written, facts)
          IN  /\ facts' = rows
              /\ head' \in HeadAfterCapture(written, rows)
    /\ captured' = captured \cup {calls[c].claim}
    /\ rescanned' = (rescanned \/ calls[c].claim \in captured)
    /\ calls' = [calls EXCEPT ![c] = NotAsked] /\ UNCHANGED <<edits, named>>

(* upsertManualFact: updateFact edits an existing row and keeps its kind, *)
(* slot, confidence and status; facts.upsert creates one.                  *)
BeginEdit(c, i, text, mutable, sure, status) ==
    /\ calls[c].pc = "idle" /\ edits < MaxEdits /\ MayWrite(c)
    /\ IF facts[i] = NoFact
       THEN /\ i \in ManualIds \ named /\ named' = named \cup {i}
            /\ status \in {"active", "pending"}
       ELSE /\ mutable = facts[i].mutable /\ sure = facts[i].sure /\ status = facts[i].status
            /\ UNCHANGED named
    /\ calls' = [calls EXCEPT ![c] = [pc |-> "edit", id |-> i, text |-> text, mutable |-> mutable,
                                      sure |-> sure, status |-> status, seen |-> facts]]
    /\ edits' = edits + 1
    /\ UNCHANGED <<facts, head, captured, rescanned>>

(* A new active mutable fact supersedes the best candidate of the slot. *)
EditStatus(e) == IF e.status = "active" /\ e.sure < 2 THEN "pending" ELSE e.status
Displaced(e) ==
    IF e.seen[e.id] # NoFact \/ ~e.mutable \/ EditStatus(e) # "active" THEN {NoFact}
    ELSE BestOrNone(CurrentIn(e.seen), e.seen)
EditedFact(e, old) ==
    LET before == e.seen[e.id]
    IN  [mutable |-> e.mutable, text |-> e.text, sure |-> e.sure, at |-> Now, status |-> EditStatus(e),
         sources |-> IF before = NoFact THEN {} ELSE before.sources,
         prev |-> IF old # NoFact THEN old ELSE IF before = NoFact THEN NoFact ELSE before.prev,
         next |-> IF before = NoFact THEN NoFact ELSE before.next]
ApplyEdit(c) ==
    /\ calls[c].pc = "edit" /\ MayWrite(c)
    /\ LET e == calls[c]
       IN  \E old \in Displaced(e) :
             LET gone == IF old = NoFact THEN NoRows
                         ELSE Only(old, [e.seen[old] EXCEPT !.status = "superseded", !.next = e.id])
                 edited == Only(e.id, EditedFact(e, old))
                 effective == Over(edited, Over(gone, e.seen))
             IN  /\ facts' = Over(edited, IF old \in Stored(facts) THEN Over(gone, facts) ELSE facts)
                 /\ head' \in BestOrNone(MutableIn(effective), effective)
    /\ calls' = [calls EXCEPT ![c] = NotAsked] /\ UNCHANGED <<edits, named, captured, rescanned>>

(* removeFact: the neighbours in the chain are unlinked, what the fact     *)
(* superseded is active again, and a head that named it moves to one of   *)
(* them. A version that changed since it was read fails the call.         *)
Unlinked(i, f) == [f EXCEPT !.status = IF f.next = i THEN "active" ELSE @,
                            !.next = IF @ = i THEN NoFact ELSE @,
                            !.prev = IF @ = i THEN NoFact ELSE @]
Related(i) == {facts[i].prev, facts[i].next} \cap Stored(facts)
HeadAfterRemoval(i, rows) ==
    IF head # i THEN {head}
    ELSE BestOrNone(Related(i) \cap MutableIn(rows), [j \in FactIds |->
            IF rows[j] = NoFact THEN NoFact ELSE [rows[j] EXCEPT !.at = 0]])
RemoveFact(i) ==
    /\ facts[i] # NoFact /\ \A c \in LedgerCallers : EditsOverlap \/ calls[c].pc # "edit"
    /\ LET rows == [j \in FactIds |-> IF j = i THEN NoFact
                                      ELSE IF j \in Related(i) THEN Unlinked(i, facts[j]) ELSE facts[j]]
       IN  /\ facts' = rows
           /\ head' \in HeadAfterRemoval(i, rows)
    /\ UNCHANGED <<calls, edits, named, captured, rescanned>>

FactNext ==
    \/ \E c \in LedgerCallers :
          \/ \E k \in Claims : ReadForCapture(c, k)
          \/ CommitReconciled(c)
          \/ \E i \in FactIds, t \in Texts, m \in BOOLEAN, s \in {1, 2}, st \in {"active", "pending", "superseded"} :
                BeginEdit(c, i, t, m, s, st)
          \/ ApplyEdit(c)
    \/ \E i \in FactIds : RemoveFact(i)

FactSpec == FactInit /\ [][FactNext]_factVars

-----------------------------------------------------------------------------
(* The head of the slot names a stored fact that is still in force and    *)
(* mutable, however captures decided on an older view of the slot and     *)
(* removals interleave.                                                    *)
HeadIsCurrent == head # NoFact => head \in MutableIn(facts)

(* A superseded fact can be reached from what superseded it: the removal  *)
(* of the newer value finds the older one and puts it back. A source that *)
(* is summarized again may write a superseded fact anew and cut its chain.*)
SupersededHasSuccessor ==
    rescanned \/ \A i \in Stored(facts) : facts[i].status = "superseded" /\ facts[i].next # NoFact
                                => facts[i].next \in Stored(facts)

(* Removing the value a slot shows puts back the value it replaced.       *)
RemovalRestores ==
    \A i \in Stored(facts) :
        LET old == facts[i].prev
        IN  i \notin Stored(facts)' /\ head = i /\ old \in Stored(facts) /\ facts[old].next = i /\ facts[old].mutable
              => facts'[old].status = "active" /\ head' # NoFact

(* The values of a slot, and the one it shows. *)
FactsInOrder == /\ [](FactTypeOK /\ HeadIsCurrent /\ SupersededHasSuccessor)
                /\ [][RemovalRestores]_factVars
=============================================================================
