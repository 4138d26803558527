---------------------------- MODULE PreviewLookup ----------------------------
(***************************************************************************)
(* The button under a reply that opens its recall preview.  The host asks   *)
(* which of the replies on the page have one (resolve); the answer comes    *)
(* from a cache, and what the cache does not know is looked up, a few        *)
(* replies at a time, the newest first.  When details change an             *)
(* announcement drops the lookups in flight and the replies known to have    *)
(* none.                                                                   *)
(*                                                                         *)
(* A reply is its text, and has one detail: the last one stored.  The host   *)
(* does not abort its questions.                                            *)
(***************************************************************************)
EXTENDS Naturals, FiniteSets
LOCAL INSTANCE FiniteSetsExt

CONSTANTS
    Slots,        \* 1..n: the replies on the page
    BatchSize,    \* MESSAGE_ACTION_LOOKUP_BATCH_SIZE
    MaxStored,    \* bound: details stored
    MaxEdits,     \* bound: edits by the user
    MaxLookupFaults   \* bound: lookups that fail

VARIABLES
    page,       \* the text of each reply, 0 for none
    kept,       \* the text a detail of the reply is stored for, 0 for none
    known,      \* availability: the text of the detail found, None, or Unknown
    pending,    \* the lookup a reply waits for, 0 for none
    lookups,    \* lookups in flight
    edits,      \* edits the details have not followed
    heard,      \* [revision: of the lookups, untold: writes not announced, asked: the host will ask]
    did,        \* counts: stored, edits, faults
    missed      \* history: replies whose lookup failed

lookupVars == <<page, kept, known, pending, lookups, edits, heard, did, missed>>

None == 0
Unknown == 3

LookupInit ==
    /\ page = [k \in Slots |-> 1] /\ kept \in [Slots -> {0, 1}]
    /\ known = [k \in Slots |-> Unknown] /\ pending = [k \in Slots |-> 0]
    /\ lookups = {} /\ edits = {} /\ missed = {}
    /\ heard = [revision |-> 0, untold |-> 0, asked |-> TRUE]
    /\ did = [stored |-> 0, edits |-> 0, faults |-> 0]

Found(k) == known[k] \notin {Unknown, None}

-----------------------------------------------------------------------------
(* The details change behind the page. *)

\* A generation completes; its detail is stored with it.
StoreDetail ==
    /\ did.stored < MaxStored
    /\ did' = [did EXCEPT !.stored = @ + 1]
    /\ \E k \in Slots, text \in 1..2 :
          page' = [page EXCEPT ![k] = text] /\ kept' = [kept EXCEPT ![k] = text]
    /\ heard' = [heard EXCEPT !.untold = @ + 1, !.asked = TRUE]
    /\ UNCHANGED <<known, pending, lookups, edits, missed>>

EditReply ==
    /\ did.edits < MaxEdits
    /\ did' = [did EXCEPT !.edits = @ + 1]
    /\ \E k \in Slots, text \in 1..2 :
          /\ page[k] \notin {0, text}
          /\ page' = [page EXCEPT ![k] = text]
          /\ edits' = edits \cup {<<k, text, did.edits>>}
    /\ heard' = [heard EXCEPT !.asked = TRUE]
    /\ UNCHANGED <<kept, known, pending, lookups, missed>>

\* applyGenerationRecallMessageEdit: an announcement follows only a change.
FollowEdit ==
    \E e \in edits :
        /\ edits' = edits \ {e}
        /\ IF kept[e[1]] \in {0, e[2]} THEN UNCHANGED <<kept, heard>>
           ELSE kept' = [kept EXCEPT ![e[1]] = 0] /\ heard' = [heard EXCEPT !.untold = @ + 1]
        /\ UNCHANGED <<page, known, pending, lookups, did, missed>>

\* Mutant: lookups in flight may still answer.
SameRevision(revision) == revision

NextRevision(revision) == revision + 1

\* The details changed ("updated"), or they all went ("cleared").
Announce ==
    /\ heard.untold > 0
    /\ heard' = [revision |-> NextRevision(heard.revision), untold |-> heard.untold - 1, asked |-> TRUE]
    /\ pending' = [k \in Slots |-> 0]
    /\ known' = [k \in Slots |-> IF known[k] = None THEN Unknown ELSE known[k]]
    /\ missed' = {}
    /\ UNCHANGED <<page, kept, lookups, edits, did>>

Clear ==
    /\ did.stored < MaxStored /\ kept # [k \in Slots |-> 0]
    /\ did' = [did EXCEPT !.stored = @ + 1]
    /\ kept' = [k \in Slots |-> 0]
    /\ heard' = [heard EXCEPT !.revision = NextRevision(@), !.asked = TRUE]
    /\ pending' = [k \in Slots |-> 0] /\ known' = [k \in Slots |-> Unknown]
    /\ missed' = {}
    /\ UNCHANGED <<page, lookups, edits>>

-----------------------------------------------------------------------------
(* Questions of the host, and lookups. *)

\* invalidateStaleTargets: what was found for another text is forgotten.
Checked == [k \in Slots |-> IF Found(k) /\ known[k] # page[k] THEN Unknown ELSE known[k]]

Lookup(keys, id) ==
    [id |-> id, keys |-> keys, texts |-> [k \in keys |-> page[k]],
     revision |-> heard.revision, read |-> FALSE, found |-> [k \in keys |-> FALSE]]

\* resolve and startLookup.
Resolve ==
    /\ heard.asked
    /\ heard' = [heard EXCEPT !.asked = FALSE]
    /\ known' = Checked
    /\ LET open == {k \in Slots : page[k] # 0 /\ Checked[k] = Unknown /\ pending[k] = 0}
           selected == {k \in open : Cardinality({l \in open : l > k}) < BatchSize}
           id == Max({0} \cup {l.id : l \in lookups} \cup {pending[k] : k \in Slots}) + 1
       IN  IF selected = {} THEN UNCHANGED <<pending, lookups>>
           ELSE /\ lookups' = lookups \cup {Lookup(selected, id)}
                /\ pending' = [k \in Slots |-> IF k \in selected THEN id ELSE pending[k]]
    /\ UNCHANGED <<page, kept, edits, did, missed>>

\* findGenerationRecallDetailsForTargets
ReadLookup ==
    \E l \in lookups :
        /\ ~l.read
        /\ lookups' = (lookups \ {l}) \cup
              {[l EXCEPT !.read = TRUE, !.found = [k \in l.keys |-> kept[k] = l.texts[k]]]}
        /\ UNCHANGED <<page, kept, known, pending, edits, heard, did, missed>>

\* Mutant: the host is not told that a lookup ended.
Untold(asked) == asked

\* publishResolution
ToldAgain(asked) == TRUE

\* The cache after a lookup, unless the details changed meanwhile.
Ends(l, cache) ==
    /\ lookups' = lookups \ {l}
    /\ pending' = [k \in Slots |-> IF pending[k] = l.id THEN 0 ELSE pending[k]]
    /\ IF l.revision = heard.revision
       THEN /\ known' = [k \in Slots |-> IF k \in l.keys THEN cache[k] ELSE known[k]]
            /\ heard' = [heard EXCEPT !.asked = ToldAgain(@)]
       ELSE UNCHANGED <<known, heard>>
    /\ UNCHANGED <<page, kept, edits>>

FinishLookup ==
    \E l \in lookups :
        /\ l.read
        /\ Ends(l, [k \in l.keys |-> IF l.found[k] THEN l.texts[k] ELSE None])
        /\ UNCHANGED <<did, missed>>

\* A reply whose lookup failed has no button until the next announcement.
FailLookup ==
    /\ did.faults < MaxLookupFaults
    /\ did' = [did EXCEPT !.faults = @ + 1]
    /\ \E l \in lookups :
          /\ ~l.read
          /\ Ends(l, [k \in l.keys |-> None])
          /\ missed' = IF l.revision = heard.revision THEN missed \cup l.keys ELSE missed

\* What goes on by itself.
LookupWork == Announce \/ FollowEdit \/ ReadLookup \/ FinishLookup

LookupNext ==
    \/ StoreDetail \/ EditReply \/ Clear \/ Resolve \/ FailLookup
    \/ LookupWork

-----------------------------------------------------------------------------
LookupTypeOK ==
    /\ \A k \in Slots : page[k] \in 0..2 /\ kept[k] \in 0..2
    /\ \A k \in Slots : Found(k) => known[k] \in 1..2
    /\ \A l \in lookups : l.keys \subseteq Slots

\* A reply that is said to have no preview has none: a lookup that read the
\* details before one was stored does not hide the button when it ends after it.
HiddenHasNone ==
    (heard.untold = 0 /\ edits = {}) =>
        \A k \in Slots \ missed : known[k] = None => kept[k] # page[k]

\* The buttons of the page are never wrong, and hide nothing.
ButtonsAreRight == LookupTypeOK /\ HiddenHasNone

\* In the end every reply with a detail has its button, however many batches the
\* page takes and whatever was dropped on the way.
ButtonsAppear ==
    <>[](\A k \in Slots \ missed : (page[k] # 0 /\ kept[k] = page[k]) => known[k] = page[k])
=============================================================================
