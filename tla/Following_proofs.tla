---------------------------- MODULE Following_proofs ----------------------------
(* What follows the chat in its host, for every page, every set of chats and   *)
(* every bound: the buttons under the replies, and the chat Memory works for.  *)
EXTENDS PreviewLookup, ChatBinding, TLAPS, FiniteSetTheorems

-----------------------------------------------------------------------------
(* The buttons.                                                              *)

Text == 1..2

LookupShape ==
    /\ page \in [Slots -> Text]
    /\ kept \in [Slots -> 0..2]
    /\ known \in [Slots -> {None, Unknown} \cup Text]
    /\ edits \subseteq Slots \X Text \X Nat
    /\ heard \in [revision : Nat, untold : Nat, asked : BOOLEAN]
    /\ did \in [stored : Nat, edits : Nat, faults : Nat]
    /\ \A l \in lookups :
          /\ l.keys \subseteq Slots
          /\ l \in [id : {l.id}, keys : {l.keys}, texts : [l.keys -> Text], revision : Nat,
                    read : BOOLEAN, found : [l.keys -> BOOLEAN]]
          /\ l.revision <= heard.revision

\* An edit is on its way that takes the detail of the reply away.
EditWaits(k) == \E e \in edits : e[1] = k /\ e[2] # kept[k]
\* What the cache says, or is about to be told, of the reply is announced as outdated.
Excused(k) == heard.untold > 0 \/ EditWaits(k)

\* A detail of another text than the reply's goes when its edit is followed.
DetailsFollowPage == \A k \in Slots : kept[k] \notin {0, page[k]} => EditWaits(k)

HiddenIsExcused ==
    \A k \in Slots \ missed : (known[k] = None /\ kept[k] = page[k]) => Excused(k)

\* The lookup will say that the reply has no detail.
WillHide(l, k) == IF l.read THEN ~l.found[k] ELSE l.texts[k] # page[k]
AnswersAreExcused ==
    \A l \in lookups : l.revision = heard.revision =>
        \A k \in l.keys : (WillHide(l, k) /\ kept[k] = page[k]) => Excused(k)

LookupInv == LookupShape /\ DetailsFollowPage /\ HiddenIsExcused /\ AnswersAreExcused

LEMMA LookupStarts == LookupInit => LookupInv
<1> SUFFICES ASSUME LookupInit PROVE LookupInv
  OBVIOUS
<1>1. LookupShape
  BY DEF LookupInit, LookupShape, Text, Unknown, None
<1>2. \A k \in Slots : page[k] = 1 /\ kept[k] \in {0, 1} /\ known[k] # None
  BY DEF LookupInit, Unknown, None
<1>3. lookups = {}
  BY DEF LookupInit
<1> QED
  BY <1>1, <1>2, <1>3 DEF LookupInv, DetailsFollowPage, HiddenIsExcused, AnswersAreExcused

LEMMA LookupGivesButtons == LookupInv => ButtonsAreRight
<1> SUFFICES ASSUME LookupInv PROVE ButtonsAreRight
  OBVIOUS
<1>1. LookupTypeOK
  BY DEF LookupInv, LookupShape, LookupTypeOK, Found, Text, None, Unknown
<1>2. HiddenHasNone
  BY DEF LookupInv, LookupShape, HiddenIsExcused, Excused, EditWaits, HiddenHasNone
<1> QED
  BY <1>1, <1>2 DEF ButtonsAreRight

-----------------------------------------------------------------------------
(* The steps behind the page.                                                *)

LEMMA StoreDetailKeeps ==
  ASSUME LookupInv, StoreDetail
  PROVE  LookupInv'
<1>1. PICK k \in Slots, text \in Text :
         page' = [page EXCEPT ![k] = text] /\ kept' = [kept EXCEPT ![k] = text]
  BY DEF StoreDetail, Text
<1>2. heard' = [heard EXCEPT !.untold = @ + 1, !.asked = TRUE]
  BY DEF StoreDetail
<1>3. LookupShape /\ UNCHANGED <<known, lookups, edits, missed>>
  BY DEF LookupInv, StoreDetail
<1>4. heard' \in [revision : Nat, untold : Nat, asked : BOOLEAN] /\ heard'.untold > 0
      /\ heard'.revision = heard.revision
  <2>1. heard \in [revision : Nat, untold : Nat, asked : BOOLEAN]
    BY <1>3 DEF LookupShape
  <2> DEFINE h == [heard EXCEPT !.untold = @ + 1]
  <2>2. h \in [revision : Nat, untold : Nat, asked : BOOLEAN]
    BY <2>1
  <2>3. h.untold > 0 /\ h.revision = heard.revision
    BY <2>1
  <2>4. heard' = [h EXCEPT !.asked = TRUE]
    BY <1>2
  <2> HIDE DEF h
  <2> QED
    BY <2>2, <2>3, <2>4
<1>5. page' \in [Slots -> Text] /\ kept' \in [Slots -> 0..2]
  BY <1>1, <1>3 DEF LookupShape, Text
<1>6. did' \in [stored : Nat, edits : Nat, faults : Nat]
  BY <1>3 DEF StoreDetail, LookupShape
<1>7. LookupShape'
  BY <1>3, <1>4, <1>5, <1>6 DEF LookupShape
<1>8. DetailsFollowPage'
  <2> SUFFICES ASSUME NEW i \in Slots, kept'[i] \notin {0, page'[i]} PROVE EditWaits(i)'
    BY DEF DetailsFollowPage
  <2>1. i # k /\ kept'[i] = kept[i] /\ page'[i] = page[i]
    BY <1>1, <1>3 DEF LookupShape
  <2> QED
    BY <1>3, <2>1 DEF LookupInv, DetailsFollowPage, EditWaits
<1>9. HiddenIsExcused' /\ AnswersAreExcused'
  BY <1>4 DEF HiddenIsExcused, AnswersAreExcused, Excused
<1> QED
  BY <1>7, <1>8, <1>9 DEF LookupInv

LEMMA EditReplyKeeps ==
  ASSUME LookupInv, EditReply
  PROVE  LookupInv'
<1>1. PICK k \in Slots, text \in Text :
         /\ page[k] \notin {0, text}
         /\ page' = [page EXCEPT ![k] = text]
         /\ edits' = edits \cup {<<k, text, did.edits>>}
  BY DEF EditReply, Text
<1>2. LookupShape /\ DetailsFollowPage /\ UNCHANGED <<kept, known, lookups, missed>>
  BY DEF LookupInv, EditReply
<1>3. heard' \in [revision : Nat, untold : Nat, asked : BOOLEAN]
      /\ heard'.untold = heard.untold /\ heard'.revision = heard.revision
  BY <1>2 DEF LookupShape, EditReply
<1>4. page' \in [Slots -> Text]
  BY <1>1, <1>2 DEF LookupShape
<1>5. edits' \subseteq Slots \X Text \X Nat
  BY <1>1, <1>2 DEF LookupShape
<1>6. did' \in [stored : Nat, edits : Nat, faults : Nat]
  BY <1>2 DEF EditReply, LookupShape
<1>7. LookupShape'
  BY <1>2, <1>3, <1>4, <1>5, <1>6 DEF LookupShape
<1>8. \A i \in Slots : EditWaits(i) => EditWaits(i)'
  BY <1>1, <1>2 DEF EditWaits
<1>9. \A i \in Slots : Excused(i) => Excused(i)'
  BY <1>3, <1>8 DEF Excused
<1>10. \A i \in Slots \ {k} : page'[i] = page[i]
  BY <1>1, <1>2 DEF LookupShape
<1>11. page'[k] = text /\ page[k] # text /\ page[k] # 0 /\ text # 0
  BY <1>1, <1>2 DEF LookupShape, Text
\* A reply that is edited to the text of its detail was another before.
<1>12. kept'[k] = page'[k] => Excused(k)'
  BY <1>2, <1>8, <1>11 DEF DetailsFollowPage, Excused
<1>13. DetailsFollowPage'
  <2> SUFFICES ASSUME NEW i \in Slots, kept'[i] \notin {0, page'[i]} PROVE EditWaits(i)'
    BY DEF DetailsFollowPage
  <2>1. CASE i = k
    <3>1. <<k, text, did.edits>>[1] = k /\ <<k, text, did.edits>>[2] = text
      OBVIOUS
    <3> QED
      BY <1>1, <1>11, <2>1, <3>1 DEF EditWaits
  <2>2. CASE i # k
    BY <1>2, <1>8, <1>10, <2>2 DEF DetailsFollowPage
  <2> QED
    BY <2>1, <2>2
<1>14. HiddenIsExcused'
  BY <1>2, <1>9, <1>10, <1>12 DEF LookupInv, HiddenIsExcused
<1>15. AnswersAreExcused'
  <2> SUFFICES ASSUME NEW l \in lookups, l.revision = heard.revision, NEW i \in l.keys,
                      WillHide(l, i)', kept[i] = page'[i]
               PROVE  Excused(i)'
    BY <1>2, <1>3 DEF AnswersAreExcused
  <2>1. i \in Slots
    BY <1>2 DEF LookupShape
  <2>2. CASE i = k
    BY <1>2, <1>12, <2>2
  <2>3. CASE i # k
    <3>1. WillHide(l, i) /\ kept[i] = page[i]
      BY <1>10, <2>1, <2>3 DEF WillHide
    <3> QED
      BY <1>9, <2>1, <3>1 DEF LookupInv, AnswersAreExcused
  <2> QED
    BY <2>2, <2>3
<1> QED
  BY <1>7, <1>13, <1>14, <1>15 DEF LookupInv

LEMMA FollowEditKeeps ==
  ASSUME LookupInv, FollowEdit
  PROVE  LookupInv'
<1>1. PICK e \in edits :
         /\ edits' = edits \ {e}
         /\ IF kept[e[1]] \in {0, e[2]} THEN UNCHANGED <<kept, heard>>
            ELSE kept' = [kept EXCEPT ![e[1]] = 0] /\ heard' = [heard EXCEPT !.untold = @ + 1]
  BY DEF FollowEdit
<1>2. LookupShape /\ UNCHANGED <<page, known, lookups, did, missed>>
  BY DEF LookupInv, FollowEdit
<1>3. e[1] \in Slots /\ e[2] \in Text /\ edits' \subseteq Slots \X Text \X Nat
  BY <1>1, <1>2 DEF LookupShape
<1>4. CASE kept[e[1]] \in {0, e[2]}
  <2>1. UNCHANGED <<kept, heard>>
    BY <1>1, <1>4
  <2>2. LookupShape'
    BY <1>2, <1>3, <2>1 DEF LookupShape
  <2>3. \A i \in Slots : kept[i] # 0 /\ EditWaits(i) => EditWaits(i)'
    BY <1>1, <1>4, <2>1 DEF EditWaits
  <2>4. \A i \in Slots : page[i] # 0
    BY <1>2 DEF LookupShape, Text
  <2>5. DetailsFollowPage'
    BY <1>2, <2>1, <2>3 DEF LookupInv, DetailsFollowPage
  <2>6. HiddenIsExcused'
    BY <1>2, <2>1, <2>3, <2>4 DEF LookupInv, HiddenIsExcused, Excused
  <2>7. AnswersAreExcused'
    <3> SUFFICES ASSUME NEW l \in lookups, l.revision = heard.revision, NEW i \in l.keys,
                        WillHide(l, i), kept[i] = page[i]
                 PROVE  Excused(i)'
      BY <1>2, <2>1 DEF AnswersAreExcused, WillHide
    <3>1. i \in Slots /\ Excused(i)
      BY <1>2 DEF LookupShape, LookupInv, AnswersAreExcused
    <3> QED
      BY <2>1, <2>3, <2>4, <3>1 DEF Excused
  <2> QED
    BY <2>2, <2>5, <2>6, <2>7 DEF LookupInv
<1>5. CASE kept[e[1]] \notin {0, e[2]}
  <2>1. kept' = [kept EXCEPT ![e[1]] = 0] /\ heard' = [heard EXCEPT !.untold = @ + 1]
    BY <1>1, <1>5
  <2>2. heard' \in [revision : Nat, untold : Nat, asked : BOOLEAN] /\ heard'.untold > 0
        /\ heard'.revision = heard.revision
    BY <1>2, <2>1 DEF LookupShape
  <2>3. kept' \in [Slots -> 0..2]
    BY <1>2, <2>1 DEF LookupShape
  <2>4. LookupShape'
    BY <1>2, <1>3, <2>2, <2>3 DEF LookupShape
  <2>5. DetailsFollowPage'
    <3> SUFFICES ASSUME NEW i \in Slots, kept'[i] \notin {0, page'[i]} PROVE EditWaits(i)'
      BY DEF DetailsFollowPage
    <3>1. i # e[1] /\ kept'[i] = kept[i] /\ page'[i] = page[i]
      BY <1>2, <1>3, <2>1 DEF LookupShape
    <3>2. EditWaits(i)
      BY <3>1 DEF LookupInv, DetailsFollowPage
    <3> QED
      BY <1>1, <3>1, <3>2 DEF EditWaits
  <2>6. HiddenIsExcused' /\ AnswersAreExcused'
    BY <2>2 DEF HiddenIsExcused, AnswersAreExcused, Excused
  <2> QED
    BY <2>4, <2>5, <2>6 DEF LookupInv
<1> QED
  BY <1>4, <1>5

\* An announcement takes back what was hidden, and outdates what will answer.
LEMMA AnnounceKeeps ==
  ASSUME LookupInv, Announce
  PROVE  LookupInv'
<1>1. LookupShape /\ UNCHANGED <<page, kept, lookups, edits, did>>
  BY DEF LookupInv, Announce
<1>2. heard' \in [revision : Nat, untold : Nat, asked : BOOLEAN]
      /\ heard'.revision = heard.revision + 1
  BY <1>1 DEF Announce, LookupShape, NextRevision
<1>3. known' = [k \in Slots |-> IF known[k] = None THEN Unknown ELSE known[k]]
  BY DEF Announce
<1>4. known' \in [Slots -> {None, Unknown} \cup Text] /\ \A k \in Slots : known'[k] # None
  BY <1>1, <1>3 DEF LookupShape, None, Unknown
<1>5. \A l \in lookups : l.revision \in Nat /\ l.revision <= heard.revision
                         /\ heard.revision \in Nat
  BY <1>1 DEF LookupShape
<1>6. \A l \in lookups' : l.revision <= heard'.revision /\ l.revision # heard'.revision
  BY <1>1, <1>2, <1>5
<1>7. LookupShape'
  BY <1>1, <1>2, <1>4, <1>6 DEF LookupShape
<1>8. DetailsFollowPage'
  BY <1>1 DEF LookupInv, DetailsFollowPage, EditWaits
<1>9. HiddenIsExcused' /\ AnswersAreExcused'
  BY <1>4, <1>6 DEF HiddenIsExcused, AnswersAreExcused
<1> QED
  BY <1>7, <1>8, <1>9 DEF LookupInv

LEMMA ClearKeeps ==
  ASSUME LookupInv, Clear
  PROVE  LookupInv'
<1>1. LookupShape /\ UNCHANGED <<page, lookups, edits>>
  BY DEF LookupInv, Clear
<1>2. heard' \in [revision : Nat, untold : Nat, asked : BOOLEAN]
      /\ heard'.revision = heard.revision + 1
  <2>1. heard' = [heard EXCEPT !.revision = heard.revision + 1, !.asked = TRUE]
    BY DEF Clear, NextRevision
  <2>2. heard \in [revision : Nat, untold : Nat, asked : BOOLEAN]
    BY <1>1 DEF LookupShape
  <2> DEFINE h == [heard EXCEPT !.revision = heard.revision + 1]
  <2>3. h \in [revision : Nat, untold : Nat, asked : BOOLEAN]
    BY <2>2
  <2>4. h.revision = heard.revision + 1
    BY <2>2
  <2>5. heard' = [h EXCEPT !.asked = TRUE]
    BY <2>1
  <2> HIDE DEF h
  <2> QED
    BY <2>3, <2>4, <2>5
<1>3. known' = [k \in Slots |-> Unknown] /\ kept' = [k \in Slots |-> 0]
  BY DEF Clear
<1>4. did' \in [stored : Nat, edits : Nat, faults : Nat]
  BY <1>1 DEF Clear, LookupShape
<1>5. \A l \in lookups : l.revision \in Nat /\ l.revision <= heard.revision
                         /\ heard.revision \in Nat
  BY <1>1 DEF LookupShape
<1>6. \A l \in lookups' : l.revision <= heard'.revision /\ l.revision # heard'.revision
  BY <1>1, <1>2, <1>5
<1>7. LookupShape'
  BY <1>1, <1>2, <1>3, <1>4, <1>6 DEF LookupShape
<1>8. DetailsFollowPage'
  BY <1>3 DEF DetailsFollowPage
<1>9. HiddenIsExcused' /\ AnswersAreExcused'
  BY <1>3, <1>6 DEF HiddenIsExcused, AnswersAreExcused, None, Unknown
<1> QED
  BY <1>7, <1>8, <1>9 DEF LookupInv

-----------------------------------------------------------------------------
(* Questions and lookups.                                                    *)

LEMMA LookupIsOne ==
  ASSUME LookupShape, NEW keys \in SUBSET Slots, NEW id
  PROVE  LET l == Lookup(keys, id) IN
         /\ l.keys = keys /\ l.texts = [k \in keys |-> page[k]] /\ ~l.read
         /\ l.revision = heard.revision
         /\ l \in [id : {l.id}, keys : {l.keys}, texts : [l.keys -> Text], revision : Nat,
                   read : BOOLEAN, found : [l.keys -> BOOLEAN]]
<1>1. [k \in keys |-> page[k]] \in [keys -> Text] /\ [k \in keys |-> FALSE] \in [keys -> BOOLEAN]
  BY DEF LookupShape
<1>2. heard.revision \in Nat
  BY DEF LookupShape
<1> QED
  BY <1>1, <1>2 DEF Lookup

LEMMA ResolveKeeps ==
  ASSUME LookupInv, Resolve
  PROVE  LookupInv'
<1>1. LookupShape /\ UNCHANGED <<page, kept, edits, did, missed>> /\ known' = Checked
  BY DEF LookupInv, Resolve
<1>2. heard' \in [revision : Nat, untold : Nat, asked : BOOLEAN]
      /\ heard'.untold = heard.untold /\ heard'.revision = heard.revision
  BY <1>1 DEF Resolve, LookupShape
<1>3. \A k \in Slots : known'[k] \in {None, Unknown} \cup Text
                       /\ (known'[k] = None => known[k] = None)
  BY <1>1 DEF Checked, LookupShape, None, Unknown
<1>4. known' \in [Slots -> {None, Unknown} \cup Text]
  BY <1>1, <1>3 DEF Checked
<1>5. lookups' = lookups \/ \E keys \in SUBSET Slots : \E id : lookups' = lookups \cup {Lookup(keys, id)}
  BY DEF Resolve
<1>6. \A l \in lookups' : l \in lookups \/ \E keys \in SUBSET Slots : \E id : l = Lookup(keys, id)
  BY <1>5
<1>7. ASSUME NEW l \in lookups'
      PROVE  /\ l.keys \subseteq Slots
             /\ l \in [id : {l.id}, keys : {l.keys}, texts : [l.keys -> Text], revision : Nat,
                       read : BOOLEAN, found : [l.keys -> BOOLEAN]]
             /\ l.revision <= heard'.revision
             /\ l \in lookups \/ \A k \in l.keys : ~WillHide(l, k)
  <2>1. CASE l \in lookups
    BY <1>1, <1>2, <2>1 DEF LookupShape
  <2>2. ASSUME NEW keys \in SUBSET Slots, NEW id, l = Lookup(keys, id)
        PROVE  /\ l.keys \subseteq Slots
               /\ l \in [id : {l.id}, keys : {l.keys}, texts : [l.keys -> Text], revision : Nat,
                         read : BOOLEAN, found : [l.keys -> BOOLEAN]]
               /\ l.revision <= heard'.revision
               /\ \A k \in l.keys : ~WillHide(l, k)
    <3>1. /\ l.keys = keys /\ l.texts = [k \in keys |-> page[k]] /\ ~l.read
          /\ l.revision = heard.revision
          /\ l \in [id : {l.id}, keys : {l.keys}, texts : [l.keys -> Text], revision : Nat,
                    read : BOOLEAN, found : [l.keys -> BOOLEAN]]
      BY <1>1, <2>2, LookupIsOne
    <3>2. l.revision <= heard'.revision
      BY <1>1, <1>2, <3>1 DEF LookupShape
    <3>3. \A k \in l.keys : ~WillHide(l, k)
      BY <3>1 DEF WillHide
    <3> QED
      BY <3>1, <3>2, <3>3
  <2> QED
    BY <1>6, <2>1, <2>2
<1>8. LookupShape'
  BY <1>1, <1>2, <1>4, <1>7 DEF LookupShape
<1>9. \A k \in Slots : (EditWaits(k)' <=> EditWaits(k)) /\ (Excused(k)' <=> Excused(k))
  BY <1>1, <1>2 DEF EditWaits, Excused
<1>10. DetailsFollowPage'
  BY <1>1, <1>9 DEF LookupInv, DetailsFollowPage
<1>11. HiddenIsExcused'
  BY <1>1, <1>3, <1>9 DEF LookupInv, HiddenIsExcused
<1>12. AnswersAreExcused'
  <2> SUFFICES ASSUME NEW l \in lookups', l.revision = heard'.revision, NEW k \in l.keys,
                      WillHide(l, k)', kept'[k] = page'[k]
               PROVE  Excused(k)'
    BY DEF AnswersAreExcused
  <2>1. WillHide(l, k) /\ kept[k] = page[k]
    BY <1>1 DEF WillHide
  <2>2. l \in lookups /\ k \in Slots
    BY <1>7, <2>1
  <2> QED
    BY <1>2, <1>9, <2>1, <2>2 DEF LookupInv, AnswersAreExcused
<1> QED
  BY <1>8, <1>10, <1>11, <1>12 DEF LookupInv

LEMMA ReadLookupKeeps ==
  ASSUME LookupInv, ReadLookup
  PROVE  LookupInv'
<1>1. LookupShape /\ UNCHANGED <<page, kept, known, edits, heard, did, missed>>
  BY DEF LookupInv, ReadLookup
<1> DEFINE Answer(l) == [l EXCEPT !.read = TRUE, !.found = [k \in l.keys |-> kept[k] = l.texts[k]]]
<1>2. PICK l \in lookups : ~l.read /\ lookups' = (lookups \ {l}) \cup {Answer(l)}
  BY Zenon DEF ReadLookup
<1>3. /\ Answer(l).keys = l.keys /\ Answer(l).read = TRUE /\ Answer(l).revision = l.revision
      /\ Answer(l).found = [k \in l.keys |-> kept[k] = l.texts[k]]
      /\ Answer(l) \in [id : {Answer(l).id}, keys : {l.keys}, texts : [l.keys -> Text],
                        revision : Nat, read : BOOLEAN, found : [l.keys -> BOOLEAN]]
  BY <1>1, Zenon DEF LookupShape
<1> HIDE DEF Answer
<1>4. LookupShape'
  BY <1>1, <1>2, <1>3 DEF LookupShape
<1>5. \A k \in Slots : (EditWaits(k)' <=> EditWaits(k)) /\ (Excused(k)' <=> Excused(k))
  BY <1>1 DEF EditWaits, Excused
<1>6. DetailsFollowPage' /\ HiddenIsExcused'
  BY <1>1, <1>5 DEF LookupInv, DetailsFollowPage, HiddenIsExcused
\* It finds none for the text it was asked for: the reply's text is another, or the
\* reply has none.
<1>7. ASSUME NEW k \in l.keys, WillHide(Answer(l), k), kept[k] = page[k]
      PROVE  WillHide(l, k)
  BY <1>2, <1>3, <1>7 DEF WillHide
<1>8. AnswersAreExcused'
  <2> SUFFICES ASSUME NEW m \in lookups', m.revision = heard.revision, NEW k \in m.keys,
                      WillHide(m, k)', kept[k] = page[k]
               PROVE  Excused(k)'
    BY <1>1 DEF AnswersAreExcused
  <2>1. WillHide(m, k)
    BY <1>1 DEF WillHide
  <2>2. CASE m \in lookups
    BY <1>1, <1>5, <2>1, <2>2 DEF LookupInv, AnswersAreExcused, LookupShape
  <2>3. CASE m = Answer(l)
    BY <1>1, <1>3, <1>5, <1>7, <2>1, <2>3 DEF LookupInv, AnswersAreExcused, LookupShape
  <2> QED
    BY <1>2, <2>2, <2>3
<1> QED
  BY <1>4, <1>6, <1>8 DEF LookupInv

\* A lookup ends and leaves what it found, or nothing, or its failure.
LEMMA EndsKeeps ==
  ASSUME LookupInv, NEW l \in lookups, NEW cache, Ends(l, cache),
         \A k \in l.keys : cache[k] \in {None, Unknown} \cup Text,
         did' \in [stored : Nat, edits : Nat, faults : Nat], missed \subseteq missed',
         l.revision = heard.revision =>
            \A k \in l.keys \ missed' : cache[k] = None => WillHide(l, k)
  PROVE  LookupInv'
<1>1. LookupShape /\ UNCHANGED <<page, kept, edits>> /\ lookups' = lookups \ {l}
  BY DEF LookupInv, Ends
<1>2. heard' \in [revision : Nat, untold : Nat, asked : BOOLEAN]
      /\ heard'.untold = heard.untold /\ heard'.revision = heard.revision
  BY <1>1 DEF Ends, LookupShape, ToldAgain
<1>3. IF l.revision = heard.revision
      THEN known' = [k \in Slots |-> IF k \in l.keys THEN cache[k] ELSE known[k]]
      ELSE known' = known
  BY DEF Ends
<1>4. known' \in [Slots -> {None, Unknown} \cup Text]
  <2>1. known \in [Slots -> {None, Unknown} \cup Text]
    BY <1>1 DEF LookupShape
  <2> QED
    BY <1>3, <2>1
<1>5. LookupShape'
  BY <1>1, <1>2, <1>4 DEF LookupShape
<1>6. \A k \in Slots : (EditWaits(k)' <=> EditWaits(k)) /\ (Excused(k)' <=> Excused(k))
  BY <1>1, <1>2 DEF EditWaits, Excused
<1>7. DetailsFollowPage'
  BY <1>1, <1>6 DEF LookupInv, DetailsFollowPage
<1>8. HiddenIsExcused'
  <2> SUFFICES ASSUME NEW k \in Slots \ missed', known'[k] = None, kept[k] = page[k]
               PROVE  Excused(k)
    BY <1>1, <1>6 DEF HiddenIsExcused
  <2>1. CASE known[k] = None
    BY <2>1 DEF LookupInv, HiddenIsExcused
  <2>2. CASE known[k] # None
    <3>1. l.revision = heard.revision /\ k \in l.keys /\ cache[k] = None
      BY <1>3, <2>2
    <3>2. WillHide(l, k)
      BY <3>1
    <3> QED
      BY <3>1, <3>2 DEF LookupInv, AnswersAreExcused
  <2> QED
    BY <2>1, <2>2
<1>9. AnswersAreExcused'
  <2> SUFFICES ASSUME NEW m \in lookups, m.revision = heard.revision, NEW k \in m.keys,
                      WillHide(m, k)', kept[k] = page[k]
               PROVE  Excused(k)'
    BY <1>1, <1>2 DEF AnswersAreExcused
  <2>1. WillHide(m, k) /\ k \in Slots
    BY <1>1 DEF WillHide, LookupShape
  <2> QED
    BY <1>6, <2>1 DEF LookupInv, AnswersAreExcused
<1> QED
  BY <1>5, <1>7, <1>8, <1>9 DEF LookupInv

LEMMA FinishLookupKeeps ==
  ASSUME LookupInv, FinishLookup
  PROVE  LookupInv'
<1>1. PICK l \in lookups :
         l.read /\ Ends(l, [k \in l.keys |-> IF l.found[k] THEN l.texts[k] ELSE None])
  BY DEF FinishLookup
<1> DEFINE cache == [k \in l.keys |-> IF l.found[k] THEN l.texts[k] ELSE None]
<1>2. LookupShape /\ UNCHANGED <<did, missed>>
  BY DEF LookupInv, FinishLookup
<1>3. \A k \in l.keys : l.texts[k] \in Text
  BY <1>2 DEF LookupShape
<1>4. \A k \in l.keys : cache[k] \in {None, Unknown} \cup Text
  BY <1>3
<1>5. \A k \in l.keys : cache[k] = None => WillHide(l, k)
  BY <1>1, <1>3 DEF WillHide, Text, None
<1>6. did' \in [stored : Nat, edits : Nat, faults : Nat]
  BY <1>2 DEF LookupShape
<1>7. Ends(l, cache)
  BY <1>1
<1> HIDE DEF cache
<1> QED
  BY <1>2, <1>4, <1>5, <1>6, <1>7, EndsKeeps

LEMMA FailLookupKeeps ==
  ASSUME LookupInv, FailLookup
  PROVE  LookupInv'
<1>1. PICK l \in lookups :
         /\ Ends(l, [k \in l.keys |-> None])
         /\ missed' = IF l.revision = heard.revision THEN missed \cup l.keys ELSE missed
  BY DEF FailLookup
<1> DEFINE cache == [k \in l.keys |-> None]
<1>2. did' \in [stored : Nat, edits : Nat, faults : Nat]
  BY DEF LookupInv, LookupShape, FailLookup
<1>3. \A k \in l.keys : cache[k] \in {None, Unknown} \cup Text
  OBVIOUS
<1>4. Ends(l, cache)
  BY <1>1
<1>5. missed \subseteq missed' /\ (l.revision = heard.revision => l.keys \ missed' = {})
  BY <1>1
<1> HIDE DEF cache
<1> QED
  BY <1>2, <1>3, <1>4, <1>5, EndsKeeps

LEMMA LookupStep == LookupInv /\ [LookupNext]_lookupVars => LookupInv'
<1> SUFFICES ASSUME LookupInv, [LookupNext]_lookupVars PROVE LookupInv'
  OBVIOUS
<1>1. CASE LookupNext
  BY <1>1, StoreDetailKeeps, EditReplyKeeps, ClearKeeps, ResolveKeeps, FailLookupKeeps,
     AnnounceKeeps, FollowEditKeeps, ReadLookupKeeps, FinishLookupKeeps DEF LookupNext, LookupWork
<1>2. CASE UNCHANGED lookupVars
  BY <1>2 DEF lookupVars, LookupInv, LookupShape, DetailsFollowPage, HiddenIsExcused,
              AnswersAreExcused, WillHide, Excused, EditWaits
<1> QED
  BY <1>1, <1>2

\* On a page of any length, however stores, edits, announcements and batches of
\* lookups overlap: once every change is announced, no reply is said to have no
\* preview that has one.
THEOREM ButtonsStayRight == LookupInit /\ [][LookupNext]_lookupVars => []ButtonsAreRight
  BY LookupStarts, LookupStep, LookupGivesButtons, PTL

-----------------------------------------------------------------------------
(* The chat Memory works for.                                                *)

ChatId == Chats \cup {Chatless}
Scopes == [chat : ChatId, work : ChatId]
Registries == [scope : Scopes, directory : Scopes]
Applications == [lookup : Scopes, actors : Registries, index : SUBSET Scopes, bound : Scopes,
                 chat : ChatId, error : BOOLEAN, available : BOOLEAN]
Calling == [caller : {"loop", "start", "capture", "check"}, scope : Scopes,
            step : {"open", "directory", "reopen", "settings", "facts"},
            latest : BOOLEAN, own : BOOLEAN]
Phases == {"start", "idle", "turn", "refresh", "bind"}
Loops == [phase : Phases, requested : BOOLEAN, refresh : BOOLEAN]
Writes == [kind : {"none", "edit", "undo", "undone", "capture"}, scope : Scopes, chat : ChatId,
           bound : Scopes, own : BOOLEAN]

BindShape ==
    /\ host \in ChatId
    /\ context \in Scopes
    /\ app \in Applications
    /\ binds \subseteq Calling
    /\ loop \in Loops

\* The calls of a set are of one workspace each, one of them at most the latest:
\* it is past the point where it has set the chat that is bound, or before it.
Bound(b, a) ==
    /\ b.latest /\ b.step \in {"reopen", "settings", "facts"} => a.bound = b.scope
    /\ b.own => a.actors.scope = b.scope
OneLatest(calls) == \A b, o \in calls : b.latest /\ o.latest => b = o

\* An undo reads the directory for the registries in use, or for none any more.
WriteOwn == writing \in Writes /\ (writing.own => app.actors.scope = writing.scope)

BindInv ==
    /\ BindShape /\ WriteOwn
    /\ OneLatest(binds)
    /\ \A b \in binds : Bound(b, app)
    /\ IndexIsOfBoundChat /\ DirectoryIsOwn /\ LookupFollows

\* What the application is bound to is consistent in itself.
Consistent(a) ==
    /\ a.chat # Chatless => a.bound.chat = a.chat /\ a.index \subseteq {a.bound} \cup late
    /\ a.actors.directory \in {Nowhere, a.actors.scope}

LEMMA NowhereIsScope == Nowhere \in Scopes /\ Nowhere.work = 0 /\ Nowhere.chat = Chatless
  BY DEF Nowhere, Scope, Scopes, ChatId, Chatless

LEMMA ActorsAreRegistries ==
  ASSUME NEW s \in Scopes
  PROVE  Actors(s) \in Registries /\ Actors(s).directory = Nowhere
         /\ (s.work # 0 => Actors(s).scope = s)
  BY NowhereIsScope DEF Actors, NoActors, Registries

LEMMA BindStarts == BindingInit => BindInv
<1> SUFFICES ASSUME BindingInit PROVE BindInv
  OBVIOUS
<1>1. host \in ChatId /\ context = Scope(host, host) /\ context \in Scopes
  BY DEF BindingInit, ChatId, Scope, Scopes
<1>2. /\ app.lookup = context /\ app.actors = Actors(context) /\ app.chat = Chatless
      /\ app \in Applications
  BY <1>1, ActorsAreRegistries, NowhereIsScope DEF BindingInit, Applications, ChatId
<1>3. loop \in Loops /\ binds = {}
  BY DEF BindingInit, Loops, Phases
<1>4. app.actors.directory = Nowhere
  BY <1>1, <1>2, ActorsAreRegistries
<1>5. BindShape
  BY <1>1, <1>2, <1>3 DEF BindShape
<1>6. WriteOwn
  BY NowhereIsScope DEF BindingInit, NoWrite, WriteOwn, Writes, ChatId
<1> QED
  BY <1>2, <1>3, <1>4, <1>5, <1>6
  DEF BindInv, OneLatest, IndexIsOfBoundChat, DirectoryIsOwn, LookupFollows

LEMMA LatestIsOne ==
  ASSUME BindInv
  PROVE  Cardinality({b \in binds : b.latest}) <= 1
<1>1. CASE {b \in binds : b.latest} = {}
  BY <1>1, FS_EmptySet
<1>2. ASSUME NEW b \in binds, b.latest
      PROVE  Cardinality({o \in binds : o.latest}) <= 1
  <2>1. {o \in binds : o.latest} = {b}
    BY <1>2 DEF BindInv, OneLatest
  <2> QED
    BY <2>1, FS_Singleton
<1> QED
  BY <1>1, <1>2

LEMMA BindGivesSound == BindInv => BindingSound
<1> SUFFICES ASSUME BindInv PROVE BindingSound
  OBVIOUS
<1>1. app.chat \in Chats \cup {Chatless}
  BY DEF BindInv, BindShape, Applications, ChatId
<1>2. loop.phase \in {"start", "idle", "turn", "refresh", "bind"}
  BY DEF BindInv, BindShape, Loops, Phases
<1>3. BindingTypeOK
  BY <1>1, <1>2, LatestIsOne DEF BindingTypeOK
<1> QED
  BY <1>3 DEF BindInv, BindingSound

LEMMA ConsistentIs == Consistent(app) <=> IndexIsOfBoundChat /\ DirectoryIsOwn
  BY DEF Consistent, IndexIsOfBoundChat, DirectoryIsOwn

-----------------------------------------------------------------------------
(* A call begins.                                                            *)

\* The storage of another workspace is bound.
There(a, scope) ==
    [a EXCEPT !.lookup = scope, !.actors = IF Elsewhere(scope) THEN Actors(scope) ELSE @]

LEMMA ThereShape ==
  ASSUME NEW a \in Applications, NEW scope \in Scopes, a.actors = app.actors
  PROVE  LET there == There(a, scope) IN
         /\ there \in Applications
         /\ there.lookup = scope /\ there.chat = a.chat /\ there.bound = a.bound
         /\ there.index = a.index /\ there.available = a.available
         /\ there.actors = IF Elsewhere(scope) THEN Actors(scope) ELSE a.actors
         /\ Consistent(a) => Consistent(there)
         /\ scope.work # 0 \/ ~Elsewhere(scope) => there.actors.scope = scope
<1> DEFINE there == There(a, scope)
<1>1. (IF Elsewhere(scope) THEN Actors(scope) ELSE a.actors) \in Registries
  BY ActorsAreRegistries DEF Applications
<1>2. /\ there \in Applications
      /\ there.lookup = scope /\ there.chat = a.chat /\ there.bound = a.bound
      /\ there.index = a.index /\ there.available = a.available
      /\ there.actors = IF Elsewhere(scope) THEN Actors(scope) ELSE a.actors
  BY <1>1 DEF There, Applications
<1> HIDE DEF there
<1>3. Consistent(a) => Consistent(there)
  BY <1>2, ActorsAreRegistries DEF Consistent
<1>4. scope.work # 0 \/ ~Elsewhere(scope) => there.actors.scope = scope
  BY <1>2, ActorsAreRegistries DEF Elsewhere
<1> QED
  BY <1>2, <1>3, <1>4 DEF there

LEMMA EnteredShape ==
  ASSUME NEW a \in Applications, NEW scope \in Scopes
  PROVE  LET in == Entered(a, scope) IN
         /\ in \in Applications
         /\ in.lookup = a.lookup /\ in.chat = Chatless /\ in.bound = scope
         /\ in.actors = a.actors
         /\ Consistent(a) => Consistent(in)
<1> DEFINE in == Entered(a, scope)
<1>1. (IF scope.work = 0 THEN {} ELSE a.index) \in SUBSET Scopes
      /\ (IF scope.work = 0 THEN FALSE ELSE a.error) \in BOOLEAN /\ Chatless \in ChatId
  BY NowhereIsScope DEF Applications, ChatId
<1>2. /\ in \in Applications /\ in.lookup = a.lookup /\ in.chat = Chatless
      /\ in.bound = scope /\ in.actors = a.actors
  BY <1>1 DEF Entered, Applications
<1> HIDE DEF in
<1> QED
  BY <1>2 DEF in, Consistent

LEMMA TurnIsLoop ==
  ASSUME BindShape, NEW asked \in BOOLEAN
  PROVE  Turn(asked) \in Loops
  BY DEF BindShape, Turn, Loops, Phases

\* A call begins: it is the only latest one, and what the calls before it do is theirs
\* no longer when the workspace is another.
LEMMA BeginBindKeeps ==
  ASSUME BindInv, NEW caller \in {"loop", "start", "capture", "check"},
         NEW a \in Applications, NEW scope \in Scopes, NEW asked \in BOOLEAN,
         BeginBind(caller, a, scope, asked), scope = context',
         a.actors = app.actors, Consistent(a), host' \in ChatId, late' = late
  PROVE  BindInv'
<1> DEFINE moved == Elsewhere(scope)
           there == There(a, scope)
           opens == moved /\ scope.work # 0
           b == Bind(caller, scope, IF opens THEN "open" ELSE StepAfter(there, scope))
           others == {Overtaken(o, moved) : o \in binds}
<1>1. /\ app' = IF opens THEN there ELSE Entered(there, scope)
      /\ binds' = Calls(others, b)
      /\ loop' = IF ~OfRuntime(caller) THEN loop
                 ELSE IF b.step = "done" THEN Turn(asked)
                 ELSE [loop EXCEPT !.phase = "bind", !.requested = asked]
      /\ writing' = [writing EXCEPT !.own = @ /\ ~moved]
  BY DEF BeginBind, There
<1>2. /\ there \in Applications
      /\ there.lookup = scope /\ there.available \in BOOLEAN
      /\ there.actors = IF moved THEN Actors(scope) ELSE a.actors
      /\ Consistent(there)
      /\ scope.work # 0 \/ ~moved => there.actors.scope = scope
  BY ThereShape DEF Applications
<1>3. /\ b.step = (IF opens THEN "open" ELSE StepAfter(there, scope))
      /\ b.scope = scope /\ b.latest /\ b.own
      /\ b.step # "done" => b \in Calling /\ scope.work # 0
      /\ b.step \in {"reopen", "settings", "facts"} => ~opens
  BY <1>2 DEF Bind, StepAfter, Calling
<1>4. /\ \A o \in others : o \in Calling /\ ~o.latest
      /\ \A o \in others : o.own => ~moved /\ app.actors.scope = o.scope
  <2>1. ASSUME NEW o \in binds
        PROVE  /\ Overtaken(o, moved) \in Calling /\ ~Overtaken(o, moved).latest
               /\ Overtaken(o, moved).scope = o.scope
               /\ Overtaken(o, moved).own => ~moved /\ o.own
    <3>1. o \in Calling /\ (o.own /\ ~moved) \in BOOLEAN
      BY DEF BindInv, BindShape, Calling
    <3>2. Overtaken(o, moved) \in Calling
      BY <3>1 DEF Overtaken, Calling
    <3>3. Overtaken(o, moved).latest = FALSE /\ Overtaken(o, moved).scope = o.scope
          /\ Overtaken(o, moved).own = (o.own /\ ~moved)
      BY <3>1 DEF Overtaken, Calling
    <3> QED
      BY <3>2, <3>3
  <2> HIDE DEF moved
  <2> QED
    BY <2>1 DEF BindInv, Bound
<1>5. loop' \in Loops
  BY <1>1, TurnIsLoop DEF BindInv, BindShape, Loops, Phases
<1>13. writing' \in Writes /\ (writing'.own => ~moved /\ app.actors.scope = writing'.scope)
  <2>1. writing \in Writes /\ (writing.own /\ ~moved) \in BOOLEAN
    BY DEF BindInv, WriteOwn, Writes
  <2>2. writing'.own = (writing.own /\ ~moved) /\ writing'.scope = writing.scope /\ writing' \in Writes
    BY <1>1, <2>1 DEF Writes
  <2> QED
    BY <2>2 DEF BindInv, WriteOwn
<1> HIDE DEF moved, there, b, others
<1>6. /\ app' \in Applications /\ app'.lookup = scope /\ Consistent(app')
      /\ app'.actors = there.actors
      /\ ~opens => app'.bound = scope
  BY <1>1, <1>2, EnteredShape
<1>7. \A o \in binds' : o \in others \/ (o = b /\ b.step # "done")
  BY <1>1 DEF Calls
<1>8. BindShape'
  BY <1>3, <1>4, <1>5, <1>6, <1>7 DEF BindShape
<1>9. OneLatest(binds')
  BY <1>4, <1>7 DEF OneLatest
<1>10. \A o \in binds' : Bound(o, app')
  <2>1. ASSUME NEW o \in others PROVE Bound(o, app')
    BY <1>2, <1>4, <1>6, <2>1 DEF Bound
  <2>2. b.step # "done" => Bound(b, app')
    BY <1>2, <1>3, <1>6 DEF Bound
  <2> QED
    BY <1>7, <2>1, <2>2
<1>11. IndexIsOfBoundChat' /\ DirectoryIsOwn'
  BY <1>6 DEF Consistent, IndexIsOfBoundChat, DirectoryIsOwn
<1>12. LookupFollows'
  BY <1>6 DEF LookupFollows
<1>14. WriteOwn'
  BY <1>2, <1>6, <1>13 DEF WriteOwn
<1> QED
  BY <1>8, <1>9, <1>10, <1>11, <1>12, <1>14 DEF BindInv

-----------------------------------------------------------------------------
(* A call goes on.                                                           *)

\* It goes on or returns; only the latest call sets the chat that is bound.
LEMMA GoesOnKeeps ==
  ASSUME BindInv, NEW b \in binds,
         NEW step \in {"directory", "reopen", "settings", "facts", "done"},
         GoesOn(b, step), UNCHANGED <<host, context, refreshes, writing, lost, late>>,
         app' \in Applications, Consistent(app'), app'.lookup = app.lookup,
         app'.actors.scope = app.actors.scope,
         app'.bound = app.bound \/ (b.latest /\ app'.bound = b.scope),
         b.latest /\ step \in {"reopen", "settings", "facts"} => app'.bound = b.scope
  PROVE  BindInv'
<1> DEFINE next == [b EXCEPT !.step = step]
<1>1. b \in Calling
  BY DEF BindInv, BindShape
<1>2. /\ next.latest = b.latest /\ next.own = b.own /\ next.scope = b.scope /\ next.step = step
      /\ step # "done" => next \in Calling
  BY <1>1 DEF Calling
<1>3. binds' = Calls(binds \ {b}, next)
  BY DEF GoesOn
<1> HIDE DEF next
<1>4. \A o \in binds' : (o \in binds /\ o # b) \/ (o = next /\ step # "done")
  BY <1>2, <1>3 DEF Calls
<1>5. loop' \in Loops
  BY TurnIsLoop DEF GoesOn, BindInv, BindShape, Loops
<1>6. BindShape'
  BY <1>2, <1>4, <1>5 DEF BindInv, BindShape
<1>7. OneLatest(binds')
  BY <1>2, <1>4 DEF BindInv, OneLatest
<1>8. \A o \in binds' : Bound(o, app')
  <2>1. ASSUME NEW o \in binds, o # b
        PROVE  Bound(o, app')
    BY <2>1 DEF BindInv, OneLatest, Bound
  <2>2. Bound(b, app)
    BY DEF BindInv
  <2>3. step # "done" => Bound(next, app')
    BY <1>2, <2>2 DEF Bound
  <2> QED
    BY <1>4, <2>1, <2>3
<1>9. IndexIsOfBoundChat' /\ DirectoryIsOwn' /\ WriteOwn'
  BY DEF BindInv, Consistent, IndexIsOfBoundChat, DirectoryIsOwn, WriteOwn
<1>10. LookupFollows'
  BY DEF BindInv, LookupFollows
<1> QED
  BY <1>6, <1>7, <1>8, <1>9, <1>10 DEF BindInv

\* The application's state, as a call that fails or does nothing leaves it.
LEMMA BindFailedShape ==
  ASSUME BindInv, NEW b
  PROVE  LET a == BindFailed(b) IN
         /\ a \in Applications /\ Consistent(a) /\ a.lookup = app.lookup
         /\ a.actors = app.actors /\ a.bound = app.bound
<1>1. app \in Applications /\ Consistent(app)
  BY ConsistentIs DEF BindInv, BindShape
<1> DEFINE failed == [app EXCEPT !.index = {}, !.error = TRUE]
<1>2. /\ failed \in Applications /\ failed.lookup = app.lookup /\ failed.actors = app.actors
      /\ failed.bound = app.bound /\ failed.chat = app.chat /\ failed.index = {}
  BY <1>1, NowhereIsScope DEF Applications
<1>3. BindFailed(b) = failed \/ BindFailed(b) = app
  BY DEF BindFailed
<1> HIDE DEF failed
<1>4. Consistent(failed)
  BY <1>1, <1>2 DEF Consistent
<1> QED
  BY <1>1, <1>2, <1>3, <1>4

LEMMA OpenScopeKeeps ==
  ASSUME BindInv, OpenScope
  PROVE  BindInv'
<1>1. PICK b \in binds, ok \in BOOLEAN :
         /\ b.step = "open" /\ GoesOn(b, IF ok /\ Current(b) THEN "directory" ELSE "done")
         /\ app' = IF ok THEN app ELSE BindFailed(b)
         /\ BindElse
  BY DEF OpenScope
<1>2. app \in Applications /\ Consistent(app)
  BY ConsistentIs DEF BindInv, BindShape
<1>3. /\ app' \in Applications /\ Consistent(app') /\ app'.lookup = app.lookup
      /\ app'.actors = app.actors /\ app'.bound = app.bound
  BY <1>1, <1>2, BindFailedShape
<1> DEFINE step == IF ok /\ Current(b) THEN "directory" ELSE "done"
<1>4. step \in {"directory", "done"} /\ GoesOn(b, step)
  BY <1>1
<1> HIDE DEF step
<1>5. UNCHANGED <<host, context, refreshes, writing, lost, late>>
  BY <1>1 DEF BindElse
<1> QED
  BY <1>3, <1>4, <1>5, GoesOnKeeps

\* The registries in use are filled by a call that was made for them.
LEMMA HydratedShape ==
  ASSUME BindInv, NEW b \in binds
  PROVE  LET a == Hydrated(b) IN
         /\ a \in Applications /\ Consistent(a) /\ a.lookup = app.lookup
         /\ a.actors.scope = app.actors.scope /\ a.bound = app.bound
         /\ a.available = app.available
<1>1. app \in Applications /\ Consistent(app) /\ b \in Calling /\ Bound(b, app)
  BY ConsistentIs DEF BindInv, BindShape
<1> DEFINE hydrated == [app EXCEPT !.actors.directory = b.scope]
<1>2. app.actors \in Registries /\ b.scope \in Scopes
  BY <1>1 DEF Applications, Calling
<1> DEFINE actors == [app.actors EXCEPT !.directory = b.scope]
<1>3. actors \in Registries /\ actors.scope = app.actors.scope /\ actors.directory = b.scope
  BY <1>2 DEF Registries
<1>4. hydrated = [app EXCEPT !.actors = actors]
  OBVIOUS
<1> HIDE DEF actors
<1>5. /\ hydrated \in Applications /\ hydrated.lookup = app.lookup /\ hydrated.actors = actors
      /\ hydrated.bound = app.bound /\ hydrated.chat = app.chat /\ hydrated.index = app.index
      /\ hydrated.available = app.available
  BY <1>1, <1>3, <1>4 DEF Applications
<1> HIDE DEF hydrated
<1>6. b.own => Consistent(hydrated)
  BY <1>1, <1>3, <1>5 DEF Consistent, Bound
<1>7. Hydrated(b) = IF b.own THEN hydrated ELSE app
  BY DEF Hydrated, hydrated
<1> QED
  BY <1>1, <1>3, <1>5, <1>6, <1>7

LEMMA LoadDirectoryKeeps ==
  ASSUME BindInv, LoadDirectory
  PROVE  BindInv'
<1>1. PICK b \in binds, ok \in BOOLEAN :
         /\ b.step = "directory"
         /\ GoesOn(b, IF ok /\ Current(b) THEN StepAfter(app, b.scope) ELSE "done")
         /\ app' = IF ~ok THEN BindFailed(b)
                   ELSE IF Current(b) THEN Entered(Hydrated(b), b.scope) ELSE Hydrated(b)
         /\ BindElse
  BY DEF LoadDirectory
<1> DEFINE step == IF ok /\ Current(b) THEN StepAfter(app, b.scope) ELSE "done"
<1>2. step \in {"facts", "reopen", "done"} /\ GoesOn(b, step)
  BY <1>1 DEF StepAfter
<1>3. step # "done" => ok /\ Current(b)
  OBVIOUS
<1> HIDE DEF step
<1>4. UNCHANGED <<host, context, refreshes, writing, lost, late>>
  BY <1>1 DEF BindElse
<1>5. b.scope \in Scopes
  BY DEF BindInv, BindShape, Calling
<1>6. /\ app' \in Applications /\ Consistent(app') /\ app'.lookup = app.lookup
      /\ app'.actors.scope = app.actors.scope
      /\ app'.bound = IF ok /\ Current(b) THEN b.scope ELSE app.bound
  BY <1>1, <1>5, BindFailedShape, HydratedShape, EnteredShape
<1>7. app'.bound = app.bound \/ (b.latest /\ app'.bound = b.scope)
  BY <1>6 DEF Current
<1> QED
  BY <1>2, <1>3, <1>4, <1>6, <1>7, GoesOnKeeps

\* A storage that was away is there again.
LEMMA ReopenKeeps ==
  ASSUME BindInv, Reopen
  PROVE  BindInv'
<1>1. PICK b \in binds, ok \in BOOLEAN :
         /\ b.step = "reopen" /\ GoesOn(b, IF ok /\ Current(b) THEN "settings" ELSE "done")
         /\ app' = IF ~ok THEN BindFailed(b) ELSE [app EXCEPT !.available = @ \/ Current(b)]
         /\ BindElse
  BY DEF Reopen
<1>2. app \in Applications /\ Consistent(app) /\ Bound(b, app)
  BY ConsistentIs DEF BindInv, BindShape
<1> DEFINE back == [app EXCEPT !.available = app.available \/ Current(b)]
           step == IF ok /\ Current(b) THEN "settings" ELSE "done"
<1>3. (app.available \/ Current(b)) \in BOOLEAN
  OBVIOUS
<1>4. /\ back \in Applications /\ back.lookup = app.lookup /\ back.actors = app.actors
      /\ back.bound = app.bound /\ back.chat = app.chat /\ back.index = app.index
  BY <1>2, <1>3 DEF Applications
<1>5. app' = back \/ app' = BindFailed(b)
  BY <1>1
<1> HIDE DEF back
<1>6. Consistent(back)
  BY <1>2, <1>4 DEF Consistent
<1>7. /\ app' \in Applications /\ Consistent(app') /\ app'.lookup = app.lookup
      /\ app'.actors = app.actors /\ app'.bound = app.bound
  BY <1>4, <1>5, <1>6, BindFailedShape
<1>8. step \in {"settings", "done"} /\ GoesOn(b, step)
  BY <1>1
<1> HIDE DEF step
<1>9. b.latest => app.bound = b.scope
  BY <1>1, <1>2 DEF Bound
<1>10. UNCHANGED <<host, context, refreshes, writing, lost, late>>
  BY <1>1 DEF BindElse
<1> QED
  BY <1>7, <1>8, <1>9, <1>10, GoesOnKeeps

LEMMA LoadSettingsKeeps ==
  ASSUME BindInv, LoadSettings
  PROVE  BindInv'
<1>1. PICK b \in binds, ok \in BOOLEAN :
         /\ b.step = "settings" /\ GoesOn(b, IF ok /\ Current(b) THEN "facts" ELSE "done")
         /\ app' = IF ok THEN app ELSE BindFailed(b)
         /\ BindElse
  BY DEF LoadSettings
<1>2. app \in Applications /\ Consistent(app) /\ Bound(b, app)
  BY ConsistentIs DEF BindInv, BindShape
<1> DEFINE step == IF ok /\ Current(b) THEN "facts" ELSE "done"
<1>3. /\ app' \in Applications /\ Consistent(app') /\ app'.lookup = app.lookup
      /\ app'.actors = app.actors /\ app'.bound = app.bound
  BY <1>1, <1>2, BindFailedShape
<1>4. step \in {"facts", "done"} /\ GoesOn(b, step)
  BY <1>1
<1> HIDE DEF step
<1>5. b.latest => app.bound = b.scope
  BY <1>1, <1>2 DEF Bound
<1>6. UNCHANGED <<host, context, refreshes, writing, lost, late>>
  BY <1>1 DEF BindElse
<1> QED
  BY <1>3, <1>4, <1>5, <1>6, GoesOnKeeps

\* The facts a call has read fill the index of the chat it has bound.
LEMMA LoadFactsKeeps ==
  ASSUME BindInv, LoadFacts
  PROVE  BindInv'
<1>1. PICK b \in binds, ok \in BOOLEAN :
         /\ b.step = "facts" /\ GoesOn(b, "done")
         /\ app' = IF ~ok THEN BindFailed(b)
                   ELSE IF ~Current(b) THEN app
                   ELSE [app EXCEPT !.index = FactsOf(b.scope),
                                    !.chat = b.scope.chat, !.error = FALSE]
         /\ BindElse
  BY DEF LoadFacts
<1>2. app \in Applications /\ Consistent(app) /\ Bound(b, app) /\ b.scope \in Scopes
  BY ConsistentIs DEF BindInv, BindShape, Calling
<1> DEFINE index == FactsOf(b.scope)
           filled == [app EXCEPT !.index = index, !.chat = b.scope.chat, !.error = FALSE]
<1>3. index \subseteq {b.scope} /\ index \subseteq Scopes /\ b.scope.chat \in ChatId
  BY <1>2 DEF FactsOf, Scopes
<1> HIDE DEF index
<1>4. /\ filled \in Applications /\ filled.lookup = app.lookup /\ filled.actors = app.actors
      /\ filled.bound = app.bound /\ filled.chat = b.scope.chat /\ filled.index = index
  BY <1>2, <1>3 DEF Applications
<1>5. app' = BindFailed(b) \/ app' = app \/ (Current(b) /\ app' = filled)
  BY <1>1 DEF index
<1> HIDE DEF filled
<1>6. Current(b) => Consistent(filled)
  BY <1>1, <1>2, <1>3, <1>4 DEF Consistent, Bound, Current
<1>7. /\ app' \in Applications /\ Consistent(app') /\ app'.lookup = app.lookup
      /\ app'.actors = app.actors /\ app'.bound = app.bound
  BY <1>2, <1>4, <1>5, <1>6, BindFailedShape
<1>8. UNCHANGED <<host, context, refreshes, writing, lost, late>>
  BY <1>1 DEF BindElse
<1> QED
  BY <1>1, <1>7, <1>8, GoesOnKeeps

-----------------------------------------------------------------------------
(* The runtime, and the others that bind the chat.                           *)

\* A step of the runtime that begins no call.
LEMMA NoCallKeeps ==
  ASSUME BindInv, binds' = binds, host' \in ChatId, context' \in Scopes, loop' \in Loops,
         app' \in Applications, Consistent(app'), app'.actors = app.actors,
         app'.bound = app.bound, LookupFollows', UNCHANGED <<writing, late>>
  PROVE  BindInv'
<1>1. BindShape' /\ OneLatest(binds')
  BY DEF BindInv, BindShape
<1>2. \A b \in binds' : Bound(b, app')
  BY DEF BindInv, Bound
<1>3. IndexIsOfBoundChat' /\ DirectoryIsOwn' /\ WriteOwn'
  BY DEF BindInv, Consistent, IndexIsOfBoundChat, DirectoryIsOwn, WriteOwn
<1> QED
  BY <1>1, <1>2, <1>3 DEF BindInv

\* The state of the application that the runtime's steps leave.
LEMMA Inside ==
  ASSUME BindInv
  PROVE  /\ host \in ChatId /\ context \in Scopes /\ app \in Applications /\ Consistent(app)
         /\ loop \in Loops /\ loop.requested \in BOOLEAN /\ loop.refresh \in BOOLEAN
         /\ LookupFollows
  BY ConsistentIs DEF BindInv, BindShape, Loops

LEMMA ScheduleIsLoop ==
  ASSUME loop \in Loops, NEW refresh \in BOOLEAN, Schedule(refresh)
  PROVE  loop' \in Loops
  BY DEF Schedule, Loops, Phases

\* Storage lost, found, or in error.
LEMMA Flagged ==
  ASSUME BindInv, NEW error \in BOOLEAN, NEW available \in BOOLEAN
  PROVE  LET a == [app EXCEPT !.available = available, !.error = error] IN
         /\ a \in Applications /\ Consistent(a) /\ a.lookup = app.lookup
         /\ a.actors = app.actors /\ a.bound = app.bound
<1> DEFINE a == [app EXCEPT !.available = available, !.error = error]
<1>1. app \in Applications /\ Consistent(app)
  BY Inside
<1>2. /\ a \in Applications /\ a.lookup = app.lookup /\ a.actors = app.actors
      /\ a.bound = app.bound /\ a.chat = app.chat /\ a.index = app.index
  BY <1>1 DEF Applications
<1> HIDE DEF a
<1>3. Consistent(a)
  BY <1>1, <1>2 DEF Consistent
<1> QED
  BY <1>2, <1>3 DEF a

LEMMA FlaggedOne ==
  ASSUME BindInv, NEW flag \in BOOLEAN
  PROVE  LET a == [app EXCEPT !.available = flag]
             e == [app EXCEPT !.error = flag] IN
         /\ a \in Applications /\ Consistent(a) /\ a.lookup = app.lookup
         /\ a.actors = app.actors /\ a.bound = app.bound
         /\ e \in Applications /\ Consistent(e) /\ e.lookup = app.lookup
         /\ e.actors = app.actors /\ e.bound = app.bound
<1> DEFINE a == [app EXCEPT !.available = flag]
           e == [app EXCEPT !.error = flag]
<1>1. app \in Applications /\ Consistent(app)
  BY Inside
<1>2. /\ a \in Applications /\ a.lookup = app.lookup /\ a.actors = app.actors
      /\ a.bound = app.bound /\ a.chat = app.chat /\ a.index = app.index
  BY <1>1 DEF Applications
<1>3. /\ e \in Applications /\ e.lookup = app.lookup /\ e.actors = app.actors
      /\ e.bound = app.bound /\ e.chat = app.chat /\ e.index = app.index
  BY <1>1 DEF Applications
<1> HIDE DEF a, e
<1>4. Consistent(a) /\ Consistent(e)
  BY <1>1, <1>2, <1>3 DEF Consistent
<1> QED
  BY <1>2, <1>3, <1>4 DEF a, e

LEMMA StartApplicationKeeps ==
  ASSUME BindInv, StartApplication
  PROVE  BindInv'
<1>1. UNCHANGED <<host, context, refreshes, lost, late>>
  BY DEF StartApplication
<1>2. CASE BeginBind("start", [app EXCEPT !.available = TRUE], context, FALSE)
  <2> DEFINE a == [app EXCEPT !.available = TRUE]
  <2>1. a \in Applications /\ Consistent(a) /\ a.actors = app.actors
    BY FlaggedOne
  <2>2. BeginBind("start", a, context, FALSE)
    BY <1>2
  <2> HIDE DEF a
  <2> QED
    BY <1>1, <2>1, <2>2, BeginBindKeeps, Inside
<1>3. CASE app' = [app EXCEPT !.error = TRUE] /\ loop' = Turn(FALSE) /\ UNCHANGED <<binds, clearing, writing>>
  <2>1. /\ app' \in Applications /\ Consistent(app') /\ app'.lookup = app.lookup
        /\ app'.actors = app.actors /\ app'.bound = app.bound
    BY <1>3, FlaggedOne
  <2>2. loop' \in Loops
    BY <1>3, TurnIsLoop DEF BindInv
  <2>3. LookupFollows'
    BY <1>1, <2>1, Inside DEF LookupFollows
  <2> QED
    BY <1>1, <1>3, <2>1, <2>2, <2>3, NoCallKeeps, Inside
<1> QED
  BY <1>2, <1>3 DEF StartApplication

LEMMA SwitchChatKeeps ==
  ASSUME BindInv, SwitchChat
  PROVE  BindInv'
<1>1. PICK c \in (Chats \cup {Chatless}) \ {host} :
         /\ host' = c
         /\ \/ /\ context' = [context EXCEPT !.chat = c]
               /\ refreshes' # {}
            \/ lost' = TRUE /\ UNCHANGED context
  BY DEF SwitchChat
<1>2. UNCHANGED <<app, binds, loop, writing, late>>
  BY DEF SwitchChat
<1>3. host' \in ChatId /\ context' \in Scopes
  BY <1>1, Inside DEF ChatId, Scopes
<1>4. LookupFollows'
  BY <1>1 DEF LookupFollows
<1> QED
  BY <1>2, <1>3, <1>4, NoCallKeeps, Inside

LEMMA SendMessageKeeps ==
  ASSUME BindInv, SendMessage
  PROVE  BindInv'
<1>1. UNCHANGED <<host, context, refreshes, app, binds, writing, lost, late>> /\ loop' \in Loops
  BY Inside, ScheduleIsLoop DEF SendMessage
<1>2. LookupFollows'
  BY <1>1, Inside DEF LookupFollows
<1> QED
  BY <1>1, <1>2, NoCallKeeps, Inside

LEMMA RefreshChatKeeps ==
  ASSUME BindInv, RefreshChat
  PROVE  BindInv'
<1>1. UNCHANGED <<host, app, binds, loop, writing, late>> /\ context' = [context EXCEPT !.chat = host]
      /\ refreshes' # {}
  BY DEF RefreshChat
<1>2. context' \in Scopes
  BY <1>1, Inside DEF Scopes
<1>3. LookupFollows'
  BY <1>1 DEF LookupFollows
<1> QED
  BY <1>1, <1>2, <1>3, NoCallKeeps, Inside

\* The context is read to its end: the lookups follow it at once.
LEMMA RefreshCharacterKeeps ==
  ASSUME BindInv, RefreshCharacter
  PROVE  BindInv'
<1>1. UNCHANGED <<host, late>> /\ context' = [context EXCEPT !.work = host]
  BY DEF RefreshCharacter
<1>2. context' \in Scopes
  BY <1>1, Inside DEF Scopes
<1>3. CASE Schedule(FALSE) /\ app' = LookupFirst(context') /\ UNCHANGED <<binds, clearing, writing>>
  <2>1. /\ app' \in Applications /\ app'.lookup = context' /\ app'.actors = app.actors
        /\ app'.bound = app.bound /\ app'.chat = app.chat /\ app'.index = app.index
    BY <1>2, <1>3, Inside DEF LookupFirst, Applications
  <2>2. Consistent(app')
    BY <2>1, Inside DEF Consistent
  <2>3. loop' \in Loops
    BY <1>3, Inside, ScheduleIsLoop
  <2>4. LookupFollows'
    BY <2>1 DEF LookupFollows
  <2> QED
    BY <1>1, <1>2, <1>3, <2>1, <2>2, <2>3, <2>4, NoCallKeeps, Inside
<1>4. CASE BeginBind("loop", app, context', loop.requested)
  BY <1>1, <1>2, <1>4, BeginBindKeeps, Inside
<1> QED
  BY <1>3, <1>4 DEF RefreshCharacter

LEMMA RefreshFailsKeeps ==
  ASSUME BindInv, RefreshFails
  PROVE  BindInv'
<1>1. UNCHANGED <<host, context, app, binds, writing, late>> /\ lost' = TRUE /\ loop' \in Loops
  BY Inside, TurnIsLoop DEF RefreshFails, BindInv
<1>2. LookupFollows'
  BY <1>1 DEF LookupFollows
<1> QED
  BY <1>1, <1>2, NoCallKeeps, Inside

LEMMA RebindTurnKeeps ==
  ASSUME BindInv, RebindTurn
  PROVE  BindInv'
<1>1. UNCHANGED <<host, context, lost, late>>
  BY DEF RebindTurn
<1>2. CASE loop.refresh
  <2>1. /\ UNCHANGED <<app, binds, writing>>
        /\ refreshes' = refreshes \cup {[caller |-> "loop", id |-> 0, step |-> "chat"]}
        /\ loop' = [phase |-> "refresh", requested |-> FALSE, refresh |-> FALSE]
    BY <1>2 DEF RebindTurn
  <2>2. loop' \in Loops
    BY <2>1 DEF Loops, Phases
  <2>3. LookupFollows'
    BY <2>1 DEF LookupFollows
  <2> QED
    BY <1>1, <2>1, <2>2, <2>3, NoCallKeeps, Inside
<1>3. CASE BeginBind("loop", app, context, FALSE)
  BY <1>1, <1>3, BeginBindKeeps, Inside
<1> QED
  BY <1>2, <1>3 DEF RebindTurn

LEMMA CaptureBindsKeeps ==
  ASSUME BindInv, CaptureBinds
  PROVE  BindInv'
  BY BeginBindKeeps, Inside DEF CaptureBinds

\* A check that ends without binding leaves the chat as it is.
LEMMA CheckEndsKeeps ==
  ASSUME BindInv, UNCHANGED <<host, context, refreshes, writing, lost, late, binds, loop>>,
         app' \in Applications, Consistent(app'), app'.lookup = app.lookup,
         app'.actors = app.actors, app'.bound = app.bound
  PROVE  BindInv'
<1>1. LookupFollows'
  BY Inside DEF LookupFollows
<1> QED
  BY <1>1, NoCallKeeps, Inside

LEMMA CheckFailedKeeps ==
  ASSUME BindInv, UNCHANGED <<host, context, refreshes, writing, lost, late, binds, loop>>, CheckFailed
  PROVE  BindInv'
<1>1. app' = [app EXCEPT !.available = FALSE, !.error = TRUE]
  BY DEF CheckFailed
<1> QED
  BY <1>1, Flagged, CheckEndsKeeps

LEMMA ChecksKeep ==
  ASSUME BindInv, BeginCheck \/ ReadHealth
  PROVE  BindInv'
<1>1. UNCHANGED <<host, context, refreshes, writing, lost, late, binds, loop>>
  BY DEF BeginCheck, ReadHealth, CheckElse
<1>2. CASE UNCHANGED app
  BY <1>1, <1>2, CheckEndsKeeps, Inside
<1>3. CASE CheckFailed
  BY <1>1, <1>3, CheckFailedKeeps
<1> QED
  BY <1>2, <1>3 DEF BeginCheck, ReadHealth

LEMMA GuardCheckKeeps ==
  ASSUME BindInv, GuardCheck, check.ready \in BOOLEAN
  PROVE  BindInv'
<1>1. UNCHANGED <<host, context, refreshes, lost, late>>
  BY DEF GuardCheck, CheckElse
<1> DEFINE back == [app EXCEPT !.available = check.ready]
<1>2. /\ back \in Applications /\ Consistent(back) /\ back.lookup = app.lookup
      /\ back.actors = app.actors /\ back.bound = app.bound
  BY FlaggedOne
<1>3. \/ app' = back /\ UNCHANGED <<binds, loop, writing>>
      \/ BeginBind("check", back, context, loop.requested)
      \/ CheckFailed /\ UNCHANGED <<binds, loop, writing>>
  BY DEF GuardCheck
<1> HIDE DEF back
<1>4. CASE app' = back /\ UNCHANGED <<binds, loop, writing>>
  BY <1>1, <1>2, <1>4, CheckEndsKeeps
<1>5. CASE BeginBind("check", back, context, loop.requested)
  BY <1>1, <1>2, <1>5, BeginBindKeeps, Inside
<1>6. CASE CheckFailed /\ UNCHANGED <<binds, loop, writing>>
  BY <1>1, <1>6, CheckFailedKeeps
<1> QED
  BY <1>3, <1>4, <1>5, <1>6

LEMMA CheckSettingsKeeps ==
  ASSUME BindInv, CheckSettings
  PROVE  BindInv'
<1>1. UNCHANGED <<host, context, refreshes, lost, late>>
  BY DEF CheckSettings, CheckElse
<1>2. CASE BeginBind("check", app, context, loop.requested)
  BY <1>1, <1>2, BeginBindKeeps, Inside
<1>3. CASE CheckFailed /\ UNCHANGED <<binds, loop, writing>>
  BY <1>1, <1>3, CheckFailedKeeps
<1> QED
  BY <1>2, <1>3 DEF CheckSettings

\* The calls on their way become stale, none takes their place.
LEMMA BeginClearKeeps ==
  ASSUME BindInv, BeginClear
  PROVE  BindInv'
<1>1. /\ UNCHANGED <<host, context, refreshes, app, loop, writing, late>>
      /\ lost' = (lost \/ app.chat # context.chat)
      /\ binds' = {[b EXCEPT !.latest = FALSE] : b \in binds}
  BY DEF BeginClear
<1>2. \A b \in binds : /\ [b EXCEPT !.latest = FALSE] \in Calling
                       /\ ~[b EXCEPT !.latest = FALSE].latest
                       /\ [b EXCEPT !.latest = FALSE].own = b.own
                       /\ [b EXCEPT !.latest = FALSE].scope = b.scope
  BY DEF BindInv, BindShape, Calling
<1>3. \A o \in binds' : o \in Calling /\ ~o.latest /\ (o.own => app.actors.scope = o.scope)
  <2>1. \A b \in binds : b.own => app.actors.scope = b.scope
    BY DEF BindInv, Bound
  <2>2. ASSUME NEW b \in binds, NEW o, o = [b EXCEPT !.latest = FALSE]
        PROVE  o \in Calling /\ ~o.latest /\ (o.own => app.actors.scope = o.scope)
    BY <1>2, <2>1, <2>2
  <2> QED
    BY <1>1, <2>2, Zenon
<1>4. BindShape' /\ OneLatest(binds') /\ \A o \in binds' : Bound(o, app')
  BY <1>1, <1>3 DEF BindInv, BindShape, OneLatest, Bound
<1>5. IndexIsOfBoundChat' /\ DirectoryIsOwn' /\ LookupFollows' /\ WriteOwn'
  BY <1>1 DEF BindInv, IndexIsOfBoundChat, DirectoryIsOwn, LookupFollows, WriteOwn
<1> QED
  BY <1>4, <1>5 DEF BindInv

LEMMA EndClearKeeps ==
  ASSUME BindInv, EndClear
  PROVE  BindInv'
<1>1. UNCHANGED <<host, context, refreshes, binds, loop, writing, late>>
  BY DEF EndClear
<1> DEFINE cleared == [app EXCEPT !.index = {}, !.error = FALSE]
<1>2. /\ cleared \in Applications /\ cleared.lookup = app.lookup /\ cleared.actors = app.actors
      /\ cleared.bound = app.bound /\ cleared.chat = app.chat /\ cleared.index = {}
  BY Inside, NowhereIsScope DEF Applications
<1>3. \/ app' = cleared /\ lost' = (lost \/ app.chat # context.chat)
      \/ UNCHANGED <<app, lost>>
  BY DEF EndClear
<1> HIDE DEF cleared
<1>4. Consistent(cleared)
  BY <1>2, Inside DEF Consistent
<1>5. app'.lookup = app.lookup /\ (~lost' => ~lost)
  <2>1. app'.lookup = app.lookup
    BY <1>2, <1>3
  <2>2. ~lost' => ~lost
    BY <1>3, Zenon
  <2> QED
    BY <2>1, <2>2
<1>6. LookupFollows'
  BY <1>1, <1>5, Inside DEF LookupFollows
<1> QED
  BY <1>1, <1>2, <1>3, <1>4, <1>6, NoCallKeeps, Inside

\* A step of an edit, an undo or a capture: the calls that bind the chat go on as before.
LEMMA WriteKeeps ==
  ASSUME BindInv, WriteElse, app' \in Applications, app'.lookup = app.lookup,
         app'.actors.scope = app.actors.scope, app'.bound = app.bound, app'.chat = app.chat,
         app'.actors.directory \in {Nowhere, app.actors.scope},
         late \subseteq late', app'.index \subseteq app.index \cup {app.bound} \cup late',
         WriteOwn'
  PROVE  BindInv'
<1>1. UNCHANGED <<host, context, refreshes, binds, loop, lost>>
  BY DEF WriteElse
<1>2. BindShape' /\ OneLatest(binds')
  BY <1>1 DEF BindInv, BindShape
<1>3. \A b \in binds' : Bound(b, app')
  BY <1>1 DEF BindInv, Bound
<1>4. IndexIsOfBoundChat'
  BY DEF BindInv, IndexIsOfBoundChat
<1>5. DirectoryIsOwn' /\ LookupFollows'
  BY <1>1 DEF BindInv, DirectoryIsOwn, LookupFollows
<1> QED
  BY <1>2, <1>3, <1>4, <1>5 DEF BindInv

\* What a write leaves alone of the application.
LEMMA IndexedShape ==
  ASSUME BindInv, NEW index \in SUBSET Scopes
  PROVE  LET a == [app EXCEPT !.index = index] IN
         /\ a \in Applications /\ a.lookup = app.lookup /\ a.actors = app.actors
         /\ a.bound = app.bound /\ a.chat = app.chat /\ a.index = index
  BY Inside DEF Applications

LEMMA NoWriteOwn == NoWrite \in Writes /\ NoWrite.own = FALSE
  BY NowhereIsScope DEF NoWrite, Writes, ChatId

LEMMA BeginWriteKeeps ==
  ASSUME BindInv, NEW kind \in {"edit", "undo", "capture"}, BeginWrite(kind)
  PROVE  BindInv'
<1>1. /\ WriteElse /\ app' = app /\ late' = late
      /\ writing' = [kind |-> kind, scope |-> app.actors.scope, chat |-> context.chat,
                     bound |-> app.bound, own |-> TRUE]
  BY DEF BeginWrite, WriteElse
<1>2. WriteOwn'
  BY <1>1, Inside DEF WriteOwn, Writes, Applications, Registries, Scopes
<1> QED
  BY <1>1, <1>2, WriteKeeps, Inside DEF Consistent

LEMMA UndoReadsKeeps ==
  ASSUME BindInv, UndoReads
  PROVE  BindInv'
<1>1. /\ WriteElse /\ late' = late
      /\ \/ app' = [app EXCEPT !.actors.directory = writing.scope] /\ writing.own
         \/ app' = app
      /\ \/ writing' = [writing EXCEPT !.kind = "undone", !.scope = app.actors.scope, !.own = FALSE]
         \/ writing' = NoWrite
  BY DEF UndoReads
<1>2. app.actors \in Registries /\ writing \in Writes /\ writing.scope \in Scopes
  BY Inside DEF BindInv, WriteOwn, Writes, Applications
<1> DEFINE actors == [app.actors EXCEPT !.directory = writing.scope]
           read == [app EXCEPT !.actors = actors]
<1>3. actors \in Registries /\ actors.scope = app.actors.scope /\ actors.directory = writing.scope
  BY <1>2 DEF Registries
<1>4. read = [app EXCEPT !.actors.directory = writing.scope]
  OBVIOUS
<1> HIDE DEF actors
<1>5. /\ read \in Applications /\ read.lookup = app.lookup /\ read.actors = actors
      /\ read.bound = app.bound /\ read.chat = app.chat /\ read.index = app.index
  BY <1>3, Inside DEF Applications
<1> HIDE DEF read
<1>6. /\ app' \in Applications /\ app'.lookup = app.lookup /\ app'.actors.scope = app.actors.scope
      /\ app'.bound = app.bound /\ app'.chat = app.chat /\ app'.index = app.index
      /\ app'.actors.directory \in {Nowhere, app.actors.scope}
  <2>1. CASE app' = app
    BY <2>1, Inside DEF Consistent
  <2>2. CASE app' = read /\ writing.own
    BY <1>3, <1>5, <2>2 DEF BindInv, WriteOwn
  <2> QED
    BY <1>1, <1>4, <2>1, <2>2
<1>7. WriteOwn'
  <2>1. app.actors.scope \in Scopes
    BY <1>2 DEF Registries
  <2>2. writing' \in Writes /\ writing'.own = FALSE
    BY <1>1, <1>2, <2>1, NoWriteOwn DEF Writes
  <2> QED
    BY <2>2 DEF WriteOwn
<1> QED
  BY <1>1, <1>6, <1>7, WriteKeeps

LEMMA EndWriteKeeps ==
  ASSUME BindInv, EndWrite
  PROVE  BindInv'
<1>1. WriteElse /\ writing' = NoWrite
  BY DEF EndWrite
<1> DEFINE index == FactsOf(writing.scope) \cup (IF writing.kind = "edit" THEN app.index ELSE {})
<1>2. \/ app' = [app EXCEPT !.index = index] /\ Late(writing.scope)
      \/ UNCHANGED <<app, late>>
  BY DEF EndWrite
<1>3. writing.scope \in Scopes /\ app.index \subseteq Scopes
  BY Inside DEF BindInv, WriteOwn, Writes, Applications
<1>4. index \in SUBSET Scopes /\ index \subseteq app.index \cup {writing.scope}
  BY <1>3 DEF FactsOf
<1>5. WriteOwn'
  BY <1>1, NoWriteOwn DEF WriteOwn
<1> HIDE DEF index
<1>6. CASE app' = [app EXCEPT !.index = index] /\ Late(writing.scope)
  <2>1. late \subseteq late' /\ (writing.scope = app.bound \/ writing.scope \in late')
    BY <1>6 DEF Late
  <2> QED
    BY <1>1, <1>4, <1>5, <1>6, <2>1, IndexedShape, WriteKeeps, Inside DEF Consistent
<1>7. CASE UNCHANGED <<app, late>>
  BY <1>1, <1>5, <1>7, WriteKeeps, Inside DEF Consistent
<1> QED
  BY <1>2, <1>6, <1>7

LEMMA OverviewFailsKeeps ==
  ASSUME BindInv, OverviewFails
  PROVE  BindInv'
<1> DEFINE failed == [app EXCEPT !.index = {}, !.error = TRUE]
<1>1. WriteElse /\ UNCHANGED <<writing, late>> /\ app' = failed
  BY DEF OverviewFails
<1>2. /\ failed \in Applications /\ failed.lookup = app.lookup /\ failed.actors = app.actors
      /\ failed.bound = app.bound /\ failed.chat = app.chat /\ failed.index = {}
  BY Inside DEF Applications
<1> HIDE DEF failed
<1>3. WriteOwn'
  BY <1>1, <1>2 DEF BindInv, WriteOwn
<1> QED
  BY <1>1, <1>2, <1>3, WriteKeeps, Inside DEF Consistent

-----------------------------------------------------------------------------
CheckShape == check \in [step : {"none", "health", "guard", "settings"}, ready : BOOLEAN]

LEMMA CheckKept == CheckShape /\ [BindingNext]_bindingVars => CheckShape'
<1> SUFFICES ASSUME CheckShape, [BindingNext]_bindingVars PROVE CheckShape'
  OBVIOUS
<1>1. CASE BeginCheck
  BY <1>1 DEF BeginCheck, CheckShape
<1>2. CASE ReadHealth
  <2>1. \E ready \in BOOLEAN, step \in {"guard", "none"} : check' = [step |-> step, ready |-> ready]
    BY <1>2, Zenon DEF ReadHealth, CheckFailed
  <2> QED
    BY <2>1 DEF CheckShape
<1>3. CASE GuardCheck
  <2>1. \/ check' = [step |-> "none", ready |-> FALSE]
        \/ check' = [check EXCEPT !.step = "settings"]
    BY <1>3, Zenon DEF GuardCheck, CheckFailed
  <2>2. [check EXCEPT !.step = "settings"] \in
           [step : {"none", "health", "guard", "settings"}, ready : BOOLEAN]
    BY DEF CheckShape
  <2>3. [step |-> "none", ready |-> FALSE] \in
           [step : {"none", "health", "guard", "settings"}, ready : BOOLEAN]
    OBVIOUS
  <2> QED
    BY <2>1, <2>2, <2>3 DEF CheckShape
<1>4. CASE CheckSettings
  <2>1. check' = [step |-> "none", ready |-> FALSE]
    BY <1>4, Zenon DEF CheckSettings, CheckFailed
  <2> QED
    BY <2>1 DEF CheckShape
<1>5. CASE UNCHANGED check
  BY <1>5 DEF CheckShape
<1> QED
  BY <1>1, <1>2, <1>3, <1>4, <1>5
  DEF BindingNext, BindingWork, bindingVars, BindElse, StartApplication, RefreshChat,
      RefreshCharacter, RebindTurn, OpenScope, LoadDirectory, Reopen, LoadSettings, LoadFacts,
      EndClear, RefreshFails, SwitchChat, SendMessage, CaptureBinds, BeginClear,
      BeginWrite, UndoReads, EndWrite, OverviewFails, WriteElse

LEMMA BindStep == CheckShape /\ BindInv /\ [BindingNext]_bindingVars => BindInv'
<1> SUFFICES ASSUME CheckShape, BindInv, [BindingNext]_bindingVars PROVE BindInv'
  OBVIOUS
<1>1. CASE BindingWork
  <2>1. check.ready \in BOOLEAN
    BY DEF CheckShape
  <2> QED
    BY <1>1, <2>1, StartApplicationKeeps, RefreshChatKeeps, RefreshCharacterKeeps,
       RebindTurnKeeps, OpenScopeKeeps, LoadDirectoryKeeps, ReopenKeeps, LoadSettingsKeeps,
       LoadFactsKeeps, ChecksKeep, GuardCheckKeeps, CheckSettingsKeeps, EndClearKeeps,
       UndoReadsKeeps, EndWriteKeeps
    DEF BindingWork
<1>2. CASE \/ RefreshFails \/ SwitchChat \/ SendMessage \/ CaptureBinds
           \/ BeginCheck \/ BeginClear \/ OverviewFails
           \/ \E kind \in {"edit", "undo", "capture"} : BeginWrite(kind)
  BY <1>2, RefreshFailsKeeps, SwitchChatKeeps, SendMessageKeeps, CaptureBindsKeeps, ChecksKeep,
     BeginClearKeeps, OverviewFailsKeeps, BeginWriteKeeps
<1>3. CASE UNCHANGED bindingVars
  <2>1. UNCHANGED <<host, context, refreshes, writing, lost, late, binds, loop, app>>
    BY <1>3 DEF bindingVars
  <2> QED
    BY <2>1, CheckEndsKeeps, Inside
<1> QED
  BY <1>1, <1>2, <1>3 DEF BindingNext

\* However switches, captures, edits, undos, checks and failures overlap, for any number
\* of chats and of calls on their way: the recall index holds facts of the bound chat,
\* and of another only when a write came late; the directory of people is that of the
\* workspace in use or empty, and the buttons look up the chat the context shows.
THEOREM BindingStaysSound == BindingSpec => []BindingSound
<1>1. BindingInit => BindInv /\ CheckShape
  BY BindStarts DEF BindingInit, CheckShape
<1>2. CheckShape /\ BindInv /\ [BindingNext]_bindingVars => BindInv' /\ CheckShape'
  BY BindStep, CheckKept
<1>3. BindInv => BindingSound
  BY BindGivesSound
<1> QED
  BY <1>1, <1>2, <1>3, PTL DEF BindingSpec
=============================================================================
