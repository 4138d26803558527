---------------------------- MODULE Ledgers_proofs ----------------------------
(* The ledgers of a chat. Recall details, for any replies and changes: what   *)
(* is invalidated stays so, its prompt goes with it, and what is not          *)
(* invalidated follows its reply. The stock of an item, for any units,        *)
(* commands and readings: its events lead to its amounts, and nothing a       *)
(* message says is counted twice. The facts of a slot, for any claims, edits  *)
(* and removals: the head is in force, and what it replaced can come back.    *)
EXTENDS GenerationDetails, InventoryLedger, FactLedger, SequenceTheorems, WellFoundedInduction, TLAPS

-----------------------------------------------------------------------------
(* The inductive invariant.                                                  *)
Places == 1..MaxReplies
Swipes == [reply : Nat, word : Words, edited : BOOLEAN]
Entries == [swipes : Seq(Swipes), at : Nat]
Rows == [floor : Places, variant : Places, word : Words, invalid : BOOLEAN, version : Nat]
Completed == [reply : Places, word : Words, floor : Places, variant : Places]

(* No chat grows beyond the replies that were generated. *)
ChatShape ==
    /\ replies \in Seq(Entries)
    /\ \A i \in DOMAIN replies : /\ replies[i].at \in DOMAIN replies[i].swipes
                                 /\ Len(replies[i].swipes) <= Made
    /\ Len(replies) <= Made
    /\ commits \in [queue : Seq(Completed), done : Seq(Places)]
    /\ Made <= MaxReplies

RowsShape ==
    /\ DOMAIN details \subseteq Places
    /\ details \in [DOMAIN details -> Rows]

FollowerShape(e) ==
    /\ e \in [what : {"deleted", "edited", "swipe_deleted"}, floor : Nat \ {0}, n : Nat \ {0}, word : Words \cup {"none"},
              id : Nat, step : {"scan", "read", "write"}, rows : [DOMAIN e.rows -> Rows], purge : SUBSET DOMAIN e.rows]
    /\ \A r \in DOMAIN e.rows : Concerned(e, e.rows[r])
    /\ e.step # "write" => e.purge = {}

(* The prompts a change takes with it, when the row is as it was read. *)
Takes(e, r) == Changed(e, e.rows[r]).invalid /\ ~e.rows[r].invalid

(* A row at the version a handler read is the row it read; and if nothing has *)
(* changed, the prompts it read are the ones to delete.                       *)
Knows(e) ==
    /\ DOMAIN e.rows \subseteq DOMAIN details
    /\ \A r \in DOMAIN e.rows : details[r].version >= e.rows[r].version
    /\ \A r \in DOMAIN e.rows : details[r].version = e.rows[r].version => details[r] = e.rows[r]
    /\ e.step = "write" =>
          \A r \in DOMAIN e.rows : details[r].version = e.rows[r].version => (r \in e.purge <=> Takes(e, r))

DetailInv ==
    /\ ChatShape /\ RowsShape /\ changes \in Nat
    /\ \A e \in followers : FollowerShape(e) /\ Knows(e)
    /\ PromptsGoWithDetails

-----------------------------------------------------------------------------
(* The chat.                                                                 *)

LEMMA CutFacts ==
  ASSUME NEW S, NEW members \in Seq(S), NEW i \in 1..Len(members), NEW n \in Nat \ {0}, i + n - 1 <= Len(members),
         NEW rest, rest = Cut(members, i, n)
  PROVE  /\ rest \in Seq(S)
         /\ Len(rest) = Len(members) - n
         /\ \A j \in 1..Len(rest) : \E k \in 1..Len(members) : rest[j] = members[k]
<1> DEFINE before == SubSeq(members, 1, i - 1)
           after == SubSeq(members, i + n, Len(members))
<1>6. rest = before \o after
  BY DEF Cut
<1>1. before \in Seq(S) /\ Len(before) = i - 1 /\ \A j \in 1..i - 1 : before[j] = members[j]
  OBVIOUS
<1>2. after \in Seq(S) /\ Len(after) = Len(members) - (i + n) + 1
      /\ \A j \in 1..Len(members) - (i + n) + 1 : after[j] = members[i + n + j - 1]
  OBVIOUS
<1> HIDE DEF before, after
<1>3. /\ before \o after \in Seq(S)
      /\ Len(before \o after) = Len(members) - n
  BY <1>1, <1>2
<1>4. \A j \in 1..Len(members) - n :
         /\ j <= i - 1 => (before \o after)[j] = before[j]
         /\ ~(j <= i - 1) => (before \o after)[j] = after[j - (i - 1)]
  BY <1>1, <1>2
<1>5. ASSUME NEW j \in 1..Len(members) - n
      PROVE  \E k \in 1..Len(members) : (before \o after)[j] = members[k]
  <2>1. CASE j <= i - 1
    <3>1. j \in 1..i - 1 /\ j \in 1..Len(members)
      BY <2>1
    <3>2. (before \o after)[j] = members[j]
      BY <1>1, <1>4, <2>1, <3>1
    <3> QED
      BY <3>1, <3>2
  <2>2. CASE ~(j <= i - 1)
    <3> DEFINE m == j - (i - 1)
               k == i + n + m - 1
    <3>1. m \in 1..Len(members) - (i + n) + 1 /\ k \in 1..Len(members)
      BY <2>2
    <3>2. (before \o after)[j] = after[m]
      <4>1. (before \o after)[j] = after[j - (i - 1)]
        BY <1>4, <2>2
      <4> QED
        BY <4>1
    <3> HIDE DEF m
    <3>3. after[m] = members[k]
      BY <1>2, <3>1
    <3> HIDE DEF k
    <3> QED
      BY <3>1, <3>2, <3>3
  <2> QED
    BY <2>1, <2>2
<1> QED
  BY <1>3, <1>5, <1>6

LEMMA ShapeInit == DetailInit => DetailInv
<1> SUFFICES ASSUME DetailInit PROVE DetailInv
  OBVIOUS
<1>1. Made = 0
  BY DEF DetailInit, Made
<1>2. ChatShape
  BY <1>1, ReplyBound DEF DetailInit, ChatShape
<1>3. RowsShape /\ DOMAIN details = {}
  BY DEF DetailInit, RowsShape
<1> QED
  BY <1>2, <1>3 DEF DetailInit, DetailInv, PromptsGoWithDetails

LEMMA OldLengths ==
  ASSUME ChatShape, NEW i \in DOMAIN replies
  PROVE  /\ replies[i] \in Entries
         /\ replies[i].at \in DOMAIN replies[i].swipes
         /\ Len(replies[i].swipes) \in Nat /\ Len(replies[i].swipes) <= Made
<1>1. replies[i] \in Entries
  <2>1. replies \in Seq(Entries)
    BY DEF ChatShape
  <2> QED
    BY <2>1
<1>2. Len(replies[i].swipes) <= Made /\ replies[i].at \in DOMAIN replies[i].swipes
  BY DEF ChatShape
<1>3. replies[i].swipes \in Seq(Swipes)
  BY <1>1 DEF Entries
<1> QED
  BY <1>1, <1>2, <1>3

\* A reply is a new message, or a swipe of the last one, one more of each at most.
LEMMA ReplyShape ==
  ASSUME ChatShape, Reply
  PROVE  ChatShape'
<1>1. PICK word \in Words, again \in BOOLEAN :
        /\ again => replies # << >>
        /\ replies' = IF again
                      THEN [replies EXCEPT ![Len(replies)] =
                              [swipes |-> Append(@.swipes, Swipe(Made + 1, word)), at |-> Len(@.swipes) + 1]]
                      ELSE Append(replies, [swipes |-> <<Swipe(Made + 1, word)>>, at |-> 1])
        /\ commits' = [commits EXCEPT !.queue = Append(@,
              [reply |-> Made + 1, word |-> word, floor |-> Len(replies'), variant |-> replies'[Len(replies')].at])]
  BY DEF Reply
<1>2. Made \in Nat /\ Made + 1 <= MaxReplies /\ Made + 1 \in Places
  BY ReplyBound DEF Reply, Made, ChatShape, Places
<1>3. Swipe(Made + 1, word) \in Swipes
  BY <1>2 DEF Swipe, Swipes
<1>4. /\ replies' \in Seq(Entries)
      /\ \A i \in DOMAIN replies' : /\ replies'[i].at \in DOMAIN replies'[i].swipes
                                    /\ Len(replies'[i].swipes) <= Made + 1
      /\ Len(replies') <= Made + 1 /\ Len(replies') \in Nat \ {0}
  <2>1. CASE again
    <3> DEFINE last == Len(replies)
               old == replies[last].swipes
               new == Append(old, Swipe(Made + 1, word))
               entry == [swipes |-> new, at |-> Len(old) + 1]
    <3>1. last \in 1..Len(replies) /\ last \in DOMAIN replies
          /\ Len(replies) <= Made /\ Len(replies) \in Nat \ {0}
      BY <1>1, <2>1 DEF ChatShape
    <3>2. old \in Seq(Swipes) /\ Len(old) <= Made /\ Len(old) \in Nat
      BY <3>1, OldLengths DEF Entries
    <3>3. new \in Seq(Swipes) /\ Len(new) = Len(old) + 1
      BY <1>3, <3>2
    <3>4. replies' = [replies EXCEPT ![last] = entry]
      BY <1>1, <2>1
    <3> HIDE DEF new, old, last
    <3>5. /\ entry \in Entries /\ entry.at \in DOMAIN entry.swipes
          /\ Len(entry.swipes) <= Made + 1
      BY <1>2, <3>2, <3>3 DEF Entries
    <3> HIDE DEF entry
    <3>6. replies' \in Seq(Entries) /\ Len(replies') = Len(replies) /\ Len(replies) \in Nat
      BY <3>1, <3>4, <3>5 DEF ChatShape
    <3>7. \A i \in DOMAIN replies' : i \in DOMAIN replies /\ replies'[i] = IF i = last THEN entry ELSE replies[i]
      BY <3>1, <3>4 DEF ChatShape
    <3>8. ASSUME NEW i \in DOMAIN replies'
          PROVE  replies'[i].at \in DOMAIN replies'[i].swipes /\ Len(replies'[i].swipes) <= Made + 1
      <4>1. CASE i = last
        BY <3>5, <3>7, <4>1
      <4>2. CASE i # last
        BY <1>2, <3>7, <4>2, OldLengths
      <4> QED
        BY <4>1, <4>2
    <3> QED
      BY <1>2, <3>1, <3>6, <3>8
  <2>2. CASE ~again
    <3> DEFINE entry == [swipes |-> <<Swipe(Made + 1, word)>>, at |-> 1]
    <3>1. /\ entry \in Entries /\ entry.at \in DOMAIN entry.swipes
          /\ Len(entry.swipes) <= Made + 1
      BY <1>2, <1>3 DEF Entries
    <3>2. replies' = Append(replies, entry)
      BY <1>1, <2>2
    <3> HIDE DEF entry
    <3>3. /\ replies' \in Seq(Entries) /\ Len(replies') = Len(replies) + 1
          /\ Len(replies) \in Nat
      BY <3>1, <3>2 DEF ChatShape
    <3>4. \A i \in DOMAIN replies' : replies'[i] = entry \/ (i \in DOMAIN replies /\ replies'[i] = replies[i])
      BY <3>1, <3>2 DEF ChatShape
    <3>5. ASSUME NEW i \in DOMAIN replies'
          PROVE  replies'[i].at \in DOMAIN replies'[i].swipes /\ Len(replies'[i].swipes) <= Made + 1
      <4>1. CASE replies'[i] = entry
        BY <3>1, <4>1
      <4>2. CASE i \in DOMAIN replies /\ replies'[i] = replies[i]
        BY <1>2, <4>2, OldLengths
      <4> QED
        BY <3>4, <4>1, <4>2
    <3>6. Len(replies) <= Made
      BY DEF ChatShape
    <3> QED
      BY <1>2, <3>3, <3>5, <3>6
  <2> QED
    BY <2>1, <2>2
<1>5. Made' = Made + 1
  BY <1>1 DEF Made, ChatShape
<1>6. commits' \in [queue : Seq(Completed), done : Seq(Places)]
  <2> DEFINE i == Len(replies')
  <2>1. i \in DOMAIN replies' /\ i \in Places
    BY <1>2, <1>4, ReplyBound DEF Places
  <2>2. /\ replies'[i].at \in 1..Len(replies'[i].swipes) /\ Len(replies'[i].swipes) <= Made + 1
        /\ Len(replies'[i].swipes) \in Nat
    BY <1>4, <2>1
  <2>3. replies'[i].at \in Places
    BY <1>2, <2>2, ReplyBound DEF Places
  <2>4. [reply |-> Made + 1, word |-> word, floor |-> i, variant |-> replies'[i].at] \in Completed
    BY <1>2, <2>1, <2>3 DEF Completed
  <2> HIDE DEF i
  <2>5. commits' = [commits EXCEPT !.queue = Append(commits.queue,
              [reply |-> Made + 1, word |-> word, floor |-> i, variant |-> replies'[i].at])]
    BY <1>1 DEF i
  <2>6. commits.queue \in Seq(Completed) /\ commits \in [queue : Seq(Completed), done : Seq(Places)]
    BY DEF ChatShape
  <2>7. Append(commits.queue, [reply |-> Made + 1, word |-> word, floor |-> i, variant |-> replies'[i].at])
          \in Seq(Completed)
    BY <2>4, <2>6
  <2> QED
    BY <2>5, <2>6, <2>7
<1> QED
  BY <1>2, <1>4, <1>5, <1>6 DEF ChatShape

\* What the user does to one message leaves the others as they are.
LEMMA EntryChanged ==
  ASSUME ChatShape, NEW i \in DOMAIN replies, NEW entry \in Entries, entry.at \in DOMAIN entry.swipes,
         Len(entry.swipes) <= Made, replies' = [replies EXCEPT ![i] = entry], commits' = commits
  PROVE  ChatShape'
<1>1. replies \in Seq(Entries) /\ i \in 1..Len(replies)
  BY DEF ChatShape
<1>2. replies' \in Seq(Entries) /\ Len(replies') = Len(replies) /\ DOMAIN replies' = DOMAIN replies
  BY <1>1
<1>3. Made' = Made
  BY DEF Made
<1>4. ASSUME NEW j \in DOMAIN replies'
      PROVE  replies'[j].at \in DOMAIN replies'[j].swipes /\ Len(replies'[j].swipes) <= Made
  <2>1. CASE j = i
    BY <1>1, <1>2, <2>1
  <2>2. CASE j # i
    BY <1>1, <1>2, <2>2, OldLengths
  <2> QED
    BY <2>1, <2>2
<1> QED
  BY <1>2, <1>3, <1>4 DEF ChatShape

LEMMA DeleteMessagesShape ==
  ASSUME ChatShape, DeleteMessages
  PROVE  ChatShape'
<1>1. PICK i \in DOMAIN replies, n \in 1..Len(replies) :
        i + n - 1 <= Len(replies) /\ replies' = Cut(replies, i, n) /\ commits' = commits
  BY DEF DeleteMessages, Tell
<1>2. replies \in Seq(Entries) /\ i \in 1..Len(replies) /\ n \in Nat \ {0} /\ Len(replies) <= Made
  BY DEF ChatShape
<1>3. /\ replies' \in Seq(Entries) /\ Len(replies') = Len(replies) - n /\ Len(replies') \in Nat
      /\ \A j \in 1..Len(replies') : \E k \in 1..Len(replies) : replies'[j] = replies[k]
  <2>1. /\ replies' \in Seq(Entries) /\ Len(replies') = Len(replies) - n
        /\ \A j \in 1..Len(replies') : \E k \in 1..Len(replies) : replies'[j] = replies[k]
    <3>1. i + n - 1 <= Len(replies) /\ replies' = Cut(replies, i, n)
      BY <1>1
    <3>2. replies \in Seq(Entries) /\ i \in 1..Len(replies) /\ n \in Nat \ {0}
      BY <1>2
    <3>3. Cut(replies, i, n) \in Seq(Entries)
      BY <3>1, <3>2, CutFacts
    <3>4. Len(Cut(replies, i, n)) = Len(replies) - n
      BY <3>1, <3>2, CutFacts
    <3>5. \A j \in 1..Len(Cut(replies, i, n)) : \E k \in 1..Len(replies) : Cut(replies, i, n)[j] = replies[k]
      BY <3>1, <3>2, CutFacts
    <3> QED
      BY <3>1, <3>3, <3>4, <3>5, Zenon
  <2>2. Len(replies') \in Nat
    BY <2>1
  <2> QED
    BY <2>1, <2>2
<1>4. Made' = Made /\ Made \in Nat
  BY <1>1 DEF Made, ChatShape
<1>5. ASSUME NEW j \in DOMAIN replies'
      PROVE  replies'[j].at \in DOMAIN replies'[j].swipes /\ Len(replies'[j].swipes) <= Made
  <2>1. j \in 1..Len(replies') /\ DOMAIN replies = 1..Len(replies)
    BY <1>2, <1>3
  <2>2. PICK k \in DOMAIN replies : replies'[j] = replies[k]
    BY <1>3, <2>1
  <2> QED
    BY <2>2, OldLengths
<1>6. Len(replies') <= Made
  BY <1>2, <1>3, <1>4
<1> QED
  BY <1>1, <1>3, <1>4, <1>5, <1>6 DEF ChatShape

LEMMA EditMessageShape ==
  ASSUME ChatShape, EditMessage
  PROVE  ChatShape'
<1>1. PICK i \in DOMAIN replies, word \in Words :
        /\ replies' = [replies EXCEPT ![i].swipes[replies[i].at] = [@ EXCEPT !.word = word, !.edited = TRUE]]
        /\ commits' = commits
  BY DEF EditMessage, Tell
<1> DEFINE v == replies[i].at
           old == replies[i].swipes
           new == [old EXCEPT ![v] = [old[v] EXCEPT !.word = word, !.edited = TRUE]]
           entry == [swipes |-> new, at |-> v]
<1>2. replies[i] \in Entries /\ v \in DOMAIN old /\ Len(old) \in Nat /\ Len(old) <= Made
  BY OldLengths
<1>3. old \in Seq(Swipes) /\ v \in 1..Len(old) /\ old[v] \in Swipes /\ v \in Nat
  BY <1>2 DEF Entries
<1>4. [old[v] EXCEPT !.word = word, !.edited = TRUE] \in Swipes
  BY <1>3 DEF Swipes
<1>5. new \in Seq(Swipes) /\ Len(new) = Len(old)
  BY <1>3, <1>4
<1>6. entry \in Entries /\ entry.at \in DOMAIN entry.swipes /\ Len(entry.swipes) <= Made
  BY <1>2, <1>3, <1>5 DEF Entries
<1>7. [replies[i] EXCEPT !.swipes = new] = entry
  BY <1>2 DEF Entries
<1>8. replies' = [replies EXCEPT ![i] = [replies[i] EXCEPT !.swipes = new]]
  BY <1>1
<1> HIDE DEF entry, new, old, v
<1> QED
  BY <1>1, <1>6, <1>7, <1>8, EntryChanged

LEMMA DeleteSwipeShape ==
  ASSUME ChatShape, DeleteSwipe
  PROVE  ChatShape'
<1>1. PICK i \in DOMAIN replies, v \in 1..MaxReplies :
        /\ Len(SwipesOf(i)) > 1 /\ v \in DOMAIN SwipesOf(i)
        /\ replies' = [replies EXCEPT ![i] =
              [swipes |-> Cut(@.swipes, v, 1), at |-> IF v = Len(@.swipes) THEN v - 1 ELSE v]]
        /\ commits' = commits
  BY DEF DeleteSwipe, Tell
<1> DEFINE old == replies[i].swipes
           entry == [swipes |-> Cut(old, v, 1), at |-> IF v = Len(old) THEN v - 1 ELSE v]
<1>2. replies[i] \in Entries /\ Len(old) \in Nat /\ Len(old) <= Made /\ Len(old) > 1 /\ v \in 1..Len(old) /\ v \in Nat
  BY <1>1, OldLengths DEF SwipesOf, Entries
<1>3. old \in Seq(Swipes)
  BY <1>2 DEF Entries
<1> HIDE DEF old
<1>4. Cut(old, v, 1) \in Seq(Swipes) /\ Len(Cut(old, v, 1)) = Len(old) - 1
  <2>1. 1 \in Nat \ {0} /\ v + 1 - 1 <= Len(old)
    BY <1>2
  <2> QED
    BY <1>2, <1>3, <2>1, CutFacts
<1>5. entry.at \in 1..Len(old) - 1 /\ entry.at \in Nat
  BY <1>2
<1>6. Made \in Nat
  BY DEF Made, ChatShape
<1>7. entry \in Entries /\ entry.at \in DOMAIN entry.swipes /\ Len(entry.swipes) <= Made
  BY <1>2, <1>4, <1>5, <1>6 DEF Entries
<1>8. replies' = [replies EXCEPT ![i] = entry]
  BY <1>1 DEF old
<1> HIDE DEF entry
<1> QED
  BY <1>1, <1>7, <1>8, EntryChanged

-----------------------------------------------------------------------------
(* The handlers.                                                             *)

LEMMA SameFields ==
  ASSUME NEW A, NEW B, NEW C, NEW D, NEW E, NEW F, NEW G, NEW H,
         NEW e \in [what : A, floor : B, n : C, word : D, id : E, step : F, rows : G, purge : H],
         NEW f \in [what : A, floor : B, n : C, word : D, id : E, step : F, rows : G, purge : H],
         e.what = f.what, e.floor = f.floor, e.n = f.n, e.word = f.word, e.id = f.id,
         e.step = f.step, e.rows = f.rows, e.purge = f.purge
  PROVE  e = f
OBVIOUS

LEMMA HandlerFields ==
  ASSUME NEW e, FollowerShape(e), NEW r, NEW p
  PROVE  /\ [e EXCEPT !.step = "read", !.rows = r]
            = [what |-> e.what, floor |-> e.floor, n |-> e.n, word |-> e.word, id |-> e.id,
               step |-> "read", rows |-> r, purge |-> e.purge]
         /\ [e EXCEPT !.step = "write", !.purge = p]
            = [what |-> e.what, floor |-> e.floor, n |-> e.n, word |-> e.word, id |-> e.id,
               step |-> "write", rows |-> e.rows, purge |-> p]
<1> DEFINE A == {"deleted", "edited", "swipe_deleted"}
           B == Nat \ {0}
           C == Words \cup {"none"}
           S == {"scan", "read", "write"}
           R == [DOMAIN e.rows -> Rows]
           P == SUBSET DOMAIN e.rows
<1>1. e \in [what : A, floor : B, n : B, word : C, id : Nat, step : S, rows : R, purge : P]
  BY DEF FollowerShape
<1> HIDE DEF A, B, C, S, R, P
<1>2. [e EXCEPT !.step = "read", !.rows = r] = [what |-> e.what, floor |-> e.floor, n |-> e.n, word |-> e.word, id |-> e.id,
                            step |-> "read", rows |-> r, purge |-> e.purge]
  <2> DEFINE new == [e EXCEPT !.step = "read", !.rows = r]
             same == [what |-> e.what, floor |-> e.floor, n |-> e.n, word |-> e.word, id |-> e.id,
                      step |-> "read", rows |-> r, purge |-> e.purge]
  <2>1. new \in [what : A, floor : B, n : B, word : C, id : Nat, step : {"read"}, rows : {r}, purge : P]
    BY <1>1
  <2>2. same \in [what : A, floor : B, n : B, word : C, id : Nat, step : {"read"}, rows : {r}, purge : P]
    BY <1>1
  <2>3. /\ new.what = e.what /\ new.floor = e.floor /\ new.n = e.n /\ new.word = e.word /\ new.id = e.id /\ new.purge = e.purge
    BY <1>1
  <2>4. /\ same.what = e.what /\ same.floor = e.floor /\ same.n = e.n /\ same.word = e.word /\ same.id = e.id /\ same.purge = e.purge
    BY <1>1
  <2>5. new.step = "read" /\ new.rows = r /\ same.step = "read" /\ same.rows = r
    BY <1>1
  <2> HIDE DEF new, same
  <2>6. new = same
    BY <2>1, <2>2, <2>3, <2>4, <2>5, SameFields
  <2> QED
    BY <2>6 DEF new, same
<1>3. [e EXCEPT !.step = "write", !.purge = p] = [what |-> e.what, floor |-> e.floor, n |-> e.n, word |-> e.word, id |-> e.id,
                            step |-> "write", rows |-> e.rows, purge |-> p]
  <2> DEFINE new == [e EXCEPT !.step = "write", !.purge = p]
             same == [what |-> e.what, floor |-> e.floor, n |-> e.n, word |-> e.word, id |-> e.id,
                      step |-> "write", rows |-> e.rows, purge |-> p]
  <2>1. new \in [what : A, floor : B, n : B, word : C, id : Nat, step : {"write"}, rows : R, purge : {p}]
    BY <1>1
  <2>2. same \in [what : A, floor : B, n : B, word : C, id : Nat, step : {"write"}, rows : R, purge : {p}]
    BY <1>1
  <2>3. /\ new.what = e.what /\ new.floor = e.floor /\ new.n = e.n /\ new.word = e.word /\ new.id = e.id /\ new.rows = e.rows
    BY <1>1
  <2>4. /\ same.what = e.what /\ same.floor = e.floor /\ same.n = e.n /\ same.word = e.word /\ same.id = e.id /\ same.rows = e.rows
    BY <1>1
  <2>5. new.step = "write" /\ new.purge = p /\ same.step = "write" /\ same.purge = p
    BY <1>1
  <2> HIDE DEF new, same
  <2>6. new = same
    BY <2>1, <2>2, <2>3, <2>4, <2>5, SameFields
  <2> QED
    BY <2>6 DEF new, same
<1> QED
  BY <1>2, <1>3

LEMMA ChangedFits ==
  ASSUME NEW e, FollowerShape(e), NEW row \in Rows, Concerned(e, row)
  PROVE  Changed(e, row) \in Rows /\ (row.invalid => Changed(e, row).invalid)
<1>1. e.floor \in Nat \ {0} /\ e.n \in Nat \ {0} /\ e.what \in {"deleted", "edited", "swipe_deleted"}
  BY DEF FollowerShape
<1>2. Invalid(row) \in Rows /\ Invalid(row).invalid
  BY DEF Invalid, Rows
<1>3. CASE e.what = "deleted"
  <2>1. Changed(e, row) = IF row.floor < e.floor + e.n THEN Invalid(row) ELSE [row EXCEPT !.floor = row.floor - e.n]
    BY <1>3 DEF Changed, AfterDeletion
  <2>2. ~(row.floor < e.floor + e.n) => row.floor - e.n \in Places
    BY <1>1, <1>3, ReplyBound DEF Concerned, Rows, Places
  <2> QED
    BY <1>2, <2>1, <2>2 DEF Rows
<1>4. CASE e.what = "edited"
  BY <1>2, <1>4 DEF Changed
<1>5. CASE e.what = "swipe_deleted"
  <2>1. Changed(e, row) = IF row.variant = e.n THEN Invalid(row) ELSE [row EXCEPT !.variant = row.variant - 1]
    BY <1>5 DEF Changed, AfterSwipeDeletion
  <2>2. row.variant # e.n => row.variant - 1 \in Places
    BY <1>1, <1>5, ReplyBound DEF Concerned, Rows, Places
  <2> QED
    BY <1>2, <2>1, <2>2 DEF Rows
<1> QED
  BY <1>1, <1>3, <1>4, <1>5

LEMMA EventFits ==
  ASSUME NEW what \in {"deleted", "edited", "swipe_deleted"}, NEW i \in Nat \ {0}, NEW n \in Nat \ {0},
         NEW word \in Words \cup {"none"}, changes \in Nat
  PROVE  FollowerShape(Event(what, i, n, word)) /\ Knows(Event(what, i, n, word))
<1>1. Event(what, i, n, word).rows = << >> /\ DOMAIN Event(what, i, n, word).rows = {}
  BY DEF Event
<1> QED
  BY <1>1 DEF Event, FollowerShape, Knows

\* A change by the user: the chat and one event more.
LEMMA TellStep ==
  ASSUME DetailInv, ChatShape', NEW what \in {"deleted", "edited", "swipe_deleted"}, NEW i \in Nat \ {0},
         NEW n \in Nat \ {0}, NEW word \in Words \cup {"none"}, Tell(Event(what, i, n, word))
  PROVE  DetailInv'
<1> DEFINE event == Event(what, i, n, word)
<1>1. FollowerShape(event) /\ Knows(event)
  BY EventFits DEF DetailInv
<1>2. /\ followers' = followers \cup {event} /\ changes' = changes + 1
      /\ details' = details /\ prompts' = prompts
  BY DEF Tell
<1> HIDE DEF event
<1>3. \A e \in followers' : FollowerShape(e) /\ Knows(e)
  BY <1>1, <1>2 DEF DetailInv
<1>4. \A e \in followers' : Knows(e)'
  BY <1>2, <1>3 DEF Knows
<1> QED
  BY <1>2, <1>3, <1>4 DEF DetailInv, RowsShape, PromptsGoWithDetails

\* Rows only gain versions: what a handler knows stays true of them.
LEMMA KnowsKept ==
  ASSUME NEW e, FollowerShape(e), Knows(e), RowsShape, DOMAIN details \subseteq DOMAIN details',
         \A r \in DOMAIN details : \/ details'[r] = details[r]
                                   \/ details'[r].version \in Nat /\ details'[r].version > details[r].version
  PROVE  Knows(e)'
<1>1. \A r \in DOMAIN e.rows : e.rows[r].version \in Nat /\ r \in DOMAIN details /\ details[r].version \in Nat
  BY DEF FollowerShape, Knows, Rows, RowsShape
<1>2. \A r \in DOMAIN e.rows : details'[r] = details[r] \/ details'[r].version > e.rows[r].version
  BY <1>1 DEF Knows
<1>3. \A r \in DOMAIN e.rows : details'[r].version = e.rows[r].version => details'[r] = details[r]
  BY <1>1, <1>2
<1>4. \A r \in DOMAIN e.rows : details'[r].version >= e.rows[r].version
  BY <1>1, <1>2 DEF Knows
<1> QED
  BY <1>1, <1>3, <1>4 DEF Knows

LEMMA CommitStep ==
  ASSUME DetailInv, CommitDetail
  PROVE  DetailInv'
<1> DEFINE c == Head(commits.queue)
<1>1. c \in Completed /\ commits.queue \in Seq(Completed) /\ commits.queue # << >>
  BY DEF CommitDetail, DetailInv, ChatShape
<1>2. Row(c) \in Rows /\ ~Row(c).invalid /\ c.reply \in Places
  BY <1>1 DEF Row, Rows, Completed
<1>3. UNCHANGED <<replies, followers, changes>>
  BY DEF CommitDetail
<1>4. ChatShape'
  <2>1. CASE commits' = commits
    BY <1>3, <2>1 DEF DetailInv, ChatShape, Made
  <2>2. CASE commits' = [queue |-> Tail(commits.queue), done |-> Append(commits.done, c.reply)]
    <3>1. commits.done \in Seq(Places) /\ Len(commits.queue) \in Nat \ {0}
      BY <1>1 DEF DetailInv, ChatShape
    <3>2. /\ Tail(commits.queue) \in Seq(Completed) /\ Len(Tail(commits.queue)) = Len(commits.queue) - 1
          /\ Append(commits.done, c.reply) \in Seq(Places) /\ Len(Append(commits.done, c.reply)) = Len(commits.done) + 1
      BY <1>1, <1>2, <3>1
    <3> HIDE DEF c
    <3>3. Made' = Made
      <4>1. commits'.queue = Tail(commits.queue) /\ commits'.done = Append(commits.done, c.reply)
        BY <2>2
      <4>2. Len(commits.done) \in Nat
        BY <3>1
      <4>3. Len(commits'.queue) = Len(commits.queue) - 1 /\ Len(commits'.done) = Len(commits.done) + 1
        BY <3>2, <4>1
      <4>4. Len(commits'.done) + Len(commits'.queue) = Len(commits.done) + Len(commits.queue)
        <5>1. PICK x \in Nat : x = Len(commits.done)
          BY <4>2
        <5>2. PICK y \in Nat : y = Len(commits.queue)
          BY <3>1
        <5>3. (x + 1) + (y - 1) = x + y
          OBVIOUS
        <5> QED
          BY <4>3, <5>1, <5>2, <5>3
      <4> QED
        BY <4>4 DEF Made
    <3> QED
      BY <1>3, <2>2, <3>2, <3>3 DEF DetailInv, ChatShape
  <2> QED
    BY <2>1, <2>2 DEF CommitDetail
<1> HIDE DEF c
<1>5. CASE UNCHANGED <<details, prompts>>
  BY <1>3, <1>4, <1>5 DEF DetailInv, RowsShape, Knows, PromptsGoWithDetails
<1>6. CASE /\ c.reply \notin DOMAIN details /\ prompts' = prompts \cup {c.reply}
           /\ details' = [r \in DOMAIN details \cup {c.reply} |-> IF r = c.reply THEN Row(c) ELSE details[r]]
  <2>1. /\ DOMAIN details' = DOMAIN details \cup {c.reply} /\ details'[c.reply] = Row(c)
        /\ \A r \in DOMAIN details : details'[r] = details[r]
    BY <1>6
  <2>2. RowsShape'
    BY <1>2, <1>6, <2>1 DEF DetailInv, RowsShape
  <2>3. PromptsGoWithDetails'
    BY <1>2, <1>6, <2>1 DEF DetailInv, PromptsGoWithDetails
  <2>4. \A e \in followers' : FollowerShape(e) /\ Knows(e)'
    BY <1>3, <2>1, KnowsKept DEF DetailInv
  <2> QED
    BY <1>3, <1>4, <2>2, <2>3, <2>4 DEF DetailInv
<1> QED
  BY <1>5, <1>6 DEF CommitDetail, AlreadyStored, c

\* A handler goes on; nothing else happens.
LEMMA HandlerGoesOn ==
  ASSUME DetailInv, UNCHANGED <<replies, details, prompts, commits, changes>>,
         \A e \in followers' : e \in followers \/ (FollowerShape(e) /\ Knows(e))
  PROVE  DetailInv'
<1>1. \A e \in followers' : FollowerShape(e) /\ Knows(e)
  BY DEF DetailInv
<1> QED
  BY <1>1 DEF DetailInv, ChatShape, Made, RowsShape, PromptsGoWithDetails, Knows

LEMMA ScanStep ==
  ASSUME DetailInv, ScanDetails
  PROVE  DetailInv'
<1>1. PICK e \in followers :
        /\ e.step = "scan"
        /\ LET rows == {r \in DOMAIN details : Concerned(e, details[r])}
           IN  IF rows = {} THEN followers' = followers \ {e}
               ELSE Steps(e, [e EXCEPT !.step = "read", !.rows = [r \in rows |-> details[r]]])
        /\ UNCHANGED <<replies, details, prompts, commits, changes, crossed>>
  BY DEF ScanDetails
<1> DEFINE rows == {r \in DOMAIN details : Concerned(e, details[r])}
           read == [r \in rows |-> details[r]]
           f == [e EXCEPT !.step = "read", !.rows = read]
<1>2. CASE followers' = followers \ {e}
  BY <1>1, <1>2, HandlerGoesOn
<1>3. CASE followers' = (followers \ {e}) \cup {f}
  <2>1. FollowerShape(e) /\ e.purge = {}
    BY <1>1 DEF DetailInv, FollowerShape
  <2>2. read \in [rows -> Rows] /\ DOMAIN read = rows /\ rows \subseteq DOMAIN details
        /\ \A r \in rows : read[r] = details[r] /\ Concerned(e, read[r])
    BY DEF DetailInv, RowsShape
  <2> HIDE DEF read, rows
  <2>0. f = [what |-> e.what, floor |-> e.floor, n |-> e.n, word |-> e.word, id |-> e.id,
             step |-> "read", rows |-> read, purge |-> {}]
    <3>1. f = [what |-> e.what, floor |-> e.floor, n |-> e.n, word |-> e.word, id |-> e.id,
               step |-> "read", rows |-> read, purge |-> e.purge]
      BY <2>1, HandlerFields
    <3> QED
      BY <2>1, <3>1
  <2> HIDE DEF f
  <2>3. /\ f.step = "read" /\ f.rows = read /\ f.purge = {}
        /\ f.what = e.what /\ f.floor = e.floor /\ f.n = e.n /\ f.word = e.word /\ f.id = e.id
    BY <2>0
  <2>4. FollowerShape(f)
    <3>1. \A r \in rows : Concerned(f, read[r])
      <4>1. \A row : Concerned(f, row) <=> Concerned(e, row)
        BY <2>3 DEF Concerned
      <4> QED
        BY <2>2, <4>1
    <3>2. /\ e.what \in {"deleted", "edited", "swipe_deleted"} /\ e.floor \in Nat \ {0} /\ e.n \in Nat \ {0}
          /\ e.word \in Words \cup {"none"} /\ e.id \in Nat
      BY <2>1 DEF FollowerShape
    <3> QED
      BY <2>0, <2>2, <2>3, <3>1, <3>2 DEF FollowerShape
  <2>5. \A r \in rows : details[r].version \in Nat
    BY <2>2 DEF DetailInv, RowsShape, Rows
  <2>6. Knows(f)
    BY <2>2, <2>3, <2>5 DEF Knows
  <2> QED
    BY <1>1, <1>3, <2>4, <2>6, HandlerGoesOn
<1> QED
  BY <1>1, <1>2, <1>3 DEF Steps

LEMMA ReadStep ==
  ASSUME DetailInv, ReadPrompts
  PROVE  DetailInv'
<1>1. PICK e \in followers :
        /\ e.step = "read" /\ Steps(e, [e EXCEPT !.step = "write", !.purge = Purged(e)])
        /\ UNCHANGED <<replies, details, prompts, commits, changes, crossed>>
  BY DEF ReadPrompts
<1> DEFINE f == [e EXCEPT !.step = "write", !.purge = Purged(e)]
<1>2. FollowerShape(e) /\ Knows(e)
  BY DEF DetailInv
<1>3. Purged(e) \subseteq DOMAIN e.rows
  BY DEF Purged
<1>4. f = [what |-> e.what, floor |-> e.floor, n |-> e.n, word |-> e.word, id |-> e.id,
           step |-> "write", rows |-> e.rows, purge |-> Purged(e)]
  BY <1>2, HandlerFields
<1> HIDE DEF f
<1>5. FollowerShape(f)
  <2>1. \A r \in DOMAIN e.rows : Concerned(f, e.rows[r])
    BY <1>2, <1>4 DEF FollowerShape, Concerned
  <2>2. /\ e.what \in {"deleted", "edited", "swipe_deleted"} /\ e.floor \in Nat \ {0} /\ e.n \in Nat \ {0}
        /\ e.word \in Words \cup {"none"} /\ e.id \in Nat /\ e.rows \in [DOMAIN e.rows -> Rows]
    BY <1>2 DEF FollowerShape
  <2> QED
    BY <1>3, <1>4, <2>1, <2>2 DEF FollowerShape
<1>6. \A r \in DOMAIN e.rows : Takes(f, r) <=> Takes(e, r)
  BY <1>4 DEF Takes, Changed, AfterDeletion, AfterSwipeDeletion
\* A row that is as it was read, and not invalid, has its prompt.
<1>7. \A r \in DOMAIN e.rows : details[r].version = e.rows[r].version => (r \in Purged(e) <=> Takes(e, r))
  BY <1>2 DEF DetailInv, PromptsGoWithDetails, Knows, Purged, Takes
<1>8. Knows(f)
  BY <1>2, <1>4, <1>6, <1>7 DEF Knows
<1> QED
  BY <1>1, <1>5, <1>8, HandlerGoesOn DEF Steps, f

LEMMA WriteStep ==
  ASSUME DetailInv, WriteChanges
  PROVE  DetailInv' /\ InvalidatedForGood
<1>1. PICK e \in followers :
        /\ e.step = "write" /\ followers' = followers \ {e}
        /\ IF AsRead(e)
           THEN /\ details' = [r \in DOMAIN details |->
                     IF r \in DOMAIN e.rows
                     THEN [Changed(e, e.rows[r]) EXCEPT !.version = details[r].version + 1] ELSE details[r]]
                /\ prompts' = prompts \ e.purge
           ELSE UNCHANGED <<details, prompts>>
        /\ UNCHANGED <<replies, commits, changes>>
  BY DEF WriteChanges
<1>2. CASE ~AsRead(e)
  <2>1. UNCHANGED <<details, prompts>>
    BY <1>1, <1>2
  <2>2. DetailInv'
    BY <1>1, <2>1, HandlerGoesOn
  <2> QED
    BY <2>1, <2>2 DEF InvalidatedForGood
<1>3. CASE AsRead(e)
  <2>1. FollowerShape(e) /\ Knows(e)
    BY DEF DetailInv
  <2>2. /\ DOMAIN e.rows \subseteq DOMAIN details
        /\ \A r \in DOMAIN e.rows : details[r] = e.rows[r] /\ (r \in e.purge <=> Takes(e, r))
    BY <1>1, <1>3, <2>1 DEF Knows, AsRead
  <2>3. /\ DOMAIN details' = DOMAIN details /\ prompts' = prompts \ e.purge /\ e.purge \subseteq DOMAIN e.rows
        /\ \A r \in DOMAIN details \ DOMAIN e.rows : details'[r] = details[r]
        /\ \A r \in DOMAIN e.rows : details'[r] = [Changed(e, e.rows[r]) EXCEPT !.version = details[r].version + 1]
    BY <1>1, <1>3, <2>1, <2>2 DEF FollowerShape
  <2>4. ASSUME NEW r \in DOMAIN e.rows
        PROVE  /\ details'[r] \in Rows /\ details'[r].version = details[r].version + 1
               /\ details[r].version \in Nat
               /\ details'[r].invalid = Changed(e, e.rows[r]).invalid
               /\ e.rows[r].invalid => details'[r].invalid
    <3>1. e.rows[r] \in Rows /\ Concerned(e, e.rows[r])
      BY <2>1 DEF FollowerShape
    <3>2. Changed(e, e.rows[r]) \in Rows /\ (e.rows[r].invalid => Changed(e, e.rows[r]).invalid)
      BY <2>1, <3>1, ChangedFits
    <3>3. details[r].version \in Nat /\ details[r].version + 1 \in Nat
      BY <2>2, <3>1 DEF Rows
    <3> DEFINE row == Changed(e, e.rows[r])
               new == [row EXCEPT !.version = details[r].version + 1]
    <3>4. details'[r] = new
      BY <2>3
    <3>5. row \in Rows
      BY <3>2
    <3> HIDE DEF row
    <3>6. new \in Rows /\ new.version = details[r].version + 1 /\ new.invalid = row.invalid
      BY <3>3, <3>5 DEF Rows
    <3> HIDE DEF new
    <3>7. details'[r].invalid = Changed(e, e.rows[r]).invalid
      BY <3>4, <3>6 DEF row
    <3>8. e.rows[r].invalid => details'[r].invalid
      BY <3>2, <3>7
    <3>9. details'[r] \in Rows /\ details'[r].version = details[r].version + 1
      BY <3>4, <3>6
    <3> QED
      BY <3>3, <3>7, <3>8, <3>9
  <2>5. RowsShape'
    <3>1. \A r \in DOMAIN details : details'[r] \in Rows
      BY <2>3, <2>4 DEF DetailInv, RowsShape
    <3>2. DOMAIN details' = DOMAIN details /\ details' = [r \in DOMAIN details' |-> details'[r]]
      BY <1>1, <1>3, <2>3
    <3> QED
      BY <3>1, <3>2 DEF DetailInv, RowsShape
  <2>6. \A f \in followers : Knows(f)'
    BY <2>2, <2>3, <2>4, KnowsKept DEF DetailInv
  <2>7. PromptsGoWithDetails'
    <3>1. \A r \in DOMAIN e.rows : ~details'[r].invalid <=> ~details[r].invalid /\ r \notin e.purge
      BY <2>2, <2>4 DEF Takes
    <3> QED
      BY <2>2, <2>3, <3>1 DEF DetailInv, PromptsGoWithDetails
  <2>8. InvalidatedForGood
    BY <2>2, <2>3, <2>4 DEF InvalidatedForGood
  <2>9. ChatShape' /\ changes' \in Nat
    BY <1>1 DEF DetailInv, ChatShape, Made
  <2> QED
    BY <1>1, <2>5, <2>6, <2>7, <2>8, <2>9 DEF DetailInv
<1> QED
  BY <1>2, <1>3

LEMMA DetailInvStep ==
  ASSUME DetailInv, [DetailNext]_detailVars
  PROVE  DetailInv' /\ [InvalidatedForGood]_detailVars
<1>1. CASE UNCHANGED detailVars
  BY <1>1 DEF detailVars, DetailInv, ChatShape, Made, RowsShape, PromptsGoWithDetails, Knows
<1>2. details' = details => InvalidatedForGood
  BY DEF InvalidatedForGood
<1>3. CASE Reply
  <2>1. ChatShape' /\ UNCHANGED <<details, prompts, followers, changes>>
    BY <1>3, ReplyShape DEF DetailInv, Reply
  <2> QED
    BY <1>2, <2>1 DEF DetailInv, RowsShape, PromptsGoWithDetails, Knows
<1>4. CASE CommitDetail
  <2>1. \A r \in DOMAIN details : r \in DOMAIN details' /\ details'[r] = details[r]
    BY <1>4 DEF CommitDetail, AlreadyStored
  <2> QED
    BY <1>4, <2>1, CommitStep DEF InvalidatedForGood
<1>5. CASE DeleteMessages
  <2>1. PICK i \in DOMAIN replies, n \in 1..Len(replies) : Tell(Event("deleted", i, n, "none"))
    BY <1>5 DEF DeleteMessages
  <2>2. i \in Nat \ {0} /\ n \in Nat \ {0}
    BY DEF DetailInv, ChatShape
  <2>3. ChatShape' /\ details' = details
    BY <1>5, <2>1, DeleteMessagesShape DEF DetailInv, Tell
  <2> QED
    BY <1>2, <2>1, <2>2, <2>3, TellStep
<1>6. CASE EditMessage
  <2>1. PICK i \in DOMAIN replies, word \in Words : Tell(Event("edited", i, replies[i].at, word))
    BY <1>6 DEF EditMessage
  <2>2. i \in Nat \ {0} /\ replies[i].at \in Nat \ {0}
    BY OldLengths DEF DetailInv, ChatShape, Entries
  <2>3. ChatShape' /\ details' = details
    BY <1>6, <2>1, EditMessageShape DEF DetailInv, Tell
  <2> QED
    BY <1>2, <2>1, <2>2, <2>3, TellStep
<1>7. CASE DeleteSwipe
  <2>1. PICK i \in DOMAIN replies, v \in 1..MaxReplies : Tell(Event("swipe_deleted", i, v, "none"))
    BY <1>7 DEF DeleteSwipe
  <2>2. i \in Nat \ {0} /\ v \in Nat \ {0}
    BY ReplyBound DEF DetailInv, ChatShape
  <2>3. ChatShape' /\ details' = details
    BY <1>7, <2>1, DeleteSwipeShape DEF DetailInv, Tell
  <2> QED
    BY <1>2, <2>1, <2>2, <2>3, TellStep
<1>8. CASE ScanDetails
  BY <1>2, <1>8, ScanStep DEF ScanDetails
<1>9. CASE ReadPrompts
  BY <1>2, <1>9, ReadStep DEF ReadPrompts
<1>10. CASE WriteChanges
  BY <1>10, WriteStep
<1>11. CASE WriteFails
  <2>1. UNCHANGED <<replies, details, prompts, commits, changes>> /\ followers' \subseteq followers
    BY <1>11 DEF WriteFails
  <2> QED
    BY <1>2, <2>1, HandlerGoesOn
<1> QED
  BY <1>1, <1>3, <1>4, <1>5, <1>6, <1>7, <1>8, <1>9, <1>10, <1>11 DEF DetailNext

LEMMA DetailInvTypes == DetailInv => DetailTypeOK /\ PromptsGoWithDetails
<1> SUFFICES ASSUME DetailInv PROVE DetailTypeOK /\ PromptsGoWithDetails
  OBVIOUS
<1>1. \A i \in DOMAIN replies : replies[i].at \in DOMAIN SwipesOf(i)
  BY DEF DetailInv, ChatShape, SwipesOf
<1>2. DOMAIN details \subseteq 1..MaxReplies
      /\ \A r \in DOMAIN details : details[r].floor \in 1..MaxReplies /\ details[r].variant \in 1..MaxReplies
  BY DEF DetailInv, RowsShape, Rows, Places
<1>3. \A e \in followers : DOMAIN e.rows \subseteq DOMAIN details /\ e.purge \subseteq DOMAIN e.rows
  BY DEF DetailInv, FollowerShape, Knows
<1> QED
  BY <1>1, <1>2, <1>3 DEF DetailInv, DetailTypeOK

(* For any replies and changes by the user: however handlers of events,      *)
(* commits and failures overlap, a prompt is stored exactly as long as its   *)
(* detail may be shown, and a detail that was invalidated never returns      *)
(* (applyGenerationRecallChange, commitMainChatGenerationForScope).          *)
THEOREM DetailsAreKept == DetailSpec => DetailsKept
<1>1. DetailInv /\ [DetailNext]_detailVars => DetailInv' /\ [InvalidatedForGood]_detailVars
  BY DetailInvStep
<1>2. DetailSpec => [](DetailTypeOK /\ PromptsGoWithDetails)
  BY <1>1, ShapeInit, DetailInvTypes, PTL DEF DetailSpec
<1>3. DetailSpec => [][InvalidatedForGood]_detailVars
  BY <1>1, ShapeInit, PTL DEF DetailSpec
<1> QED
  BY <1>2, <1>3 DEF DetailsKept

-----------------------------------------------------------------------------
(* Details follow the chat.                                                  *)

(* A row shows a reply when the reply is at its place, as it was generated.   *)
Shows(row, chat, r) ==
    /\ row.floor \in DOMAIN chat /\ row.variant \in DOMAIN chat[row.floor].swipes
    /\ LET swipe == chat[row.floor].swipes[row.variant]
       IN  ~swipe.edited /\ swipe.reply = r /\ swipe.word = row.word
InStep(chat, rows) ==
    /\ \A i \in DOMAIN chat : \A v \in DOMAIN chat[i].swipes :
          LET swipe == chat[i].swipes[v]
          IN  ~swipe.edited =>
                /\ swipe.reply \in DOMAIN rows
                /\ ~rows[swipe.reply].invalid
                /\ rows[swipe.reply].floor = i /\ rows[swipe.reply].variant = v
                /\ rows[swipe.reply].word = swipe.word
    /\ \A r \in DOMAIN rows : rows[r].invalid \/ Shows(rows[r], chat, r)

(* The rows there will be once the generations that are done are stored, and  *)
(* once an event is followed.                                                 *)
Pending == {Len(commits.done) + k : k \in DOMAIN commits.queue}
Complete == [r \in DOMAIN details \cup Pending |->
                IF r \in DOMAIN details THEN details[r] ELSE Row(commits.queue[r - Len(commits.done)])]
Effect(e) == [r \in DOMAIN details |->
                IF Concerned(e, details[r]) THEN Changed(e, details[r]) ELSE details[r]]
ConcernedRows(e) == [r \in {q \in DOMAIN details : Concerned(e, details[q])} |-> details[r]]

(* Nothing happens at the same time: either everything but the generations    *)
(* to store has been followed, or one event is being.                         *)
Undisturbed ==
    \/ followers = {} /\ InStep(replies, Complete)
    \/ /\ commits.queue = <<>>
       /\ \E e \in followers : /\ followers = {e}
                               /\ InStep(replies, Effect(e))
                               /\ e.step # "scan" => e.rows = ConcernedRows(e)
FollowInv ==
    /\ \A k \in DOMAIN commits.queue : commits.queue[k].reply = Len(commits.done) + k
    /\ DOMAIN details \subseteq 1..Made
    /\ crossed \in BOOLEAN
    /\ ~crossed => Undisturbed

(* What a change makes of the chat and of a row. *)
ChatAfterDeletion(chat, after, l, i, n) ==
    /\ DOMAIN chat = 1..l /\ DOMAIN after = 1..(l - n)
    /\ \A j \in 1..(l - n) : after[j] = IF j < i THEN chat[j] ELSE chat[j + n]
RowAfterDeletion(row, moved, i, n) ==
    /\ row.floor \in Nat
    /\ row.floor < i => moved = row
    /\ row.floor >= i /\ row.floor < i + n => moved.invalid
    /\ row.floor >= i + n =>
         /\ moved.invalid = row.invalid /\ moved.floor = row.floor - n
         /\ moved.variant = row.variant /\ moved.word = row.word
ChatAfterEdit(chat, after, i, v, word) ==
    /\ word # chat[i].swipes[v].word
    /\ DOMAIN after = DOMAIN chat
    /\ \A j \in DOMAIN chat : DOMAIN after[j].swipes = DOMAIN chat[j].swipes
    /\ \A j \in DOMAIN chat : \A u \in DOMAIN chat[j].swipes :
          IF j = i /\ u = v THEN after[j].swipes[u].edited ELSE after[j].swipes[u] = chat[j].swipes[u]
RowAfterEdit(row, moved, i, v, word) ==
    IF ~row.invalid /\ row.floor = i /\ row.variant = v /\ row.word # word
    THEN moved.invalid ELSE moved = row
ChatAfterSwipeDeletion(chat, after, i, m, v) ==
    /\ DOMAIN chat[i].swipes = 1..m
    /\ DOMAIN after = DOMAIN chat /\ \A j \in DOMAIN chat \ {i} : after[j] = chat[j]
    /\ DOMAIN after[i].swipes = 1..(m - 1)
    /\ \A u \in 1..(m - 1) : after[i].swipes[u] = IF u < v THEN chat[i].swipes[u] ELSE chat[i].swipes[u + 1]
RowAfterSwipeDeletion(row, moved, i, v) ==
    /\ row.variant \in Nat
    /\ row.floor # i \/ row.variant < v => moved = row
    /\ row.floor = i /\ row.variant = v => moved.invalid
    /\ row.floor = i /\ row.variant > v =>
         /\ moved.invalid = row.invalid /\ moved.variant = row.variant - 1
         /\ moved.floor = row.floor /\ moved.word = row.word

(* A version does not matter to what a row shows. *)
LEMMA FollowsAlike ==
  ASSUME NEW chat, NEW rows, InStep(chat, rows), NEW other, DOMAIN other = DOMAIN rows,
         \A r \in DOMAIN rows : /\ other[r].invalid = rows[r].invalid /\ other[r].word = rows[r].word
                                /\ other[r].floor = rows[r].floor /\ other[r].variant = rows[r].variant
  PROVE  InStep(chat, other)
BY DEF InStep, Shows

(* A new reply takes the row of its generation along. *)
LEMMA ReplyFollowed ==
  ASSUME NEW chat, NEW rows, InStep(chat, rows), NEW r, r \notin DOMAIN rows, NEW word,
         NEW i, NEW v, NEW after, NEW more,
         DOMAIN after = DOMAIN chat \cup {i},
         \A j \in DOMAIN after \ {i} : after[j] = chat[j],
         DOMAIN after[i].swipes = (IF i \in DOMAIN chat THEN DOMAIN chat[i].swipes ELSE {}) \cup {v},
         i \in DOMAIN chat => v \notin DOMAIN chat[i].swipes,
         after[i].swipes[v] = Swipe(r, word),
         i \in DOMAIN chat => \A u \in DOMAIN chat[i].swipes : after[i].swipes[u] = chat[i].swipes[u],
         DOMAIN more = DOMAIN rows \cup {r},
         \A q \in DOMAIN rows : more[q] = rows[q],
         more[r] = Row([reply |-> r, word |-> word, floor |-> i, variant |-> v])
  PROVE  InStep(after, more)
<1>1. /\ Swipe(r, word).reply = r /\ Swipe(r, word).word = word /\ ~Swipe(r, word).edited
      /\ more[r].floor = i /\ more[r].variant = v /\ more[r].word = word /\ ~more[r].invalid
  BY DEF Swipe, Row
<1>2. ASSUME NEW j \in DOMAIN after, NEW u \in DOMAIN after[j].swipes, ~after[j].swipes[u].edited
      PROVE  LET swipe == after[j].swipes[u]
             IN  /\ swipe.reply \in DOMAIN more /\ ~more[swipe.reply].invalid
                 /\ more[swipe.reply].floor = j /\ more[swipe.reply].variant = u
                 /\ more[swipe.reply].word = swipe.word
  <2>1. CASE j = i /\ u = v
    BY <1>1, <2>1
  <2>2. CASE ~(j = i /\ u = v)
    <3>1. j \in DOMAIN chat /\ u \in DOMAIN chat[j].swipes /\ after[j].swipes[u] = chat[j].swipes[u]
      BY <2>2
    <3> QED
      BY <1>2, <3>1 DEF InStep
  <2> QED
    BY <2>1, <2>2
<1>3. ASSUME NEW q \in DOMAIN more, ~more[q].invalid
      PROVE  Shows(more[q], after, q)
  <2>1. CASE q = r
    BY <1>1, <2>1 DEF Shows
  <2>2. CASE q # r
    <3>1. q \in DOMAIN rows /\ more[q] = rows[q]
      BY <2>2
    <3>2. Shows(rows[q], chat, q)
      BY <1>3, <3>1 DEF InStep
    <3>3. /\ rows[q].floor \in DOMAIN after /\ rows[q].variant \in DOMAIN after[rows[q].floor].swipes
          /\ after[rows[q].floor].swipes[rows[q].variant] = chat[rows[q].floor].swipes[rows[q].variant]
      BY <3>2 DEF Shows
    <3> QED
      BY <3>1, <3>2, <3>3 DEF Shows
  <2> QED
    BY <2>1, <2>2
<1> QED
  BY <1>2, <1>3 DEF InStep

(* Messages are taken out, and the rows behind them move up. *)
LEMMA DeletionFollowed ==
  ASSUME NEW l \in Nat, NEW i \in 1..l, NEW n \in Nat \ {0}, i + n - 1 <= l,
         NEW chat, NEW after, ChatAfterDeletion(chat, after, l, i, n),
         NEW rows, InStep(chat, rows), NEW moved, DOMAIN moved = DOMAIN rows,
         \A r \in DOMAIN rows : RowAfterDeletion(rows[r], moved[r], i, n)
  PROVE  InStep(after, moved)
<1> USE DEF ChatAfterDeletion, RowAfterDeletion
<1>1. ASSUME NEW j \in DOMAIN after, NEW v \in DOMAIN after[j].swipes, ~after[j].swipes[v].edited
      PROVE  LET swipe == after[j].swipes[v]
             IN  /\ swipe.reply \in DOMAIN moved /\ ~moved[swipe.reply].invalid
                 /\ moved[swipe.reply].floor = j /\ moved[swipe.reply].variant = v
                 /\ moved[swipe.reply].word = swipe.word
  <2> DEFINE k == IF j < i THEN j ELSE j + n
             r == after[j].swipes[v].reply
  <2>1. k \in DOMAIN chat /\ after[j] = chat[k]
    OBVIOUS
  <2>2. /\ r \in DOMAIN rows /\ ~rows[r].invalid /\ rows[r].floor = k
        /\ rows[r].variant = v /\ rows[r].word = after[j].swipes[v].word
    BY <1>1, <2>1 DEF InStep
  <2>3. CASE j < i
    BY <2>2, <2>3
  <2>4. CASE ~(j < i)
    <3>1. j \in Int /\ rows[r].floor = j + n /\ rows[r].floor >= i + n
      BY <2>2, <2>4
    <3>2. /\ moved[r].invalid = rows[r].invalid /\ moved[r].floor = rows[r].floor - n
          /\ moved[r].variant = rows[r].variant /\ moved[r].word = rows[r].word
      BY <2>2, <3>1
    <3>3. moved[r].floor = j
      BY <3>1, <3>2
    <3> QED
      BY <2>2, <3>2, <3>3
  <2> QED
    BY <2>3, <2>4
<1>2. ASSUME NEW r \in DOMAIN moved, ~moved[r].invalid
      PROVE  Shows(moved[r], after, r)
  <2> DEFINE k == rows[r].floor
  <2>1. k \in Nat /\ ~(k >= i /\ k < i + n) /\ ~rows[r].invalid
    BY <1>2
  <2>2. Shows(rows[r], chat, r)
    BY <2>1 DEF InStep
  <2>3. k \in 1..l
    BY <2>2 DEF Shows
  <2>4. CASE k < i
    <3>1. moved[r] = rows[r] /\ k \in 1..(l - n) /\ after[k] = chat[k]
      BY <2>3, <2>4
    <3> QED
      BY <2>2, <3>1 DEF Shows
  <2>5. CASE k >= i + n
    <3>1. /\ moved[r].floor = k - n /\ moved[r].variant = rows[r].variant /\ moved[r].word = rows[r].word
      BY <2>5
    <3>2. k - n \in 1..(l - n) /\ ~(k - n < i) /\ k - n + n = k
      BY <2>3, <2>5
    <3>3. after[k - n] = chat[k]
      BY <3>2
    <3> QED
      BY <2>2, <3>1, <3>2, <3>3 DEF Shows
  <2> QED
    BY <2>1, <2>3, <2>4, <2>5
<1> QED
  BY <1>1, <1>2 DEF InStep

(* An edit invalidates the row of the swipe that is shown. *)
LEMMA EditFollowed ==
  ASSUME NEW chat, NEW after, NEW i, NEW v, NEW word, ChatAfterEdit(chat, after, i, v, word),
         NEW rows, InStep(chat, rows), NEW moved, DOMAIN moved = DOMAIN rows,
         \A r \in DOMAIN rows : RowAfterEdit(rows[r], moved[r], i, v, word)
  PROVE  InStep(after, moved)
<1> USE DEF ChatAfterEdit, RowAfterEdit
<1>1. ASSUME NEW j \in DOMAIN after, NEW u \in DOMAIN after[j].swipes, ~after[j].swipes[u].edited
      PROVE  LET swipe == after[j].swipes[u]
             IN  /\ swipe.reply \in DOMAIN moved /\ ~moved[swipe.reply].invalid
                 /\ moved[swipe.reply].floor = j /\ moved[swipe.reply].variant = u
                 /\ moved[swipe.reply].word = swipe.word
  <2> DEFINE r == after[j].swipes[u].reply
  <2>1. ~(j = i /\ u = v) /\ after[j].swipes[u] = chat[j].swipes[u]
    BY <1>1
  <2>2. /\ r \in DOMAIN rows /\ ~rows[r].invalid /\ rows[r].floor = j
        /\ rows[r].variant = u /\ rows[r].word = after[j].swipes[u].word
    BY <1>1, <2>1 DEF InStep
  <2>3. moved[r] = rows[r]
    BY <2>1, <2>2
  <2> QED
    BY <2>2, <2>3
<1>2. ASSUME NEW r \in DOMAIN moved, ~moved[r].invalid
      PROVE  Shows(moved[r], after, r)
  <2>1. moved[r] = rows[r] /\ ~(rows[r].floor = i /\ rows[r].variant = v /\ rows[r].word # word)
    BY <1>2
  <2>2. Shows(rows[r], chat, r)
    BY <1>2, <2>1 DEF InStep
  <2>3. ~(rows[r].floor = i /\ rows[r].variant = v)
    BY <2>1, <2>2 DEF Shows
  <2> QED
    BY <2>1, <2>2, <2>3 DEF Shows
<1> QED
  BY <1>1, <1>2 DEF InStep

(* A swipe is taken out, and the rows of those behind it move up. *)
LEMMA SwipeDeletionFollowed ==
  ASSUME NEW chat, NEW after, NEW i \in DOMAIN chat, NEW m \in Nat, NEW v \in 1..m,
         ChatAfterSwipeDeletion(chat, after, i, m, v),
         NEW rows, InStep(chat, rows), NEW moved, DOMAIN moved = DOMAIN rows,
         \A r \in DOMAIN rows : RowAfterSwipeDeletion(rows[r], moved[r], i, v)
  PROVE  InStep(after, moved)
<1> USE DEF ChatAfterSwipeDeletion, RowAfterSwipeDeletion
<1>1. ASSUME NEW j \in DOMAIN after, NEW u \in DOMAIN after[j].swipes, ~after[j].swipes[u].edited
      PROVE  LET swipe == after[j].swipes[u]
             IN  /\ swipe.reply \in DOMAIN moved /\ ~moved[swipe.reply].invalid
                 /\ moved[swipe.reply].floor = j /\ moved[swipe.reply].variant = u
                 /\ moved[swipe.reply].word = swipe.word
  <2> DEFINE r == after[j].swipes[u].reply
  <2>1. CASE j # i
    <3>1. after[j] = chat[j] /\ j \in DOMAIN chat
      BY <2>1
    <3>2. /\ r \in DOMAIN rows /\ ~rows[r].invalid /\ rows[r].floor = j
          /\ rows[r].variant = u /\ rows[r].word = after[j].swipes[u].word
      BY <1>1, <3>1 DEF InStep
    <3> QED
      BY <2>1, <3>2
  <2>2. CASE j = i
    <3> DEFINE k == IF u < v THEN u ELSE u + 1
    <3>1. u \in 1..(m - 1) /\ k \in 1..m /\ after[i].swipes[u] = chat[i].swipes[k]
      BY <2>2
    <3>2. /\ r \in DOMAIN rows /\ ~rows[r].invalid /\ rows[r].floor = i
          /\ rows[r].variant = k /\ rows[r].word = after[j].swipes[u].word
      <4> HIDE DEF k
      <4>1. k \in DOMAIN chat[i].swipes /\ ~chat[i].swipes[k].edited /\ r = chat[i].swipes[k].reply
        BY <1>1, <2>2, <3>1
      <4>2. /\ r \in DOMAIN rows /\ ~rows[r].invalid /\ rows[r].floor = i
            /\ rows[r].variant = k /\ rows[r].word = chat[i].swipes[k].word
        BY <4>1 DEF InStep
      <4> QED
        BY <2>2, <3>1, <4>2
    <3>3. CASE u < v
      BY <2>2, <3>2, <3>3
    <3>4. CASE ~(u < v)
      <4>1. rows[r].variant = u + 1 /\ rows[r].variant > v
        BY <3>1, <3>2, <3>4
      <4>2. /\ moved[r].invalid = rows[r].invalid /\ moved[r].variant = rows[r].variant - 1
            /\ moved[r].floor = rows[r].floor /\ moved[r].word = rows[r].word
        BY <3>2, <4>1
      <4>3. u + 1 - 1 = u
        BY <3>1
      <4> QED
        BY <2>2, <3>2, <4>1, <4>2, <4>3
    <3> QED
      BY <3>3, <3>4
  <2> QED
    BY <2>1, <2>2
<1>2. ASSUME NEW r \in DOMAIN moved, ~moved[r].invalid
      PROVE  Shows(moved[r], after, r)
  <2> DEFINE k == rows[r].variant
  <2>1. k \in Nat /\ ~(rows[r].floor = i /\ k = v) /\ ~rows[r].invalid
    BY <1>2
  <2>2. Shows(rows[r], chat, r)
    BY <2>1 DEF InStep
  <2>3. CASE rows[r].floor # i
    BY <2>2, <2>3 DEF Shows
  <2>4. CASE rows[r].floor = i /\ k < v
    <3>1. moved[r] = rows[r] /\ k \in 1..(m - 1) /\ after[i].swipes[k] = chat[i].swipes[k]
      BY <2>2, <2>4 DEF Shows
    <3> QED
      BY <2>2, <2>4, <3>1 DEF Shows
  <2>5. CASE rows[r].floor = i /\ k > v
    <3>1. /\ moved[r].variant = k - 1 /\ moved[r].floor = i /\ moved[r].word = rows[r].word
      BY <2>5
    <3>2. k \in 1..m
      BY <2>2, <2>5 DEF Shows
    <3>3. k - 1 \in 1..(m - 1) /\ ~(k - 1 < v) /\ k - 1 + 1 = k
      BY <2>5, <3>2
    <3>4. after[i].swipes[k - 1] = chat[i].swipes[k]
      BY <3>3
    <3> QED
      BY <2>2, <2>5, <3>1, <3>3, <3>4 DEF Shows
  <2> QED
    BY <2>1, <2>3, <2>4, <2>5
<1> QED
  BY <1>1, <1>2 DEF InStep

(* What is left of a sequence is in its order. *)
LEMMA CutPlaces ==
  ASSUME NEW S, NEW members \in Seq(S), NEW i \in 1..Len(members), NEW n \in Nat \ {0}, i + n - 1 <= Len(members),
         NEW rest, rest = Cut(members, i, n)
  PROVE  ChatAfterDeletion(members, rest, Len(members), i, n)
<1> DEFINE before == SubSeq(members, 1, i - 1)
           after == SubSeq(members, i + n, Len(members))
<1>1. before \in Seq(S) /\ Len(before) = i - 1 /\ \A j \in 1..i - 1 : before[j] = members[j]
  OBVIOUS
<1>2. after \in Seq(S) /\ Len(after) = Len(members) - (i + n) + 1
      /\ \A j \in 1..Len(members) - (i + n) + 1 : after[j] = members[i + n + j - 1]
  OBVIOUS
<1>3. rest = before \o after
  BY DEF Cut
<1> HIDE DEF before, after
<1>4. rest \in Seq(S) /\ Len(rest) = Len(members) - n
  BY <1>1, <1>2, <1>3
<1>5. \A j \in 1..Len(members) - n :
         /\ j <= i - 1 => rest[j] = before[j]
         /\ ~(j <= i - 1) => rest[j] = after[j - (i - 1)]
  <2>1. \A j \in 1..Len(members) - n :
           /\ j <= i - 1 => (before \o after)[j] = before[j]
           /\ ~(j <= i - 1) => (before \o after)[j] = after[j - (i - 1)]
    BY <1>1, <1>2, SMTT(30)
  <2> QED
    BY <1>3, <2>1
<1>6. ASSUME NEW j \in 1..(Len(members) - n)
      PROVE  rest[j] = IF j < i THEN members[j] ELSE members[j + n]
  <2>1. CASE j < i
    <3>1. j \in 1..i - 1 /\ j <= i - 1
      BY <2>1
    <3> QED
      BY <1>1, <1>5, <2>1, <3>1
  <2>2. CASE ~(j < i)
    <3> DEFINE k == j - (i - 1)
    <3>1. ~(j <= i - 1) /\ k \in 1..Len(members) - (i + n) + 1 /\ i + n + k - 1 = j + n
      BY <2>2
    <3>2. rest[j] = after[k]
      BY <1>5, <3>1
    <3> HIDE DEF k
    <3> QED
      BY <1>2, <2>2, <3>1, <3>2
  <2> QED
    BY <2>1, <2>2
<1>7. DOMAIN rest = 1..(Len(members) - n)
  BY <1>4
<1>8. DOMAIN members = 1..Len(members)
  OBVIOUS
<1> QED
  BY <1>6, <1>7, <1>8 DEF ChatAfterDeletion

(* A commit, answered or not, changes nothing of what there will be.          *)
LEMMA CommitFollowed ==
  ASSUME DetailInv, FollowInv, CommitDetail
  PROVE  FollowInv'
<1> DEFINE queue == commits.queue
           done == commits.done
           c == Head(queue)
<1>1. /\ queue \in Seq(Completed) /\ queue # <<>> /\ done \in Seq(Places)
      /\ Len(queue) \in Nat \ {0} /\ Len(done) \in Nat
      /\ DOMAIN queue = 1..Len(queue)
  BY DEF CommitDetail, DetailInv, ChatShape
<1>2. UNCHANGED <<replies, followers, changes, crossed>>
  BY DEF CommitDetail
<1>8. Len(done) \in Nat /\ Len(queue) \in Nat \ {0}
  BY <1>1
<1>3. c = queue[1] /\ c.reply = Len(done) + 1 /\ c.reply \in Pending
  BY <1>1 DEF FollowInv, Pending
<1>4. /\ DOMAIN details' \subseteq DOMAIN details \cup {c.reply}
      /\ DOMAIN details \subseteq DOMAIN details'
      /\ \A r \in DOMAIN details : details'[r] = details[r]
      /\ c.reply \in DOMAIN details' \ DOMAIN details => details'[c.reply] = Row(c)
      /\ c.reply \in DOMAIN details'
  BY DEF CommitDetail, AlreadyStored
<1>7. c.reply \in 1..Made
  <2>1. PICK x \in Nat : x = Len(done)
    BY <1>8, Zenon
  <2>2. PICK y \in Nat \ {0} : y = Len(queue)
    BY <1>8, Zenon
  <2>3. Made = x + y /\ c.reply = x + 1
    BY <1>3, <2>1, <2>2 DEF Made
  <2>4. x + 1 \in 1..(x + y)
    OBVIOUS
  <2> QED
    BY <2>3, <2>4
<1>5. CASE commits' = commits
  <2>1. Pending' = Pending /\ Made' = Made
    BY <1>5 DEF Pending, Made
  <2>2. Complete' = Complete
    <3>1. DOMAIN details' \cup Pending = DOMAIN details \cup Pending
      BY <1>3, <1>4
    <3>2. ASSUME NEW r \in DOMAIN details \cup Pending
          PROVE  (IF r \in DOMAIN details' THEN details'[r] ELSE Row(queue[r - Len(done)]))
                 = IF r \in DOMAIN details THEN details[r] ELSE Row(queue[r - Len(done)])
      <4>1. CASE r = c.reply /\ r \notin DOMAIN details
        <5>1. r - Len(done) = 1
          BY <1>1, <1>3, <4>1
        <5> QED
          BY <1>3, <1>4, <4>1, <5>1
      <4>2. CASE ~(r = c.reply /\ r \notin DOMAIN details)
        BY <1>4, <4>2
      <4> QED
        BY <4>1, <4>2
    <3> QED
      BY <1>5, <2>1, <3>1, <3>2 DEF Complete
  <2>3. DOMAIN details' \subseteq 1..Made
    BY <1>4, <1>7 DEF FollowInv
  <2> QED
    BY <1>1, <1>2, <1>5, <2>1, <2>2, <2>3 DEF FollowInv, Undisturbed
<1>6. CASE commits' = [queue |-> Tail(queue), done |-> Append(done, c.reply)]
  <2>1. /\ commits'.queue = Tail(queue) /\ commits'.done = Append(done, c.reply)
        /\ Len(commits'.done) = Len(done) + 1 /\ DOMAIN commits'.queue = 1..(Len(queue) - 1)
        /\ Len(commits'.queue) = Len(queue) - 1
        /\ \A k \in 1..(Len(queue) - 1) : commits'.queue[k] = queue[k + 1]
    <3>1. /\ Tail(queue) \in Seq(Completed) /\ Len(Tail(queue)) = Len(queue) - 1
          /\ \A k \in 1..(Len(queue) - 1) : Tail(queue)[k] = queue[k + 1]
      BY <1>1
    <3>2. Len(Append(done, c.reply)) = Len(done) + 1
      BY <1>1
    <3> HIDE DEF queue, done, c
    <3> QED
      BY <1>6, <3>1, <3>2
  <2> HIDE DEF queue, done
  <2>2. Made' = Made
    <3>1. PICK x \in Nat : x = Len(done)
      BY <1>8, Zenon
    <3>2. PICK y \in Nat \ {0} : y = Len(queue)
      BY <1>8, Zenon
    <3>3. Made = x + y
      BY <3>1, <3>2 DEF Made, queue, done
    <3>4. Made' = (x + 1) + (y - 1)
      BY <2>1, <3>1, <3>2 DEF Made
    <3>5. (x + 1) + (y - 1) = x + y
      OBVIOUS
    <3> QED
      BY <3>3, <3>4, <3>5
  <2>3. \A k \in DOMAIN commits'.queue : commits'.queue[k].reply = Len(commits'.done) + k
    <3> SUFFICES ASSUME NEW k \in 1..(Len(queue) - 1)
                 PROVE  commits'.queue[k].reply = Len(done) + 1 + k
      BY <2>1
    <3>1. k + 1 \in DOMAIN queue /\ k + 1 \in Nat
      BY <1>1
    <3>2. queue[k + 1].reply = Len(done) + (k + 1)
      BY <3>1 DEF FollowInv, queue, done
    <3>3. Len(done) + (k + 1) = Len(done) + 1 + k
      BY <1>1, <3>1
    <3> QED
      BY <2>1, <3>2, <3>3
  <2>4. Pending = Pending' \cup {c.reply}
    <3>1. Pending = {Len(done) + k : k \in 1..Len(queue)}
      BY <1>1 DEF Pending, queue, done
    <3>2. Pending' = {Len(done) + 1 + k : k \in 1..(Len(queue) - 1)}
      BY <2>1 DEF Pending
    <3> HIDE DEF c
    <3>3. ASSUME NEW r \in Pending PROVE r = c.reply \/ r \in Pending'
      <4>1. PICK k \in 1..Len(queue) : r = Len(done) + k
        BY <3>1
      <4>2. CASE k = 1
        BY <1>3, <4>1, <4>2
      <4>3. CASE k # 1
        <5>1. k - 1 \in 1..(Len(queue) - 1) /\ r = Len(done) + 1 + (k - 1)
          BY <1>1, <4>1, <4>3
        <5> QED
          BY <3>2, <5>1
      <4> QED
        BY <4>2, <4>3
    <3>4. ASSUME NEW r \in Pending' PROVE r \in Pending
      <4>1. PICK k \in 1..(Len(queue) - 1) : r = Len(done) + 1 + k
        BY <3>2
      <4>2. k + 1 \in 1..Len(queue) /\ r = Len(done) + (k + 1)
        BY <1>1, <4>1
      <4> QED
        BY <3>1, <4>2
    <3> QED
      BY <1>3, <3>3, <3>4
  <2>5. Complete' = Complete
    <3>1. DOMAIN details' \cup Pending' = DOMAIN details \cup Pending
      BY <1>4, <2>4
    <3>2. ASSUME NEW r \in DOMAIN details \cup Pending
          PROVE  (IF r \in DOMAIN details' THEN details'[r] ELSE Row(commits'.queue[r - Len(commits'.done)]))
                 = IF r \in DOMAIN details THEN details[r] ELSE Row(queue[r - Len(done)])
      <4>1. CASE r = c.reply /\ r \notin DOMAIN details
        <5>1. r - Len(done) = 1
          BY <1>1, <1>3, <4>1
        <5> QED
          BY <1>3, <1>4, <4>1, <5>1
      <4>2. CASE r \in DOMAIN details
        BY <1>4, <4>2
      <4>3. CASE r # c.reply /\ r \notin DOMAIN details
        <5>1. r \in Pending' /\ r \notin DOMAIN details'
          BY <1>4, <2>4, <4>3
        <5>2. PICK k \in 1..(Len(queue) - 1) : r = Len(done) + 1 + k
          BY <2>1, <5>1 DEF Pending
        <5>3. r - Len(commits'.done) = k /\ r - Len(done) = k + 1
          BY <1>1, <2>1, <5>2
        <5> QED
          BY <2>1, <4>3, <5>1, <5>3
      <4> QED
        BY <4>1, <4>2, <4>3
    <3> QED
      BY <3>1, <3>2 DEF Complete, queue, done
  <2>6. DOMAIN details' \subseteq 1..Made
    BY <1>4, <1>7, <2>2 DEF FollowInv
  <2>7. ~crossed => Undisturbed'
    BY <1>1, <1>2, <2>5 DEF FollowInv, Undisturbed, queue
  <2> QED
    BY <1>2, <2>2, <2>3, <2>6, <2>7 DEF FollowInv
<1> QED
  BY <1>5, <1>6 DEF CommitDetail

(* A reply brings one more pending row. *)
LEMMA ReplyKeepsFollowing ==
  ASSUME DetailInv, FollowInv, Reply
  PROVE  FollowInv'
<1>1. PICK word \in Words, again \in BOOLEAN :
        /\ again => replies # << >>
        /\ replies' = IF again
                      THEN [replies EXCEPT ![Len(replies)] =
                              [swipes |-> Append(@.swipes, Swipe(Made + 1, word)), at |-> Len(@.swipes) + 1]]
                      ELSE Append(replies, [swipes |-> <<Swipe(Made + 1, word)>>, at |-> 1])
        /\ commits' = [commits EXCEPT !.queue = Append(@,
              [reply |-> Made + 1, word |-> word, floor |-> Len(replies'), variant |-> replies'[Len(replies')].at])]
        /\ crossed' = (crossed \/ followers # {})
        /\ UNCHANGED <<details, prompts, followers, changes>>
  BY DEF Reply
<1> DEFINE queue == commits.queue
           done == commits.done
           i == Len(replies')
           v == replies'[i].at
           c == [reply |-> Made + 1, word |-> word, floor |-> i, variant |-> v]
<1>2. /\ queue \in Seq(Completed) /\ done \in Seq(Places) /\ Len(queue) \in Nat /\ Len(done) \in Nat
      /\ DOMAIN queue = 1..Len(queue) /\ replies \in Seq(Entries) /\ Len(replies) \in Nat
      /\ commits \in [queue : Seq(Completed), done : Seq(Places)]
  BY DEF DetailInv, ChatShape
<1>3. /\ commits'.queue = Append(queue, c) /\ commits'.done = done
      /\ Len(commits'.queue) = Len(queue) + 1 /\ commits'.queue[Len(queue) + 1] = c
      /\ DOMAIN commits'.queue = 1..(Len(queue) + 1)
      /\ \A k \in 1..Len(queue) : commits'.queue[k] = queue[k]
  <2>1. commits'.queue = Append(queue, c) /\ commits'.done = done
    BY <1>1, <1>2
  <2>2. Append(queue, c) \in Seq(Completed \cup {c})
    BY <1>2
  <2> HIDE DEF queue, c
  <2>3. Len(Append(queue, c)) = Len(queue) + 1 /\ Append(queue, c)[Len(queue) + 1] = c
        /\ DOMAIN Append(queue, c) = 1..(Len(queue) + 1)
        /\ \A k \in 1..Len(queue) : Append(queue, c)[k] = queue[k]
    BY <1>2
  <2> QED
    BY <2>1, <2>3
<1>4. Made = Len(done) + Len(queue) /\ Made \in Nat /\ Made' = Made + 1
  BY <1>2, <1>3 DEF Made
<1>5. Pending = {Len(done) + k : k \in 1..Len(queue)}
  BY <1>2 DEF Pending
<1>6. Pending' = {Len(done) + k : k \in 1..(Len(queue) + 1)}
  BY <1>3 DEF Pending
<1> HIDE DEF queue, done, i, v
<1>7. Made + 1 \notin Pending /\ Pending' = Pending \cup {Made + 1} /\ Pending \subseteq 1..Made
  <2>1. \A k \in 1..Len(queue) : Len(done) + k \in 1..Made
    BY <1>2, <1>4
  <2>2. Len(done) + (Len(queue) + 1) = Made + 1 /\ Len(queue) + 1 \in 1..(Len(queue) + 1)
    BY <1>2, <1>4
  <2>3. \A k \in 1..(Len(queue) + 1) : k \in 1..Len(queue) \/ k = Len(queue) + 1
    BY <1>2
  <2>4. 1..Len(queue) \subseteq 1..(Len(queue) + 1)
    BY <1>2
  <2>5. Pending \subseteq 1..Made
    BY <1>5, <2>1
  <2>6. Made + 1 \notin 1..Made
    BY <1>4
  <2>7. Pending' = Pending \cup {Made + 1}
    <3>1. Pending' \subseteq Pending \cup {Made + 1}
      BY <1>5, <1>6, <2>2, <2>3
    <3>2. Pending \subseteq Pending'
      BY <1>5, <1>6, <2>4
    <3>3. Made + 1 \in Pending'
      BY <1>6, <2>2
    <3> QED
      BY <3>1, <3>2, <3>3
  <2> QED
    BY <2>5, <2>6, <2>7
<1>8. \A k \in DOMAIN commits'.queue : commits'.queue[k].reply = Len(commits'.done) + k
  <2> SUFFICES ASSUME NEW k \in 1..(Len(queue) + 1)
               PROVE  commits'.queue[k].reply = Len(done) + k
    BY <1>3
  <2>1. CASE k = Len(queue) + 1
    BY <1>2, <1>3, <1>4, <2>1
  <2>2. CASE k # Len(queue) + 1
    <3>1. k \in 1..Len(queue)
      BY <1>2, <2>2
    <3> QED
      BY <1>2, <1>3, <3>1 DEF FollowInv, queue, done
  <2> QED
    BY <2>1, <2>2
<1>9. Made + 1 \notin DOMAIN details /\ DOMAIN details' \subseteq 1..Made'
  BY <1>1, <1>4 DEF FollowInv
<1>10. /\ DOMAIN Complete' = DOMAIN Complete \cup {Made + 1}
       /\ \A r \in DOMAIN Complete : Complete'[r] = Complete[r]
       /\ Complete'[Made + 1] = Row(c)
       /\ Made + 1 \notin DOMAIN Complete
  <2> DEFINE before == [r \in DOMAIN details \cup Pending |->
                          IF r \in DOMAIN details THEN details[r] ELSE Row(queue[r - Len(done)])]
             after == [r \in DOMAIN details \cup Pending' |->
                          IF r \in DOMAIN details THEN details[r] ELSE Row(commits'.queue[r - Len(done)])]
  <2>1. Complete = before /\ Complete' = after
    <3>1. Complete = before
      BY DEF Complete, queue, done
    <3>2. details' = details /\ commits'.done = done
      BY <1>1, <1>3
    <3> QED
      BY <3>1, <3>2, Zenon DEF Complete
  <2>2. ASSUME NEW r \in Pending, r \notin DOMAIN details
        PROVE  commits'.queue[r - Len(done)] = queue[r - Len(done)]
    <3>1. PICK k \in 1..Len(queue) : r = Len(done) + k
      BY <1>5
    <3>2. r - Len(done) = k
      BY <1>2, <3>1
    <3> QED
      BY <1>3, <3>1, <3>2
  <2>3. (Made + 1) - Len(done) = Len(queue) + 1
    BY <1>2, <1>4
  <2>4. \A r \in DOMAIN before : after[r] = before[r]
    BY <1>7, <2>2
  <2>5. after[Made + 1] = Row(c)
    BY <1>3, <1>7, <1>9, <2>3
  <2>6. DOMAIN after = DOMAIN before \cup {Made + 1} /\ Made + 1 \notin DOMAIN before
    BY <1>7, <1>9
  <2> HIDE DEF before, after
  <2> QED
    BY <2>1, <2>4, <2>5, <2>6
<1>11. /\ DOMAIN replies' = DOMAIN replies \cup {i}
       /\ \A j \in DOMAIN replies' \ {i} : replies'[j] = replies[j]
       /\ DOMAIN replies'[i].swipes = (IF i \in DOMAIN replies THEN DOMAIN replies[i].swipes ELSE {}) \cup {v}
       /\ i \in DOMAIN replies => v \notin DOMAIN replies[i].swipes
       /\ replies'[i].swipes[v] = Swipe(Made + 1, word)
       /\ i \in DOMAIN replies => \A u \in DOMAIN replies[i].swipes : replies'[i].swipes[u] = replies[i].swipes[u]
  <2>1. CASE again
    <3> DEFINE last == Len(replies)
               old == replies[last].swipes
               new == Append(old, Swipe(Made + 1, word))
               entry == [swipes |-> new, at |-> Len(old) + 1]
    <3>1. last \in 1..Len(replies) /\ DOMAIN replies = 1..Len(replies)
      BY <1>1, <1>2, <2>1
    <3>2. replies' = [replies EXCEPT ![last] = entry] /\ Len(replies') = last
      BY <1>1, <1>2, <2>1
    <3>3. i = last /\ replies'[i] = entry /\ v = Len(old) + 1 /\ DOMAIN replies' = DOMAIN replies
      BY <3>1, <3>2 DEF i, v
    <3>4. old \in Seq(Swipes)
      <4>1. replies[last] \in Entries
        BY <1>2, <3>1
      <4> QED
        BY <4>1 DEF Entries
    <3> HIDE DEF old
    <3>5. /\ DOMAIN new = 1..(Len(old) + 1) /\ DOMAIN old = 1..Len(old) /\ Len(old) \in Nat
          /\ new[Len(old) + 1] = Swipe(Made + 1, word) /\ \A u \in 1..Len(old) : new[u] = old[u]
      BY <3>4
    <3>6. 1..(Len(old) + 1) = (1..Len(old)) \cup {Len(old) + 1} /\ Len(old) + 1 \notin 1..Len(old)
      BY <3>5
    <3>7. replies'[i].swipes = new /\ replies[i].swipes = old
      BY <3>3 DEF old
    <3>8. \A j \in DOMAIN replies' \ {i} : replies'[j] = replies[j]
      BY <3>2, <3>3
    <3> HIDE DEF new, last
    <3> QED
      BY <3>1, <3>3, <3>5, <3>6, <3>7, <3>8
  <2>2. CASE ~again
    <3> DEFINE entry == [swipes |-> <<Swipe(Made + 1, word)>>, at |-> 1]
    <3>1. replies' = Append(replies, entry)
      BY <1>1, <2>2
    <3> HIDE DEF entry
    <3>2. Len(replies') = Len(replies) + 1 /\ DOMAIN replies' = 1..(Len(replies) + 1) /\ DOMAIN replies = 1..Len(replies)
          /\ replies'[Len(replies) + 1] = entry /\ \A j \in 1..Len(replies) : replies'[j] = replies[j]
      BY <1>2, <3>1
    <3>3. i = Len(replies) + 1 /\ replies'[i] = entry /\ i \notin DOMAIN replies
      BY <1>2, <3>2 DEF i
    <3>4. 1..(Len(replies) + 1) = (1..Len(replies)) \cup {Len(replies) + 1}
      BY <1>2
    <3>5. v = 1 /\ replies'[i].swipes = <<Swipe(Made + 1, word)>>
      BY <3>3 DEF v, entry
    <3>6. DOMAIN <<Swipe(Made + 1, word)>> = {1} /\ <<Swipe(Made + 1, word)>>[1] = Swipe(Made + 1, word)
      OBVIOUS
    <3> QED
      BY <3>2, <3>3, <3>4, <3>5, <3>6
  <2> QED
    BY <2>1, <2>2
<1>12. ~crossed' => Undisturbed'
  <2> SUFFICES ASSUME ~crossed' PROVE Undisturbed'
    OBVIOUS
  <2>1. ~crossed /\ followers = {} /\ followers' = {}
    BY <1>1
  <2>2. InStep(replies, Complete)
    BY <2>1 DEF FollowInv, Undisturbed
  <2>3. InStep(replies', Complete')
    BY <1>10, <1>11, <2>2, ReplyFollowed DEF c
  <2> QED
    BY <2>1, <2>3 DEF Undisturbed
<1> QED
  BY <1>1, <1>8, <1>9, <1>12 DEF FollowInv

LEMMA NothingPending ==
  ASSUME DetailInv, commits.queue = <<>>
  PROVE  Complete = details
<1>1. DOMAIN commits.queue = {}
  OBVIOUS
<1>2. Pending = {}
  BY <1>1 DEF Pending
<1>3. details = [r \in DOMAIN details |-> details[r]]
  BY DEF DetailInv, RowsShape
<1> QED
  BY <1>2, <1>3 DEF Complete

(* A change with nothing else going on: its event is the one to be followed.  *)
LEMMA ToldFollowed ==
  ASSUME DetailInv, FollowInv, NEW e, Tell(e), e.step = "scan",
         InStep(replies, details) => InStep(replies', Effect(e))
  PROVE  FollowInv'
<1>1. /\ followers' = followers \cup {e} /\ details' = details /\ commits' = commits
      /\ crossed' = (crossed \/ followers # {} \/ commits.queue # <<>>)
  BY DEF Tell
<1>2. Made' = Made
  BY <1>1 DEF Made
<1>3. ASSUME ~crossed' PROVE Undisturbed'
  <2>1. ~crossed /\ followers = {} /\ commits.queue = <<>> /\ followers' = {e}
    BY <1>1, <1>3
  <2>2. InStep(replies, details)
    BY <2>1, NothingPending DEF FollowInv, Undisturbed
  <2>3. Effect(e)' = Effect(e)
    BY <1>1 DEF Effect
  <2> QED
    BY <1>1, <2>1, <2>2, <2>3 DEF Undisturbed
<1> QED
  BY <1>1, <1>2, <1>3 DEF FollowInv

LEMMA DeletionOfRow ==
  ASSUME NEW i \in Nat, NEW n \in Nat, NEW row \in Rows, NEW e, e = Event("deleted", i, n, "none"),
         NEW moved, moved = IF Concerned(e, row) THEN Changed(e, row) ELSE row
  PROVE  RowAfterDeletion(row, moved, i, n)
<1> USE DEF RowAfterDeletion
<1>1. e.what = "deleted" /\ e.floor = i /\ e.n = n
  BY DEF Event
<1>2. Concerned(e, row) <=> row.floor >= i
  BY <1>1 DEF Concerned
<1> DEFINE up == [row EXCEPT !.floor = row.floor - n]
<1>3. Changed(e, row) = IF row.floor < i + n THEN Invalid(row) ELSE up
  BY <1>1 DEF Changed, AfterDeletion
<1>4. row.floor \in Nat
  BY ReplyBound DEF Rows, Places
<1>5. Invalid(row).invalid
  BY DEF Invalid, Rows
<1>6. /\ up.invalid = row.invalid
      /\ up.floor = row.floor - n
      /\ up.variant = row.variant
      /\ up.word = row.word
  BY DEF Rows
<1> HIDE DEF up
<1>7. CASE row.floor < i
  BY <1>2, <1>4, <1>7
<1>8. CASE row.floor >= i /\ row.floor < i + n
  <2>1. moved = Invalid(row)
    BY <1>2, <1>3, <1>8
  <2> QED
    BY <1>4, <1>5, <1>8, <2>1
<1>9. CASE row.floor >= i + n
  <2>1. moved = up
    BY <1>2, <1>3, <1>4, <1>9
  <2> QED
    BY <1>4, <1>6, <1>9, <2>1
<1> QED
  BY <1>4, <1>7, <1>8, <1>9

LEMMA EditOfRow ==
  ASSUME NEW i, NEW v, NEW word, NEW row \in Rows, NEW e, e = Event("edited", i, v, word),
         NEW moved, moved = IF Concerned(e, row) THEN Changed(e, row) ELSE row
  PROVE  RowAfterEdit(row, moved, i, v, word)
<1> USE DEF RowAfterEdit
<1>1. e.what = "edited" /\ e.floor = i /\ e.n = v /\ e.word = word
  BY DEF Event
<1>2. Concerned(e, row) <=> ~row.invalid /\ row.floor = i /\ row.variant = v /\ row.word # word
  BY <1>1 DEF Concerned
<1>3. Changed(e, row) = Invalid(row)
  BY <1>1 DEF Changed
<1>4. Invalid(row).invalid
  BY DEF Invalid, Rows
<1> QED
  BY <1>2, <1>3, <1>4

LEMMA SwipeDeletionOfRow ==
  ASSUME NEW i, NEW v \in Nat, NEW row \in Rows, NEW e, e = Event("swipe_deleted", i, v, "none"),
         NEW moved, moved = IF Concerned(e, row) THEN Changed(e, row) ELSE row
  PROVE  RowAfterSwipeDeletion(row, moved, i, v)
<1> USE DEF RowAfterSwipeDeletion
<1>1. e.what = "swipe_deleted" /\ e.floor = i /\ e.n = v
  BY DEF Event
<1>2. Concerned(e, row) <=> row.floor = i /\ row.variant >= v
  BY <1>1 DEF Concerned
<1> DEFINE up == [row EXCEPT !.variant = row.variant - 1]
<1>3. Changed(e, row) = IF row.variant = v THEN Invalid(row) ELSE up
  BY <1>1 DEF Changed, AfterSwipeDeletion
<1>4. row.variant \in Nat
  BY ReplyBound DEF Rows, Places
<1>5. Invalid(row).invalid
  BY DEF Invalid, Rows
<1>6. /\ up.invalid = row.invalid
      /\ up.variant = row.variant - 1
      /\ up.floor = row.floor
      /\ up.word = row.word
  BY DEF Rows
<1> HIDE DEF up
<1>7. CASE row.floor # i \/ row.variant < v
  BY <1>2, <1>4, <1>7
<1>8. CASE row.floor = i /\ row.variant = v
  BY <1>2, <1>3, <1>4, <1>5, <1>8
<1>9. CASE row.floor = i /\ row.variant > v
  <2>1. moved = up
    BY <1>2, <1>3, <1>4, <1>9
  <2> QED
    BY <1>4, <1>6, <1>9, <2>1
<1> QED
  BY <1>4, <1>7, <1>8, <1>9

LEMMA RowsOfDetails ==
  ASSUME DetailInv
  PROVE  \A r \in DOMAIN details : details[r] \in Rows /\ details[r].floor \in Nat /\ details[r].variant \in Nat
BY ReplyBound DEF DetailInv, RowsShape, Rows, Places

LEMMA DeleteMessagesFollowed ==
  ASSUME DetailInv, FollowInv, DeleteMessages
  PROVE  FollowInv'
<1>1. PICK i \in DOMAIN replies, n \in 1..Len(replies) :
        i + n - 1 <= Len(replies) /\ replies' = Cut(replies, i, n) /\ Tell(Event("deleted", i, n, "none"))
  BY DEF DeleteMessages
<1> DEFINE e == Event("deleted", i, n, "none")
<1>2. replies \in Seq(Entries) /\ Len(replies) \in Nat /\ DOMAIN replies = 1..Len(replies)
      /\ i \in 1..Len(replies) /\ n \in Nat \ {0}
  BY DEF DetailInv, ChatShape
<1>3. replies' = Cut(replies, i, n) /\ i + n - 1 <= Len(replies)
  BY <1>1
<1>4. ChatAfterDeletion(replies, replies', Len(replies), i, n)
  BY <1>2, <1>3, CutPlaces
<1>5. \A r \in DOMAIN details : RowAfterDeletion(details[r], Effect(e)[r], i, n)
  <2> SUFFICES ASSUME NEW r \in DOMAIN details PROVE RowAfterDeletion(details[r], Effect(e)[r], i, n)
    OBVIOUS
  <2>1. Effect(e)[r] = IF Concerned(e, details[r]) THEN Changed(e, details[r]) ELSE details[r]
    BY DEF Effect
  <2>2. details[r] \in Rows /\ i \in Nat /\ n \in Nat
    BY <1>2, RowsOfDetails
  <2> QED
    BY <2>1, <2>2, DeletionOfRow
<1>6. DOMAIN Effect(e) = DOMAIN details /\ e.step = "scan"
  BY DEF Effect, Event
<1>7. Tell(e) /\ i + n - 1 <= Len(replies)
  BY <1>1
<1> HIDE DEF e
<1>8. InStep(replies, details) => InStep(replies', Effect(e))
  BY <1>2, <1>4, <1>5, <1>6, <1>7, DeletionFollowed
<1> QED
  BY <1>6, <1>7, <1>8, ToldFollowed

LEMMA EditMessageFollowed ==
  ASSUME DetailInv, FollowInv, EditMessage
  PROVE  FollowInv'
<1>1. PICK i \in DOMAIN replies, word \in Words :
        /\ word # replies[i].swipes[replies[i].at].word
        /\ replies' = [replies EXCEPT ![i].swipes[replies[i].at] = [@ EXCEPT !.word = word, !.edited = TRUE]]
        /\ Tell(Event("edited", i, replies[i].at, word))
  BY DEF EditMessage, SwipesOf
<1> DEFINE v == replies[i].at
           e == Event("edited", i, v, word)
           old == replies[i].swipes
           swipe == [old[v] EXCEPT !.word = word, !.edited = TRUE]
           new == [old EXCEPT ![v] = swipe]
<1>2. replies[i] \in Entries /\ v \in DOMAIN old /\ replies \in Seq(Entries)
  BY OldLengths DEF DetailInv, ChatShape
<1>3. old \in Seq(Swipes) /\ old[v] \in Swipes
  BY <1>2 DEF Entries
<1>4. swipe.edited
  BY <1>3 DEF Swipes
<1>5. /\ DOMAIN new = DOMAIN old /\ new[v] = swipe
      /\ \A u \in DOMAIN old \ {v} : new[u] = old[u]
  BY <1>2
<1>6. replies' = [replies EXCEPT ![i] = [replies[i] EXCEPT !.swipes = new]]
  BY <1>1
<1>7. /\ DOMAIN replies' = DOMAIN replies /\ replies'[i] = [replies[i] EXCEPT !.swipes = new]
      /\ \A j \in DOMAIN replies \ {i} : replies'[j] = replies[j]
  BY <1>2, <1>6
<1>8. replies'[i].swipes = new
  BY <1>2, <1>7 DEF Entries
<1>9. word # old[v].word
  BY <1>1
<1>10. ChatAfterEdit(replies, replies', i, v, word)
  <2> HIDE DEF swipe, new
  <2> QED
    BY <1>4, <1>5, <1>7, <1>8, <1>9 DEF ChatAfterEdit
<1>11. \A r \in DOMAIN details : RowAfterEdit(details[r], Effect(e)[r], i, v, word)
  <2> SUFFICES ASSUME NEW r \in DOMAIN details PROVE RowAfterEdit(details[r], Effect(e)[r], i, v, word)
    OBVIOUS
  <2>1. Effect(e)[r] = IF Concerned(e, details[r]) THEN Changed(e, details[r]) ELSE details[r]
    BY DEF Effect
  <2>2. details[r] \in Rows
    BY RowsOfDetails
  <2> QED
    BY <2>1, <2>2, EditOfRow
<1>12. DOMAIN Effect(e) = DOMAIN details /\ e.step = "scan" /\ Tell(e)
  BY <1>1 DEF Effect, Event
<1> HIDE DEF e, v
<1>13. InStep(replies, details) => InStep(replies', Effect(e))
  BY <1>10, <1>11, <1>12, EditFollowed
<1> QED
  BY <1>12, <1>13, ToldFollowed

LEMMA DeleteSwipeFollowed ==
  ASSUME DetailInv, FollowInv, DeleteSwipe
  PROVE  FollowInv'
<1>1. PICK i \in DOMAIN replies, v \in 1..MaxReplies :
        /\ v \in DOMAIN replies[i].swipes
        /\ replies' = [replies EXCEPT ![i] =
              [swipes |-> Cut(@.swipes, v, 1), at |-> IF v = Len(@.swipes) THEN v - 1 ELSE v]]
        /\ Tell(Event("swipe_deleted", i, v, "none"))
  BY DEF DeleteSwipe, SwipesOf
<1> DEFINE e == Event("swipe_deleted", i, v, "none")
           old == replies[i].swipes
           m == Len(old)
           entry == [swipes |-> Cut(old, v, 1), at |-> IF v = m THEN v - 1 ELSE v]
<1>2. replies[i] \in Entries /\ replies \in Seq(Entries)
  BY OldLengths DEF DetailInv, ChatShape
<1>3. old \in Seq(Swipes) /\ m \in Nat /\ DOMAIN old = 1..m /\ v \in 1..m
  BY <1>1, <1>2 DEF Entries
<1>4. /\ DOMAIN Cut(old, v, 1) = 1..(m - 1)
      /\ \A u \in 1..(m - 1) : Cut(old, v, 1)[u] = IF u < v THEN old[u] ELSE old[u + 1]
  <2> HIDE DEF old
  <2>1. v + 1 - 1 <= Len(old) /\ 1 \in Nat \ {0}
    BY <1>3
  <2>2. ChatAfterDeletion(old, Cut(old, v, 1), Len(old), v, 1)
    BY <1>3, <2>1, CutPlaces
  <2> QED
    BY <2>2 DEF ChatAfterDeletion
<1>5. replies' = [replies EXCEPT ![i] = entry]
  BY <1>1
<1> HIDE DEF entry
<1>6. /\ DOMAIN replies' = DOMAIN replies /\ replies'[i] = entry
      /\ \A j \in DOMAIN replies \ {i} : replies'[j] = replies[j]
  BY <1>2, <1>5
<1>7. replies'[i].swipes = Cut(old, v, 1)
  BY <1>6 DEF entry
<1>8. ChatAfterSwipeDeletion(replies, replies', i, m, v)
  <2> HIDE DEF m
  <2> QED
    BY <1>3, <1>4, <1>6, <1>7 DEF ChatAfterSwipeDeletion
<1>9. \A r \in DOMAIN details : RowAfterSwipeDeletion(details[r], Effect(e)[r], i, v)
  <2> SUFFICES ASSUME NEW r \in DOMAIN details PROVE RowAfterSwipeDeletion(details[r], Effect(e)[r], i, v)
    OBVIOUS
  <2>1. Effect(e)[r] = IF Concerned(e, details[r]) THEN Changed(e, details[r]) ELSE details[r]
    BY DEF Effect
  <2>2. details[r] \in Rows /\ v \in Nat
    BY <1>3, RowsOfDetails
  <2> QED
    BY <2>1, <2>2, SwipeDeletionOfRow
<1>10. DOMAIN Effect(e) = DOMAIN details /\ e.step = "scan" /\ Tell(e)
  BY <1>1 DEF Effect, Event
<1> HIDE DEF e, m
<1>11. InStep(replies, details) => InStep(replies', Effect(e))
  BY <1>3, <1>8, <1>9, <1>10, SwipeDeletionFollowed
<1> QED
  BY <1>10, <1>11, ToldFollowed

(* What an event concerns and changes depends on what it tells alone. *)
LEMMA SameEvent ==
  ASSUME NEW e, NEW f, f.what = e.what, f.floor = e.floor, f.n = e.n, f.word = e.word
  PROVE  Effect(f) = Effect(e) /\ ConcernedRows(f) = ConcernedRows(e)
<1>1. \A row : Concerned(f, row) = Concerned(e, row)
  BY DEF Concerned
<1>2. \A row : AfterDeletion(f, row) = AfterDeletion(e, row) /\ AfterSwipeDeletion(f, row) = AfterSwipeDeletion(e, row)
  BY DEF AfterDeletion, AfterSwipeDeletion
<1>3. \A row : Changed(f, row) = Changed(e, row)
  BY <1>2, Zenon DEF Changed
<1> QED
  BY <1>1, <1>3, Zenon DEF Effect, ConcernedRows

(* While a handler goes on, it is the only one. *)
LEMMA AloneFollowing ==
  ASSUME FollowInv, ~crossed, NEW e \in followers
  PROVE  /\ followers = {e} /\ commits.queue = <<>> /\ InStep(replies, Effect(e))
         /\ e.step # "scan" => e.rows = ConcernedRows(e)
BY DEF FollowInv, Undisturbed

LEMMA HandlerFollowed ==
  ASSUME FollowInv, UNCHANGED <<replies, details, prompts, commits, changes, crossed>>,
         NEW e \in followers, NEW f, followers' = (followers \ {e}) \cup {f},
         f.what = e.what, f.floor = e.floor, f.n = e.n, f.word = e.word,
         ~crossed => f.rows = ConcernedRows(e)
  PROVE  FollowInv'
<1>1. Effect(f) = Effect(e) /\ ConcernedRows(f) = ConcernedRows(e)
  BY SameEvent
<1>2. Effect(f)' = Effect(f) /\ ConcernedRows(f)' = ConcernedRows(f)
  BY DEF Effect, ConcernedRows
<1>3. ASSUME ~crossed' PROVE Undisturbed'
  <2>1. ~crossed
    BY <1>3
  <2>2. followers = {e} /\ commits.queue = <<>> /\ InStep(replies, Effect(e))
    BY <2>1, AloneFollowing
  <2>3. followers' = {f} /\ f.rows = ConcernedRows(f)'
    BY <1>1, <1>2, <2>1, <2>2
  <2> QED
    BY <1>1, <1>2, <2>2, <2>3 DEF Undisturbed
<1> QED
  BY <1>3 DEF FollowInv, Made

LEMMA ScanFollowed ==
  ASSUME DetailInv, FollowInv, ScanDetails
  PROVE  FollowInv'
<1>1. PICK e \in followers :
        /\ e.step = "scan"
        /\ LET rows == {r \in DOMAIN details : Concerned(e, details[r])}
           IN  IF rows = {} THEN followers' = followers \ {e}
               ELSE Steps(e, [e EXCEPT !.step = "read", !.rows = [r \in rows |-> details[r]]])
        /\ UNCHANGED <<replies, details, prompts, commits, changes, crossed>>
  BY DEF ScanDetails
<1> DEFINE rows == {r \in DOMAIN details : Concerned(e, details[r])}
           f == [e EXCEPT !.step = "read", !.rows = ConcernedRows(e)]
<1>2. FollowerShape(e)
  BY DEF DetailInv
<1>3. CASE rows = {}
  <2>1. followers' = followers \ {e}
    BY <1>1, <1>3
  <2>2. Effect(e) = details
    <3>1. details = [r \in DOMAIN details |-> details[r]]
      BY DEF DetailInv, RowsShape
    <3> QED
      BY <1>3, <3>1 DEF Effect
  <2>3. Complete' = Complete
    BY <1>1 DEF Complete, Pending
  <2>4. ASSUME ~crossed' PROVE Undisturbed'
    <3>1. ~crossed
      BY <1>1, <2>4
    <3>2. followers = {e} /\ commits.queue = <<>> /\ InStep(replies, Effect(e))
      BY <3>1, AloneFollowing
    <3> QED
      BY <1>1, <2>1, <2>2, <2>3, <3>2, NothingPending DEF Undisturbed
  <2> QED
    BY <1>1, <2>4 DEF FollowInv, Made
<1>4. CASE rows # {}
  <2>1. followers' = (followers \ {e}) \cup {f}
    BY <1>1, <1>4 DEF Steps, ConcernedRows
  <2>2. f = [what |-> e.what, floor |-> e.floor, n |-> e.n, word |-> e.word, id |-> e.id,
             step |-> "read", rows |-> ConcernedRows(e), purge |-> e.purge]
    BY <1>2, HandlerFields
  <2> HIDE DEF f
  <2>3. f.what = e.what /\ f.floor = e.floor /\ f.n = e.n /\ f.word = e.word /\ f.rows = ConcernedRows(e)
    BY <2>2
  <2> QED
    BY <1>1, <2>1, <2>3, HandlerFollowed
<1> QED
  BY <1>3, <1>4

LEMMA ReadFollowed ==
  ASSUME DetailInv, FollowInv, ReadPrompts
  PROVE  FollowInv'
<1>1. PICK e \in followers :
        /\ e.step = "read" /\ Steps(e, [e EXCEPT !.step = "write", !.purge = Purged(e)])
        /\ UNCHANGED <<replies, details, prompts, commits, changes, crossed>>
  BY DEF ReadPrompts
<1> DEFINE f == [e EXCEPT !.step = "write", !.purge = Purged(e)]
<1>2. FollowerShape(e)
  BY DEF DetailInv
<1>3. f = [what |-> e.what, floor |-> e.floor, n |-> e.n, word |-> e.word, id |-> e.id,
           step |-> "write", rows |-> e.rows, purge |-> Purged(e)]
  BY <1>2, HandlerFields
<1>4. followers' = (followers \ {e}) \cup {f}
  BY <1>1 DEF Steps
<1> HIDE DEF f
<1>5. f.what = e.what /\ f.floor = e.floor /\ f.n = e.n /\ f.word = e.word /\ f.rows = e.rows
  BY <1>3
<1>6. ~crossed => f.rows = ConcernedRows(e)
  BY <1>1, <1>5, AloneFollowing
<1> QED
  BY <1>1, <1>4, <1>5, <1>6, HandlerFollowed

(* A handler that read all rows as they are moves all of them, or says that   *)
(* something came between.                                                    *)
LEMMA WriteFollowed ==
  ASSUME DetailInv, FollowInv, WriteChanges
  PROVE  FollowInv'
<1>1. PICK e \in followers :
        /\ e.step = "write" /\ followers' = followers \ {e}
        /\ IF AsRead(e)
           THEN /\ details' = [r \in DOMAIN details |->
                     IF r \in DOMAIN e.rows
                     THEN [Changed(e, e.rows[r]) EXCEPT !.version = details[r].version + 1] ELSE details[r]]
                /\ UNCHANGED crossed
           ELSE details' = details /\ crossed' = TRUE
        /\ UNCHANGED <<replies, commits, changes>>
  BY DEF WriteChanges
<1>2. DOMAIN details' = DOMAIN details /\ crossed' \in BOOLEAN
  BY <1>1 DEF FollowInv
<1>3. ASSUME ~crossed' PROVE Undisturbed'
  <2>1. AsRead(e) /\ ~crossed
    BY <1>1, <1>3
  <2>2. /\ followers = {e} /\ commits.queue = <<>> /\ InStep(replies, Effect(e))
        /\ e.rows = ConcernedRows(e)
    BY <1>1, <2>1, AloneFollowing
  <2>3. FollowerShape(e)
    BY DEF DetailInv
  <2>4. ASSUME NEW r \in DOMAIN details
        PROVE  /\ details'[r].invalid = Effect(e)[r].invalid /\ details'[r].word = Effect(e)[r].word
               /\ details'[r].floor = Effect(e)[r].floor /\ details'[r].variant = Effect(e)[r].variant
    <3>1. Effect(e)[r] = IF Concerned(e, details[r]) THEN Changed(e, details[r]) ELSE details[r]
      BY DEF Effect
    <3>2. r \in DOMAIN e.rows <=> Concerned(e, details[r])
      BY <2>2 DEF ConcernedRows
    <3>3. r \in DOMAIN e.rows => e.rows[r] = details[r]
      BY <2>2 DEF ConcernedRows
    <3>4. CASE r \notin DOMAIN e.rows
      BY <1>1, <2>1, <3>1, <3>2, <3>4
    <3>5. CASE r \in DOMAIN e.rows
      <4> DEFINE row == Changed(e, details[r])
                 new == [row EXCEPT !.version = details[r].version + 1]
      <4>1. details'[r] = new
        BY <1>1, <2>1, <3>3, <3>5
      <4>2. row \in Rows
        BY <2>3, <3>2, <3>5, ChangedFits, RowsOfDetails
      <4>3. Effect(e)[r] = row
        BY <3>1, <3>2, <3>5
      <4> HIDE DEF row
      <4>4. new.invalid = row.invalid /\ new.word = row.word /\ new.floor = row.floor /\ new.variant = row.variant
        BY <4>2 DEF Rows
      <4> HIDE DEF new
      <4> QED
        BY <4>1, <4>3, <4>4
    <3> QED
      BY <3>4, <3>5
  <2>5. DOMAIN Effect(e) = DOMAIN details
    BY DEF Effect
  <2>6. InStep(replies, details')
    BY <1>2, <2>2, <2>4, <2>5, FollowsAlike
  <2>7. Complete' = details'
    <3>1. commits'.queue = <<>> /\ DOMAIN commits'.queue = {}
      BY <1>1, <2>2
    <3>2. Pending' = {}
      BY <3>1 DEF Pending
    <3>3. details' = [r \in DOMAIN details' |-> details'[r]]
      BY <1>1, <2>1
    <3> QED
      BY <3>2, <3>3 DEF Complete
  <2>8. followers' = {}
    BY <1>1, <2>2
  <2> QED
    BY <1>1, <2>6, <2>7, <2>8 DEF Undisturbed
<1> QED
  BY <1>1, <1>2, <1>3 DEF FollowInv, Made

LEMMA FollowInvNext ==
  ASSUME DetailInv, FollowInv, [DetailNext]_detailVars
  PROVE  FollowInv'
<1>1. CASE UNCHANGED detailVars
  <2>1. UNCHANGED <<replies, details, prompts, commits, followers, changes, crossed>>
    BY <1>1 DEF detailVars
  <2>2. Complete' = Complete /\ \A e : Effect(e)' = Effect(e) /\ ConcernedRows(e)' = ConcernedRows(e)
    BY <2>1 DEF Complete, Pending, Effect, ConcernedRows
  <2> QED
    BY <2>1, <2>2 DEF FollowInv, Undisturbed, Made
<1>2. CASE WriteFails
  BY <1>2 DEF WriteFails, FollowInv, Made
<1>3. CASE Reply
  BY <1>3, ReplyKeepsFollowing
<1>4. CASE CommitDetail
  BY <1>4, CommitFollowed
<1>5. CASE DeleteMessages
  BY <1>5, DeleteMessagesFollowed
<1>6. CASE EditMessage
  BY <1>6, EditMessageFollowed
<1>7. CASE DeleteSwipe
  BY <1>7, DeleteSwipeFollowed
<1>8. CASE ScanDetails
  BY <1>8, ScanFollowed
<1>9. CASE ReadPrompts
  BY <1>9, ReadFollowed
<1>10. CASE WriteChanges
  BY <1>10, WriteFollowed
<1> QED
  BY <1>1, <1>2, <1>3, <1>4, <1>5, <1>6, <1>7, <1>8, <1>9, <1>10 DEF DetailNext

LEMMA FollowInvInit == DetailInit => FollowInv
<1> SUFFICES ASSUME DetailInit PROVE FollowInv
  OBVIOUS
<1>1. /\ replies = <<>> /\ details = <<>> /\ commits.queue = <<>> /\ followers = {} /\ crossed = FALSE
  BY DEF DetailInit
<1>2. DOMAIN commits.queue = {} /\ DOMAIN details = {} /\ DOMAIN replies = {}
  BY <1>1
<1>3. Complete = details
  BY NothingPending, ShapeInit, <1>1
<1>4. InStep(replies, details)
  BY <1>2 DEF InStep
<1> QED
  BY <1>1, <1>2, <1>3, <1>4 DEF FollowInv, Undisturbed

LEMMA FollowInvSound ==
  ASSUME DetailInv, FollowInv
  PROVE  DetailsFollow
<1> SUFFICES ASSUME ~crossed, followers = {}, commits.queue = <<>>
             PROVE  /\ \A i \in DOMAIN replies : \A v \in DOMAIN SwipesOf(i) :
                          SwipesOf(i)[v].edited \/ SwipesOf(i)[v].reply \in Matching(i, v)
                    /\ \A r \in DOMAIN details :
                          details[r].invalid \/ \E i \in DOMAIN replies : \E v \in DOMAIN SwipesOf(i) :
                              SwipesOf(i)[v].reply = r /\ ~SwipesOf(i)[v].edited /\ r \in Matching(i, v)
  BY DEF DetailsFollow
<1>1. InStep(replies, details)
  BY NothingPending DEF FollowInv, Undisturbed
<1>2. \A i \in DOMAIN replies : \A v \in DOMAIN SwipesOf(i) :
         SwipesOf(i)[v].edited \/ SwipesOf(i)[v].reply \in Matching(i, v)
  BY <1>1 DEF InStep, SwipesOf, Matching
<1>3. ASSUME NEW r \in DOMAIN details, ~details[r].invalid
      PROVE  \E i \in DOMAIN replies : \E v \in DOMAIN SwipesOf(i) :
                SwipesOf(i)[v].reply = r /\ ~SwipesOf(i)[v].edited /\ r \in Matching(i, v)
  <2>1. Shows(details[r], replies, r)
    BY <1>1, <1>3 DEF InStep
  <2>2. r \in Matching(details[r].floor, details[r].variant)
    BY <1>3, <2>1 DEF Shows, Matching, SwipesOf
  <2> QED
    BY <2>1, <2>2 DEF Shows, SwipesOf
<1> QED
  BY <1>2, <1>3

(* When every change was followed before the next thing happened, each reply  *)
(* that was not edited has its detail at its place, and no other detail is    *)
(* left: for any number of replies, swipes, deletions and edits               *)
(* (applyGenerationRecallChange).                                             *)
THEOREM DetailsFollowTheChat == DetailSpec => []DetailsFollow
<1>1. DetailInit => DetailInv /\ FollowInv
  BY ShapeInit, FollowInvInit
<1>2. DetailInv /\ FollowInv /\ [DetailNext]_detailVars => DetailInv' /\ FollowInv'
  BY DetailInvStep, FollowInvNext
<1>3. DetailInv /\ FollowInv => DetailsFollow
  BY FollowInvSound
<1> QED
  BY <1>1, <1>2, <1>3, PTL DEF DetailSpec

-----------------------------------------------------------------------------
(* THE STOCK OF AN ITEM.                                                      *)

(* Every set of numbers has a least one.                                     *)
LEMMA LeastOf ==
  ASSUME NEW S \in SUBSET Nat, S # {}
  PROVE  \E m \in S : \A k \in S : m <= k
<1>1. PICK m \in S : \A k \in S : ~(<<k, m>> \in OpToRel(<, Nat))
  BY WFMin, NatLessThanWellFounded, Zenon
<1>2. \A k \in S : ~(k < m)
  BY <1>1 DEF OpToRel
<1> QED
  BY <1>2

IsCourse(start, said, n, g) == g = [i \in 0..n |-> IF i = 0 THEN start ELSE OperatedOnce(g[i - 1], said[i])]

(* The operations of a message are applied one after the other. *)
LEMMA CourseExists ==
  ASSUME NEW start, NEW said, NEW n \in Nat
  PROVE  \E g : IsCourse(start, said, n, g)
<1> DEFINE Right(m, g) == IsCourse(start, said, m, g)
           missing == {m \in Nat : ~\E g : Right(m, g)}
<1>1. SUFFICES ASSUME missing # {}
               PROVE  FALSE
  OBVIOUS
<1>2. PICK m \in missing : \A k \in missing : m <= k
  BY <1>1, LeastOf
<1> HIDE DEF missing
<1>3. CASE m = 0
  <2> DEFINE g == [i \in 0..0 |-> start]
  <2>1. Right(0, g)
    BY DEF IsCourse
  <2> QED
    BY <1>2, <1>3, <2>1 DEF missing
<1>4. CASE m # 0
  <2>1. m - 1 \in Nat /\ m \in Nat /\ m - 1 \notin missing
    <3>1. m \in Nat
      BY DEF missing
    <3>2. m - 1 \in Nat /\ ~(m <= m - 1)
      BY <1>4, <3>1
    <3> QED
      BY <1>2, <3>1, <3>2, Zenon
  <2>2. PICK h : Right(m - 1, h)
    BY <2>1 DEF missing
  <2> DEFINE g == [i \in 0..m |-> IF i = m THEN OperatedOnce(h[m - 1], said[m]) ELSE h[i]]
  <2>3. ASSUME NEW i \in 0..m
        PROVE  g[i] = IF i = 0 THEN start ELSE OperatedOnce(g[i - 1], said[i])
    <3>1. CASE i = m
      <4>1. g[m] = OperatedOnce(h[m - 1], said[m]) /\ g[m - 1] = h[m - 1]
        BY <2>1
      <4> QED
        BY <1>4, <3>1, <4>1
    <3>2. CASE i = 0
      <4>1. g[0] = h[0] /\ h[0] = start
        BY <1>4, <2>1, <2>2 DEF IsCourse
      <4> QED
        BY <3>2, <4>1
    <3>3. CASE i # m /\ i # 0
      <4>1. i \in 0..(m - 1) /\ i - 1 \in 0..m /\ i - 1 # m
        BY <2>1, <3>3
      <4>2. g[i] = h[i] /\ g[i - 1] = h[i - 1]
        BY <3>3, <4>1
      <4>3. h[i] = OperatedOnce(h[i - 1], said[i])
        BY <2>2, <3>3, <4>1 DEF IsCourse
      <4> QED
        BY <3>3, <4>2, <4>3
    <3> QED
      BY <3>1, <3>2, <3>3
  <2>4. Right(m, g)
    BY <2>3 DEF IsCourse
  <2> QED
    BY <1>2, <2>4 DEF missing
<1> QED
  BY <1>3, <1>4

CourseBy(start, said, g) ==
    /\ g[0] = start /\ Course(start, said) = g[Len(said)]
    /\ \A i \in 1..Len(said) : g[i] = OperatedOnce(g[i - 1], said[i])

LEMMA CourseIs ==
  ASSUME NEW start, NEW said, Len(said) \in Nat
  PROVE  \E g : CourseBy(start, said, g)
<1> DEFINE g == CHOOSE g : g = [i \in 0..Len(said) |-> IF i = 0 THEN start ELSE OperatedOnce(g[i - 1], said[i])]
<1>1. IsCourse(start, said, Len(said), g)
  <2>1. g = CHOOSE h : IsCourse(start, said, Len(said), h)
    BY DEF IsCourse
  <2>2. \E h : IsCourse(start, said, Len(said), h)
    BY CourseExists
  <2> HIDE DEF g
  <2> QED
    BY <2>1, <2>2, Zenon
<1>2. Course(start, said) = g[Len(said)]
  BY DEF Course
<1> HIDE DEF g
<1>3. g[0] = start
  BY <1>1 DEF IsCourse
<1>4. \A i \in 1..Len(said) : g[i] = OperatedOnce(g[i - 1], said[i])
  BY <1>1 DEF IsCourse
<1> QED
  BY <1>2, <1>3, <1>4 DEF CourseBy

-----------------------------------------------------------------------------
(* States and the events that lead to them.                                  *)

States == Stocks \cup {NoStock}
StockOk(st) ==
    /\ st \in [UnitKeys -> States]
    /\ \A k \in UnitKeys : st[k] # NoStock => /\ st[k].unit # "none" => k = st[k].unit
                                              /\ st[k].availability = "active" => st[k].amount \in Nat

(* The events E of a unit lead, one revision each, to the state s.            *)
AddsUp(E, k, s) ==
    /\ \A e \in E : e.key = k => e.at \in 1..RevisionOf(s)
    /\ \A n \in 1..RevisionOf(s) : \E e \in E : e.key = k /\ e.at = n
    /\ \A e, f \in E : e.key = k /\ f.key = k /\ e.at = f.at => e = f
    /\ \A e \in E : e.key = k /\ e.at = 1 => e.before = NoAmount
    /\ \A e, f \in E : e.key = k /\ f.key = k /\ f.at = e.at + 1 => f.before = e.after
    /\ \A e \in E : e.key = k /\ e.at = RevisionOf(s) => e.after = AmountOf(s)

(* Of the events E those that led to a state.                                 *)
Leading(E) == {e \in E : e.at # 0}

LEMMA LeadingOfBoth == ASSUME NEW E, NEW F PROVE Leading(E \cup F) = Leading(E) \cup Leading(F)
  BY DEF Leading

LEMMA StateIs ==
  ASSUME NEW s \in States
  PROVE  /\ RevisionOf(s) \in Nat /\ (RevisionOf(s) = 0 <=> s = NoStock)
         /\ s # NoStock => s \in Stocks /\ RevisionOf(s) = s.revision /\ AmountOf(s) = s.amount
         /\ s = NoStock => AmountOf(s) = NoAmount
<1>1. CASE s = NoStock
  BY <1>1 DEF RevisionOf, AmountOf
<1>2. CASE s # NoStock
  <2>1. s \in Stocks
    BY <1>2 DEF States
  <2>2. s.revision \in Nat \ {0}
    BY <2>1 DEF Stocks
  <2> QED
    BY <1>2, <2>1, <2>2 DEF RevisionOf, AmountOf
<1> QED
  BY <1>1, <1>2

LEMMA OneMoreEvent ==
  ASSUME NEW E, NEW k, NEW s \in States, NEW t \in States, AddsUp(E, k, s), \A e \in E : e.at \in Nat,
         RevisionOf(t) = RevisionOf(s) + 1,
         NEW new, new.key = k, new.at = RevisionOf(t), new.before = AmountOf(s), new.after = AmountOf(t)
  PROVE  AddsUp(E \cup {new}, k, t)
<1> DEFINE n == RevisionOf(s)
           F == E \cup {new}
<1>1. n \in Nat /\ RevisionOf(t) = n + 1 /\ (n = 0 => AmountOf(s) = NoAmount)
  BY StateIs
<1>2. \A e \in E : e.key = k => e.at \in Nat /\ 1 <= e.at /\ e.at <= n
  BY <1>1 DEF AddsUp
<1>3. \A e \in F : e.key = k => (e \in E /\ 1 <= e.at /\ e.at <= n) \/ (e = new /\ e.at = n + 1)
  BY <1>1, <1>2
<1>4. \A e \in F : e.key = k => e.at \in 1..(n + 1)
  BY <1>1, <1>2
<1>5. ASSUME NEW i \in 1..(n + 1)
      PROVE  \E e \in F : e.key = k /\ e.at = i
  <2>1. CASE i = n + 1
    BY <1>1, <2>1
  <2>2. CASE i # n + 1
    <3>1. i \in 1..n
      BY <1>1, <2>2
    <3> QED
      BY <3>1 DEF AddsUp
  <2> QED
    BY <2>1, <2>2
<1>6. ASSUME NEW e \in F, NEW f \in F, e.key = k, f.key = k, e.at = f.at
      PROVE  e = f
  <2>1. (e \in E /\ f \in E) \/ (e = new /\ f = new)
    BY <1>1, <1>3, <1>6
  <2> QED
    BY <1>6, <2>1 DEF AddsUp
<1>7. ASSUME NEW e \in F, e.key = k, e.at = 1
      PROVE  e.before = NoAmount
  <2>1. CASE e \in E
    BY <1>7, <2>1 DEF AddsUp
  <2>2. CASE e = new /\ n + 1 = 1
    BY <1>1, <2>2
  <2> QED
    BY <1>1, <1>3, <1>7, <2>1, <2>2
<1>8. ASSUME NEW e \in F, NEW f \in F, e.key = k, f.key = k, f.at = e.at + 1
      PROVE  f.before = e.after
  <2>1. CASE e \in E /\ f \in E
    BY <1>8, <2>1 DEF AddsUp
  <2>2. CASE e \in E /\ f = new
    <3>1. e.at = n
      BY <1>1, <1>2, <1>8, <2>2
    <3> QED
      BY <1>8, <2>2, <3>1 DEF AddsUp
  <2>3. CASE e = new
    BY <1>1, <1>2, <1>3, <1>8, <2>3
  <2> QED
    BY <1>3, <1>8, <2>1, <2>2, <2>3
<1>9. \A e \in F : e.key = k /\ e.at = n + 1 => e.after = AmountOf(t)
  BY <1>1, <1>2
<1> QED
  BY <1>1, <1>4, <1>5, <1>6, <1>7, <1>8, <1>9 DEF AddsUp

LEMMA OtherEvents ==
  ASSUME NEW E, NEW F, NEW k, NEW s, AddsUp(E, k, s), \A e \in F : e.key # k
  PROVE  AddsUp(E \cup F, k, s)
<1>1. \A e \in E \cup F : e.key = k => e \in E
  OBVIOUS
<1>2. /\ \A e \in E \cup F : e.key = k => e.at \in 1..RevisionOf(s)
      /\ \A n \in 1..RevisionOf(s) : \E e \in E \cup F : e.key = k /\ e.at = n
  BY <1>1 DEF AddsUp
<1>3. /\ \A e, f \in E \cup F : e.key = k /\ f.key = k /\ e.at = f.at => e = f
      /\ \A e \in E \cup F : e.key = k /\ e.at = 1 => e.before = NoAmount
  BY <1>1 DEF AddsUp
<1>4. /\ \A e, f \in E \cup F : e.key = k /\ f.key = k /\ f.at = e.at + 1 => f.before = e.after
      /\ \A e \in E \cup F : e.key = k /\ e.at = RevisionOf(s) => e.after = AmountOf(s)
  BY <1>1 DEF AddsUp
<1> QED
  BY <1>2, <1>3, <1>4 DEF AddsUp

LEMMA UnitKeyIs ==
  ASSUME NEW u \in Units
  PROVE  /\ inventoryUnitKey(u) \in UnitKeys /\ captureUnitKey(u) \in UnitKeys
         /\ u # "none" => inventoryUnitKey(u) = u /\ captureUnitKey(u) = u
BY DEF inventoryUnitKey, captureUnitKey, UnitKeys

LEMMA AfterIs ==
  ASSUME NEW c, c.operation \in Operations, c.amount \in Nat, NEW before,
         c.operation \in {"increase", "decrease"} => before.amount \in Nat /\ AfterCommand(c, before) >= 0
  PROVE  /\ AfterCommand(c, before) \in Nat \cup {NoAmount}
         /\ c.operation # "remove" /\ c.precision # "unknown" => AfterCommand(c, before) \in Nat
<1>1. CASE c.operation = "increase"
  BY <1>1 DEF AfterCommand
<1>2. CASE c.operation = "decrease"
  BY <1>2 DEF AfterCommand
<1>3. CASE c.operation \notin {"increase", "decrease"}
  BY <1>3 DEF AfterCommand
<1> QED
  BY <1>1, <1>2, <1>3

(* A state written anew.                                                     *)
LEMMA Written ==
  ASSUME NEW st, StockOk(st), NEW k \in UnitKeys, NEW u \in Units, u # "none" => k = u,
         NEW a \in Nat \cup {NoAmount}, NEW p \in Precisions, NEW v \in {"active", "unknown", "absent"},
         v = "active" => a \in Nat, NEW n \in Nat \ {0}
  PROVE  LET s == Stocked(a, u, p, v, n)
             next == [st EXCEPT ![k] = s]
         IN  /\ s \in Stocks /\ s # NoStock /\ RevisionOf(s) = n /\ AmountOf(s) = a
             /\ StockOk(next) /\ next[k] = s /\ \A j \in UnitKeys : j # k => next[j] = st[j]
<1> DEFINE s == Stocked(a, u, p, v, n)
           next == [st EXCEPT ![k] = s]
<1>1. s \in Stocks /\ s.unit = u /\ s.amount = a /\ s.availability = v /\ s.revision = n
  BY DEF Stocked, Stocks
<1>2. s # NoStock
  BY <1>1, StockShape
<1>3. RevisionOf(s) = n /\ AmountOf(s) = a
  BY <1>1, <1>2 DEF RevisionOf, AmountOf
<1> HIDE DEF s
<1>4. /\ next \in [UnitKeys -> States] /\ next[k] = s
      /\ \A j \in UnitKeys : j # k => next[j] = st[j]
  BY <1>1 DEF StockOk, States
<1> HIDE DEF next
<1>5. StockOk(next)
  BY <1>1, <1>4 DEF StockOk
<1> QED
  BY <1>1, <1>2, <1>3, <1>4, <1>5 DEF s, next

-----------------------------------------------------------------------------
(* What a capture computes from the states st and the events ids it read.    *)

Worked(st, ids, acc) ==
    /\ StockOk(acc.stock) /\ acc.keys \subseteq UnitKeys /\ ids \subseteq acc.ids
    /\ \A e \in acc.new : (e.at # 0 => e.key \in acc.keys) /\ e.at \in Nat /\ e.id \in acc.ids \ ids
    /\ \A k \in UnitKeys : /\ k \notin acc.keys => acc.stock[k] = st[k]
                           /\ k \in acc.keys => RevisionOf(st[k]) < RevisionOf(acc.stock[k])
Led(st, E, acc) ==
    \A k \in UnitKeys : AddsUp(Leading(E), k, st[k]) => AddsUp(Leading(E \cup acc.new), k, acc.stock[k])

LEMMA UnitIs ==
  ASSUME NEW st, StockOk(st), NEW o \in Said
  PROVE  Unit(o, st) \in Units
<1> DEFINE shown == {k \in UnitKeys : st[k] # NoStock}
<1>1. CASE o.unit # "none" \/ shown = {}
  <2>1. Unit(o, st) = o.unit
    BY <1>1 DEF Unit
  <2> QED
    BY <2>1 DEF Said
<1>2. CASE ~(o.unit # "none" \/ shown = {})
  <2>1. PICK k \in shown : Unit(o, st) = st[k].unit
    BY <1>2 DEF Unit
  <2>2. st[k] \in Stocks
    BY DEF StockOk, States
  <2> QED
    BY <2>1, <2>2 DEF Stocks
<1> QED
  BY <1>1, <1>2

LEMMA OperatedIs ==
  ASSUME NEW st, StockOk(st), NEW ids, NEW E, \A e \in E : e.at \in Nat,
         NEW acc, Worked(st, ids, acc), Led(st, E, acc), NEW o \in Said
  PROVE  LET next == OperatedOnce(acc, o) IN Worked(st, ids, next) /\ Led(st, E, next)
<1> DEFINE u == Unit(o, acc.stock)
           k == captureUnitKey(u)
           before == acc.stock[k]
           n == RevisionOf(before) + 1
           id == <<"said", o.id>>
           after == AfterCommand(o, before)
           availability == IF o.operation = "remove" THEN "absent" ELSE IF o.precision = "unknown" THEN "unknown" ELSE "active"
           s == Stocked(after, u, o.precision, availability, n)
           event == [id |-> id, key |-> k, at |-> n, before |-> AmountOf(before), after |-> after]
           next == [stock |-> [acc.stock EXCEPT ![k] = s], ids |-> acc.ids \cup {id}, keys |-> acc.keys \cup {k},
                    plan |-> acc.plan, new |-> acc.new \cup {event}]
           past == [id |-> id, key |-> k, at |-> 0, before |-> AmountOf(before), after |-> NoAmount]
           noted == [stock |-> acc.stock, ids |-> acc.ids \cup {id}, keys |-> acc.keys, plan |-> acc.plan,
                     new |-> acc.new \cup {past}]
<1> USE DEF Leading
<1>1. CASE OperatedOnce(acc, o) = acc
  BY <1>1
<1>3. CASE id \notin acc.ids /\ OperatedOnce(acc, o) = noted
  <2>1. /\ noted.stock = acc.stock /\ noted.ids = acc.ids \cup {id} /\ noted.keys = acc.keys
        /\ noted.new = acc.new \cup {past} /\ past.at = 0 /\ past.id = id
    OBVIOUS
  <2> HIDE DEF noted, past, id, k, before
  <2>2. Worked(st, ids, noted)
    BY <1>3, <2>1 DEF Worked
  <2>3. Leading(E \cup noted.new) = Leading(E \cup acc.new)
    BY <2>1
  <2>4. Led(st, E, noted)
    BY <2>1, <2>3 DEF Led
  <2> QED
    BY <1>3, <2>2, <2>4 DEF noted
<1>2. CASE id \notin acc.ids /\ Follows(o, before) /\ OperatedOnce(acc, o) = next
  <2>1. OperatedOnce(acc, o) = next
    BY <1>2
  <2>2. u \in Units /\ k \in UnitKeys /\ (u # "none" => k = u)
    BY UnitIs, UnitKeyIs DEF Worked
  <2>3. before \in States /\ n \in Nat \ {0} /\ RevisionOf(before) \in Nat /\ n = RevisionOf(before) + 1
    <3>1. before \in States
      BY <2>2 DEF Worked, StockOk
    <3> QED
      BY <3>1, StateIs
  <2>4. o.operation \in Operations /\ o.amount \in Nat /\ o.precision \in Precisions
    BY DEF Said
  <2>5. o.operation \in {"increase", "decrease"} => before.amount \in Nat /\ after >= 0
    <3>1. before # NoStock => before \in Stocks
      BY <2>3 DEF States
    <3>2. before # NoStock => before.amount \in Nat \cup {NoAmount}
      BY <3>1 DEF Stocks
    <3> QED
      BY <1>2, <3>2 DEF Follows
  <2>6. after \in Nat \cup {NoAmount} /\ (o.operation # "remove" /\ o.precision # "unknown" => after \in Nat)
    BY <2>4, <2>5, AfterIs
  <2>7. availability \in {"active", "unknown", "absent"} /\ (availability = "active" => after \in Nat)
    BY <2>6
  <2> HIDE DEF u, after, availability, id, before, k, n
  <2>8. /\ s \in States /\ RevisionOf(s) = n /\ AmountOf(s) = after
        /\ StockOk(next.stock) /\ next.stock[k] = s /\ \A j \in UnitKeys : j # k => next.stock[j] = acc.stock[j]
    <3> DEFINE wrote == [acc.stock EXCEPT ![k] = s]
    <3>1. StockOk(acc.stock)
      BY DEF Worked
    <3>2. /\ s \in Stocks /\ RevisionOf(s) = n /\ AmountOf(s) = after
          /\ StockOk(wrote) /\ wrote[k] = s /\ \A j \in UnitKeys : j # k => wrote[j] = acc.stock[j]
      BY <2>2, <2>3, <2>4, <2>6, <2>7, <3>1, Written
    <3> HIDE DEF s
    <3>3. next.stock = wrote
      OBVIOUS
    <3> HIDE DEF next, wrote
    <3> QED
      BY <3>2, <3>3 DEF States
  <2>9. event.id = id /\ event.key = k /\ event.at = n /\ event.before = AmountOf(before) /\ event.after = after
    OBVIOUS
  <2>10. next.ids = acc.ids \cup {id} /\ next.keys = acc.keys \cup {k} /\ next.new = acc.new \cup {event}
    OBVIOUS
  <2> HIDE DEF s, event, next
  <2>11. /\ acc.keys \subseteq UnitKeys /\ ids \subseteq acc.ids
         /\ \A e \in acc.new : (e.at # 0 => e.key \in acc.keys) /\ e.at \in Nat /\ e.id \in acc.ids \ ids
         /\ \A j \in UnitKeys : /\ j \notin acc.keys => acc.stock[j] = st[j]
                                /\ j \in acc.keys => RevisionOf(st[j]) < RevisionOf(acc.stock[j])
    BY DEF Worked
  <2>12. \A j \in UnitKeys : RevisionOf(st[j]) \in Nat /\ RevisionOf(acc.stock[j]) \in Nat
    BY StateIs DEF StockOk, Worked
  <2>13. before = acc.stock[k]
    BY DEF before
  <2>14. RevisionOf(st[k]) < RevisionOf(next.stock[k])
    <3>1. RevisionOf(st[k]) <= RevisionOf(acc.stock[k])
      BY <2>2, <2>11, <2>12
    <3> QED
      BY <2>2, <2>3, <2>8, <2>12, <2>13, <3>1
  <2>15. Worked(st, ids, next)
    <3>1. next.keys \subseteq UnitKeys /\ ids \subseteq next.ids
      BY <2>2, <2>10, <2>11
    <3>2. \A e \in next.new : (e.at # 0 => e.key \in next.keys) /\ e.at \in Nat /\ e.id \in next.ids \ ids
      BY <1>2, <2>3, <2>9, <2>10, <2>11
    <3>3. \A j \in UnitKeys : /\ j \notin next.keys => next.stock[j] = st[j]
                              /\ j \in next.keys => RevisionOf(st[j]) < RevisionOf(next.stock[j])
      BY <2>8, <2>10, <2>11, <2>14
    <3> QED
      BY <2>8, <3>1, <3>2, <3>3 DEF Worked
  <2>16. Led(st, E, next)
    <3>1. SUFFICES ASSUME NEW j \in UnitKeys, AddsUp(Leading(E), j, st[j])
                   PROVE  AddsUp(Leading(E \cup next.new), j, next.stock[j])
      BY DEF Led
    <3> DEFINE L == Leading(E \cup acc.new)
    <3>2. AddsUp(L, j, acc.stock[j])
      BY <3>1 DEF Led
    <3>3. Leading(E \cup next.new) = L \cup {event}
      BY <2>3, <2>9, <2>10
    <3>6. \A e \in L : e.at \in Nat
      BY <2>11
    <3> HIDE DEF L
    <3>4. CASE j = k
      <4>2. AddsUp(L \cup {event}, k, s)
        BY <2>3, <2>8, <2>9, <2>13, <3>2, <3>4, <3>6, OneMoreEvent
      <4> QED
        BY <2>8, <3>3, <3>4, <4>2
    <3>5. CASE j # k
      <4>1. \A e \in {event} : e.key # j
        BY <2>9, <3>5
      <4>2. AddsUp(L \cup {event}, j, acc.stock[j])
        BY <3>2, <4>1, OtherEvents
      <4> QED
        BY <2>8, <3>3, <3>5, <4>2
    <3> QED
      BY <3>4, <3>5
  <2> QED
    BY <2>1, <2>15, <2>16 DEF next
<1>4. \/ OperatedOnce(acc, o) = acc
      \/ id \notin acc.ids /\ OperatedOnce(acc, o) = noted
      \/ id \notin acc.ids /\ Follows(o, before) /\ OperatedOnce(acc, o) = next
  BY DEF OperatedOnce, Operated
<1> QED
  BY <1>1, <1>2, <1>3, <1>4

ReadSound(r) ==
    /\ r.of.candidate \in {"none", "sure", "unsure"} /\ r.of.said \in Seq(Said) /\ r.of.snapshot \in Seq(Said)
    /\ r.item \in {"none", "pending", "confirmed", "invalid"} /\ StockOk(r.stock) /\ r.job \in StockJobs

LEMMA ComputedIs ==
  ASSUME NEW r, ReadSound(r), NEW E, \A e \in E : e.at \in Nat
  PROVE  Worked(r.stock, r.ids, Computed(r)) /\ Led(r.stock, E, Computed(r))
<1> DEFINE said == mergeDeterministicInventory(r.of)
           start == [stock |-> r.stock, ids |-> r.ids, keys |-> {}, plan |-> r.plan, new |-> {}]
           Right(acc) == Worked(r.stock, r.ids, acc) /\ Led(r.stock, E, acc)
<1>1. said \in Seq(Said)
  BY DEF mergeDeterministicInventory, ReadSound
<1>2. Right(start)
  <2>1. start.stock = r.stock /\ start.ids = r.ids /\ start.keys = {} /\ start.new = {}
    OBVIOUS
  <2> HIDE DEF start
  <2>2. E \cup start.new = E
    BY <2>1
  <2> QED
    BY <2>1, <2>2 DEF Worked, Led, ReadSound
<1> HIDE DEF said, start
<1>3. Len(said) \in Nat /\ \A i \in 1..Len(said) : said[i] \in Said
  BY <1>1
<1>4. PICK g : CourseBy(start, said, g)
  BY <1>3, CourseIs
<1> DEFINE wrong == {i \in 0..Len(said) : ~Right(g[i])}
<1>5. wrong = {}
  <2>1. SUFFICES ASSUME wrong # {}
                 PROVE  FALSE
    OBVIOUS
  <2>2. wrong \in SUBSET Nat
    BY <1>3
  <2>3. PICK m \in wrong : \A i \in wrong : m <= i
    BY <2>1, <2>2, LeastOf
  <2>4. m \in 0..Len(said) /\ ~Right(g[m])
    BY DEF wrong
  <2>5. m # 0
    BY <1>2, <1>4, <2>4 DEF CourseBy
  <2>6. m - 1 \in 0..Len(said) /\ m \in 1..Len(said) /\ ~(m <= m - 1)
    BY <1>3, <2>4, <2>5
  <2>7. Right(g[m - 1])
    <3>1. m - 1 \notin wrong
      BY <2>3, <2>6
    <3> QED
      BY <2>6, <3>1
  <2>8. g[m] = OperatedOnce(g[m - 1], said[m]) /\ said[m] \in Said
    BY <1>4, <1>3, <2>6 DEF CourseBy
  <2>9. Right(g[m])
    BY <2>7, <2>8, OperatedIs DEF ReadSound
  <2> QED
    BY <2>4, <2>9
<1>6. Right(Course(start, said))
  <2>1. Len(said) \in 0..Len(said)
    BY <1>3
  <2> QED
    BY <1>4, <1>5, <2>1 DEF CourseBy
<1> HIDE DEF Right
<1>7. Computed(r) = IF ItemUsable(r) THEN Course(start, said) ELSE start
  BY DEF Computed, start, said
<1>8. Right(Computed(r))
  BY <1>2, <1>6, <1>7
<1> QED
  BY <1>8 DEF Right

-----------------------------------------------------------------------------
(* The inductive invariant: unless a capture overtook a correction, the       *)
(* events of every unit lead to its state; what a command saw is the state    *)
(* of its unit or an older one; and no event was written since the capture in *)
(* flight read them that stands for something a message says.                 *)
SawSound(c) ==
    ~overtaken /\ c.of.unit # "none" =>
        /\ RevisionOf(c.saw) <= RevisionOf(stock[c.of.unit])
        /\ RevisionOf(c.saw) = RevisionOf(stock[c.of.unit]) => c.saw = stock[c.of.unit]
CommandSound ==
    /\ command.step \in {"none", "asked", "read"}
    /\ command.step # "none" => command.of \in Ordered /\ command.saw \in States /\ SawSound(command)
    /\ command.step = "read" => /\ command.before \in States /\ CommandFits(command.of, command.before)
                                /\ RevisionOf(command.saw) = RevisionOf(command.before)
                                /\ command.before # NoStock /\ command.before.availability = "active" => command.before.amount \in Nat
SaidEvents(E) == {o \in OperationIds : \E e \in E : e.id = <<"said", o>>}
ReadingSound ==
    /\ reading.step \in {"none", "read", "planned", "versions"} /\ reading.job \in 0..MaxStockJobs
    /\ reading.step # "none" => ReadSound(reading) /\ \A o \in SaidEvents(entries) : <<"said", o>> \in reading.ids
    /\ reading.step = "versions" => reading.stockNow \in [UnitKeys -> States]
EventsSound ==
    /\ \A e \in entries : e.at \in Nat
    /\ ~overtaken => \A k \in UnitKeys : AddsUp(Leading(entries), k, stock[k])
CountSound ==
    /\ counted \in [OperationIds -> {0, 1}]
    /\ \A o \in OperationIds : counted[o] = 1 => o \in SaidEvents(entries)
StockInv ==
    /\ item \in {"none", "pending", "confirmed", "invalid"} /\ StockOk(stock) /\ committed \subseteq StockJobs
    /\ stockCommands \in 0..MaxStockCommands /\ overtaken \in BOOLEAN
    /\ CommandSound /\ ReadingSound /\ EventsSound /\ CountSound

LEMMA StockInvMeans == StockInv => InventoryTypeOK /\ LedgerAddsUp /\ CountedOnce
<1> SUFFICES ASSUME StockInv
             PROVE  InventoryTypeOK /\ LedgerAddsUp /\ CountedOnce
  OBVIOUS
<1>1. InventoryTypeOK
  <2>1. ASSUME NEW k \in UnitKeys, stock[k] # NoStock
        PROVE  /\ stock[k].amount = NoAmount \/ stock[k].amount \in Nat
               /\ stock[k].precision \in Precisions /\ stock[k].availability \in {"active", "unknown", "absent"}
    <3>1. stock[k] \in Stocks
      BY <2>1 DEF StockInv, StockOk, States
    <3> QED
      BY <3>1 DEF Stocks
  <2> QED
    BY <2>1 DEF InventoryTypeOK, StockInv, CommandSound, ReadingSound
<1>2. LedgerAddsUp
  <2>1. SUFFICES ASSUME ~overtaken, NEW k \in UnitKeys
                 PROVE  LET of == {e \in entries : e.key = k /\ e.at # 0}
                            at(n) == CHOOSE e \in of : e.at = n
                        IN  /\ {e.at : e \in of} = 1..RevisionOf(stock[k])
                            /\ \A e, f \in of : e.at = f.at => e = f
                            /\ \A e \in of : e.before = IF e.at = 1 THEN NoAmount ELSE at(e.at - 1).after
                            /\ stock[k] # NoStock => at(stock[k].revision).after = stock[k].amount
    BY DEF LedgerAddsUp
  <2> DEFINE of == {e \in entries : e.key = k /\ e.at # 0}
             at(n) == CHOOSE e \in of : e.at = n
             last == RevisionOf(stock[k])
  <2>2. stock[k] \in States
    BY DEF StockInv, StockOk
  <2>3. last \in Nat /\ (stock[k] # NoStock => last = stock[k].revision /\ last # 0 /\ AmountOf(stock[k]) = stock[k].amount)
    BY <2>2, StateIs
  <2> HIDE DEF last
  <2>4. AddsUp(Leading(entries), k, stock[k])
    BY <2>1 DEF StockInv, EventsSound
  <2>5. /\ \A e \in of : e.at \in 1..last
        /\ \A n \in 1..last : \E e \in of : e.at = n
        /\ \A e, f \in of : e.at = f.at => e = f
        /\ \A e \in of : e.at = 1 => e.before = NoAmount
        /\ \A e, f \in of : f.at = e.at + 1 => f.before = e.after
        /\ \A e \in of : e.at = last => e.after = AmountOf(stock[k])
    BY <2>4 DEF AddsUp, Leading, last
  <2> HIDE DEF of
  <2>6. \A n \in 1..last : at(n) \in of /\ at(n).at = n
    BY <2>5
  <2> HIDE DEF at
  <2>7. {e.at : e \in of} = 1..last
    BY <2>5
  <2>8. ASSUME NEW e \in of
        PROVE  e.before = IF e.at = 1 THEN NoAmount ELSE at(e.at - 1).after
    <3>1. CASE e.at = 1
      BY <2>5, <3>1
    <3>2. CASE e.at # 1
      <4>1. e.at - 1 \in 1..last /\ e.at = (e.at - 1) + 1
        BY <2>3, <2>5, <3>2
      <4>2. at(e.at - 1) \in of /\ e.at = at(e.at - 1).at + 1
        BY <2>6, <4>1
      <4> QED
        BY <2>5, <3>2, <4>2
    <3> QED
      BY <3>1, <3>2
  <2>9. stock[k] # NoStock => at(stock[k].revision).after = stock[k].amount
    <3>1. stock[k] # NoStock => last \in 1..last
      BY <2>3
    <3> QED
      BY <2>3, <2>5, <2>6, <3>1
  <2> QED
    BY <2>5, <2>7, <2>8, <2>9 DEF at, of, last
<1>3. CountedOnce
  BY DEF StockInv, CountSound, CountedOnce
<1> QED
  BY <1>1, <1>2, <1>3

LEMMA StockStart == InventoryInit => StockInv
<1> SUFFICES ASSUME InventoryInit
             PROVE  StockInv
  OBVIOUS
<1>1. StockOk(stock)
  BY DEF InventoryInit, StockOk, States
<1>2. CommandSound /\ ReadingSound
  BY StockShape DEF InventoryInit, CommandSound, ReadingSound, NoCommand, NoReading
<1>3. EventsSound
  <2>1. \A k \in UnitKeys : stock[k] = NoStock /\ entries = {}
    BY DEF InventoryInit
  <2>2. RevisionOf(NoStock) = 0 /\ 1..0 = {}
    BY DEF RevisionOf
  <2>3. \A k : AddsUp({}, k, NoStock)
    BY <2>2 DEF AddsUp
  <2>4. entries = {} /\ Leading(entries) = {}
    BY DEF InventoryInit, Leading
  <2> QED
    BY <2>1, <2>3, <2>4 DEF EventsSound
<1>4. CountSound
  BY DEF InventoryInit, CountSound
<1>5. item = "none" /\ committed = {} /\ stockCommands = 0 /\ overtaken = FALSE /\ 0 \in 0..MaxStockCommands
  BY StockShape DEF InventoryInit
<1> QED
  BY <1>1, <1>2, <1>3, <1>4, <1>5 DEF StockInv

(* What stays sound if the stock and its events stay.                        *)
LEMMA StockStays ==
  ASSUME StockInv, UNCHANGED <<stock, entries, overtaken, counted>>
  PROVE  /\ StockOk(stock)' /\ (overtaken \in BOOLEAN)' /\ EventsSound' /\ CountSound'
         /\ UNCHANGED command => CommandSound'
         /\ UNCHANGED reading => ReadingSound'
<1>1. EventsSound' /\ CountSound'
  BY DEF StockInv, EventsSound, CountSound, SaidEvents, AddsUp
<1>2. UNCHANGED command => CommandSound'
  BY DEF StockInv, CommandSound, SawSound
<1>3. UNCHANGED reading => ReadingSound'
  BY DEF StockInv, ReadingSound, SaidEvents
<1> QED
  BY <1>1, <1>2, <1>3 DEF StockInv

LEMMA ItemKeeps ==
  ASSUME StockInv, createInventoryItem \/ invalidateInventoryItem
  PROVE  StockInv'
<1>1. /\ UNCHANGED <<stock, entries, committed, reading, command, stockCommands, overtaken, counted>>
      /\ item' \in {"confirmed", "invalid"}
  BY DEF createInventoryItem, invalidateInventoryItem
<1> QED
  BY <1>1, StockStays DEF StockInv

LEMMA AskKeeps ==
  ASSUME StockInv, NEW c \in StockCommands, AskCommand(c)
  PROVE  StockInv'
<1>1. /\ UNCHANGED <<item, stock, entries, committed, reading, overtaken, counted>>
      /\ stockCommands < MaxStockCommands /\ stockCommands' = stockCommands + 1
  BY DEF AskCommand
<1>2. stockCommands' \in 0..MaxStockCommands
  BY <1>1, StockShape DEF StockInv
<1>3. PICK saw : /\ command' = [step |-> "asked", of |-> c, saw |-> saw]
                 /\ (Shown(c.unit) = {} /\ saw = NoStock) \/ \E k \in Shown(c.unit) : saw = stock[k]
  BY DEF AskCommand
<1>4. c \in Ordered /\ c.unit \in Units
  BY StockShape DEF Ordered
<1>5. \A k \in UnitKeys : stock[k] \in States
  BY DEF StockInv, StockOk
<1>6. saw \in States
  BY <1>3, <1>5 DEF Shown, States
<1>7. SawSound(command)'
  <2>1. command'.of = c /\ command'.saw = saw
    BY <1>3
  <2>2. SUFFICES ASSUME c.unit # "none"
                 PROVE  /\ RevisionOf(saw) <= RevisionOf(stock[c.unit])
                        /\ RevisionOf(saw) = RevisionOf(stock[c.unit]) => saw = stock[c.unit]
    BY <1>1, <2>1 DEF SawSound
  <2>3. c.unit \in UnitKeys /\ stock[c.unit] \in States
    BY <1>4, <1>5, <2>2, UnitKeyIs
  <2>4. RevisionOf(stock[c.unit]) \in Nat /\ (RevisionOf(stock[c.unit]) = 0 <=> stock[c.unit] = NoStock)
    BY <2>3, StateIs
  <2>5. CASE saw = NoStock
    BY <2>4, <2>5 DEF RevisionOf
  <2>6. CASE saw # NoStock
    <3>1. PICK k \in UnitKeys : stock[k] # NoStock /\ stock[k].unit = c.unit /\ saw = stock[k]
      BY <1>3, <2>6 DEF Shown
    <3>2. k = c.unit
      BY <2>2, <3>1 DEF StockInv, StockOk
    <3> QED
      BY <2>4, <3>1, <3>2
  <2> QED
    BY <2>5, <2>6
<1>8. CommandSound'
  <2>1. command'.step = "asked" /\ command'.of = c /\ command'.saw = saw
    BY <1>3
  <2> QED
    BY <1>4, <1>6, <1>7, <2>1 DEF CommandSound
<1> QED
  BY <1>1, <1>2, <1>8, StockStays DEF StockInv

LEMMA ReadKeeps ==
  ASSUME StockInv, ReadForCommand
  PROVE  StockInv'
<1> DEFINE before == stock[inventoryUnitKey(command.of.unit)]
<1>1. /\ UNCHANGED <<item, stock, entries, committed, reading, stockCommands, overtaken, counted>>
      /\ command.step = "asked"
      /\ \/ command' = NoCommand
         \/ /\ command' = [step |-> "read", of |-> command.of, saw |-> command.saw, before |-> before]
            /\ RevisionOf(command.saw) = RevisionOf(before) /\ CommandFits(command.of, before)
  BY DEF ReadForCommand
<1>2. command.of \in Ordered /\ command.saw \in States /\ SawSound(command)
  BY <1>1 DEF StockInv, CommandSound
<1>3. before \in States /\ (before # NoStock /\ before.availability = "active" => before.amount \in Nat)
  <2>1. inventoryUnitKey(command.of.unit) \in UnitKeys
    BY <1>2, UnitKeyIs DEF Ordered
  <2> QED
    BY <2>1 DEF StockInv, StockOk
<1> HIDE DEF before
<1>4. CommandSound'
  <2>1. CASE command' = NoCommand
    BY <2>1 DEF CommandSound, NoCommand
  <2>2. CASE /\ command' = [step |-> "read", of |-> command.of, saw |-> command.saw, before |-> before]
             /\ RevisionOf(command.saw) = RevisionOf(before) /\ CommandFits(command.of, before)
    <3>1. command'.step = "read" /\ command'.of = command.of /\ command'.saw = command.saw /\ command'.before = before
      BY <2>2
    <3>2. SawSound(command)'
      BY <1>1, <1>2, <3>1 DEF SawSound
    <3> QED
      BY <1>2, <1>3, <2>2, <3>1, <3>2 DEF CommandSound
  <2> QED
    BY <1>1, <2>1, <2>2
<1> QED
  BY <1>1, <1>4, StockStays DEF StockInv

LEMMA ApplyKeeps ==
  ASSUME StockInv, applyInventoryCommand
  PROVE  StockInv'
<1> DEFINE c == command.of
           before == command.before
           k == inventoryUnitKey(c.unit)
           n == RevisionOf(before) + 1
           after == AfterCommand(c, before)
           precision == IF c.operation = "remove" /\ before # NoStock THEN before.precision ELSE c.precision
           availability == IF c.operation = "remove" THEN "absent" ELSE IF c.precision = "unknown" THEN "unknown" ELSE "active"
           s == Stocked(after, c.unit, precision, availability, n)
           event == [id |-> <<"command", stockCommands>>, key |-> k, at |-> n, before |-> AmountOf(before), after |-> after]
<1>1. /\ UNCHANGED <<item, committed, reading, stockCommands, overtaken, counted>>
      /\ command.step = "read" /\ command' = NoCommand
      /\ IF stock[k] # before THEN UNCHANGED <<stock, entries>>
         ELSE stock' = [stock EXCEPT ![k] = s] /\ entries' = entries \cup {event}
  BY DEF applyInventoryCommand
<1>2. /\ c \in Ordered /\ before \in States /\ CommandFits(c, before)
      /\ before # NoStock /\ before.availability = "active" => before.amount \in Nat
  BY <1>1 DEF StockInv, CommandSound
<1>3. /\ c.operation \in Operations /\ c.amount \in Nat /\ c.unit \in Units /\ c.precision \in Precisions
      /\ k \in UnitKeys /\ (c.unit # "none" => k = c.unit)
  BY <1>2, UnitKeyIs DEF Ordered
<1>4. n \in Nat \ {0} /\ RevisionOf(before) \in Nat
  BY <1>2, StateIs
<1>5. precision \in Precisions
  <2>1. before # NoStock => before.precision \in Precisions
    BY <1>2 DEF States, Stocks
  <2> QED
    BY <1>3, <2>1
<1>6. after \in Nat \cup {NoAmount} /\ (c.operation # "remove" /\ c.precision # "unknown" => after \in Nat)
  <2>1. c.operation \in {"increase", "decrease"} => before.amount \in Nat /\ after >= 0
    BY <1>2 DEF CommandFits
  <2> QED
    BY <1>3, <2>1, AfterIs
<1>7. availability \in {"active", "unknown", "absent"} /\ (availability = "active" => after \in Nat)
  BY <1>6
<1>8. CommandSound'
  BY <1>1 DEF CommandSound, NoCommand
<1>9. CASE stock[k] # before
  BY <1>1, <1>8, <1>9, StockStays DEF StockInv
<1>10. CASE stock[k] = before
  <2>1. n = RevisionOf(before) + 1
    OBVIOUS
  <2>2. event.key = k /\ event.at = n /\ event.before = AmountOf(before) /\ event.after = after
        /\ event.id = <<"command", stockCommands>>
    OBVIOUS
  <2>3. stock' = [stock EXCEPT ![k] = s] /\ entries' = entries \cup {event}
    BY <1>1, <1>10
  <2> HIDE DEF after, precision, availability, n, k, c, before
  <2>4. /\ s \in States /\ RevisionOf(s) = n /\ AmountOf(s) = after
        /\ StockOk(stock') /\ stock'[k] = s /\ \A j \in UnitKeys : j # k => stock'[j] = stock[j]
    <3>1. StockOk(stock)
      BY DEF StockInv
    <3>2. n \in Nat \ {0} /\ c.unit \in Units
      BY <1>3, <1>4
    <3> DEFINE next == [stock EXCEPT ![k] = s]
    <3>3. /\ s \in Stocks /\ s # NoStock /\ RevisionOf(s) = n /\ AmountOf(s) = after
          /\ StockOk(next) /\ next[k] = s /\ \A j \in UnitKeys : j # k => next[j] = stock[j]
      BY <1>3, <1>5, <1>6, <1>7, <3>1, <3>2, Written
    <3> HIDE DEF s
    <3>4. stock' = next
      BY <2>3
    <3> HIDE DEF next
    <3> QED
      BY <3>3, <3>4 DEF States
  <2> HIDE DEF s, event
  <2>5. \A o : <<"said", o>> # event.id
    BY <2>2
  <2>6. SaidEvents(entries)' = SaidEvents(entries)
    BY <2>3, <2>5 DEF SaidEvents
  <2>7. EventsSound'
    <3>1. \A e \in entries : e.at \in Nat
      BY DEF StockInv, EventsSound
    <3>2. \A e \in entries' : e.at \in Nat
      BY <1>4, <2>2, <2>3, <3>1
    <3>3. ASSUME ~overtaken', NEW j \in UnitKeys
          PROVE  AddsUp(Leading(entries'), j, stock'[j])
      <4>1. AddsUp(Leading(entries), j, stock[j])
        BY <1>1, <3>3 DEF StockInv, EventsSound
      <4>4. /\ Leading(entries') = Leading(entries) \cup {event}
            /\ \A e \in Leading(entries) : e.at \in Nat
        BY <1>4, <2>2, <2>3, <3>1 DEF Leading
      <4>2. CASE j = k
        <5>1. AddsUp(Leading(entries) \cup {event}, k, s)
          BY <1>2, <1>10, <2>1, <2>2, <2>4, <4>1, <4>2, <4>4, OneMoreEvent
        <5> QED
          BY <2>4, <4>2, <4>4, <5>1
      <4>3. CASE j # k
        <5>1. \A e \in {event} : e.key # j
          BY <2>2, <4>3
        <5>2. AddsUp(Leading(entries) \cup {event}, j, stock[j])
          BY <4>1, <5>1, OtherEvents
        <5> QED
          BY <2>4, <4>3, <4>4, <5>2
      <4> QED
        BY <4>2, <4>3
    <3> QED
      BY <3>2, <3>3 DEF EventsSound
  <2>8. CountSound'
    BY <1>1, <2>6 DEF StockInv, CountSound
  <2>9. ReadingSound'
    BY <1>1, <2>6 DEF StockInv, ReadingSound
  <2> QED
    BY <1>1, <1>8, <2>4, <2>7, <2>8, <2>9 DEF StockInv
<1> QED
  BY <1>9, <1>10

LEMMA ReadStockKeeps ==
  ASSUME StockInv, NEW m \in Messages, NEW r \in Readings[m], NEW j \in StockJobs, ReadStock(m, r, j)
  PROVE  StockInv'
<1>1. /\ UNCHANGED <<item, stock, entries, committed, command, stockCommands, overtaken, counted>>
      /\ reading' = [step |-> "read", job |-> j, message |-> m, of |-> r, item |-> item, stock |-> stock,
                     ids |-> {e.id : e \in entries}]
  BY DEF ReadStock
<1>2. /\ reading'.step = "read" /\ reading'.job = j /\ reading'.of = r /\ reading'.item = item
      /\ reading'.stock = stock /\ reading'.ids = {e.id : e \in entries}
  BY <1>1
<1>3. j \in 0..MaxStockJobs
  BY StockShape DEF StockJobs
<1>4. ReadSound(reading)'
  BY <1>2, StockShape DEF StockInv, ReadSound
<1>5. \A o \in SaidEvents(entries') : <<"said", o>> \in reading'.ids
  BY <1>1, <1>2 DEF SaidEvents
<1>6. ReadingSound'
  BY <1>2, <1>3, <1>4, <1>5 DEF ReadingSound
<1> QED
  BY <1>1, <1>6, StockStays DEF StockInv

LEMMA PlanKeeps ==
  ASSUME StockInv, PlanUpdates
  PROVE  StockInv'
<1>1. /\ UNCHANGED <<item, stock, entries, committed, command, stockCommands, overtaken, counted>>
      /\ reading.step = "read"
  BY DEF PlanUpdates
<1>2. PICK p : reading' = [step |-> "planned", job |-> reading.job, message |-> reading.message, of |-> reading.of,
                           item |-> reading.item, stock |-> reading.stock, ids |-> reading.ids, plan |-> p]
  BY DEF PlanUpdates, PlannedAs
<1>3. /\ reading'.step = "planned" /\ reading'.job = reading.job /\ reading'.of = reading.of
      /\ reading'.item = reading.item /\ reading'.stock = reading.stock /\ reading'.ids = reading.ids
  BY <1>2
<1>4. ReadSound(reading) /\ (\A o \in SaidEvents(entries) : <<"said", o>> \in reading.ids) /\ reading.job \in 0..MaxStockJobs
  BY <1>1 DEF StockInv, ReadingSound
<1>5. ReadSound(reading)'
  BY <1>3, <1>4 DEF ReadSound
<1>6. ReadingSound'
  BY <1>1, <1>3, <1>4, <1>5 DEF ReadingSound, SaidEvents
<1> QED
  BY <1>1, <1>6, StockStays DEF StockInv

LEMMA VersionsKeep ==
  ASSUME StockInv, CommitVersions
  PROVE  StockInv'
<1>1. /\ UNCHANGED <<item, stock, entries, committed, command, stockCommands, overtaken, counted>>
      /\ reading.step = "planned"
      /\ reading' = IF Acknowledged(reading) THEN [reading EXCEPT !.step = "none"]
                    ELSE [step |-> "versions", job |-> reading.job, message |-> reading.message, of |-> reading.of,
                          item |-> reading.item, stock |-> reading.stock, ids |-> reading.ids, plan |-> reading.plan,
                          itemNow |-> item, stockNow |-> stock]
  BY DEF CommitVersions
<1>2. ReadSound(reading) /\ (\A o \in SaidEvents(entries) : <<"said", o>> \in reading.ids) /\ reading.job \in 0..MaxStockJobs
  BY <1>1 DEF StockInv, ReadingSound
<1>3. ReadingSound'
  <2>1. CASE Acknowledged(reading)
    <3>1. reading'.step = "none" /\ reading'.job = reading.job
      BY <1>1, <2>1
    <3> QED
      BY <1>2, <3>1 DEF ReadingSound
  <2>2. CASE ~Acknowledged(reading)
    <3>1. /\ reading'.step = "versions" /\ reading'.job = reading.job /\ reading'.of = reading.of
          /\ reading'.item = reading.item /\ reading'.stock = reading.stock /\ reading'.ids = reading.ids
          /\ reading'.stockNow = stock
      BY <1>1, <2>2
    <3>2. ReadSound(reading)'
      BY <1>2, <3>1 DEF ReadSound
    <3>3. stock \in [UnitKeys -> States] /\ SaidEvents(entries') = SaidEvents(entries)
      BY <1>1 DEF StockInv, StockOk
    <3> QED
      BY <1>2, <3>1, <3>2, <3>3 DEF ReadingSound
  <2> QED
    BY <2>1, <2>2
<1> QED
  BY <1>1, <1>3, StockStays DEF StockInv

LEMMA CommitKeeps ==
  ASSUME StockInv, CommitStock
  PROVE  StockInv'
<1> DEFINE done == Computed(reading)
           written == IF ItemUsable(reading) THEN ItemAfter(reading) ELSE "kept"
           moved == ~StockAsRead(done.keys) \/ (written # "kept" /\ item # reading.itemNow)
<1>1. /\ UNCHANGED <<command, stockCommands>> /\ reading.step = "versions"
      /\ reading' = [step |-> "none", job |-> reading.job]
  BY DEF CommitStock
<1>2. IF done.keys # {} /\ moved
      THEN UNCHANGED <<item, stock, entries, committed, overtaken, counted>>
      ELSE /\ item' = IF written = "kept" THEN item ELSE written
           /\ stock' = [k \in UnitKeys |-> IF k \in done.keys THEN done.stock[k] ELSE stock[k]]
           /\ entries' = entries \cup done.new
           /\ committed' = committed \cup {reading.job}
           /\ overtaken' = (overtaken \/ \E k \in done.keys : reading.stockNow[k] # reading.stock[k])
           /\ counted' = [o \in OperationIds |-> counted[o] + IF \E e \in done.new : e.id = <<"said", o>> THEN 1 ELSE 0]
  BY DEF CommitStock
<1>3. ReadSound(reading) /\ (\A o \in SaidEvents(entries) : <<"said", o>> \in reading.ids) /\ reading.job \in 0..MaxStockJobs
  BY <1>1 DEF StockInv, ReadingSound
<1>4. ReadingSound'
  <2>1. reading'.step = "none" /\ reading'.job = reading.job
    BY <1>1
  <2> QED
    BY <1>3, <2>1 DEF ReadingSound
<1>5. CASE done.keys # {} /\ moved
  BY <1>1, <1>2, <1>4, <1>5, StockStays DEF StockInv
<1>6. CASE ~(done.keys # {} /\ moved)
  <2>1. /\ item' = IF written = "kept" THEN item ELSE written
        /\ stock' = [k \in UnitKeys |-> IF k \in done.keys THEN done.stock[k] ELSE stock[k]]
        /\ entries' = entries \cup done.new
        /\ committed' = committed \cup {reading.job}
        /\ overtaken' = (overtaken \/ \E k \in done.keys : reading.stockNow[k] # reading.stock[k])
        /\ counted' = [o \in OperationIds |-> counted[o] + IF \E e \in done.new : e.id = <<"said", o>> THEN 1 ELSE 0]
    BY <1>2, <1>6
  <2>2. written \in {"confirmed", "pending", "kept"}
    BY DEF ItemAfter
  <2>3. \A k \in done.keys : stock[k] = reading.stockNow[k]
    BY <1>6 DEF StockAsRead
  <2> HIDE DEF done, written, moved
  <2>4. \A e \in entries : e.at \in Nat
    BY DEF StockInv, EventsSound
  <2>5. Worked(reading.stock, reading.ids, done) /\ Led(reading.stock, entries, done)
    BY <1>3, <2>4, ComputedIs DEF done
  <2>6. StockOk(stock) /\ StockOk(reading.stock) /\ StockOk(done.stock)
    BY <1>3, <2>5 DEF StockInv, ReadSound, Worked
  <2>7. \A k \in UnitKeys : stock'[k] = IF k \in done.keys THEN done.stock[k] ELSE stock[k]
    BY <2>1
  <2>8. StockOk(stock)'
    <3>1. stock' \in [UnitKeys -> States]
      BY <2>1, <2>6 DEF StockOk
    <3>2. ASSUME NEW k \in UnitKeys, stock'[k] # NoStock
          PROVE  /\ stock'[k].unit # "none" => k = stock'[k].unit
                 /\ stock'[k].availability = "active" => stock'[k].amount \in Nat
      BY <2>6, <2>7, <3>2 DEF StockOk
    <3> QED
      BY <3>1, <3>2 DEF StockOk
  <2>9. overtaken' \in BOOLEAN /\ (~overtaken' => ~overtaken /\ \A k \in done.keys : stock[k] = reading.stock[k])
    BY <2>1, <2>3 DEF StockInv
  <2>10. \A k \in UnitKeys : /\ k \notin done.keys => stock'[k] = stock[k]
                             /\ ~overtaken' /\ k \in done.keys => RevisionOf(stock[k]) < RevisionOf(stock'[k])
    BY <2>5, <2>7, <2>9 DEF Worked
  <2>11. EventsSound'
    <3>1. \A e \in entries' : e.at \in Nat
      BY <2>1, <2>4, <2>5 DEF Worked
    <3>2. ASSUME ~overtaken', NEW k \in UnitKeys
          PROVE  AddsUp(Leading(entries'), k, stock'[k])
      <4>1. AddsUp(Leading(entries), k, stock[k])
        BY <2>9, <3>2 DEF StockInv, EventsSound
      <4>2. CASE k \in done.keys
        <5>1. stock[k] = reading.stock[k] /\ stock'[k] = done.stock[k]
          BY <2>7, <2>9, <3>2, <4>2
        <5> QED
          BY <2>1, <2>5, <4>1, <5>1 DEF Led
      <4>3. CASE k \notin done.keys
        <5>1. \A e \in Leading(done.new) : e.key # k
          BY <2>5, <4>3 DEF Worked, Leading
        <5>2. AddsUp(Leading(entries) \cup Leading(done.new), k, stock[k])
          BY <4>1, <5>1, OtherEvents
        <5> QED
          BY <2>1, <2>10, <4>3, <5>2, LeadingOfBoth
      <4> QED
        BY <4>2, <4>3
    <3> QED
      BY <3>1, <3>2 DEF EventsSound
  <2>12. CountSound'
    <3>1. counted \in [OperationIds -> {0, 1}] /\ \A o \in OperationIds : counted[o] = 1 => o \in SaidEvents(entries)
      BY DEF StockInv, CountSound
    <3>2. ASSUME NEW o \in OperationIds
          PROVE  counted'[o] \in {0, 1} /\ (counted'[o] = 1 => o \in SaidEvents(entries'))
      <4>1. CASE \E e \in done.new : e.id = <<"said", o>>
        <5>1. PICK e \in done.new : e.id = <<"said", o>>
          BY <4>1
        <5>2. <<"said", o>> \notin reading.ids
          BY <2>5, <5>1 DEF Worked
        <5>3. counted[o] = 0
          BY <1>3, <3>1, <5>2
        <5>4. counted'[o] = 1
          BY <2>1, <4>1, <5>3
        <5>5. o \in SaidEvents(entries')
          BY <2>1, <5>1 DEF SaidEvents
        <5> QED
          BY <5>4, <5>5
      <4>2. CASE ~\E e \in done.new : e.id = <<"said", o>>
        <5>1. counted'[o] = counted[o]
          BY <2>1, <3>1, <4>2
        <5> QED
          BY <2>1, <3>1, <5>1 DEF SaidEvents
      <4> QED
        BY <4>1, <4>2
    <3>3. counted' \in [OperationIds -> {0, 1}]
      <4>1. counted' = [o \in OperationIds |-> counted'[o]]
        BY <2>1
      <4> QED
        BY <3>2, <4>1
    <3> QED
      BY <3>2, <3>3 DEF CountSound
  <2>13. CommandSound'
    <3>1. CommandSound
      BY DEF StockInv
    <3>2. ASSUME command.step # "none"
          PROVE  SawSound(command)'
      <4>1. SUFFICES ASSUME ~overtaken', command.of.unit # "none"
                     PROVE  /\ RevisionOf(command.saw) <= RevisionOf(stock'[command.of.unit])
                            /\ RevisionOf(command.saw) = RevisionOf(stock'[command.of.unit]) => command.saw = stock'[command.of.unit]
        BY <1>1 DEF SawSound
      <4> DEFINE k == command.of.unit
      <4>2. command.saw \in States /\ k \in Units
        BY <3>1, <3>2 DEF CommandSound, Ordered
      <4>3. k \in UnitKeys
        BY <4>1, <4>2, UnitKeyIs
      <4>4. RevisionOf(command.saw) <= RevisionOf(stock[k]) /\ (RevisionOf(command.saw) = RevisionOf(stock[k]) => command.saw = stock[k])
        BY <2>9, <3>1, <3>2, <4>1 DEF CommandSound, SawSound
      <4>5. stock[k] \in States /\ stock'[k] \in States
        BY <2>6, <2>8, <4>3 DEF StockOk
      <4>6. RevisionOf(command.saw) \in Nat /\ RevisionOf(stock[k]) \in Nat /\ RevisionOf(stock'[k]) \in Nat
        BY <4>2, <4>5, StateIs
      <4> HIDE DEF k
      <4>7. /\ RevisionOf(command.saw) <= RevisionOf(stock'[k])
            /\ RevisionOf(command.saw) = RevisionOf(stock'[k]) => command.saw = stock'[k]
        <5>1. CASE k \in done.keys
          <6>1. RevisionOf(stock[k]) < RevisionOf(stock'[k])
            BY <2>10, <4>1, <4>3, <5>1
          <6> QED
            BY <4>4, <4>6, <6>1
        <5>2. CASE k \notin done.keys
          <6>1. stock'[k] = stock[k]
            BY <2>10, <4>3, <5>2
          <6> QED
            BY <4>4, <6>1
        <5> QED
          BY <5>1, <5>2
      <4> QED
        BY <4>7 DEF k
    <3> QED
      BY <1>1, <3>1, <3>2 DEF CommandSound
  <2>14. item' \in {"none", "pending", "confirmed", "invalid"}
    BY <2>1, <2>2 DEF StockInv
  <2>15. committed' \subseteq StockJobs
    BY <1>3, <2>1 DEF StockInv, ReadSound
  <2>16. stockCommands' \in 0..MaxStockCommands
    BY <1>1 DEF StockInv
  <2> QED
    BY <1>4, <2>8, <2>9, <2>11, <2>12, <2>13, <2>14, <2>15, <2>16 DEF StockInv
<1> QED
  BY <1>5, <1>6

LEMMA StockKeeps == StockInv /\ [InventoryNext]_inventoryVars => StockInv'
<1> SUFFICES ASSUME StockInv, [InventoryNext]_inventoryVars
             PROVE  StockInv'
  OBVIOUS
<1>1. CASE createInventoryItem \/ invalidateInventoryItem
  BY <1>1, ItemKeeps
<1>2. CASE \E c \in StockCommands : AskCommand(c)
  BY <1>2, AskKeeps
<1>3. CASE ReadForCommand
  BY <1>3, ReadKeeps
<1>4. CASE applyInventoryCommand
  BY <1>4, ApplyKeeps
<1>5. CASE \E m \in Messages : \E r \in Readings[m], j \in StockJobs : ReadStock(m, r, j)
  BY <1>5, ReadStockKeeps
<1>9. CASE PlanUpdates
  BY <1>9, PlanKeeps
<1>6. CASE CommitVersions
  BY <1>6, VersionsKeep
<1>7. CASE CommitStock
  BY <1>7, CommitKeeps
<1>8. CASE UNCHANGED inventoryVars
  <2>1. UNCHANGED <<item, stock, entries, committed, reading, command, stockCommands, overtaken, counted>>
    BY <1>8 DEF inventoryVars
  <2> QED
    BY <2>1, StockStays DEF StockInv
<1> QED
  BY <1>1, <1>2, <1>3, <1>4, <1>5, <1>6, <1>7, <1>8, <1>9 DEF InventoryNext

(* Until a capture overtakes a correction, the events of every unit number   *)
(* its revisions and hand each amount to the next; and the state is of its   *)
(* type.                                                                     *)
THEOREM StockStaysSound == InventorySpec => []StockSound
<1>1. InventoryInit => StockInv
  BY StockStart
<1>2. StockInv /\ [InventoryNext]_inventoryVars => StockInv'
  BY StockKeeps
<1>3. StockInv => StockSound
  BY StockInvMeans DEF StockSound
<1> QED
  BY <1>1, <1>2, <1>3, PTL DEF InventorySpec

(* The command that was compared with the state the user saw is applied to   *)
(* the very state it was compared with.                                      *)
LEMMA CommandsEditWhatWasSeen == StockInv /\ [InventoryNext]_inventoryVars => EditsWhatWasSeen
<1> SUFFICES ASSUME StockInv, [InventoryNext]_inventoryVars,
                    command.step = "read", command' = NoCommand, stock' # stock, command.of.unit # "none", ~overtaken
             PROVE  command.saw = stock[inventoryUnitKey(command.of.unit)]
  BY DEF EditsWhatWasSeen
<1>1. applyInventoryCommand
  <2>1. CommitStock => UNCHANGED command
    BY DEF CommitStock
  <2>2. CASE CommitStock
    BY <2>1, <2>2 DEF NoCommand
  <2> QED
    BY <2>2 DEF InventoryNext, inventoryVars, createInventoryItem, invalidateInventoryItem, AskCommand, ReadForCommand,
                ReadStock, PlanUpdates, PlannedAs, CommitVersions
<1>2. stock[inventoryUnitKey(command.of.unit)] = command.before
  BY <1>1 DEF applyInventoryCommand
<1>3. /\ SawSound(command) /\ RevisionOf(command.saw) = RevisionOf(command.before)
      /\ command.of.unit \in Units
  BY DEF StockInv, CommandSound, Ordered
<1>4. inventoryUnitKey(command.of.unit) = command.of.unit
  BY <1>3, UnitKeyIs
<1> QED
  BY <1>2, <1>3, <1>4 DEF SawSound

(* What a capture read as voided is not written, and a voided item stays so. *)
LEMMA VoidedItemsStay == StockInv /\ [InventoryNext]_inventoryVars => VoidedStays
<1> SUFFICES ASSUME StockInv, [InventoryNext]_inventoryVars,
                    item = "invalid", reading.step # "none" => reading.item = "invalid"
             PROVE  item' = "invalid" /\ (reading # reading' => stock' = stock)
  BY DEF VoidedStays
<1>1. CASE createInventoryItem \/ invalidateInventoryItem
  BY <1>1 DEF createInventoryItem, invalidateInventoryItem
<1>2. CASE (\E c \in StockCommands : AskCommand(c)) \/ ReadForCommand \/ applyInventoryCommand
  BY <1>2 DEF AskCommand, ReadForCommand, applyInventoryCommand
<1>3. CASE (\E m \in Messages : \E r \in Readings[m], j \in StockJobs : ReadStock(m, r, j)) \/ PlanUpdates \/ CommitVersions
  BY <1>3 DEF ReadStock, PlanUpdates, CommitVersions
<1>4. CASE CommitStock
  <2> DEFINE done == Computed(reading)
  <2>1. ~ItemUsable(reading)
    BY <1>4 DEF CommitStock, ItemUsable
  <2>2. done.keys = {}
    BY <2>1 DEF Computed
  <2>3. item' = item /\ stock' = [k \in UnitKeys |-> IF k \in done.keys THEN done.stock[k] ELSE stock[k]]
    BY <1>4, <2>1, <2>2 DEF CommitStock
  <2>4. stock' = [k \in UnitKeys |-> stock[k]]
    BY <2>2, <2>3
  <2>5. stock \in [UnitKeys -> States]
    BY DEF StockInv, StockOk
  <2> QED
    BY <2>3, <2>4, <2>5
<1>5. CASE UNCHANGED inventoryVars
  BY <1>5 DEF inventoryVars
<1> QED
  BY <1>1, <1>2, <1>3, <1>4, <1>5 DEF InventoryNext

(* No message is counted twice, a command rewrites only the state the user   *)
(* saw, and what the user voided stays void.                                 *)
THEOREM StockIsKept == InventorySpec => StockKept
<1>1. InventoryInit => StockInv
  BY StockStart
<1>2. StockInv /\ [InventoryNext]_inventoryVars => StockInv'
  BY StockKeeps
<1>3. StockInv => CountedOnce
  BY StockInvMeans
<1>4. StockInv /\ [InventoryNext]_inventoryVars => [EditsWhatWasSeen /\ VoidedStays]_inventoryVars
  BY CommandsEditWhatWasSeen, VoidedItemsStay
<1> QED
  BY <1>1, <1>2, <1>3, <1>4, PTL DEF InventorySpec, StockKept

-----------------------------------------------------------------------------
(* The facts of one slot. *)
Statuses == {"active", "pending", "superseded"}
SlotRows == [FactIds -> Fact \cup {NoFact}]

LEMMA ClaimIs ==
  ASSUME NEW k \in Claims
  PROVE  /\ k.text \in Texts /\ k.at \in Nat /\ k.mutable \in BOOLEAN /\ k.sure \in 0..2
         /\ k.known \in BOOLEAN /\ k.approved \in BOOLEAN
         /\ k.id \in FactIds /\ k.id \notin ManualIds /\ k.id # NoFact
         /\ \A l \in Claims : k.id = l.id => k = l
<1>1. /\ k.text \in Texts /\ k.at \in Nat /\ k.mutable \in BOOLEAN /\ k.sure \in 0..2
      /\ k.known \in BOOLEAN /\ k.approved \in BOOLEAN
      /\ k.id \notin ManualIds /\ \A l \in Claims : k.id = l.id => k = l
  BY ClaimShape
<1>2. k.id \in FactIds
  BY DEF FactIds
<1>3. k.id # NoFact
  BY <1>2, ClaimShape
<1> QED
  BY <1>1, <1>2, <1>3

(* What a selection returns is one of what it chooses among. *)
LEMMA BestIsOneOf ==
  ASSUME NEW S, NEW rows, NEW i \in BestOrNone(S, rows)
  PROVE  i = NoFact \/ i \in S
  BY DEF BestOrNone, Best

LEMMA OverIs ==
  ASSUME NEW written, NEW rows
  PROVE  /\ Over(written, rows) = [i \in FactIds |-> Over(written, rows)[i]]
         /\ \A i \in FactIds : Over(written, rows)[i] = IF i \in DOMAIN written THEN written[i] ELSE rows[i]
  BY DEF Over

(* Each row a fact may have. *)
RowOk(i, f, ids) ==
    /\ f \in Fact
    /\ Current(f) => f.next = NoFact
    /\ f.next # i
    /\ i \in ManualIds => i \in ids
    /\ \A k \in Claims : i = k.id => f.mutable = k.mutable
SlotOk(rows, ids) == rows \in SlotRows /\ \A i \in Stored(rows) : RowOk(i, rows[i], ids)

(* What superseded a fact is stored and knows it. *)
Chained(rows) ==
    \A i \in Stored(rows) : rows[i].status = "superseded" /\ rows[i].next # NoFact
                            => rows[i].next \in Stored(rows) /\ rows[rows[i].next].prev = i

(* What a capture saw of the slot. *)
SeenOk(seen, rows, ids, again) ==
    /\ SlotOk(seen, ids)
    /\ \A i \in Stored(seen) :
          /\ Current(seen[i])
          /\ i \in Stored(rows) => seen[i].mutable = rows[i].mutable
          /\ ~again => \A j \in Stored(rows) : rows[j].status = "superseded" /\ rows[j].next = i => seen[i].prev = j
Unseen(rows, done) == \A k \in Claims \ done : rows[k.id] = NoFact

(* A row is not the mark for none. *)
LEMMA RowIsNotNone ==
  ASSUME NEW rows, rows \in SlotRows, NEW i \in FactIds
  PROVE  /\ i \in Stored(rows) <=> rows[i] \in Fact
         /\ i \notin Stored(rows) <=> rows[i] = NoFact
  BY ClaimShape DEF SlotRows, Stored

LEMMA FactOfIs ==
  ASSUME NEW k \in Claims, NEW f \in {FactOf(k), [FactOf(k) EXCEPT !.status = "pending"]}
  PROVE  f \in Fact /\ Current(f) /\ f.next = NoFact /\ f.mutable = k.mutable
  BY ClaimIs DEF FactOf, Fact, Current

LEMMA SuccessorIs ==
  ASSUME NEW k \in Claims, NEW p \in FactIds
  PROVE  LET f == [FactOf(k) EXCEPT !.prev = p]
         IN  f \in Fact /\ Current(f) /\ f.next = NoFact /\ f.mutable = k.mutable /\ f.prev = p
  BY ClaimIs DEF FactOf, Fact, Current

(* The four things a capture may do with a claim. *)
LEMMA PlansAre ==
  ASSUME NEW k \in Claims, NEW seen, seen \in SlotRows, NEW written \in Plans(k, seen)
  PROVE  \/ written = NoRows
         \/ \E i \in CurrentIn(seen) : written = Only(i, MergedInto(seen[i], k))
         \/ \E f \in {FactOf(k), [FactOf(k) EXCEPT !.status = "pending"]} : written = Only(k.id, f)
         \/ \E i \in CurrentIn(seen) : seen[i].mutable /\ k.mutable /\ written = Supersede(k, seen, i)
<1>1. PICK i \in Matches(k, seen) : written = IF i = NoFact THEN Only(k.id, FactOf(k)) ELSE Reconciled(k, seen, i)
  BY DEF Plans
<1>2. i = NoFact \/ i \in CurrentIn(seen)
  BY BestIsOneOf DEF Matches, Duplicates
<1>3. CASE i = NoFact
  BY <1>1, <1>3
<1>4. CASE i # NoFact
  <2>1. i \in CurrentIn(seen) /\ written = Reconciled(k, seen, i)
    BY <1>1, <1>2, <1>4
  <2> DEFINE decision == decideFactReconciliation(seen[i], k)
  <2>2. decision \in {"supersede", "pending"} => seen[i].mutable /\ k.mutable
    BY DEF decideFactReconciliation
  <2> HIDE DEF decision
  <2>3. written = IF decision = "duplicate"
                  THEN IF k \in seen[i].sources THEN NoRows ELSE Only(i, MergedInto(seen[i], k))
                  ELSE IF decision = "supersede" \/ (decision = "pending" /\ k.approved) THEN Supersede(k, seen, i)
                  ELSE Only(k.id, IF decision = "pending" THEN [FactOf(k) EXCEPT !.status = "pending"] ELSE FactOf(k))
    BY <2>1 DEF Reconciled, decision
  <2> QED
    BY <2>1, <2>2, <2>3
<1> QED
  BY <1>3, <1>4

(* What a capture writes are rows of the kinds their ids have. *)
Fits(written, rows, ids) ==
    \A j \in DOMAIN written : /\ j \in FactIds /\ RowOk(j, written[j], ids)
                              /\ j \in Stored(rows) => written[j].mutable = rows[j].mutable

LEMMA OnlyIs ==
  ASSUME NEW i, NEW f
  PROVE  DOMAIN Only(i, f) = {i} /\ Only(i, f)[i] = f
  BY DEF Only

LEMMA MergedIs ==
  ASSUME NEW k \in Claims, NEW f \in Fact
  PROVE  /\ MergedInto(f, k) \in Fact
         /\ MergedInto(f, k).status = f.status /\ MergedInto(f, k).mutable = f.mutable
         /\ MergedInto(f, k).prev = f.prev /\ MergedInto(f, k).next = f.next
  BY ClaimIs DEF MergedInto, Fact

LEMMA SupersededIs ==
  ASSUME NEW f \in Fact, NEW n \in FactIds
  PROVE  LET g == [f EXCEPT !.status = "superseded", !.next = n]
         IN  g \in Fact /\ g.status = "superseded" /\ g.next = n /\ g.mutable = f.mutable /\ g.prev = f.prev
  BY DEF Fact

LEMMA SupersedeIs ==
  ASSUME NEW k \in Claims, NEW seen, NEW i \in FactIds, seen[i] \in Fact, NEW written, written = Supersede(k, seen, i)
  PROVE  /\ DOMAIN written = {k.id, i}
         /\ written[k.id] \in Fact /\ Current(written[k.id]) /\ written[k.id].next = NoFact
         /\ written[k.id].mutable = k.mutable /\ written[k.id].prev = i
         /\ i # k.id => /\ written[i] \in Fact /\ written[i].status = "superseded" /\ written[i].next = k.id
                        /\ written[i].mutable = seen[i].mutable /\ written[i].prev = seen[i].prev
<1> DEFINE f == [FactOf(k) EXCEPT !.prev = i]
           g == [seen[i] EXCEPT !.status = "superseded", !.next = k.id]
           both == Supersede(k, seen, i)
<1>1. f \in Fact /\ Current(f) /\ f.next = NoFact /\ f.mutable = k.mutable /\ f.prev = i
  BY SuccessorIs
<1>2. g \in Fact /\ g.status = "superseded" /\ g.next = k.id /\ g.mutable = seen[i].mutable /\ g.prev = seen[i].prev
  BY SupersededIs, ClaimIs
<1>3. DOMAIN both = {k.id, i} /\ both[k.id] = f /\ (i # k.id => both[i] = g)
  BY DEF Supersede
<1>4. written = both
  OBVIOUS
<1> HIDE DEF f, g, both
<1> QED
  BY <1>1, <1>2, <1>3, <1>4

LEMMA WrittenFits ==
  ASSUME NEW k \in Claims, NEW rows, NEW ids, NEW again, SlotOk(rows, ids),
         NEW seen, SeenOk(seen, rows, ids, again), NEW written \in Plans(k, seen)
  PROVE  Fits(written, rows, ids)
<1>1. /\ seen \in SlotRows /\ rows \in SlotRows
      /\ \A i \in Stored(seen) : RowOk(i, seen[i], ids) /\ (i \in Stored(rows) => seen[i].mutable = rows[i].mutable)
      /\ \A i \in Stored(rows) : RowOk(i, rows[i], ids)
  BY DEF SlotOk, SeenOk
<1>2. ASSUME NEW f \in Fact, f.next = NoFact, f.mutable = k.mutable
      PROVE  RowOk(k.id, f, ids) /\ (k.id \in Stored(rows) => f.mutable = rows[k.id].mutable)
  <2>1. f \in Fact /\ f.next = NoFact /\ f.mutable = k.mutable
    BY <1>2
  <2>2. k.id # NoFact /\ k.id \notin ManualIds /\ \A l \in Claims : k.id = l.id => k = l
    BY ClaimIs
  <2>3. RowOk(k.id, f, ids)
    BY <2>1, <2>2 DEF RowOk
  <2>4. k.id \in Stored(rows) => rows[k.id].mutable = k.mutable
    BY <1>1 DEF RowOk
  <2> QED
    BY <2>1, <2>3, <2>4
<1>3. CASE written = NoRows
  BY <1>3 DEF Fits, NoRows
<1>4. ASSUME NEW i \in CurrentIn(seen), written = Only(i, MergedInto(seen[i], k))
      PROVE  Fits(written, rows, ids)
  <2>1. i \in Stored(seen) /\ i \in FactIds /\ Current(seen[i]) /\ RowOk(i, seen[i], ids)
    BY <1>1 DEF CurrentIn, Stored
  <2>2. seen[i] \in Fact
    BY <2>1 DEF RowOk
  <2> DEFINE f == MergedInto(seen[i], k)
  <2>3. f \in Fact /\ f.status = seen[i].status /\ f.mutable = seen[i].mutable /\ f.next = seen[i].next
    BY <2>2, MergedIs
  <2>4. DOMAIN written = {i} /\ written[i] = f
    BY <1>4, OnlyIs
  <2> HIDE DEF f
  <2>5. RowOk(i, f, ids)
    BY <2>1, <2>3 DEF RowOk, Current
  <2> QED
    BY <1>1, <2>1, <2>3, <2>4, <2>5 DEF Fits
<1>5. ASSUME NEW f \in {FactOf(k), [FactOf(k) EXCEPT !.status = "pending"]}, written = Only(k.id, f)
      PROVE  Fits(written, rows, ids)
  <2>1. DOMAIN written = {k.id} /\ written[k.id] = f
    BY <1>5, OnlyIs
  <2>2. RowOk(k.id, f, ids) /\ (k.id \in Stored(rows) => f.mutable = rows[k.id].mutable)
    <3>1. f \in Fact /\ f.next = NoFact /\ f.mutable = k.mutable
      BY <1>5, FactOfIs
    <3> QED
      BY <1>2, <3>1
  <2> QED
    BY <2>1, <2>2, ClaimIs DEF Fits
<1>6. ASSUME NEW i \in CurrentIn(seen), written = Supersede(k, seen, i)
      PROVE  Fits(written, rows, ids)
  <2>1. i \in Stored(seen) /\ i \in FactIds /\ RowOk(i, seen[i], ids)
    BY <1>1 DEF CurrentIn, Stored
  <2>2. seen[i] \in Fact
    BY <2>1 DEF RowOk
  <2>3. /\ DOMAIN written = {k.id, i}
        /\ written[k.id] \in Fact /\ written[k.id].next = NoFact /\ written[k.id].mutable = k.mutable
        /\ i # k.id => /\ written[i] \in Fact /\ written[i].status = "superseded" /\ written[i].next = k.id
                       /\ written[i].mutable = seen[i].mutable
    BY <1>6, <2>1, <2>2, SupersedeIs
  <2>4. i # k.id => RowOk(i, written[i], ids)
    BY <2>1, <2>3 DEF RowOk, Current
  <2>5. RowOk(k.id, written[k.id], ids) /\ (k.id \in Stored(rows) => written[k.id].mutable = rows[k.id].mutable)
    BY <1>2, <2>3
  <2> QED
    BY <1>1, <2>1, <2>3, <2>4, <2>5, ClaimIs DEF Fits
<1> QED
  BY <1>1, <1>3, <1>4, <1>5, <1>6, PlansAre

(* Written over the slot, they leave it in shape, and the head is current.   *)
LEMMA SlotAfterCapture ==
  ASSUME NEW rows, NEW ids, SlotOk(rows, ids), NEW written, Fits(written, rows, ids)
  PROVE  SlotOk(Over(written, rows), ids)
<1> DEFINE new == Over(written, rows)
<1>1. \A i \in FactIds : new[i] = IF i \in DOMAIN written THEN written[i] ELSE rows[i]
  BY OverIs
<1>2. new = [i \in FactIds |-> new[i]]
  BY OverIs
<1> HIDE DEF new
<1>3. \A j \in DOMAIN written : written[j] \in Fact
  BY DEF Fits, RowOk
<1>4. new \in SlotRows
  BY <1>1, <1>2, <1>3 DEF SlotRows, SlotOk
<1>5. ASSUME NEW i \in Stored(new)
      PROVE  RowOk(i, new[i], ids)
  BY <1>1 DEF Fits, SlotOk, Stored
<1> QED
  BY <1>4, <1>5 DEF SlotOk, new

LEMMA HeadAfterCaptureIsCurrent ==
  ASSUME NEW rows, NEW ids, SlotOk(rows, ids), NEW written, Fits(written, rows, ids),
         head \in MutableIn(rows) \cup {NoFact}, NEW h \in HeadAfterCapture(written, Over(written, rows))
  PROVE  h \in MutableIn(Over(written, rows)) \cup {NoFact}
<1> DEFINE new == Over(written, rows)
           batch == {i \in DOMAIN written : new[i].mutable}
<1>1. \A i \in FactIds : new[i] = IF i \in DOMAIN written THEN written[i] ELSE rows[i]
  BY OverIs
<1>2. CASE batch = {}
  <2>1. h = head
    BY <1>2 DEF HeadAfterCapture
  <2> HIDE DEF new
  <2>2. SUFFICES ASSUME head # NoFact
                 PROVE  head \in MutableIn(new)
    BY <2>1 DEF new
  <2>3. head \in FactIds /\ head \in Stored(rows) /\ Current(rows[head]) /\ rows[head].mutable
    BY <2>2 DEF MutableIn, CurrentIn, Stored
  <2>4. head \notin DOMAIN written
    <3>1. SUFFICES ASSUME head \in DOMAIN written
                   PROVE  FALSE
      OBVIOUS
    <3>2. written[head].mutable = rows[head].mutable /\ new[head] = written[head]
      BY <1>1, <2>3, <3>1 DEF Fits
    <3> QED
      BY <1>2, <2>3, <3>1, <3>2
  <2>5. new[head] = rows[head]
    BY <1>1, <2>3, <2>4
  <2> QED
    BY <2>3, <2>5 DEF MutableIn, CurrentIn, Stored
<1>3. CASE batch # {}
  <2>1. h \in BestOrNone((({head} \cap Stored(new)) \cup batch) \cap MutableIn(new), new)
    BY <1>3 DEF HeadAfterCapture
  <2> HIDE DEF new, batch
  <2> QED
    BY <2>1, BestIsOneOf DEF new
<1> QED
  BY <1>2, <1>3

(* A claim that was not captured before breaks no chain, and is stored then. *)
LEMMA ChainsAfterCapture ==
  ASSUME NEW k \in Claims, NEW rows, NEW ids, SlotOk(rows, ids), Chained(rows),
         NEW seen, SeenOk(seen, rows, ids, FALSE), rows[k.id] = NoFact, seen[k.id] = NoFact,
         NEW written \in Plans(k, seen)
  PROVE  Chained(Over(written, rows))
<1> DEFINE new == Over(written, rows)
<1>1. \A i \in FactIds : new[i] = IF i \in DOMAIN written THEN written[i] ELSE rows[i]
  BY OverIs
<1> HIDE DEF new
<1>2. rows \in SlotRows /\ seen \in SlotRows /\ k.id \in FactIds /\ k.id # NoFact /\ k.id \notin Stored(rows)
  BY ClaimIs DEF SlotOk, SeenOk, Stored
<1>3. \A i \in Stored(seen) : /\ i \in FactIds /\ seen[i] \in Fact /\ Current(seen[i]) /\ seen[i].next = NoFact /\ i # k.id
                              /\ \A j \in Stored(rows) : rows[j].status = "superseded" /\ rows[j].next = i => seen[i].prev = j
  BY DEF SeenOk, SlotOk, RowOk, Stored
<1>4. \A i \in Stored(rows) : rows[i].status = "superseded" /\ rows[i].next # NoFact
                              => rows[i].next \in Stored(rows) /\ rows[rows[i].next].prev = i
  BY DEF Chained
<1>5. NoFact \notin Fact
  BY ClaimShape
<1>6. CASE written = NoRows
  <2>1. DOMAIN written = {}
    BY <1>6 DEF NoRows
  <2>2. \A i \in FactIds : new[i] = rows[i]
    BY <1>1, <2>1
  <2> QED
    BY <1>4, <2>2 DEF Chained, Stored, new
<1>7. ASSUME NEW p \in CurrentIn(seen), written = Only(p, MergedInto(seen[p], k))
      PROVE  Chained(new)
  <2>1. p \in Stored(seen)
    BY DEF CurrentIn
  <2> DEFINE f == MergedInto(seen[p], k)
  <2>2. f \in Fact /\ f.status = seen[p].status /\ f.prev = seen[p].prev
    BY <1>3, <2>1, MergedIs
  <2>3. DOMAIN written = {p} /\ written[p] = f
    BY <1>7, OnlyIs
  <2> HIDE DEF f
  <2>4. new[p] = f /\ p \in Stored(new) /\ f.status # "superseded"
    BY <1>1, <1>3, <1>5, <2>1, <2>2, <2>3 DEF Stored, Current
  <2>5. \A i \in FactIds : i # p => new[i] = rows[i] /\ (i \in Stored(new) <=> i \in Stored(rows))
    BY <1>1, <2>3 DEF Stored
  <2>6. ASSUME NEW i \in Stored(new), new[i].status = "superseded", new[i].next # NoFact
        PROVE  new[i].next \in Stored(new) /\ new[new[i].next].prev = i
    <3>1. i # p /\ i \in Stored(rows) /\ new[i] = rows[i]
      BY <2>4, <2>5, <2>6 DEF Stored
    <3>2. rows[i].next \in Stored(rows) /\ rows[rows[i].next].prev = i
      BY <1>4, <2>6, <3>1
    <3>3. rows[i].next = p => seen[p].prev = i
      BY <1>3, <2>1, <2>6, <3>1
    <3> QED
      BY <2>2, <2>4, <2>5, <3>1, <3>2, <3>3 DEF Stored
  <2> QED
    BY <2>6 DEF Chained
<1>8. ASSUME NEW f \in {FactOf(k), [FactOf(k) EXCEPT !.status = "pending"]}, written = Only(k.id, f)
      PROVE  Chained(new)
  <2>1. f \in Fact /\ Current(f)
    BY FactOfIs
  <2>2. DOMAIN written = {k.id} /\ written[k.id] = f
    BY <1>8, OnlyIs
  <2>3. new[k.id] = f /\ f.status # "superseded"
    BY <1>1, <1>2, <2>1, <2>2 DEF Current
  <2>4. \A i \in FactIds : i # k.id => new[i] = rows[i] /\ (i \in Stored(new) <=> i \in Stored(rows))
    BY <1>1, <2>2 DEF Stored
  <2>5. ASSUME NEW i \in Stored(new), new[i].status = "superseded", new[i].next # NoFact
        PROVE  new[i].next \in Stored(new) /\ new[new[i].next].prev = i
    <3>1. i # k.id /\ i \in Stored(rows) /\ new[i] = rows[i]
      BY <2>3, <2>4, <2>5 DEF Stored
    <3>2. rows[i].next \in Stored(rows) /\ rows[rows[i].next].prev = i /\ rows[i].next # k.id
      BY <1>2, <1>4, <2>5, <3>1
    <3> QED
      BY <2>4, <3>1, <3>2 DEF Stored
  <2> QED
    BY <2>5 DEF Chained
<1>9. ASSUME NEW p \in CurrentIn(seen), written = Supersede(k, seen, p)
      PROVE  Chained(new)
  <2>1. p \in Stored(seen) /\ p \in FactIds /\ seen[p] \in Fact /\ p # k.id
    BY <1>3 DEF CurrentIn
  <2>2. /\ DOMAIN written = {k.id, p}
        /\ written[k.id] \in Fact /\ Current(written[k.id]) /\ written[k.id].prev = p
        /\ written[p] \in Fact /\ written[p].next = k.id /\ written[p].prev = seen[p].prev
    BY <1>9, <2>1, SupersedeIs
  <2>3. /\ new[k.id] = written[k.id] /\ k.id \in Stored(new) /\ new[p] = written[p] /\ p \in Stored(new)
        /\ new[k.id].status # "superseded"
    BY <1>1, <1>2, <1>5, <2>1, <2>2 DEF Stored, Current
  <2>4. \A i \in FactIds : i \notin {k.id, p} => new[i] = rows[i] /\ (i \in Stored(new) <=> i \in Stored(rows))
    BY <1>1, <2>2 DEF Stored
  <2>5. ASSUME NEW i \in Stored(new), new[i].status = "superseded", new[i].next # NoFact
        PROVE  new[i].next \in Stored(new) /\ new[new[i].next].prev = i
    <3>1. CASE i = p
      BY <2>2, <2>3, <3>1
    <3>2. CASE i # p
      <4>1. i # k.id /\ i \in Stored(rows) /\ new[i] = rows[i]
        BY <2>3, <2>4, <2>5, <3>2 DEF Stored
      <4>2. rows[i].next \in Stored(rows) /\ rows[rows[i].next].prev = i /\ rows[i].next # k.id
        BY <1>2, <1>4, <2>5, <4>1
      <4>3. rows[i].next = p => seen[p].prev = i
        BY <1>3, <2>1, <2>5, <4>1
      <4> QED
        BY <2>2, <2>3, <2>4, <4>1, <4>2, <4>3 DEF Stored
    <3> QED
      BY <3>1, <3>2
  <2> QED
    BY <2>5 DEF Chained
<1> QED
  BY <1>2, <1>6, <1>7, <1>8, <1>9, PlansAre DEF new

LEMMA UnseenAfterCapture ==
  ASSUME NEW k \in Claims, NEW rows, NEW done, Unseen(rows, done), NEW ids, NEW again,
         NEW seen, SeenOk(seen, rows, ids, again), Unseen(seen, done),
         NEW written \in Plans(k, seen)
  PROVE  Unseen(Over(written, rows), done \cup {k})
<1> DEFINE new == Over(written, rows)
<1>1. \A i \in FactIds : new[i] = IF i \in DOMAIN written THEN written[i] ELSE rows[i]
  BY OverIs
<1> HIDE DEF new
<1>2. DOMAIN written \subseteq {k.id} \cup Stored(seen)
  <2>1. seen \in SlotRows
    BY DEF SeenOk, SlotOk
  <2>2. CASE written = NoRows
    BY <2>2 DEF NoRows
  <2>3. ASSUME NEW i, NEW f, written = Only(i, f), i \in {k.id} \cup Stored(seen)
        PROVE  DOMAIN written \subseteq {k.id} \cup Stored(seen)
    <3>1. DOMAIN written = {i}
      BY <2>3, OnlyIs, Zenon
    <3> QED
      BY <2>3, <3>1
  <2>4. ASSUME NEW i \in CurrentIn(seen), written = Supersede(k, seen, i)
        PROVE  DOMAIN written \subseteq {k.id} \cup Stored(seen)
    BY <2>4 DEF Supersede, CurrentIn
  <2>5. CurrentIn(seen) \subseteq Stored(seen)
    BY DEF CurrentIn
  <2>6. CASE \E i \in CurrentIn(seen) : written = Only(i, MergedInto(seen[i], k))
    BY <2>3, <2>5, <2>6
  <2>7. CASE \E f \in {FactOf(k), [FactOf(k) EXCEPT !.status = "pending"]} : written = Only(k.id, f)
    BY <2>3, <2>7
  <2> QED
    BY <2>1, <2>2, <2>4, <2>6, <2>7, PlansAre
<1>3. ASSUME NEW l \in Claims \ (done \cup {k})
      PROVE  new[l.id] = NoFact
  <2>1. l.id \in FactIds /\ l.id # k.id /\ rows[l.id] = NoFact /\ seen[l.id] = NoFact
    BY ClaimIs DEF Unseen
  <2>2. l.id \notin DOMAIN written
    BY <1>2, <2>1 DEF Stored
  <2> QED
    BY <1>1, <2>1, <2>2
<1> QED
  BY <1>3 DEF Unseen, new

-----------------------------------------------------------------------------
(* Edits.                                                                     *)
EditOk(e, rows, ids) ==
    /\ e.seen = rows /\ e.id \in FactIds /\ e.text \in Texts /\ e.mutable \in BOOLEAN /\ e.sure \in 0..2
    /\ e.status \in Statuses /\ (e.id \in ManualIds => e.id \in ids)
    /\ IF rows[e.id] = NoFact THEN e.id \in ManualIds /\ e.status # "superseded"
       ELSE e.mutable = rows[e.id].mutable /\ e.status = rows[e.id].status

LEMMA NowIs == edits \in Nat => Now \in Nat
<1>1. \E k \in Claims : Newest(k)
  BY ClaimShape DEF Newest
<1>2. (CHOOSE k \in Claims : Newest(k)) \in Claims
  BY <1>1
<1> QED
  BY <1>2, ClaimIs DEF Now

LEMMA DisplacedIs ==
  ASSUME NEW e, NEW old \in Displaced(e)
  PROVE  \/ old = NoFact
         \/ e.seen[e.id] = NoFact /\ old \in CurrentIn(e.seen)
  BY BestIsOneOf DEF Displaced

LEMMA EditedIs ==
  ASSUME NEW rows, NEW ids, SlotOk(rows, ids), NEW e, EditOk(e, rows, ids), NEW old \in Displaced(e), edits \in Nat
  PROVE  LET f == EditedFact(e, old)
         IN  /\ f \in Fact /\ f.mutable = e.mutable /\ f.status = EditStatus(e)
             /\ rows[e.id] = NoFact => f.prev = old /\ f.next = NoFact
             /\ rows[e.id] # NoFact => f.prev = rows[e.id].prev /\ f.next = rows[e.id].next
             /\ RowOk(e.id, f, ids)
<1> DEFINE f == EditedFact(e, old)
<1>1. e.seen = rows /\ e.id \in FactIds /\ rows \in SlotRows /\ Now \in Nat /\ EditStatus(e) \in Statuses
  BY NowIs DEF EditOk, SlotOk, EditStatus, Statuses
<1>2. old = NoFact \/ (rows[e.id] = NoFact /\ old \in FactIds /\ old # NoFact)
  BY <1>1, DisplacedIs, ClaimShape DEF CurrentIn, Stored
<1>3. rows[e.id] # NoFact => rows[e.id] \in Fact /\ RowOk(e.id, rows[e.id], ids)
  BY <1>1 DEF SlotOk, SlotRows, Stored
<1>4. rows[e.id] # NoFact => /\ rows[e.id].sources \in SUBSET Claims
                            /\ rows[e.id].prev \in FactIds \cup {NoFact} /\ rows[e.id].next \in FactIds \cup {NoFact}
  BY <1>3 DEF Fact
<1>5. /\ f.mutable = e.mutable /\ f.text = e.text /\ f.sure = e.sure /\ f.at = Now /\ f.status = EditStatus(e)
      /\ f.sources = (IF rows[e.id] = NoFact THEN {} ELSE rows[e.id].sources)
      /\ f.prev = (IF old # NoFact THEN old ELSE IF rows[e.id] = NoFact THEN NoFact ELSE rows[e.id].prev)
      /\ f.next = (IF rows[e.id] = NoFact THEN NoFact ELSE rows[e.id].next)
      /\ f = [mutable |-> f.mutable, text |-> f.text, sure |-> f.sure, at |-> f.at, status |-> f.status,
              sources |-> f.sources, prev |-> f.prev, next |-> f.next]
  BY <1>1 DEF EditedFact
<1> HIDE DEF f
<1>6. f \in Fact
  <2>1. f.sources \in SUBSET Claims /\ f.prev \in FactIds \cup {NoFact} /\ f.next \in FactIds \cup {NoFact}
    BY <1>2, <1>4, <1>5
  <2>2. f.mutable \in BOOLEAN /\ f.text \in Texts /\ f.sure \in 0..2 /\ f.at \in Nat /\ f.status \in {"active", "pending", "superseded"}
    BY <1>1, <1>5 DEF EditOk, Statuses
  <2> QED
    BY <1>5, <2>1, <2>2 DEF Fact
<1>7. RowOk(e.id, f, ids)
  <2>1. Current(f) => f.next = NoFact
    <3>1. rows[e.id] # NoFact /\ Current(f) => Current(rows[e.id])
      BY <1>1, <1>5 DEF EditOk, EditStatus, Current, Statuses
    <3> QED
      BY <1>3, <1>5, <3>1 DEF RowOk
  <2>2. f.next # e.id
    BY <1>1, <1>3, <1>5, ClaimShape DEF RowOk
  <2>3. \A k \in Claims : e.id = k.id => f.mutable = k.mutable
    BY <1>3, <1>5, ClaimIs DEF RowOk, EditOk
  <2> QED
    BY <1>6, <2>1, <2>2, <2>3 DEF RowOk, EditOk
<1> QED
  BY <1>2, <1>5, <1>6, <1>7 DEF f

(* The slot after an edit. *)
After(e, old, rows) ==
    Over(Only(e.id, EditedFact(e, old)),
         IF old = NoFact THEN rows
         ELSE Over(Only(old, [rows[old] EXCEPT !.status = "superseded", !.next = e.id]), rows))

LEMMA AfterEdit ==
  ASSUME NEW rows, NEW ids, SlotOk(rows, ids), NEW e, EditOk(e, rows, ids), NEW old \in Displaced(e), edits \in Nat
  PROVE  LET new == After(e, old, rows)
         IN  /\ SlotOk(new, ids)
             /\ \A i \in FactIds : i # e.id /\ i # old => new[i] = rows[i]
             /\ new[e.id] = EditedFact(e, old)
             /\ old # NoFact => /\ old \in CurrentIn(rows) /\ rows[e.id] = NoFact
                               /\ new[old] \in Fact /\ new[old].status = "superseded" /\ new[old].next = e.id
                               /\ new[old].prev = rows[old].prev /\ new[old].mutable = rows[old].mutable
<1> DEFINE f == EditedFact(e, old)
           g == [rows[old] EXCEPT !.status = "superseded", !.next = e.id]
           between == IF old = NoFact THEN rows ELSE Over(Only(old, g), rows)
           new == Over(Only(e.id, f), between)
<1>1. e.seen = rows /\ e.id \in FactIds /\ rows \in SlotRows /\ (\A i \in Stored(rows) : RowOk(i, rows[i], ids))
  BY DEF EditOk, SlotOk
<1>2. old # NoFact => old \in CurrentIn(rows) /\ rows[e.id] = NoFact /\ old \in FactIds /\ old \in Stored(rows) /\ old # e.id
  BY <1>1, DisplacedIs DEF CurrentIn, Stored
<1>3. f \in Fact /\ RowOk(e.id, f, ids)
  BY EditedIs
<1>4. old # NoFact => /\ g \in Fact /\ g.status = "superseded" /\ g.next = e.id /\ g.mutable = rows[old].mutable
                      /\ g.prev = rows[old].prev
  <2>1. old # NoFact => rows[old] \in Fact
    BY <1>1, <1>2 DEF RowOk
  <2> QED
    BY <1>1, <2>1, SupersededIs
<1>5. /\ DOMAIN Only(e.id, f) = {e.id} /\ Only(e.id, f)[e.id] = f
      /\ DOMAIN Only(old, g) = {old} /\ Only(old, g)[old] = g
  BY OnlyIs
<1> HIDE DEF f, g
<1>6. \A i \in FactIds : between[i] = IF old # NoFact /\ i = old THEN g ELSE rows[i]
  BY <1>5, OverIs
<1> HIDE DEF between
<1>7. \A i \in FactIds : new[i] = IF i = e.id THEN f ELSE IF old # NoFact /\ i = old THEN g ELSE rows[i]
  BY <1>5, <1>6, OverIs
<1>8. new = [i \in FactIds |-> new[i]]
  BY OverIs
<1> HIDE DEF new
<1>9. new \in SlotRows
  BY <1>1, <1>3, <1>4, <1>7, <1>8 DEF SlotRows
<1>10. old # NoFact => RowOk(old, g, ids)
  BY <1>1, <1>2, <1>4 DEF RowOk, Current
<1>11. SlotOk(new, ids)
  <2>1. ASSUME NEW i \in Stored(new)
        PROVE  RowOk(i, new[i], ids)
    BY <1>1, <1>3, <1>7, <1>10 DEF Stored
  <2> QED
    BY <1>9, <2>1 DEF SlotOk
<1>12. new = After(e, old, rows)
  BY DEF new, between, f, g, After
<1>13. /\ \A i \in FactIds : i # e.id /\ i # old => new[i] = rows[i]
       /\ new[e.id] = EditedFact(e, old)
       /\ old # NoFact => new[old] = g
  BY <1>1, <1>2, <1>7 DEF f
<1> QED
  BY <1>2, <1>4, <1>11, <1>12, <1>13

(* What is superseded after an edit, and by what. *)
LEMMA SupersededAfterEdit ==
  ASSUME NEW rows, NEW ids, SlotOk(rows, ids), NEW e, EditOk(e, rows, ids), NEW old \in Displaced(e), edits \in Nat,
         NEW i \in Stored(After(e, old, rows)), After(e, old, rows)[i].status = "superseded"
  PROVE  \/ i # old /\ i \in Stored(rows) /\ rows[i].status = "superseded" /\ After(e, old, rows)[i].next = rows[i].next
         \/ i = old /\ rows[e.id] = NoFact /\ After(e, old, rows)[i].next = e.id
<1> DEFINE new == After(e, old, rows)
<1>1. /\ \A j \in FactIds : j # e.id /\ j # old => new[j] = rows[j]
      /\ new[e.id] = EditedFact(e, old)
      /\ old # NoFact => old \in CurrentIn(rows) /\ rows[e.id] = NoFact /\ new[old].next = e.id
  BY AfterEdit
<1>2. /\ EditedFact(e, old).status = EditStatus(e)
      /\ rows[e.id] # NoFact => EditedFact(e, old).next = rows[e.id].next
  BY EditedIs
<1>3. EditStatus(e) = "superseded" => rows[e.id] # NoFact /\ rows[e.id].status = "superseded"
  BY DEF EditStatus, EditOk
<1>4. i \in FactIds /\ i # NoFact /\ e.id \in FactIds
  BY ClaimShape DEF Stored, EditOk
<1> HIDE DEF new
<1>5. new[i].status = "superseded" /\ new[i] # NoFact
  BY DEF new, Stored
<1>6. CASE i = old
  BY <1>1, <1>4, <1>6 DEF new
<1>7. CASE i # old /\ i = e.id
  BY <1>1, <1>2, <1>3, <1>4, <1>5, <1>7 DEF new, Stored
<1>8. CASE i # old /\ i # e.id
  BY <1>1, <1>4, <1>5, <1>8 DEF new, Stored
<1> QED
  BY <1>6, <1>7, <1>8

LEMMA ChainsAfterEdit ==
  ASSUME NEW rows, NEW ids, SlotOk(rows, ids), Chained(rows), NEW e, EditOk(e, rows, ids),
         NEW old \in Displaced(e), edits \in Nat
  PROVE  Chained(After(e, old, rows))
<1> DEFINE new == After(e, old, rows)
<1>1. /\ SlotOk(new, ids)
      /\ \A j \in FactIds : j # e.id /\ j # old => new[j] = rows[j]
      /\ new[e.id] = EditedFact(e, old)
      /\ old # NoFact => old \in CurrentIn(rows) /\ rows[e.id] = NoFact /\ new[old].prev = rows[old].prev
                        /\ new[old] \in Fact
  BY AfterEdit
<1>2. /\ EditedFact(e, old) \in Fact
      /\ rows[e.id] = NoFact => EditedFact(e, old).prev = old
      /\ rows[e.id] # NoFact => EditedFact(e, old).prev = rows[e.id].prev
  BY EditedIs
<1>3. e.id \in FactIds /\ NoFact \notin FactIds \cup Fact /\ new \in SlotRows
  BY <1>1, ClaimShape DEF EditOk, SlotOk
<1>4. e.id \in Stored(new)
  BY <1>1, <1>2, <1>3 DEF Stored
<1>5. \A i \in Stored(rows) : rows[i].status = "superseded" /\ rows[i].next # NoFact
                              => rows[i].next \in Stored(rows) /\ rows[rows[i].next].prev = i
  BY DEF Chained
<1>6. ASSUME NEW i \in Stored(new), new[i].status = "superseded", new[i].next # NoFact
      PROVE  new[i].next \in Stored(new) /\ new[new[i].next].prev = i
  <2>1. CASE i = old /\ rows[e.id] = NoFact /\ new[i].next = e.id
    BY <1>1, <1>2, <1>4, <2>1
  <2>2. CASE i # old /\ i \in Stored(rows) /\ rows[i].status = "superseded" /\ new[i].next = rows[i].next
    <3> DEFINE n == rows[i].next
    <3>1. n \in Stored(rows) /\ rows[n].prev = i /\ new[i].next = n /\ n \in FactIds /\ rows[n] # NoFact /\ n # NoFact
      BY <1>3, <1>5, <1>6, <2>2 DEF Stored
    <3> HIDE DEF n
    <3>2. CASE n = e.id
      <4>1. new[n].prev = i
        BY <1>1, <1>2, <3>1, <3>2
      <4> QED
        BY <1>4, <3>1, <3>2, <4>1
    <3>3. CASE n = old
      <4>1. new[n].prev = i
        BY <1>1, <3>1, <3>3
      <4>2. n \in Stored(new)
        <5>1. new[n] # NoFact
          BY <1>1, <1>3, <3>1, <3>3
        <5> QED
          BY <3>1, <5>1 DEF Stored
      <4> QED
        BY <3>1, <4>1, <4>2
    <3>4. CASE n # e.id /\ n # old
      BY <1>1, <3>1, <3>4 DEF Stored
    <3> QED
      BY <3>2, <3>3, <3>4
  <2> QED
    BY <1>6, <2>1, <2>2, SupersededAfterEdit
<1> QED
  BY <1>6 DEF Chained

LEMMA SeenAfterEdit ==
  ASSUME NEW rows, NEW ids, SlotOk(rows, ids), NEW e, EditOk(e, rows, ids), NEW old \in Displaced(e), edits \in Nat,
         NEW seen, NEW again, SeenOk(seen, rows, ids, again), rows[e.id] = NoFact => seen[e.id] = NoFact
  PROVE  SeenOk(seen, After(e, old, rows), ids, again)
<1> DEFINE new == After(e, old, rows)
<1>1. /\ \A j \in FactIds : j # e.id /\ j # old => new[j] = rows[j]
      /\ new[e.id] = EditedFact(e, old)
      /\ old # NoFact => old \in CurrentIn(rows) /\ new[old].mutable = rows[old].mutable
  BY AfterEdit
<1>2. EditedFact(e, old).mutable = e.mutable /\ (rows[e.id] # NoFact => e.mutable = rows[e.id].mutable)
  BY EditedIs DEF EditOk
<1>3. ASSUME NEW i \in Stored(seen)
      PROVE  /\ i \in FactIds /\ Current(seen[i]) /\ (i \in Stored(rows) => seen[i].mutable = rows[i].mutable)
             /\ ~again => \A j \in Stored(rows) : rows[j].status = "superseded" /\ rows[j].next = i => seen[i].prev = j
             /\ i = e.id => rows[e.id] # NoFact
  BY <1>3 DEF SeenOk, Stored
<1>4. ASSUME NEW i \in Stored(seen), i \in Stored(new)
      PROVE  seen[i].mutable = new[i].mutable
  <2>1. CASE i = e.id
    BY <1>1, <1>2, <1>3, <2>1 DEF Stored
  <2>2. CASE i # e.id /\ i = old
    <3>1. old # NoFact
      BY <1>3, <2>2, ClaimShape
    <3> QED
      BY <1>1, <1>3, <2>2, <3>1 DEF CurrentIn
  <2>3. CASE i # e.id /\ i # old
    BY <1>1, <1>3, <1>4, <2>3 DEF Stored
  <2> QED
    BY <2>1, <2>2, <2>3
<1>5. ASSUME NEW i \in Stored(seen), ~again, NEW j \in Stored(new), new[j].status = "superseded", new[j].next = i
      PROVE  seen[i].prev = j
  <2>1. \/ j \in Stored(rows) /\ rows[j].status = "superseded" /\ new[j].next = rows[j].next
        \/ rows[e.id] = NoFact /\ new[j].next = e.id
    BY <1>5, SupersededAfterEdit
  <2> QED
    BY <1>3, <1>5, <2>1
<1> QED
  BY <1>3, <1>4, <1>5 DEF SeenOk

LEMMA UnseenAfterEdit ==
  ASSUME NEW rows, NEW ids, SlotOk(rows, ids), NEW e, EditOk(e, rows, ids), NEW old \in Displaced(e), edits \in Nat,
         NEW done, Unseen(rows, done)
  PROVE  Unseen(After(e, old, rows), done)
<1>1. ASSUME NEW k \in Claims \ done
      PROVE  After(e, old, rows)[k.id] = NoFact
  <2>1. k.id \in FactIds /\ k.id \notin ManualIds /\ rows[k.id] = NoFact /\ k.id # NoFact
    BY ClaimIs DEF Unseen
  <2>2. k.id # e.id
    BY <2>1 DEF EditOk
  <2>3. k.id # old
    BY <2>1, AfterEdit DEF CurrentIn, Stored
  <2> QED
    BY <2>1, <2>2, <2>3, AfterEdit
<1> QED
  BY <1>1 DEF Unseen

(* What an edit writes and what it computed its head from are the same slot. *)
LEMMA ApplyIs ==
  ASSUME NEW rows, NEW e, e.seen = rows, NEW old, rows \in SlotRows, old = NoFact \/ old \in Stored(rows),
         NEW gone, gone = IF old = NoFact THEN NoRows
                          ELSE Only(old, [rows[old] EXCEPT !.status = "superseded", !.next = e.id])
  PROVE  /\ Over(Only(e.id, EditedFact(e, old)), Over(gone, rows)) = After(e, old, rows)
         /\ Over(Only(e.id, EditedFact(e, old)), IF old \in Stored(rows) THEN Over(gone, rows) ELSE rows) = After(e, old, rows)
<1>1. Over(NoRows, rows) = rows
  <2>1. \A i \in FactIds : Over(NoRows, rows)[i] = rows[i]
    BY OverIs DEF NoRows
  <2>2. rows = [i \in FactIds |-> rows[i]]
    BY DEF SlotRows
  <2>3. Over(NoRows, rows) = [i \in FactIds |-> Over(NoRows, rows)[i]]
    BY OverIs
  <2> HIDE DEF Over
  <2> QED
    BY <2>1, <2>2, <2>3
<1> DEFINE between == IF old = NoFact THEN rows
                      ELSE Over(Only(old, [rows[old] EXCEPT !.status = "superseded", !.next = e.id]), rows)
<1>2. old \in Stored(rows) <=> old # NoFact
  BY ClaimShape DEF Stored
<1>3. After(e, old, rows) = Over(Only(e.id, EditedFact(e, old)), between)
  BY Zenon DEF After
<1>4. Over(gone, rows) = between
  BY <1>1, Zenon
<1>5. (IF old \in Stored(rows) THEN Over(gone, rows) ELSE rows) = between
  BY <1>2, <1>4
<1> HIDE DEF between
<1> QED
  BY <1>3, <1>4, <1>5, Zenon
-----------------------------------------------------------------------------
(* Removals. *)
Linked(i, rows) == {rows[i].prev, rows[i].next} \cap Stored(rows)
Removed(i, rows) ==
    [j \in FactIds |-> IF j = i THEN NoFact ELSE IF j \in Linked(i, rows) THEN Unlinked(i, rows[j]) ELSE rows[j]]

LEMMA UnlinkedIs ==
  ASSUME NEW i, NEW f \in Fact
  PROVE  LET g == Unlinked(i, f)
         IN  /\ g \in Fact /\ g.mutable = f.mutable
             /\ g.status = IF f.next = i THEN "active" ELSE f.status
             /\ g.next = IF f.next = i THEN NoFact ELSE f.next
             /\ g.prev = IF f.prev = i THEN NoFact ELSE f.prev
  BY DEF Unlinked, Fact

LEMMA RemovedIs ==
  ASSUME NEW rows, NEW ids, SlotOk(rows, ids), NEW i \in FactIds
  PROVE  LET new == Removed(i, rows)
         IN  /\ new \in SlotRows /\ Stored(new) = Stored(rows) \ {i}
             /\ \A j \in Stored(rows) \ {i} : new[j] = IF j \in Linked(i, rows) THEN Unlinked(i, rows[j]) ELSE rows[j]
             /\ \A j \in Stored(rows) \ {i} :
                   /\ new[j] \in Fact /\ new[j].mutable = rows[j].mutable
                   /\ new[j].status = IF j \in Linked(i, rows) /\ rows[j].next = i THEN "active" ELSE rows[j].status
                   /\ new[j].next = IF j \in Linked(i, rows) /\ rows[j].next = i THEN NoFact ELSE rows[j].next
                   /\ new[j].prev = IF j \in Linked(i, rows) /\ rows[j].prev = i THEN NoFact ELSE rows[j].prev
<1> DEFINE new == Removed(i, rows)
<1>1. rows \in SlotRows /\ NoFact \notin Fact
  BY ClaimShape DEF SlotOk
<1>2. /\ new = [j \in FactIds |-> new[j]]
      /\ \A j \in FactIds : new[j] = IF j = i THEN NoFact ELSE IF j \in Linked(i, rows) THEN Unlinked(i, rows[j]) ELSE rows[j]
  BY DEF Removed
<1> HIDE DEF new
<1>3. \A j \in FactIds : j \in Stored(rows) => rows[j] \in Fact
  BY <1>1 DEF SlotRows, Stored
<1>4. \A j \in Linked(i, rows) : j \in Stored(rows)
  BY DEF Linked
<1>5. ASSUME NEW j \in Stored(rows) \ {i}
      PROVE  /\ new[j] = IF j \in Linked(i, rows) THEN Unlinked(i, rows[j]) ELSE rows[j]
             /\ new[j] \in Fact /\ new[j].mutable = rows[j].mutable
             /\ new[j].status = IF j \in Linked(i, rows) /\ rows[j].next = i THEN "active" ELSE rows[j].status
             /\ new[j].next = IF j \in Linked(i, rows) /\ rows[j].next = i THEN NoFact ELSE rows[j].next
             /\ new[j].prev = IF j \in Linked(i, rows) /\ rows[j].prev = i THEN NoFact ELSE rows[j].prev
  <2>1. j \in FactIds /\ j # i /\ rows[j] \in Fact
    BY <1>3 DEF Stored
  <2>2. new[j] = IF j \in Linked(i, rows) THEN Unlinked(i, rows[j]) ELSE rows[j]
    BY <1>2, <2>1
  <2>3. CASE j \in Linked(i, rows)
    <3> DEFINE g == Unlinked(i, rows[j])
    <3>1. /\ g \in Fact /\ g.mutable = rows[j].mutable
          /\ g.status = IF rows[j].next = i THEN "active" ELSE rows[j].status
          /\ g.next = IF rows[j].next = i THEN NoFact ELSE rows[j].next
          /\ g.prev = IF rows[j].prev = i THEN NoFact ELSE rows[j].prev
      BY <2>1, UnlinkedIs
    <3>2. new[j] = g
      BY <2>2, <2>3
    <3> HIDE DEF g
    <3> QED
      BY <2>2, <2>3, <3>1, <3>2
  <2>4. CASE j \notin Linked(i, rows)
    BY <2>1, <2>2, <2>4
  <2> QED
    BY <2>3, <2>4
<1>6. Stored(new) = Stored(rows) \ {i}
  <2>1. new[i] = NoFact
    BY <1>2
  <2>2. ASSUME NEW j \in FactIds
        PROVE  j \in Stored(new) <=> j \in Stored(rows) /\ j # i
    <3>1. CASE j = i
      BY <2>1, <3>1 DEF Stored
    <3>2. CASE j # i /\ j \in Stored(rows)
      BY <1>1, <1>5, <3>2 DEF Stored
    <3>3. CASE j # i /\ j \notin Stored(rows)
      BY <1>2, <1>4, <3>3 DEF Stored
    <3> QED
      BY <3>1, <3>2, <3>3
  <2> QED
    BY <2>2 DEF Stored
<1>7. new \in SlotRows
  <2>1. ASSUME NEW j \in FactIds
        PROVE  new[j] \in Fact \cup {NoFact}
    BY <1>5, <1>6 DEF Stored
  <2> QED
    BY <1>2, <2>1 DEF SlotRows
<1> QED
  BY <1>5, <1>6, <1>7 DEF new

LEMMA SlotAfterRemoval ==
  ASSUME NEW rows, NEW ids, SlotOk(rows, ids), NEW i \in FactIds
  PROVE  SlotOk(Removed(i, rows), ids)
<1> DEFINE new == Removed(i, rows)
<1>1. /\ new \in SlotRows /\ Stored(new) = Stored(rows) \ {i}
      /\ \A j \in Stored(rows) \ {i} :
            /\ new[j] \in Fact /\ new[j].mutable = rows[j].mutable
            /\ new[j].status = IF j \in Linked(i, rows) /\ rows[j].next = i THEN "active" ELSE rows[j].status
            /\ new[j].next = IF j \in Linked(i, rows) /\ rows[j].next = i THEN NoFact ELSE rows[j].next
  BY RemovedIs
<1> HIDE DEF new
<1>2. ASSUME NEW j \in Stored(new)
      PROVE  RowOk(j, new[j], ids)
  <2>1. j \in Stored(rows) \ {i} /\ RowOk(j, rows[j], ids) /\ j # NoFact
    BY <1>1, ClaimShape DEF SlotOk, Stored
  <2>2. /\ new[j] \in Fact /\ new[j].mutable = rows[j].mutable
        /\ \/ new[j].next = NoFact
           \/ new[j].next = rows[j].next /\ new[j].status = rows[j].status
    BY <1>1, <2>1
  <2> QED
    BY <2>1, <2>2 DEF RowOk, Current
<1> QED
  BY <1>1, <1>2 DEF SlotOk, new

LEMMA ChainsAfterRemoval ==
  ASSUME NEW rows, NEW ids, SlotOk(rows, ids), Chained(rows), NEW i \in FactIds, rows[i] # NoFact
  PROVE  Chained(Removed(i, rows))
<1> DEFINE new == Removed(i, rows)
<1>1. /\ Stored(new) = Stored(rows) \ {i}
      /\ \A j \in Stored(rows) \ {i} :
            /\ new[j].status = IF j \in Linked(i, rows) /\ rows[j].next = i THEN "active" ELSE rows[j].status
            /\ new[j].next = IF j \in Linked(i, rows) /\ rows[j].next = i THEN NoFact ELSE rows[j].next
            /\ new[j].prev = IF j \in Linked(i, rows) /\ rows[j].prev = i THEN NoFact ELSE rows[j].prev
  BY RemovedIs
<1> HIDE DEF new
<1>2. ASSUME NEW j \in Stored(new), new[j].status = "superseded", new[j].next # NoFact
      PROVE  new[j].next \in Stored(new) /\ new[new[j].next].prev = j
  <2>1. /\ j \in Stored(rows) /\ j # i /\ rows[j].status = "superseded" /\ new[j].next = rows[j].next
        /\ ~(j \in Linked(i, rows) /\ rows[j].next = i)
    BY <1>1, <1>2
  <2> DEFINE n == rows[j].next
  <2>2. n \in Stored(rows) /\ rows[n].prev = j /\ new[j].next = n
    BY <1>2, <2>1 DEF Chained
  <2> HIDE DEF n
  <2>3. n # i
    BY <2>1, <2>2 DEF Linked, n
  <2> QED
    BY <1>1, <2>1, <2>2, <2>3
<1> QED
  BY <1>2 DEF Chained, new

LEMMA SeenAfterRemoval ==
  ASSUME NEW rows, NEW ids, SlotOk(rows, ids), NEW i \in FactIds,
         NEW seen, NEW again, SeenOk(seen, rows, ids, again)
  PROVE  SeenOk(seen, Removed(i, rows), ids, again)
<1> DEFINE new == Removed(i, rows)
<1>1. /\ Stored(new) = Stored(rows) \ {i}
      /\ \A j \in Stored(rows) \ {i} :
            /\ new[j].mutable = rows[j].mutable
            /\ new[j].status = IF j \in Linked(i, rows) /\ rows[j].next = i THEN "active" ELSE rows[j].status
            /\ new[j].next = IF j \in Linked(i, rows) /\ rows[j].next = i THEN NoFact ELSE rows[j].next
  BY RemovedIs
<1> HIDE DEF new
<1>2. ASSUME NEW j \in Stored(new), new[j].status = "superseded"
      PROVE  j \in Stored(rows) /\ rows[j].status = "superseded" /\ new[j].next = rows[j].next
  BY <1>1, <1>2
<1>3. SlotOk(seen, ids) /\ \A j \in Stored(seen) : Current(seen[j])
  BY DEF SeenOk
<1>4. ASSUME NEW j \in Stored(seen)
      PROVE  /\ j \in Stored(new) => seen[j].mutable = new[j].mutable
             /\ ~again => \A l \in Stored(new) : new[l].status = "superseded" /\ new[l].next = j => seen[j].prev = l
  BY <1>1, <1>2 DEF SeenOk
<1> QED
  BY <1>3, <1>4 DEF SeenOk, new

LEMMA UnseenAfterRemoval ==
  ASSUME NEW rows, NEW ids, SlotOk(rows, ids), NEW i \in FactIds, NEW done, Unseen(rows, done)
  PROVE  Unseen(Removed(i, rows), done)
<1>1. Stored(Removed(i, rows)) = Stored(rows) \ {i}
  BY RemovedIs
<1> QED
  BY <1>1, ClaimIs DEF Unseen, Stored

(* The head a removal leaves; and what it restores. *)
LEMMA HeadAfterRemovalIsCurrent ==
  ASSUME NEW ids, SlotOk(facts, ids), head \in MutableIn(facts) \cup {NoFact}, NEW i \in FactIds,
         NEW h \in HeadAfterRemoval(i, Removed(i, facts))
  PROVE  h \in MutableIn(Removed(i, facts)) \cup {NoFact}
<1> DEFINE new == Removed(i, facts)
<1>1. /\ Stored(new) = Stored(facts) \ {i}
      /\ \A j \in Stored(facts) \ {i} :
            /\ new[j].mutable = facts[j].mutable
            /\ new[j].status = IF j \in Linked(i, facts) /\ facts[j].next = i THEN "active" ELSE facts[j].status
  BY RemovedIs
<1> HIDE DEF new
<1>2. CASE head # i
  <2>1. h = head
    BY <1>2 DEF HeadAfterRemoval
  <2>2. head # NoFact => head \in Stored(facts) \ {i} /\ facts[head].mutable /\ Current(facts[head])
    BY <1>2 DEF MutableIn, CurrentIn
  <2>3. head # NoFact => head \in Stored(new) /\ new[head].mutable /\ Current(new[head])
    BY <1>1, <2>2 DEF Current
  <2> QED
    BY <2>1, <2>3 DEF MutableIn, CurrentIn, new
<1>3. CASE head = i
  <2>1. \E rows : h \in BestOrNone(Related(i) \cap MutableIn(new), rows)
    BY <1>3 DEF HeadAfterRemoval, new
  <2> QED
    BY <2>1, BestIsOneOf DEF new
<1> QED
  BY <1>2, <1>3

LEMMA RemovalPutsBack ==
  ASSUME NEW ids, SlotOk(facts, ids), NEW i \in FactIds, head = i, NEW h \in HeadAfterRemoval(i, Removed(i, facts)),
         NEW old, old = facts[i].prev, old \in Stored(facts), facts[old].next = i, facts[old].mutable
  PROVE  Removed(i, facts)[old].status = "active" /\ h # NoFact
<1> DEFINE new == Removed(i, facts)
<1>1. /\ Stored(new) = Stored(facts) \ {i}
      /\ \A j \in Stored(facts) \ {i} :
            /\ new[j].mutable = facts[j].mutable
            /\ new[j].status = IF j \in Linked(i, facts) /\ facts[j].next = i THEN "active" ELSE facts[j].status
  BY RemovedIs
<1> HIDE DEF new
<1>2. old # i
  BY DEF SlotOk, RowOk
<1>3. old \in Linked(i, facts) /\ old \in Related(i)
  BY DEF Linked, Related
<1>4. new[old].status = "active" /\ new[old].mutable /\ old \in Stored(new)
  BY <1>1, <1>2, <1>3
<1>5. old \in Related(i) \cap MutableIn(new)
  BY <1>3, <1>4 DEF MutableIn, CurrentIn, Current
<1>6. PICK rows : h \in BestOrNone(Related(i) \cap MutableIn(new), rows)
  BY DEF HeadAfterRemoval, new
<1>7. h \in Related(i) \cap MutableIn(new)
  BY <1>5, <1>6 DEF BestOrNone, Best
<1>8. h \in FactIds
  BY <1>7 DEF Related, Stored
<1> QED
  BY <1>4, <1>8, ClaimShape DEF new

(* The invariant: the slot, and what the calls in flight saw of it. *)
SlotInv ==
    /\ SlotOk(facts, named) /\ (rescanned \/ Chained(facts)) /\ Unseen(facts, captured)
    /\ head \in MutableIn(facts) \cup {NoFact}
    /\ edits \in 0..MaxEdits /\ named \subseteq ManualIds /\ captured \subseteq Claims /\ rescanned \in BOOLEAN
CaptureOk(q) == q.claim \in Claims /\ SeenOk(q.seen, facts, named, rescanned) /\ Unseen(q.seen, captured)
CallsInv ==
    /\ DOMAIN calls = LedgerCallers
    /\ \A c \in LedgerCallers :
          /\ calls[c].pc \in {"idle", "capture", "edit"}
          /\ calls[c].pc = "capture" => CaptureOk(calls[c])
          /\ calls[c].pc = "edit" => EditOk(calls[c], facts, named)
    /\ \A c, d \in LedgerCallers :
          /\ calls[c].pc = "capture" /\ calls[d].pc = "capture" => c = d
          /\ calls[c].pc = "edit" /\ calls[d].pc = "capture" /\ facts[calls[c].id] = NoFact
                => calls[d].seen[calls[c].id] = NoFact
FactInv == SlotInv /\ CallsInv

LEMMA InvIsEnough == FactInv => FactTypeOK /\ HeadIsCurrent /\ SupersededHasSuccessor
<1> SUFFICES ASSUME FactInv PROVE FactTypeOK /\ HeadIsCurrent /\ SupersededHasSuccessor
  OBVIOUS
<1>1. SlotInv
  BY DEF FactInv
<1>2. head \in FactIds \cup {NoFact}
  BY <1>1 DEF SlotInv, MutableIn, CurrentIn, Stored
<1>3. FactTypeOK
  BY <1>1, <1>2 DEF SlotInv, FactTypeOK, SlotOk, SlotRows
<1>4. HeadIsCurrent
  BY <1>1 DEF SlotInv, HeadIsCurrent
<1>5. SupersededHasSuccessor
  BY <1>1 DEF SlotInv, SupersededHasSuccessor, Chained
<1> QED
  BY <1>3, <1>4, <1>5

LEMMA InitIsInv == FactInit => FactInv
<1> SUFFICES ASSUME FactInit PROVE FactInv
  OBVIOUS
<1>1. Stored(facts) = {} /\ facts \in SlotRows /\ \A i \in FactIds : facts[i] = NoFact
  BY DEF FactInit, Stored, SlotRows
<1>2. SlotOk(facts, named) /\ Chained(facts)
  BY <1>1 DEF SlotOk, Chained
<1>3. Unseen(facts, captured)
  BY <1>1, ClaimIs DEF Unseen
<1>4. SlotInv
  <2>1. head = NoFact /\ named = {} /\ captured = {} /\ rescanned = FALSE
    BY DEF FactInit
  <2>2. edits \in 0..MaxEdits
    BY ClaimShape DEF FactInit
  <2> QED
    BY <1>2, <1>3, <2>1, <2>2 DEF SlotInv
<1>5. CallsInv
  BY DEF CallsInv, FactInit, NotAsked
<1> QED
  BY <1>4, <1>5 DEF FactInv

(* What is known of ids only grows. *)
LEMMA MoreIds ==
  ASSUME NEW rows, NEW seen, NEW ids, NEW more, ids \subseteq more, NEW again
  PROVE  /\ SlotOk(rows, ids) => SlotOk(rows, more)
         /\ SeenOk(seen, rows, ids, again) => SeenOk(seen, rows, more, again)
  BY DEF SlotOk, RowOk, SeenOk

LEMMA ReadKeepsInv ==
  ASSUME FactInv, NEW c \in LedgerCallers, NEW k \in Claims, ReadForCapture(c, k)
  PROVE  FactInv'
<1> DEFINE seen == [i \in FactIds |-> IF i \in CurrentIn(facts) THEN facts[i] ELSE NoFact]
           q == [pc |-> "capture", claim |-> k, seen |-> seen]
<1>1. /\ calls[c].pc = "idle" /\ (\A d \in LedgerCallers : calls[d].pc # "capture")
      /\ calls' = [calls EXCEPT ![c] = q]
      /\ UNCHANGED <<facts, head, edits, named, captured, rescanned>>
  BY DEF ReadForCapture
<1>2. SlotInv /\ CallsInv
  BY DEF FactInv
<1>3. SlotInv'
  BY <1>1, <1>2 DEF SlotInv
<1>4. q.pc = "capture" /\ q.claim = k /\ q.seen = seen
  OBVIOUS
<1>5. /\ \A i \in FactIds : seen[i] = IF i \in CurrentIn(facts) THEN facts[i] ELSE NoFact
      /\ seen \in SlotRows
  BY <1>2 DEF SlotInv, SlotOk, SlotRows
<1> HIDE DEF seen, q
<1>6. \A i \in Stored(seen) : i \in CurrentIn(facts) /\ seen[i] = facts[i]
  BY <1>5 DEF Stored
<1>7. SeenOk(seen, facts, named, rescanned)
  <2>1. SlotOk(seen, named)
    BY <1>2, <1>5, <1>6 DEF SlotInv, SlotOk, CurrentIn
  <2>2. ASSUME NEW i \in Stored(seen), ~rescanned, NEW j \in Stored(facts), facts[j].status = "superseded", facts[j].next = i
        PROVE  seen[i].prev = j
    <3>1. Chained(facts) /\ i # NoFact
      BY <1>2, <2>2, ClaimShape DEF SlotInv, Stored
    <3> QED
      BY <1>6, <2>2, <3>1 DEF Chained
  <2> QED
    BY <1>6, <2>1, <2>2 DEF SeenOk, CurrentIn
<1>8. Unseen(seen, captured)
  BY <1>2, <1>5, ClaimIs DEF SlotInv, Unseen
<1>9. calls'[c] = q /\ \A d \in LedgerCallers : d # c => calls'[d] = calls[d]
  BY <1>1, <1>2 DEF CallsInv
<1>10. CallsInv'
  <2>1. DOMAIN calls' = LedgerCallers
    BY <1>1, <1>2 DEF CallsInv
  <2>2. ASSUME NEW d \in LedgerCallers
        PROVE  /\ calls'[d].pc \in {"idle", "capture", "edit"}
               /\ calls'[d].pc = "capture" => CaptureOk(calls[d])'
               /\ calls'[d].pc = "edit" => EditOk(calls[d], facts, named)'
    <3>1. CASE d = c
      <4>1. calls[d]' = q
        BY <1>9, <3>1
      <4>2. CaptureOk(calls[d])'
        BY <1>1, <1>4, <1>7, <1>8, <4>1 DEF CaptureOk
      <4> QED
        BY <1>4, <4>1, <4>2
    <3>2. CASE d # c
      <4>1. calls[d]' = calls[d]
        BY <1>9, <3>2
      <4>2. calls[d].pc \in {"idle", "edit"} /\ (calls[d].pc = "edit" => EditOk(calls[d], facts, named))
        BY <1>1, <1>2 DEF CallsInv
      <4> QED
        BY <1>1, <4>1, <4>2
    <3> QED
      BY <3>1, <3>2
  <2>3. ASSUME NEW d \in LedgerCallers, NEW b \in LedgerCallers
        PROVE  /\ calls'[d].pc = "capture" /\ calls'[b].pc = "capture" => d = b
               /\ calls'[d].pc = "edit" /\ calls'[b].pc = "capture" /\ facts'[calls'[d].id] = NoFact
                     => calls'[b].seen[calls'[d].id] = NoFact
    <3>1. (calls'[d].pc = "capture" => d = c) /\ (calls'[b].pc = "capture" => b = c)
      BY <1>1, <1>9
    <3>2. ASSUME calls'[d].pc = "edit", calls'[b].pc = "capture", facts'[calls'[d].id] = NoFact
          PROVE  calls'[b].seen[calls'[d].id] = NoFact
      <4>1. b = c /\ calls'[b].seen = seen /\ calls'[d] = calls[d]
        BY <1>4, <1>9, <3>1, <3>2
      <4>2. calls[d].id \in FactIds
        BY <1>2, <3>2, <4>1 DEF CallsInv, EditOk
      <4> QED
        BY <1>1, <1>5, <3>2, <4>1, <4>2
    <3> QED
      BY <3>1, <3>2
  <2> QED
    BY <2>1, <2>2, <2>3 DEF CallsInv
<1> QED
  BY <1>3, <1>10 DEF FactInv

(* A commit ends the one capture in flight, and there is no edit. *)
LEMMA CommitKeepsInv ==
  ASSUME FactInv, ~EditsOverlap, NEW c \in LedgerCallers, CommitReconciled(c)
  PROVE  FactInv' /\ Stored(facts) \subseteq Stored(facts)'
<1> DEFINE k == calls[c].claim
           seen == calls[c].seen
<1>1. SlotInv /\ CallsInv
  BY DEF FactInv
<1>2. PICK written \in Plans(k, seen) : facts' = Over(written, facts) /\ head' \in HeadAfterCapture(written, Over(written, facts))
  BY DEF CommitReconciled
<1>3. /\ calls[c].pc = "capture" /\ (\A d \in LedgerCallers \ {c} : calls[d].pc # "edit")
      /\ captured' = captured \cup {k} /\ rescanned' = (rescanned \/ k \in captured)
      /\ calls' = [calls EXCEPT ![c] = NotAsked] /\ edits' = edits /\ named' = named
  BY DEF CommitReconciled, MayWrite
<1>4. k \in Claims /\ SeenOk(seen, facts, named, rescanned) /\ Unseen(seen, captured)
  BY <1>1, <1>3 DEF CallsInv, CaptureOk
<1>5. SlotOk(facts, named) /\ (rescanned \/ Chained(facts)) /\ Unseen(facts, captured) /\ head \in MutableIn(facts) \cup {NoFact}
  BY <1>1 DEF SlotInv
<1> HIDE DEF k, seen
<1>6. Fits(written, facts, named)
  BY <1>2, <1>4, <1>5, WrittenFits
<1>7. SlotOk(facts', named)
  BY <1>2, <1>5, <1>6, SlotAfterCapture
<1>8. head' \in MutableIn(facts') \cup {NoFact}
  BY <1>2, <1>5, <1>6, HeadAfterCaptureIsCurrent
<1>9. ASSUME ~rescanned'
      PROVE  Chained(facts')
  <2>1. ~rescanned /\ k \in Claims \ captured /\ rescanned = FALSE
    BY <1>1, <1>3, <1>4, <1>9 DEF SlotInv
  <2>2. facts[k.id] = NoFact /\ seen[k.id] = NoFact
    BY <1>4, <1>5, <2>1 DEF Unseen
  <2>3. Chained(facts) /\ SeenOk(seen, facts, named, FALSE)
    BY <1>4, <1>5, <2>1
  <2> QED
    BY <1>2, <1>4, <1>5, <2>2, <2>3, ChainsAfterCapture
<1>10. Unseen(facts', captured \cup {k})
  BY <1>2, <1>4, <1>5, UnseenAfterCapture
<1>11. SlotInv'
  <2>1. captured' \subseteq Claims /\ rescanned' \in BOOLEAN
    BY <1>1, <1>3, <1>4 DEF SlotInv
  <2>2. SlotOk(facts', named') /\ Unseen(facts', captured')
    BY <1>3, <1>7, <1>10
  <2>3. MutableIn(facts)' = MutableIn(facts')
    BY DEF MutableIn, CurrentIn, Stored, Current
  <2> QED
    BY <1>1, <1>3, <1>8, <1>9, <2>1, <2>2, <2>3 DEF SlotInv
<1>12. ASSUME NEW d \in LedgerCallers
       PROVE  calls'[d].pc = "idle"
  BY <1>1, <1>3 DEF CallsInv, NotAsked
<1>13. CallsInv'
  BY <1>1, <1>3, <1>12 DEF CallsInv
<1>14. Stored(facts) \subseteq Stored(facts)'
  <2>1. ASSUME NEW i \in Stored(facts)
        PROVE  facts'[i] # NoFact
    BY <1>2, <1>6, OverIs, ClaimShape DEF Fits, RowOk, Stored
  <2> QED
    BY <2>1 DEF Stored
<1> QED
  BY <1>11, <1>13, <1>14 DEF FactInv

(* An edit begins with the slot as it is, and a new fact under a new id. *)
LEMMA BeginKeepsInv ==
  ASSUME FactInv, ~EditsOverlap, NEW c \in LedgerCallers, NEW i \in FactIds, NEW t \in Texts, NEW m \in BOOLEAN,
         NEW s \in {1, 2}, NEW st \in Statuses, BeginEdit(c, i, t, m, s, st)
  PROVE  FactInv'
<1> DEFINE e == [pc |-> "edit", id |-> i, text |-> t, mutable |-> m, sure |-> s, status |-> st, seen |-> facts]
<1>1. SlotInv /\ CallsInv
  BY DEF FactInv
<1>2. /\ calls[c].pc = "idle" /\ edits < MaxEdits /\ (\A d \in LedgerCallers \ {c} : calls[d].pc # "edit")
      /\ calls' = [calls EXCEPT ![c] = e] /\ edits' = edits + 1
      /\ UNCHANGED <<facts, head, captured, rescanned>>
  BY DEF BeginEdit, MayWrite
<1>3. /\ facts[i] = NoFact => i \in ManualIds \ named /\ named' = named \cup {i} /\ st \in {"active", "pending"}
      /\ facts[i] # NoFact => m = facts[i].mutable /\ st = facts[i].status /\ named' = named
  BY DEF BeginEdit
<1>4. e.pc = "edit" /\ e.id = i /\ e.text = t /\ e.mutable = m /\ e.sure = s /\ e.status = st /\ e.seen = facts
  OBVIOUS
<1>5. SlotOk(facts, named) /\ named \subseteq named' /\ named' \subseteq ManualIds
  BY <1>1, <1>3 DEF SlotInv
<1> HIDE DEF e
<1>6. EditOk(e, facts, named')
  <2>1. i \in ManualIds => i \in named'
    BY <1>3, <1>5 DEF SlotOk, RowOk, Stored
  <2>2. e.sure \in 0..2
    BY <1>4
  <2> QED
    BY <1>3, <1>4, <2>1, <2>2 DEF EditOk, Statuses
<1>7. SlotInv'
  <2>1. SlotOk(facts, named')
    BY <1>5, MoreIds
  <2>2. edits' \in 0..MaxEdits
    BY <1>1, <1>2, ClaimShape DEF SlotInv
  <2> QED
    BY <1>1, <1>2, <1>5, <2>1, <2>2 DEF SlotInv
<1>8. DOMAIN calls' = LedgerCallers /\ calls'[c] = e /\ \A d \in LedgerCallers : d # c => calls'[d] = calls[d]
  BY <1>1, <1>2 DEF CallsInv
<1>9. ASSUME NEW d \in LedgerCallers
      PROVE  /\ calls'[d].pc \in {"idle", "capture", "edit"}
             /\ calls'[d].pc = "capture" => d # c /\ CaptureOk(calls[d]) /\ CaptureOk(calls[d])'
             /\ calls'[d].pc = "edit" => d = c /\ EditOk(calls[d], facts, named)'
  <2>1. CASE d = c
    BY <1>2, <1>4, <1>6, <1>8, <2>1
  <2>2. CASE d # c
    <3>1. calls'[d] = calls[d] /\ calls[d].pc \in {"idle", "capture"}
      BY <1>1, <1>2, <1>8, <2>2 DEF CallsInv
    <3>2. calls[d].pc = "capture" => CaptureOk(calls[d])
      BY <1>1 DEF CallsInv
    <3>3. CaptureOk(calls[d]) => CaptureOk(calls[d])'
      <4>1. SeenOk(calls[d].seen, facts, named, rescanned) => SeenOk(calls[d].seen, facts, named', rescanned)
        BY <1>5, MoreIds
      <4> QED
        BY <1>2, <3>1, <4>1 DEF CaptureOk
    <3> QED
      BY <2>2, <3>1, <3>2, <3>3
  <2> QED
    BY <2>1, <2>2
<1>10. ASSUME NEW d \in LedgerCallers, NEW b \in LedgerCallers
       PROVE  /\ calls'[d].pc = "capture" /\ calls'[b].pc = "capture" => d = b
              /\ calls'[d].pc = "edit" /\ calls'[b].pc = "capture" /\ facts'[calls'[d].id] = NoFact
                    => calls'[b].seen[calls'[d].id] = NoFact
  <2>1. calls'[d].pc = "capture" /\ calls'[b].pc = "capture" => d = b
    BY <1>1, <1>8, <1>9 DEF CallsInv
  <2>2. ASSUME calls'[d].pc = "edit", calls'[b].pc = "capture", facts'[calls'[d].id] = NoFact
        PROVE  calls'[b].seen[calls'[d].id] = NoFact
    <3>1. calls'[d] = e /\ b # c /\ calls'[b] = calls[b] /\ CaptureOk(calls[b])
      BY <1>8, <1>9, <2>2
    <3>2. SlotOk(calls[b].seen, named) /\ i \in ManualIds \ named
      BY <1>2, <1>3, <1>4, <2>2, <3>1 DEF CaptureOk, SeenOk
    <3>3. i \notin Stored(calls[b].seen)
      BY <3>2 DEF SlotOk, RowOk
    <3> QED
      BY <1>4, <3>1, <3>3 DEF Stored
  <2> QED
    BY <2>1, <2>2
<1>11. CallsInv'
  BY <1>8, <1>9, <1>10 DEF CallsInv
<1> QED
  BY <1>7, <1>11 DEF FactInv

LEMMA ApplyKeepsInv ==
  ASSUME FactInv, ~EditsOverlap, NEW c \in LedgerCallers, ApplyEdit(c)
  PROVE  FactInv' /\ Stored(facts) \subseteq Stored(facts)'
<1> DEFINE e == calls[c]
<1>1. SlotInv /\ CallsInv
  BY DEF FactInv
<1>2. /\ e.pc = "edit" /\ (\A d \in LedgerCallers \ {c} : calls[d].pc # "edit")
      /\ calls' = [calls EXCEPT ![c] = NotAsked] /\ UNCHANGED <<edits, named, captured, rescanned>>
  BY DEF ApplyEdit, MayWrite
<1>3. /\ SlotOk(facts, named) /\ (rescanned \/ Chained(facts)) /\ Unseen(facts, captured)
      /\ edits \in 0..MaxEdits /\ edits \in Nat
  BY <1>1, ClaimShape DEF SlotInv
<1>4. EditOk(e, facts, named) /\ e.seen = facts
  BY <1>1, <1>2 DEF CallsInv, EditOk
<1>5. \E old \in Displaced(e) : \E gone :
          /\ gone = IF old = NoFact THEN NoRows
                    ELSE Only(old, [e.seen[old] EXCEPT !.status = "superseded", !.next = e.id])
          /\ facts' = Over(Only(e.id, EditedFact(e, old)), IF old \in Stored(facts) THEN Over(gone, facts) ELSE facts)
          /\ head' \in BestOrNone(MutableIn(Over(Only(e.id, EditedFact(e, old)), Over(gone, e.seen))),
                                  Over(Only(e.id, EditedFact(e, old)), Over(gone, e.seen)))
  BY Zenon DEF ApplyEdit
<1> HIDE DEF e
<1>6. PICK old \in Displaced(e) : \E gone :
          /\ gone = IF old = NoFact THEN NoRows
                    ELSE Only(old, [facts[old] EXCEPT !.status = "superseded", !.next = e.id])
          /\ facts' = Over(Only(e.id, EditedFact(e, old)), IF old \in Stored(facts) THEN Over(gone, facts) ELSE facts)
          /\ head' \in BestOrNone(MutableIn(Over(Only(e.id, EditedFact(e, old)), Over(gone, facts))),
                                  Over(Only(e.id, EditedFact(e, old)), Over(gone, facts)))
  BY <1>4, <1>5, Zenon
<1>7. old = NoFact \/ old \in Stored(facts)
  BY <1>4, DisplacedIs DEF CurrentIn
<1>8. facts' = After(e, old, facts) /\ head' \in BestOrNone(MutableIn(After(e, old, facts)), After(e, old, facts))
  <2>1. facts \in SlotRows
    BY <1>3 DEF SlotOk
  <2> QED
    BY <1>4, <1>6, <1>7, <2>1, ApplyIs
<1>9. /\ SlotOk(facts', named)
      /\ rescanned \/ Chained(facts')
      /\ Unseen(facts', captured)
      /\ head' \in MutableIn(facts') \cup {NoFact}
  <2>1. SlotOk(facts', named)
    BY <1>3, <1>4, <1>8, AfterEdit
  <2>2. rescanned \/ Chained(facts')
    BY <1>3, <1>4, <1>8, ChainsAfterEdit
  <2>3. Unseen(facts', captured)
    BY <1>3, <1>4, <1>8, UnseenAfterEdit
  <2> QED
    BY <1>8, <2>1, <2>2, <2>3, BestIsOneOf
<1>10. SlotInv'
  <2>1. MutableIn(facts)' = MutableIn(facts')
    BY DEF MutableIn, CurrentIn, Stored, Current
  <2> QED
    BY <1>1, <1>2, <1>9, <2>1 DEF SlotInv
<1>11. DOMAIN calls' = LedgerCallers /\ calls'[c] = NotAsked /\ \A d \in LedgerCallers : d # c => calls'[d] = calls[d]
  BY <1>1, <1>2 DEF CallsInv
<1>12. ASSUME NEW d \in LedgerCallers
       PROVE  /\ calls'[d].pc \in {"idle", "capture"}
              /\ calls'[d].pc = "capture" => calls'[d] = calls[d] /\ CaptureOk(calls[d])'
  <2>1. CASE d = c
    BY <1>11, <2>1 DEF NotAsked
  <2>2. CASE d # c
    <3>1. calls'[d] = calls[d] /\ calls[d].pc \in {"idle", "capture"}
      BY <1>1, <1>2, <1>11, <2>2 DEF CallsInv
    <3>2. ASSUME calls[d].pc = "capture"
          PROVE  CaptureOk(calls[d])'
      <4>1. CaptureOk(calls[d])
        BY <1>1, <3>2 DEF CallsInv
      <4>2. facts[e.id] = NoFact => calls[d].seen[e.id] = NoFact
        BY <1>1, <1>2, <3>2 DEF CallsInv, e
      <4>3. SeenOk(calls[d].seen, facts', named, rescanned)
        BY <1>3, <1>4, <1>8, <4>1, <4>2, SeenAfterEdit DEF CaptureOk
      <4> QED
        BY <1>2, <3>1, <4>1, <4>3 DEF CaptureOk
    <3> QED
      BY <3>1, <3>2
  <2> QED
    BY <2>1, <2>2
<1>13. CallsInv'
  <2>1. ASSUME NEW d \in LedgerCallers, NEW b \in LedgerCallers, calls'[d].pc = "capture", calls'[b].pc = "capture"
        PROVE  d = b
    BY <1>1, <1>12, <2>1 DEF CallsInv
  <2> QED
    BY <1>11, <1>12, <2>1 DEF CallsInv
<1>14. Stored(facts) \subseteq Stored(facts)'
  <2>1. ASSUME NEW i \in Stored(facts)
        PROVE  facts'[i] # NoFact
    <3>1. facts' \in SlotRows /\ i \in FactIds /\ facts[i] # NoFact
      BY <1>9 DEF SlotOk, Stored
    <3>2. CASE i = e.id
      BY <1>3, <1>4, <1>8, <3>2, AfterEdit, EditedIs, ClaimShape
    <3>3. CASE i # e.id /\ i = old
      <4>1. old # NoFact
        BY <3>1, <3>3, ClaimShape
      <4> QED
        BY <1>3, <1>4, <1>8, <3>3, <4>1, AfterEdit, ClaimShape
    <3>4. CASE i # e.id /\ i # old
      BY <1>3, <1>4, <1>8, <3>1, <3>4, AfterEdit
    <3> QED
      BY <3>2, <3>3, <3>4
  <2> QED
    BY <2>1 DEF Stored
<1> QED
  BY <1>10, <1>13, <1>14 DEF FactInv

LEMMA RemoveKeepsInv ==
  ASSUME FactInv, ~EditsOverlap, NEW i \in FactIds, RemoveFact(i)
  PROVE  /\ FactInv'
         /\ facts' = Removed(i, facts) /\ head' \in HeadAfterRemoval(i, Removed(i, facts))
<1>1. SlotInv /\ CallsInv
  BY DEF FactInv
<1>2. /\ facts[i] # NoFact /\ (\A c \in LedgerCallers : calls[c].pc # "edit")
      /\ UNCHANGED <<calls, edits, named, captured, rescanned>>
  BY DEF RemoveFact
<1>3. facts' = Removed(i, facts) /\ head' \in HeadAfterRemoval(i, Removed(i, facts))
  BY DEF RemoveFact, Removed, Related, Linked
<1>4. SlotOk(facts, named) /\ (rescanned \/ Chained(facts)) /\ Unseen(facts, captured) /\ head \in MutableIn(facts) \cup {NoFact}
  BY <1>1 DEF SlotInv
<1>5. SlotOk(facts', named)
  BY <1>3, <1>4, SlotAfterRemoval
<1>6. rescanned \/ Chained(facts')
  BY <1>2, <1>3, <1>4, ChainsAfterRemoval
<1>7. Unseen(facts', captured)
  BY <1>3, <1>4, UnseenAfterRemoval
<1>8. head' \in MutableIn(facts') \cup {NoFact}
  BY <1>3, <1>4, HeadAfterRemovalIsCurrent
<1>9. SlotInv'
  <2>1. MutableIn(facts)' = MutableIn(facts')
    BY DEF MutableIn, CurrentIn, Stored, Current
  <2> QED
    BY <1>1, <1>2, <1>5, <1>6, <1>7, <1>8, <2>1 DEF SlotInv
<1>10. ASSUME NEW d \in LedgerCallers, calls[d].pc = "capture"
       PROVE  CaptureOk(calls[d])'
  <2>1. CaptureOk(calls[d])
    BY <1>1, <1>10 DEF CallsInv
  <2>2. SeenOk(calls[d].seen, facts', named, rescanned)
    BY <1>3, <1>4, <2>1, SeenAfterRemoval DEF CaptureOk
  <2> QED
    BY <1>2, <2>1, <2>2 DEF CaptureOk
<1>11. CallsInv'
  BY <1>1, <1>2, <1>10 DEF CallsInv
<1> QED
  BY <1>3, <1>9, <1>11 DEF FactInv

LEMMA StepKeepsInv == ~EditsOverlap /\ FactInv /\ [FactNext]_factVars => FactInv' /\ RemovalRestores
<1> SUFFICES ASSUME ~EditsOverlap, FactInv, [FactNext]_factVars
             PROVE  FactInv' /\ RemovalRestores
  OBVIOUS
<1>1. Stored(facts) \subseteq Stored(facts)' => RemovalRestores
  BY DEF RemovalRestores
<1>2. ASSUME NEW c \in LedgerCallers, NEW k \in Claims, ReadForCapture(c, k)
      PROVE  FactInv' /\ RemovalRestores
  <2>1. Stored(facts) \subseteq Stored(facts)'
    BY <1>2 DEF ReadForCapture, Stored
  <2> QED
    BY <1>1, <1>2, <2>1, ReadKeepsInv
<1>3. ASSUME NEW c \in LedgerCallers, CommitReconciled(c)
      PROVE  FactInv' /\ RemovalRestores
  BY <1>1, <1>3, CommitKeepsInv
<1>4. ASSUME NEW c \in LedgerCallers, NEW i \in FactIds, NEW t \in Texts, NEW m \in BOOLEAN, NEW s \in {1, 2},
             NEW st \in Statuses, BeginEdit(c, i, t, m, s, st)
      PROVE  FactInv' /\ RemovalRestores
  <2>1. Stored(facts) \subseteq Stored(facts)'
    BY <1>4 DEF BeginEdit, Stored
  <2> QED
    BY <1>1, <1>4, <2>1, BeginKeepsInv
<1>5. ASSUME NEW c \in LedgerCallers, ApplyEdit(c)
      PROVE  FactInv' /\ RemovalRestores
  BY <1>1, <1>5, ApplyKeepsInv
<1>6. ASSUME NEW i \in FactIds, RemoveFact(i)
      PROVE  FactInv' /\ RemovalRestores
  <2>1. FactInv' /\ facts' = Removed(i, facts) /\ head' \in HeadAfterRemoval(i, Removed(i, facts))
    BY <1>6, RemoveKeepsInv
  <2>2. SlotOk(facts, named)
    BY DEF FactInv, SlotInv
  <2>3. \A j \in Stored(facts) : j # i => j \in Stored(facts)'
    <3>1. Stored(Removed(i, facts)) = Stored(facts) \ {i}
      BY <2>2, RemovedIs
    <3>2. Stored(facts)' = Stored(facts')
      BY DEF Stored
    <3> QED
      BY <2>1, <3>1, <3>2
  <2>4. ASSUME head = i, facts[i].prev \in Stored(facts), facts[facts[i].prev].next = i, facts[facts[i].prev].mutable
        PROVE  facts'[facts[i].prev].status = "active" /\ head' # NoFact
    BY <2>1, <2>2, <2>4, RemovalPutsBack
  <2> QED
    BY <2>1, <2>3, <2>4 DEF RemovalRestores
<1>7. CASE UNCHANGED factVars
  <2>1. UNCHANGED <<facts, head, calls, edits, named, captured, rescanned>>
    BY <1>7 DEF factVars
  <2>2. FactInv'
    BY <2>1 DEF FactInv, SlotInv, CallsInv, CaptureOk, MutableIn, CurrentIn, Stored
  <2>3. Stored(facts) \subseteq Stored(facts)'
    BY <2>1 DEF Stored
  <2> QED
    BY <1>1, <2>2, <2>3
<1> QED
  BY <1>2, <1>3, <1>4, <1>5, <1>6, <1>7 DEF FactNext, Statuses

(* Unless others write while an edit is between its reads and its write,   *)
(* the slot's head is a stored fact in force, what was superseded can be   *)
(* reached from its successor, and a removal puts back what it replaced.   *)
THEOREM FactsStayInOrder == ~EditsOverlap => (FactSpec => FactsInOrder)
<1> SUFFICES ASSUME ~EditsOverlap PROVE FactSpec => FactsInOrder
  OBVIOUS
<1>1. FactInit => FactInv
  BY InitIsInv
<1>2. FactInv /\ [FactNext]_factVars => FactInv' /\ RemovalRestores
  BY StepKeepsInv
<1>3. FactInv => FactTypeOK /\ HeadIsCurrent /\ SupersededHasSuccessor
  BY InvIsEnough
<1> QED
  BY <1>1, <1>2, <1>3, PTL DEF FactSpec, FactsInOrder
=============================================================================
