---------------------- MODULE GenerationCompletion_proofs ----------------------
(* Finished generations, for any chats, hosts and bounds: each is captured    *)
(* once, kept in order whatever fails, and in the workspace before a new plan *)
(* replaces the one it was made with; and no plan is compared twice.          *)
EXTENDS GenerationCompletion, SequenceTheorems, FiniteSetTheorems, TLAPS

-----------------------------------------------------------------------------
(* The inductive invariant.                                                  *)

Scopes == [chat : Chats, plan : Plans \cup {NoPlan}]
Preps == [turn : Turns, inWindow : BOOLEAN, mark : Nat, step : {"wait", "build"}]
Flushes == [pc : {"idle", "persist", "audit", "collect"}, try : 1..Attempts,
            by : 0..MaxTurns, plan : Plans \cup {NoPlan}]
Entries == [by : Turns, plan : Plans, msg : Messages]
Preparing == phase \in {"sent", "started"}

(* A turn begins with its preparation; its events come later.                *)
TurnShape ==
    /\ phase # "idle" => turn # 0
    /\ left # {} => turn # 0 /\ ~Preparing
    /\ prep # NoPrep => Preparing /\ prep.turn = turn

(* Who compares has a plan to compare; who writes has something to write.    *)
FlushShape ==
    /\ flush.pc = "persist" => queue # <<>>
    /\ flush.pc \in {"audit", "collect"} => flush.by # 0
    /\ flush.pc = "collect" => flush.plan # NoPlan
    /\ \A h \in handlers : h.step = "collect" => h.plan # NoPlan

(* A reply is captured, or a handler is reading it, while its chat is open.  *)
CapturedIn(t, e) == \E i \in DOMAIN captured : captured[i].by = t /\ captured[i].epoch = e
ReadIn(t, e) == \E h \in handlers : h.step = "read" /\ h.by = t /\ h.epoch = e

(* Only one of the two events that announce a reply takes it.                *)
TakenOnce ==
    /\ CapturedOnce
    /\ \A h \in handlers : h.step = "read" => ~CapturedIn(h.by, h.epoch)
    /\ \A g, h \in handlers :
          g.step = "read" /\ h.step = "read" /\ g.by = h.by /\ g.epoch = h.epoch => g = h

NoneAhead ==
    /\ \A i \in DOMAIN captured : captured[i].by <= turn /\ captured[i].epoch <= switches
    /\ \A h \in handlers : h.by <= turn /\ h.epoch <= switches

TakenIsClosed ==
    CapturedIn(turn, switches) \/ ReadIn(turn, switches) =>
        /\ ~Preparing
        /\ "received" \in left => scope = NoScope
        /\ "ended" \in left => claimed

CaptureInv == TakenOnce /\ NoneAhead /\ TakenIsClosed

(* A plan is in one place: prepared, about to be compared by one party, or   *)
(* compared.  There is none of a turn that may still be prepared.            *)
Apart ==
    /\ \A i \in DOMAIN reconciled : reconciled[i].plan # plan
    /\ \A h \in handlers : h.step = "collect" => h.plan # plan
    /\ \A h \in handlers : h.step = "collect" => \A i \in DOMAIN reconciled : reconciled[i].plan # h.plan
    /\ \A g, h \in handlers : g.step = "collect" /\ h.step = "collect" /\ g.plan = h.plan => g = h
    /\ flush.pc = "collect" =>
          /\ flush.plan # plan
          /\ \A i \in DOMAIN reconciled : reconciled[i].plan # flush.plan
          /\ \A h \in handlers : h.step = "collect" => h.plan # flush.plan

MayPrepare == Preparing /\ (~prompted \/ prep # NoPrep)
Past(p) == p.turn <= turn /\ (MayPrepare => p.turn # turn)

PlansPast ==
    /\ plan # NoPlan => Past(plan)
    /\ flush.pc = "collect" => Past(flush.plan)
    /\ \A h \in handlers : h.step = "collect" => Past(h.plan)
    /\ \A i \in DOMAIN reconciled : Past(reconciled[i].plan)

PlanInv == PlanOnce /\ Apart /\ PlansPast

(* The queue q is the end of what was captured, c; what is stored, s, is the *)
(* rest, and perhaps the first of the queue.                                 *)
InOrder(q, s, c) ==
    /\ Len(q) <= Len(c)
    /\ \A i \in 1..Len(q) : q[i] = c[Len(c) - Len(q) + i]
    /\ Len(s) = Len(c) - Len(q) \/ (Len(s) = Len(c) - Len(q) + 1 /\ Len(s) <= Len(c))
    /\ \A i \in 1..Len(s) : s[i] = c[i]

Marked ==
    prep # NoPrep => /\ prep.mark <= Len(captured)
                     /\ prep.step = "build" => prep.mark <= Len(stored)

CompletionInv ==
    /\ TypeOK /\ TurnShape /\ FlushShape
    /\ CaptureInv /\ PlanInv
    /\ InOrder(queue, stored, captured) /\ Marked

-----------------------------------------------------------------------------
(* Sequences.                                                                *)

LEMMA Appended ==
  ASSUME NEW S, NEW s \in Seq(S), NEW x \in S
  PROVE  /\ Append(s, x) \in Seq(S) /\ Len(s) \in Nat
         /\ Len(Append(s, x)) = Len(s) + 1
         /\ DOMAIN s = 1..Len(s) /\ DOMAIN Append(s, x) = 1..(Len(s) + 1)
         /\ \A i \in 1..Len(s) : Append(s, x)[i] = s[i]
         /\ Append(s, x)[Len(s) + 1] = x
OBVIOUS

LEMMA EnqueuedInOrder ==
  ASSUME NEW S, NEW q \in Seq(S), NEW s \in Seq(S), NEW c \in Seq(S), NEW x \in S, InOrder(q, s, c)
  PROVE  InOrder(Append(q, x), s, Append(c, x))
<1> DEFINE p == Append(q, x)
           d == Append(c, x)
<1>1. /\ Len(q) \in Nat /\ Len(c) \in Nat /\ Len(s) \in Nat
      /\ Len(p) = Len(q) + 1 /\ Len(d) = Len(c) + 1
      /\ \A i \in 1..Len(q) : p[i] = q[i]
      /\ \A i \in 1..Len(c) : d[i] = c[i]
      /\ p[Len(q) + 1] = x /\ d[Len(c) + 1] = x
  BY Appended
<1> HIDE DEF p, d
<1>2. \A i \in 1..Len(p) : p[i] = d[Len(d) - Len(p) + i]
  <2> TAKE i \in 1..Len(p)
  <2>1. CASE i = Len(q) + 1
    BY <1>1, <2>1
  <2>2. CASE i # Len(q) + 1
    <3>1. i \in 1..Len(q) /\ Len(c) - Len(q) + i \in 1..Len(c) /\ Len(d) - Len(p) + i = Len(c) - Len(q) + i
      BY <1>1, <2>2 DEF InOrder
    <3> QED
      BY <1>1, <3>1 DEF InOrder
  <2> QED
    BY <2>1, <2>2
<1>3. \A i \in 1..Len(s) : s[i] = d[i]
  BY <1>1 DEF InOrder
<1>4. /\ Len(p) <= Len(d)
      /\ Len(s) = Len(d) - Len(p) \/ (Len(s) = Len(d) - Len(p) + 1 /\ Len(s) <= Len(d))
  BY <1>1 DEF InOrder
<1>5. InOrder(p, s, d)
  BY <1>2, <1>3, <1>4, Zenon DEF InOrder
<1> QED
  BY <1>5 DEF p, d

(* What the write of the first completion in the queue leaves stored.        *)
WithHead(q, s) == IF \E i \in DOMAIN s : s[i] = Head(q) THEN s ELSE Append(s, Head(q))

LEMMA WrittenInOrder ==
  ASSUME NEW S, NEW q \in Seq(S), NEW s \in Seq(S), NEW c \in Seq(S), InOrder(q, s, c), q # <<>>,
         \A i, j \in DOMAIN c : c[i] = c[j] => i = j
  PROVE  /\ WithHead(q, s) \in Seq(S) /\ InOrder(q, WithHead(q, s), c)
         /\ Len(WithHead(q, s)) = Len(c) - Len(q) + 1 /\ Len(s) <= Len(WithHead(q, s))
<1>1. /\ Len(q) \in Nat \ {0} /\ Len(c) \in Nat /\ Len(s) \in Nat /\ DOMAIN s = 1..Len(s) /\ DOMAIN c = 1..Len(c)
      /\ Head(q) \in S /\ Head(q) = q[1]
  OBVIOUS
<1> DEFINE off == Len(c) - Len(q)
<1>2. off \in Nat /\ off + 1 \in 1..Len(c) /\ Head(q) = c[off + 1]
  <2>1. 1 \in 1..Len(q) /\ Len(q) <= Len(c) /\ \A i \in 1..Len(q) : q[i] = c[Len(c) - Len(q) + i]
    <3>1. Len(q) <= Len(c) /\ \A i \in 1..Len(q) : q[i] = c[Len(c) - Len(q) + i]
      BY DEF InOrder
    <3>2. 1 \in 1..Len(q)
      BY <1>1
    <3> QED
      BY <3>1, <3>2
  <2>2. q[1] = c[Len(c) - Len(q) + 1]
    BY <2>1
  <2> QED
    BY <1>1, <2>1, <2>2
<1>5. \A i \in 1..Len(s) : s[i] = c[i]
  BY DEF InOrder
<1> HIDE DEF off
<1>3. CASE Len(s) = off
  <2>1. \A i \in 1..Len(s) : s[i] # Head(q)
    <3> TAKE i \in 1..Len(s)
    <3>0. i \in 1..off /\ off \in Nat /\ off + 1 \in 1..Len(c)
      BY <1>2, <1>3
    <3>1. i \in DOMAIN c /\ off + 1 \in DOMAIN c /\ i # off + 1
      BY <1>1, <3>0
    <3>2. c[i] # c[off + 1]
      BY <3>1, SMTT(30)
    <3> QED
      BY <1>2, <1>5, <3>2
  <2>2. WithHead(q, s) = Append(s, Head(q))
    BY <1>1, <2>1 DEF WithHead
  <2> DEFINE w == Append(s, Head(q))
  <2>3. /\ w \in Seq(S) /\ Len(w) = Len(s) + 1 /\ w[Len(s) + 1] = Head(q)
        /\ \A i \in 1..Len(s) : w[i] = s[i]
    BY <1>1, Appended
  <2> HIDE DEF w
  <2>4. \A i \in 1..Len(w) : w[i] = c[i]
    <3> TAKE i \in 1..Len(w)
    <3>1. CASE i = off + 1
      BY <1>2, <1>3, <2>3, <3>1
    <3>2. CASE i # off + 1
      <4>1. i \in 1..Len(s)
        BY <1>2, <1>3, <2>3, <3>2
      <4> QED
        BY <1>5, <2>3, <4>1
    <3> QED
      BY <3>1, <3>2
  <2>5. InOrder(q, w, c)
    <3>1. Len(q) <= Len(c) /\ \A i \in 1..Len(q) : q[i] = c[Len(c) - Len(q) + i]
      BY DEF InOrder
    <3>2. Len(w) = Len(c) - Len(q) + 1 /\ Len(w) <= Len(c)
      BY <1>1, <1>2, <1>3, <2>3 DEF off
    <3> QED
      BY <2>4, <3>1, <3>2 DEF InOrder
  <2>6. Len(w) = Len(c) - Len(q) + 1 /\ Len(s) <= Len(w)
    BY <1>1, <1>3, <2>3 DEF off
  <2>7. WithHead(q, s) = w
    BY <2>2 DEF w
  <2> QED
    BY <2>3, <2>5, <2>6, <2>7
<1>4. CASE Len(s) = off + 1
  <2>1. off + 1 \in DOMAIN s /\ s[off + 1] = Head(q)
    BY <1>1, <1>2, <1>4, <1>5
  <2>2. WithHead(q, s) = s
    BY <2>1 DEF WithHead
  <2> QED
    BY <1>1, <1>4, <2>2 DEF off
<1>6. Len(s) = off \/ Len(s) = off + 1
  BY DEF InOrder, off
<1> QED
  BY <1>3, <1>4, <1>6

LEMMA ShiftedInOrder ==
  ASSUME NEW S, NEW q \in Seq(S), NEW s \in Seq(S), NEW c \in Seq(S), InOrder(q, s, c), q # <<>>,
         Len(s) = Len(c) - Len(q) + 1
  PROVE  Tail(q) \in Seq(S) /\ Len(Tail(q)) = Len(q) - 1 /\ InOrder(Tail(q), s, c)
<1>1. Len(q) \in Nat \ {0} /\ Len(c) \in Nat /\ Len(s) \in Nat
  OBVIOUS
<1> DEFINE t == Tail(q)
<1>2. t \in Seq(S) /\ Len(t) = Len(q) - 1 /\ \A i \in 1..Len(t) : t[i] = q[i + 1]
  BY HeadTailProperties
<1> HIDE DEF t
<1>3. \A i \in 1..Len(t) : t[i] = c[Len(c) - Len(t) + i]
  <2> TAKE i \in 1..Len(t)
  <2>1. i + 1 \in 1..Len(q) /\ Len(c) - Len(t) + i = Len(c) - Len(q) + (i + 1)
    BY <1>1, <1>2
  <2> QED
    BY <1>2, <2>1 DEF InOrder
<1> QED
  BY <1>1, <1>2, <1>3 DEF InOrder, t

(* The order of the parts is the order of what was captured.                 *)
LEMMA OrderIsKept ==
  ASSUME NEW S, queue \in Seq(S), stored \in Seq(S), captured \in Seq(S), InOrder(queue, stored, captured)
  PROVE  KeptInOrder
<1> DEFINE off == Len(captured) - Len(queue)
<1>1. Len(captured) \in Nat /\ Len(queue) \in Nat /\ Len(stored) \in Nat /\ off \in Nat
  BY DEF InOrder
<1>2. queue = SubSeq(captured, off + 1, Len(captured))
  <2> DEFINE t == SubSeq(captured, off + 1, Len(captured))
  <2>1. /\ t \in Seq(S) /\ Len(t) = Len(queue)
        /\ \A i \in 1..Len(queue) : t[i] = captured[off + i]
    <3>1. \A i \in (off + 1)..Len(captured) : captured[i] \in S
      BY <1>1
    <3>2. off + 1 \in Int /\ Len(captured) \in Int
      BY <1>1
    <3>3. /\ t \in Seq(S) /\ Len(t) = IF off + 1 <= Len(captured) THEN Len(captured) - (off + 1) + 1 ELSE 0
          /\ \A i \in 1..(Len(captured) - (off + 1) + 1) : t[i] = captured[off + 1 + i - 1]
      BY <3>1, <3>2, SubSeqProperties
    <3> HIDE DEF t
    <3> QED
      BY <1>1, <3>3
  <2> HIDE DEF t
  <2>2. queue = t
    BY <2>1, SeqEqual DEF InOrder
  <2> QED
    BY <2>2 DEF t
<1>3. \A n \in Nat : Len(stored) = n => stored = SubSeq(captured, 1, n)
  <2> TAKE n \in Nat
  <2> HAVE Len(stored) = n
  <2> DEFINE t == SubSeq(captured, 1, n)
  <2>1. n <= Len(captured)
    BY <1>1 DEF InOrder
  <2>2. t \in Seq(S) /\ Len(t) = n /\ \A i \in 1..n : t[i] = captured[i]
    <3>1. \A i \in 1..n : captured[i] \in S
      BY <1>1, <2>1
    <3>2. /\ t \in Seq(S) /\ Len(t) = IF 1 <= n THEN n - 1 + 1 ELSE 0
          /\ \A i \in 1..(n - 1 + 1) : t[i] = captured[1 + i - 1]
      BY <3>1, SubSeqProperties
    <3> HIDE DEF t
    <3> QED
      BY <3>2
  <2> HIDE DEF t
  <2>3. stored = t
    BY <2>2, SeqEqual DEF InOrder
  <2> QED
    BY <2>3 DEF t
<1>4. \/ stored = SubSeq(captured, 1, off)
      \/ queue # <<>> /\ stored = SubSeq(captured, 1, off + 1)
  <2>1. CASE Len(stored) = off
    BY <1>1, <1>3, <2>1
  <2>2. CASE Len(stored) = off + 1 /\ Len(stored) <= Len(captured)
    <3>1. queue # <<>>
      BY <1>1, <2>2
    <3> QED
      BY <1>1, <1>3, <2>2, <3>1
  <2> QED
    BY <2>1, <2>2 DEF InOrder
<1> QED
  BY <1>1, <1>2, <1>4 DEF KeptInOrder

-----------------------------------------------------------------------------
(* The newest reply.                                                         *)

(* The initial segments of the natural numbers are ordered as their ends.   *)
LEMMA MaxInBound ==
  ASSUME NEW n \in Nat, NEW T, T \subseteq 1..n
  PROVE  Max({0} \cup T) \in 0..n
<1> DEFINE S == {0} \cup T
           D == {d \in Nat : d <= n /\ n - d \in S}
           Segments == {0..(d - 1) : d \in D}
<1>1. D \subseteq Nat /\ n \in D
  OBVIOUS
<1>2. Segments \subseteq FiniteSubsetsOf(Nat) /\ Segments # {}
  <2>1. \A d \in D : 0..(d - 1) \in FiniteSubsetsOf(Nat)
    BY <1>1, FS_Interval DEF FiniteSubsetsOf
  <2> QED
    BY <1>1, <2>1
<1>3. PICK x \in Segments : \A y \in Segments : ~(<<y, x>> \in StrictSubsetOrdering(Nat))
  <2> HIDE DEF Segments
  <2> QED
    BY <1>2, FS_StrictSubsetOrderingWellFounded, WFMin
<1>4. PICK d \in D : x = 0..(d - 1)
  OBVIOUS
<1>5. \A e \in D : ~(e < d)
  <2> SUFFICES ASSUME NEW e \in D, e < d PROVE FALSE
    OBVIOUS
  <2>1. 0..(e - 1) \in Segments
    OBVIOUS
  <2>2. 0..(e - 1) \subseteq 0..(d - 1) /\ d - 1 \in 0..(d - 1) /\ d - 1 \notin 0..(e - 1)
    BY <1>1
  <2>3. <<0..(e - 1), 0..(d - 1)>> \in StrictSubsetOrdering(Nat)
    BY <1>1, <2>2 DEF StrictSubsetOrdering
  <2> QED
    BY <1>3, <1>4, <2>1, <2>3
<1>6. n - d \in S /\ \A y \in S : n - d >= y
  <2>1. d \in Nat /\ d <= n /\ n - d \in S
    OBVIOUS
  <2>2. ASSUME NEW y \in S PROVE n - d >= y
    <3>1. y \in 0..n /\ n - y \in Nat /\ n - (n - y) = y
      OBVIOUS
    <3>2. n - y \in D
      BY <3>1
    <3>3. ~(n - y < d)
      BY <1>5, <3>2
    <3> QED
      BY <2>1, <3>1, <3>3
  <2> QED
    BY <2>1, <2>2
<1>7. Max(S) \in S
  <2> HIDE DEF S
  <2> QED
    BY <1>6 DEF Max
<1>8. S \subseteq 0..n
  OBVIOUS
<1> HIDE DEF S
<1>9. Max(S) \in 0..n
  BY <1>7, <1>8
<1> QED
  BY <1>9 DEF S

LEMMA RepliesFit ==
  ASSUME TypeOK, NEW p
  PROVE  Replies(p) \subseteq Messages \cup {NoMessage}
<1> DEFINE T == {t \in settled : home[t] = chat}
           newest == [chat |-> chat, turn |-> Max({0} \cup T)]
<1>1. Max({0} \cup T) \in 0..MaxTurns
  <2>1. MaxTurns \in Nat /\ T \subseteq 1..MaxTurns
    BY Sizes DEF TypeOK, Turns
  <2> HIDE DEF T
  <2> QED
    BY <2>1, MaxInBound
<1>2. newest \in Messages
  BY <1>1 DEF TypeOK, Messages
<1> HIDE DEF newest
<1>3. Replies(p) \subseteq {newest, NoMessage}
  BY DEF Replies, newest
<1> QED
  BY <1>2, <1>3

-----------------------------------------------------------------------------
(* What keeps the parts of the invariant.                                    *)

LEMMA HandlersKnown ==
  ASSUME TypeOK
  PROVE  /\ \A h \in handlers : h.by \in Nat /\ h.epoch \in Nat /\ h.plan \in Plans \cup {NoPlan}
         /\ \A i \in DOMAIN captured : captured[i] \in Commits /\ captured[i].by \in Nat /\ captured[i].epoch \in Nat
         /\ \A i \in DOMAIN reconciled : reconciled[i].plan \in Plans
         /\ \A p \in Plans : p.turn \in Nat /\ p.turn # 0
         /\ turn \in Nat /\ switches \in Nat
<1>1. \A h \in handlers : h \in Handlers
  BY DEF TypeOK
<1>2. \A i \in DOMAIN captured : captured[i] \in Commits
  BY DEF TypeOK
<1>3. \A i \in DOMAIN reconciled : reconciled[i].plan \in Plans
  <2>1. reconciled \in Seq(Entries)
    BY DEF TypeOK, Entries
  <2>2. \A i \in DOMAIN reconciled : reconciled[i] \in Entries
    BY <2>1
  <2> QED
    BY <2>2 DEF Entries
<1>4. \A p \in Plans : p.turn \in Nat /\ p.turn # 0
  BY DEF Plans, Turns
<1>5. turn \in Nat /\ switches \in Nat
  BY Sizes DEF TypeOK
<1>6. \A h \in Handlers : h.by \in Nat /\ h.epoch \in Nat /\ h.plan \in Plans \cup {NoPlan}
  BY DEF Handlers, Turns
<1>7. \A c \in Commits : c.by \in Nat /\ c.epoch \in Nat
  BY DEF Commits, Turns
<1> QED
  BY <1>1, <1>2, <1>3, <1>4, <1>5, <1>6, <1>7

Closed == ~Preparing /\ ("received" \in left => scope = NoScope) /\ ("ended" \in left => claimed)

(* Nobody takes a reply.                                                     *)
LEMMA CaptureStays ==
  ASSUME TypeOK, CaptureInv, captured' = captured, handlers' = handlers,
         \/ turn' = turn /\ switches' = switches
               /\ (CapturedIn(turn, switches) \/ ReadIn(turn, switches) => Closed')
         \/ turn' = turn + 1 /\ switches' = switches
         \/ turn' = turn /\ switches' = switches + 1
  PROVE  CaptureInv'
<1>1. TakenOnce'
  BY DEF CaptureInv, TakenOnce, CapturedOnce, CapturedIn
<1>2. NoneAhead'
  BY HandlersKnown DEF CaptureInv, NoneAhead
<1>3. TakenIsClosed'
  <2>1. CASE turn' = turn /\ switches' = switches
    BY <2>1, HandlersKnown DEF TakenIsClosed, CapturedIn, ReadIn, Closed
  <2>2. CASE turn' = turn + 1 \/ switches' = switches + 1
    <3>1. ~CapturedIn(turn, switches)' /\ ~ReadIn(turn, switches)'
      BY <2>2, HandlersKnown DEF CaptureInv, NoneAhead, CapturedIn, ReadIn
    <3> QED
      BY <3>1 DEF TakenIsClosed
  <2> QED
    BY <2>1, <2>2, HandlersKnown
<1> QED
  BY <1>1, <1>2, <1>3 DEF CaptureInv

(* A handler goes on with the audit, or ends.                                *)
LEMMA HandlerLeaves ==
  ASSUME TypeOK, CaptureInv, NEW h \in handlers,
         \A g \in handlers' : g \in handlers \/ (g.step # "read" /\ g.by = h.by /\ g.epoch = h.epoch),
         UNCHANGED <<captured, turn, switches, phase, left, scope, claimed>>
  PROVE  CaptureInv'
<1>1. TakenOnce'
  BY DEF CaptureInv, TakenOnce, CapturedOnce, CapturedIn
<1>2. NoneAhead'
  BY HandlersKnown DEF CaptureInv, NoneAhead
<1>3. TakenIsClosed'
  <2>1. ReadIn(turn, switches)' => ReadIn(turn, switches)
    BY DEF ReadIn
  <2>2. CapturedIn(turn, switches)' = CapturedIn(turn, switches)
    BY DEF CapturedIn
  <2> QED
    BY <2>1, <2>2 DEF CaptureInv, TakenIsClosed, Preparing
<1> QED
  BY <1>1, <1>2, <1>3 DEF CaptureInv

(* A completion c is captured, and nobody else reads its reply.              *)
LEMMA ReplyTaken ==
  ASSUME TypeOK, CaptureInv, NEW c \in Commits, captured' = Append(captured, c),
         ~CapturedIn(c.by, c.epoch), c.by <= turn, c.epoch <= switches,
         \A g \in handlers' : g \in handlers /\ ~(g.step = "read" /\ g.by = c.by /\ g.epoch = c.epoch),
         UNCHANGED <<turn, switches>>
  PROVE  TakenOnce' /\ NoneAhead'
<1> DEFINE n == Len(captured)
<1>1. /\ n \in Nat /\ DOMAIN captured = 1..n /\ DOMAIN captured' = 1..(n + 1)
      /\ \A i \in 1..n : captured'[i] = captured[i]
      /\ captured'[n + 1] = c
  BY Appended DEF TypeOK
<1> HIDE DEF n
<1>2. \A i \in DOMAIN captured' : \/ i \in DOMAIN captured /\ captured'[i] = captured[i]
                                  \/ i = n + 1 /\ captured'[i] = c
  BY <1>1
<1>3. CapturedOnce'
  <2>1. SUFFICES ASSUME NEW i \in DOMAIN captured', NEW j \in DOMAIN captured',
                        captured'[i].by = captured'[j].by, captured'[i].epoch = captured'[j].epoch
                 PROVE  i = j
    BY DEF CapturedOnce
  <2> QED
    BY <1>2, <2>1 DEF CaptureInv, TakenOnce, CapturedOnce, CapturedIn
<1>4. \A t, e : CapturedIn(t, e)' => CapturedIn(t, e) \/ (t = c.by /\ e = c.epoch)
  BY <1>2 DEF CapturedIn
<1>5. \A h \in handlers' : h.step = "read" => ~CapturedIn(h.by, h.epoch)'
  <2> SUFFICES ASSUME NEW h \in handlers', h.step = "read", CapturedIn(h.by, h.epoch)' PROVE FALSE
    OBVIOUS
  <2>1. CapturedIn(h.by, h.epoch)
    BY <1>4
  <2> QED
    BY <2>1 DEF CaptureInv, TakenOnce
<1>6. TakenOnce'
  <2>1. \A h \in handlers' : h.step = "read" => ~(\E i \in DOMAIN captured' : captured'[i].by = h.by /\ captured'[i].epoch = h.epoch)
    BY <1>5 DEF CapturedIn
  <2>2. \A g, h \in handlers' :
           g.step = "read" /\ h.step = "read" /\ g.by = h.by /\ g.epoch = h.epoch => g = h
    BY DEF CaptureInv, TakenOnce
  <2> QED
    BY <1>3, <2>1, <2>2 DEF TakenOnce, CapturedIn
<1>7. NoneAhead'
  BY <1>2 DEF CaptureInv, NoneAhead
<1> QED
  BY <1>6, <1>7

(* No plan is made or taken.                                                 *)
LEMMA PlansStay ==
  ASSUME TypeOK, FlushShape, PlanInv, plan' = plan, reconciled' = reconciled,
         \A h \in handlers' : h.step = "collect" => h \in handlers,
         flush' = flush \/ flush'.pc # "collect",
         \/ turn' = turn /\ (MayPrepare' => MayPrepare)
         \/ turn' = turn + 1
  PROVE  PlanInv'
<1>1. PlanOnce'
  BY DEF PlanInv, PlanOnce
<1>2. Apart'
  BY DEF PlanInv, Apart
<1>3. \A p \in Plans : p.turn \in Nat
  BY HandlersKnown
<1>4. turn \in Nat
  BY HandlersKnown
<1>5. plan' # NoPlan => Past(plan)'
  <2> SUFFICES ASSUME plan # NoPlan PROVE Past(plan)'
    OBVIOUS
  <2>1. plan \in Plans /\ Past(plan)
    BY DEF PlanInv, PlansPast, TypeOK
  <2> QED
    BY <1>3, <1>4, <2>1 DEF Past
<1>6. flush'.pc = "collect" => Past(flush.plan)'
  <2> SUFFICES ASSUME flush'.pc = "collect" PROVE Past(flush.plan)'
    OBVIOUS
  <2>1. flush' = flush /\ flush.plan \in Plans \cup {NoPlan} /\ flush.plan # NoPlan /\ Past(flush.plan)
    BY DEF PlanInv, PlansPast, TypeOK, FlushShape
  <2>2. flush'.plan.turn \in Nat /\ flush'.plan = flush.plan
    BY <1>3, <2>1
  <2> QED
    BY <1>4, <2>1, <2>2 DEF Past
<1>7. \A h \in handlers' : h.step = "collect" => Past(h.plan)'
  <2> SUFFICES ASSUME NEW h \in handlers', h.step = "collect" PROVE Past(h.plan)'
    OBVIOUS
  <2>1. h \in handlers /\ Past(h.plan) /\ h.plan \in Plans
    BY HandlersKnown DEF PlanInv, PlansPast, FlushShape
  <2> QED
    BY <1>3, <1>4, <2>1 DEF Past
<1>8. \A i \in DOMAIN reconciled' : Past(reconciled[i].plan)'
  <2> SUFFICES ASSUME NEW i \in DOMAIN reconciled PROVE Past(reconciled[i].plan)'
    OBVIOUS
  <2>1. Past(reconciled[i].plan) /\ reconciled[i].plan \in Plans
    BY HandlersKnown DEF PlanInv, PlansPast
  <2>2. reconciled'[i].plan = reconciled[i].plan
    OBVIOUS
  <2> QED
    BY <1>3, <1>4, <2>1, <2>2 DEF Past
<1> QED
  BY <1>1, <1>2, <1>5, <1>6, <1>7, <1>8 DEF PlanInv, PlansPast

-----------------------------------------------------------------------------
(* The queue and its flush.                                                  *)

LEMMA Flushed ==
  ASSUME TypeOK, NEW q \in Seq(Commits), StartFlush(q)
  PROVE  /\ flush' \in Flushes /\ (flush' = flush \/ (flush'.pc = "persist" /\ q # <<>>))
<1>1. Idle \in Flushes /\ Persisting \in Flushes /\ Persisting.pc = "persist"
  BY Sizes DEF Idle, Persisting, Flushes
<1>2. flush \in Flushes
  BY DEF TypeOK, Flushes
<1> QED
  BY <1>1, <1>2 DEF StartFlush

LEMMA Enqueued ==
  ASSUME CompletionInv, NEW c \in Commits, Enqueue(c)
  PROVE  /\ queue' \in Seq(Commits) /\ captured' = Append(captured, c) /\ captured' \in Seq(Commits)
         /\ stored' = stored /\ fails' = fails
         /\ flush' \in Flushes /\ (flush' = flush \/ flush'.pc = "persist")
         /\ queue' # <<>>
         /\ InOrder(queue', stored', captured')
         /\ Len(captured) <= Len(captured')
<1>1. queue \in Seq(Commits) /\ stored \in Seq(Commits) /\ captured \in Seq(Commits) /\ InOrder(queue, stored, captured)
  BY DEF CompletionInv, TypeOK
<1>2. queue' = Append(queue, c) /\ captured' = Append(captured, c) /\ stored' = stored /\ fails' = fails
  BY DEF Enqueue
<1>3. queue' \in Seq(Commits) /\ Len(queue') = Len(queue) + 1 /\ Len(queue) \in Nat
  BY <1>1, <1>2, Appended
<1>4. captured' \in Seq(Commits) /\ Len(captured') = Len(captured) + 1 /\ Len(captured) \in Nat
  BY <1>1, <1>2, Appended
<1>5. queue' # <<>>
  BY <1>3
<1>6. flush' \in Flushes /\ (flush' = flush \/ flush'.pc = "persist")
  BY <1>3, Flushed DEF Enqueue, CompletionInv
<1>7. InOrder(queue', stored', captured')
  BY <1>1, <1>2, EnqueuedInOrder
<1> QED
  BY <1>2, <1>3, <1>4, <1>5, <1>6, <1>7

(* The flush goes on or ends: who waited for it begins to build.             *)
LEMMA Continued ==
  ASSUME CompletionInv, NEW q \in Seq(Commits), Continue(q)
  PROVE  /\ flush' \in Flushes /\ (flush'.pc = "persist" => q # <<>>) /\ flush'.pc \in {"idle", "persist"}
         /\ prep' \in Preps \cup {NoPrep}
         /\ prep' # NoPrep =>
               /\ prep # NoPrep /\ prep'.turn = prep.turn /\ prep'.mark = prep.mark
               /\ prep'.step = "build" => prep.step = "build" \/ q = <<>>
<1>1. Idle \in Flushes /\ Persisting \in Flushes /\ Persisting.pc = "persist" /\ Idle.pc = "idle"
  BY Sizes DEF Idle, Persisting, Flushes
<1>2. prep \in Preps \cup {NoPrep}
  BY DEF CompletionInv, TypeOK, Preps
<1>3. flush' \in Flushes /\ (flush'.pc = "persist" => q # <<>>) /\ flush'.pc \in {"idle", "persist"}
  BY <1>1 DEF Continue
<1>4. CASE prep' = prep
  BY <1>2, <1>3, <1>4 DEF Preps
<1>5. CASE q = <<>> /\ prep # NoPrep /\ prep' = [prep EXCEPT !.step = "build"]
  <2>1. prep \in Preps
    BY <1>2, <1>5
  <2>2. [prep EXCEPT !.step = "build"] \in Preps
    BY <2>1 DEF Preps
  <2>3. [prep EXCEPT !.step = "build"].turn = prep.turn /\ [prep EXCEPT !.step = "build"].mark = prep.mark
    BY <2>1 DEF Preps
  <2> QED
    BY <1>3, <1>5, <2>2, <2>3
<1> QED
  BY <1>4, <1>5 DEF Continue

LEMMA Abandoned ==
  ASSUME CompletionInv, Abandon
  PROVE  flush' \in Flushes /\ flush'.pc = "idle" /\ (prep' = prep \/ prep' = NoPrep)
<1>1. Idle \in Flushes /\ Idle.pc = "idle"
  BY Sizes DEF Idle, Flushes
<1> QED
  BY <1>1 DEF Abandon

(* When the queue is empty everything captured is stored.                    *)
LEMMA AllStored ==
  ASSUME NEW S, NEW s \in Seq(S), NEW c \in Seq(S), InOrder(<<>>, s, c)
  PROVE  Len(s) = Len(c)
<1>1. Len(<<>>) = 0 /\ Len(c) \in Nat /\ Len(s) \in Nat
  OBVIOUS
<1> QED
  BY <1>1 DEF InOrder

-----------------------------------------------------------------------------
(* The next turn.                                                            *)

LEMMA InitIsSound == Init => CompletionInv
<1> SUFFICES ASSUME Init PROVE CompletionInv
  OBVIOUS
<1>1. TypeOK
  <2>1. Idle \in Flushes
    BY Sizes DEF Idle, Flushes
  <2>2. /\ queue \in Seq(Commits) /\ stored \in Seq(Commits) /\ captured \in Seq(Commits)
        /\ reconciled \in Seq([by : Turns, plan : Plans, msg : Messages])
    BY DEF Init
  <2>3. /\ chat \in Chats /\ turn \in 0..MaxTurns /\ home \in [Turns -> Chats \cup {NoChat}]
        /\ switches \in 0..MaxSwitches /\ fails \in 0..MaxFails
    BY Sizes DEF Init
  <2> QED
    BY <2>1, <2>2, <2>3 DEF Init, TypeOK, Flushes
<1>2. TurnShape /\ FlushShape /\ Marked
  BY DEF Init, TurnShape, FlushShape, Marked, Idle
<1>3. CaptureInv
  BY DEF Init, CaptureInv, TakenOnce, CapturedOnce, CapturedIn, ReadIn, NoneAhead, TakenIsClosed
<1>4. PlanInv
  BY DEF Init, PlanInv, PlanOnce, Apart, PlansPast, Idle
<1>5. InOrder(queue, stored, captured)
  BY DEF Init, InOrder
<1> QED
  BY <1>1, <1>2, <1>3, <1>4, <1>5 DEF CompletionInv

LEMMA PrepBegun ==
  ASSUME CompletionInv, NEW t \in Turns, NEW b \in BOOLEAN, BeginPrep(t, b)
  PROVE  /\ prep' \in Preps /\ prep'.turn = t
         /\ flush' \in Flushes /\ (flush' = flush \/ (flush'.pc = "persist" /\ queue # <<>>))
         /\ UNCHANGED <<queue, stored, captured, fails>>
         /\ prep'.mark <= Len(captured)
         /\ prep'.step = "build" => prep'.mark <= Len(stored)
<1>1. queue \in Seq(Commits) /\ stored \in Seq(Commits) /\ captured \in Seq(Commits) /\ InOrder(queue, stored, captured)
  BY DEF CompletionInv, TypeOK
<1>2. Len(captured) \in Nat /\ Len(stored) \in Nat
  BY <1>1
<1>3. prep' \in Preps /\ prep'.turn = t /\ prep'.mark = Len(captured) /\ (prep'.step = "build" => queue = <<>>)
  BY <1>2 DEF BeginPrep, Preps
<1>4. queue = <<>> => Len(stored) = Len(captured)
  BY <1>1, AllStored
<1>5. flush' \in Flushes /\ (flush' = flush \/ (flush'.pc = "persist" /\ queue # <<>>))
  BY <1>1, Flushed DEF BeginPrep, CompletionInv
<1> QED
  BY <1>2, <1>3, <1>4, <1>5 DEF BeginPrep

LEMMA TurnBegins ==
  ASSUME CompletionInv, SendMessage \/ Regenerate
  PROVE  CompletionInv'
<1>1. /\ TypeOK /\ phase = "idle" /\ turn \in Nat /\ turn < MaxTurns /\ turn' = turn + 1 /\ turn' \in Turns
      /\ home' = [home EXCEPT ![turn'] = chat] /\ phase' = "sent" /\ left' = {}
      /\ UNCHANGED <<chat, settled, switches, plan, late, ending, reconciled>>
  <2>1. TypeOK /\ turn \in Nat /\ MaxTurns \in Nat
    BY Sizes DEF CompletionInv, TypeOK
  <2>2. /\ phase = "idle" /\ turn < MaxTurns /\ turn' = turn + 1
        /\ home' = [home EXCEPT ![turn'] = chat] /\ phase' = "sent" /\ left' = {}
        /\ UNCHANGED <<chat, settled, switches, plan, late, ending, reconciled>>
    BY DEF SendMessage, Regenerate, preparing
  <2> QED
    BY <2>1, <2>2 DEF Turns
<1>2. home' \in [Turns -> Chats \cup {NoChat}]
  BY <1>1 DEF TypeOK
<1>3. /\ prep' \in Preps \cup {NoPrep}
      /\ prep' # NoPrep => prep'.turn = turn' /\ Marked'
      /\ flush' \in Flushes /\ (flush' = flush \/ (flush'.pc = "persist" /\ queue # <<>>))
      /\ UNCHANGED <<queue, stored, captured, fails>>
      /\ prompted' \in BOOLEAN
  <2>1. CASE SendMessage
    <3>1. BeginPrep(turn', TRUE) /\ prompted' = FALSE
      BY <2>1 DEF SendMessage
    <3> QED
      BY <1>1, <3>1, PrepBegun DEF Marked
  <2>2. CASE Regenerate
    <3>1. prep = NoPrep
      BY <1>1 DEF CompletionInv, TurnShape, Preparing
    <3> QED
      BY <1>1, <2>2, <3>1 DEF Regenerate, preparing, saving, TypeOK, Flushes
  <2> QED
    BY <2>1, <2>2
<1>4. TypeOK'
  BY <1>1, <1>2, <1>3, Sizes DEF TypeOK, Preps, Flushes, ending, Turns
<1>5. TurnShape'
  BY <1>1, <1>3 DEF TurnShape, Preparing
<1>6. FlushShape'
  BY <1>1, <1>3 DEF CompletionInv, FlushShape, ending
<1>7. CaptureInv'
  BY <1>1, <1>3, CaptureStays DEF CompletionInv, ending
<1>8. PlanInv'
  BY <1>1, <1>3, PlansStay DEF CompletionInv, ending
<1>9. InOrder(queue, stored, captured)' /\ Marked'
  BY <1>3 DEF CompletionInv, Marked
<1> QED
  BY <1>4, <1>5, <1>6, <1>7, <1>8, <1>9 DEF CompletionInv

LEMMA PromptReadyStep ==
  ASSUME CompletionInv, NEW b \in BOOLEAN, PromptReady(b)
  PROVE  CompletionInv'
<1>1. /\ TypeOK /\ Preparing /\ prep = NoPrep /\ ~prompted /\ turn \in Turns
      /\ BeginPrep(turn, b) /\ UNCHANGED <<host, plan, late, prompted, ending, reconciled>>
  BY DEF CompletionInv, TypeOK, TurnShape, PromptReady, Preparing, Turns
<1>2. /\ prep' \in Preps /\ prep'.turn = turn
      /\ flush' \in Flushes /\ (flush' = flush \/ (flush'.pc = "persist" /\ queue # <<>>))
      /\ UNCHANGED <<queue, stored, captured, fails>>
      /\ Marked'
  BY <1>1, PrepBegun DEF Marked
<1>3. TypeOK'
  BY <1>1, <1>2 DEF TypeOK, Preps, Flushes, host, ending
<1>4. TurnShape'
  BY <1>1, <1>2 DEF CompletionInv, TurnShape, Preparing, host
<1>5. FlushShape'
  BY <1>1, <1>2 DEF CompletionInv, FlushShape, ending
<1>6. CaptureInv'
  <2>1. (CapturedIn(turn, switches) \/ ReadIn(turn, switches)) => Closed'
    BY <1>1 DEF CompletionInv, CaptureInv, TakenIsClosed, Closed
  <2> QED
    BY <1>1, <1>2, <2>1, CaptureStays DEF CompletionInv, ending, host
<1>7. PlanInv'
  <2>1. MayPrepare' => MayPrepare
    BY <1>1 DEF MayPrepare
  <2> QED
    BY <1>1, <1>2, <2>1, PlansStay DEF CompletionInv, ending, host
<1>8. InOrder(queue, stored, captured)'
  BY <1>2 DEF CompletionInv
<1> QED
  BY <1>2, <1>3, <1>4, <1>5, <1>6, <1>7, <1>8 DEF CompletionInv

(* A plan is new: no other of its turn was made.                             *)
LEMMA PreparedStep ==
  ASSUME CompletionInv, NEW works \in BOOLEAN, Prepared(works)
  PROVE  CompletionInv'
<1>1. /\ TypeOK /\ prep \in Preps /\ prep # NoPrep /\ Preparing /\ prep.turn = turn /\ turn \in Turns
      /\ prep' = NoPrep /\ prompted' = TRUE /\ UNCHANGED <<host, late, ending, saving, reconciled>>
  BY DEF CompletionInv, TypeOK, TurnShape, Prepared, Preps
<1> DEFINE p == [turn |-> turn, chat |-> chat]
<1>2. p \in Plans /\ p.turn = turn /\ p # NoPlan
  BY <1>1, NoneIsNoValue DEF TypeOK, Plans
<1>3. plan' = plan \/ plan' = p
  BY <1>1 DEF Prepared
<1>4. TypeOK'
  BY <1>1, <1>2, <1>3 DEF TypeOK, host, ending, saving
<1>5. TurnShape' /\ FlushShape' /\ Marked'
  BY <1>1 DEF CompletionInv, TurnShape, FlushShape, Marked, Preparing, host, saving, ending
<1>6. CaptureInv'
  <2>1. (CapturedIn(turn, switches) \/ ReadIn(turn, switches)) => Closed'
    BY <1>1 DEF CompletionInv, CaptureInv, TakenIsClosed, Closed
  <2> QED
    BY <1>1, <2>1, CaptureStays DEF CompletionInv, ending, host, saving
<1>7. PlanInv'
  <2>1. MayPrepare /\ ~MayPrepare'
    BY <1>1 DEF MayPrepare, Preparing
  <2>2. CASE plan' = plan
    BY <1>1, <2>1, <2>2, PlansStay DEF CompletionInv, ending, host, saving
  <2>3. CASE plan' = p
    <3>1. /\ \A i \in DOMAIN reconciled : reconciled[i].plan.turn # turn
          /\ \A h \in handlers : h.step = "collect" => h.plan.turn # turn
          /\ flush.pc = "collect" => flush.plan.turn # turn
      BY <2>1 DEF CompletionInv, PlanInv, PlansPast, Past
    <3>2. Apart'
      BY <1>1, <1>2, <2>3, <3>1 DEF CompletionInv, PlanInv, Apart, ending, saving
    <3>3. PlanOnce'
      BY <1>1 DEF CompletionInv, PlanInv, PlanOnce
    <3>4. PlansPast'
      BY <1>1, <1>2, <2>1, <2>3 DEF CompletionInv, PlanInv, PlansPast, Past, TypeOK, Turns, host, ending, saving
    <3> QED
      BY <3>2, <3>3, <3>4 DEF PlanInv
  <2> QED
    BY <1>3, <2>2, <2>3
<1>8. InOrder(queue, stored, captured)'
  BY <1>1 DEF CompletionInv, saving
<1> QED
  BY <1>4, <1>5, <1>6, <1>7, <1>8 DEF CompletionInv

LEMMA LateReturnsStep ==
  ASSUME CompletionInv, NEW flushed \in BOOLEAN, LateReturns(flushed)
  PROVE  CompletionInv'
<1>1. TypeOK /\ late' = FALSE /\ prompted' = (flushed \/ prompted) /\ UNCHANGED <<host, plan, prep, ending, saving, reconciled>>
  BY DEF CompletionInv, LateReturns
<1>2. TypeOK'
  <2>1. late' \in BOOLEAN /\ prompted' \in BOOLEAN
    BY <1>1 DEF TypeOK
  <2> QED
    BY <1>1, <2>1 DEF TypeOK, host, ending, saving
<1>3. TurnShape' /\ FlushShape' /\ Marked' /\ InOrder(queue, stored, captured)'
  BY <1>1 DEF CompletionInv, TurnShape, FlushShape, Marked, Preparing, host, saving, ending
<1>4. CaptureInv'
  <2>1. (CapturedIn(turn, switches) \/ ReadIn(turn, switches)) => Closed'
    BY <1>1 DEF CompletionInv, CaptureInv, TakenIsClosed, Closed, Preparing, host, ending
  <2> QED
    BY <1>1, <2>1, CaptureStays DEF CompletionInv, ending, host, saving
<1>5. PlanInv'
  <2>1. MayPrepare' => MayPrepare
    BY <1>1 DEF MayPrepare, Preparing, host
  <2> QED
    BY <1>1, <2>1, PlansStay DEF CompletionInv, ending, host, saving
<1> QED
  BY <1>2, <1>3, <1>4, <1>5 DEF CompletionInv

(* The steps of the host that touch only the turn and its scope.             *)
LEMMA HostStep ==
  ASSUME CompletionInv, GenerationStarted \/ Generate \/ Settle \/ TurnOver
  PROVE  CompletionInv'
<1>1. /\ TypeOK /\ UNCHANGED <<chat, turn, home, switches, preparing, handlers, saving, reconciled>>
      /\ settled' \subseteq settled \cup {turn}
      /\ phase' \in {"idle", "started", "generating"} /\ left' \subseteq {"received", "ended"}
      /\ phase # "idle"
      /\ Preparing' => Preparing
      /\ prep # NoPrep => Preparing'
      /\ left' # {} => ~Preparing'
      /\ scope' \in Scopes \cup {NoScope} /\ claimed' \in BOOLEAN
  <2>1. TypeOK /\ TurnShape
    BY DEF CompletionInv
  <2>2. CASE GenerationStarted
    <3>1. [chat |-> chat, plan |-> plan] \in Scopes
      BY <2>1 DEF TypeOK, Scopes
    <3>2. /\ UNCHANGED <<chat, turn, home, switches, preparing, handlers, saving, reconciled, settled, left>>
          /\ phase = "sent" /\ phase' = "started" /\ scope' \in Scopes \cup {NoScope} /\ claimed' \in BOOLEAN
      BY <2>2, <3>1 DEF GenerationStarted
    <3> QED
      BY <2>1, <3>2 DEF TypeOK, TurnShape, Preparing
  <2>3. CASE Generate \/ Settle \/ TurnOver
    <3>1. /\ UNCHANGED <<chat, turn, home, switches, preparing, handlers, saving, reconciled, scope, claimed>>
          /\ settled' \subseteq settled \cup {turn}
          /\ \/ phase = "started" /\ prep = NoPrep /\ phase' = "generating" /\ left' = {"received", "ended"}
             \/ phase = "generating" /\ phase' \in {"idle", "generating"} /\ left' \in {left, {}}
      BY <2>3 DEF Generate, Settle, TurnOver, ending
    <3>2. scope \in Scopes \cup {NoScope} /\ claimed \in BOOLEAN /\ left \subseteq {"received", "ended"}
      BY <2>1 DEF TypeOK, Scopes
    <3> QED
      BY <2>1, <3>1, <3>2 DEF TurnShape, Preparing
  <2> QED
    BY <2>2, <2>3
<1>2. turn \in Turns /\ turn # 0
  BY <1>1 DEF CompletionInv, TypeOK, TurnShape, Turns
<1>3. TypeOK'
  BY <1>1, <1>2 DEF TypeOK, Scopes, preparing, saving
<1>4. TurnShape' /\ FlushShape' /\ Marked' /\ InOrder(queue, stored, captured)'
  BY <1>1, <1>2 DEF CompletionInv, TurnShape, FlushShape, Marked, saving, preparing
<1>5. CaptureInv'
  <2>1. ASSUME CapturedIn(turn, switches) \/ ReadIn(turn, switches) PROVE Closed'
    <3>1. Closed
      BY <2>1 DEF CompletionInv, CaptureInv, TakenIsClosed, Closed
    <3> QED
      BY <3>1 DEF Closed, Preparing, GenerationStarted, Generate, Settle, TurnOver, ending
  <2> QED
    BY <1>1, <2>1, CaptureStays DEF CompletionInv, saving
<1>6. PlanInv'
  <2>1. MayPrepare' => MayPrepare
    BY <1>1 DEF MayPrepare, preparing
  <2> QED
    BY <1>1, <2>1, PlansStay DEF CompletionInv, saving, preparing
<1> QED
  BY <1>3, <1>4, <1>5, <1>6 DEF CompletionInv

LEMMA SwitchStep ==
  ASSUME CompletionInv, NEW c \in Chats, SwitchChat(c)
  PROVE  CompletionInv'
<1>1. /\ TypeOK /\ chat' = c /\ switches' = switches + 1 /\ switches' \in 0..MaxSwitches /\ phase' = "idle"
      /\ scope' = NoScope /\ claimed' = FALSE /\ prep' = NoPrep /\ late' \in BOOLEAN /\ prompted' = FALSE
      /\ UNCHANGED <<turn, home, left, settled, plan, handlers, saving, reconciled>>
  BY Sizes DEF CompletionInv, TypeOK, SwitchChat
<1>2. TypeOK'
  BY <1>1 DEF TypeOK, saving
<1>3. TurnShape' /\ FlushShape' /\ Marked' /\ InOrder(queue, stored, captured)'
  BY <1>1 DEF CompletionInv, TurnShape, FlushShape, Marked, Preparing, saving
<1>4. CaptureInv'
  BY <1>1, CaptureStays DEF CompletionInv, saving
<1>5. PlanInv'
  <2>1. ~MayPrepare'
    BY <1>1 DEF MayPrepare, Preparing
  <2> QED
    BY <1>1, <2>1, PlansStay DEF CompletionInv, saving
<1> QED
  BY <1>2, <1>3, <1>4, <1>5 DEF CompletionInv

-----------------------------------------------------------------------------
(* The end of a generation.                                                  *)

(* A reply nobody took is captured at once, or a handler goes to read it.    *)
LEMMA Completes ==
  ASSUME CompletionInv, NEW via \in {"received", "ended"}, NEW s \in Scopes,
         NEW msg \in Messages \cup {NoMessage}, turn \in Turns, Complete(via, s, msg),
         ~CapturedIn(turn, switches), ~ReadIn(turn, switches),
         UNCHANGED <<turn, switches, plan, reconciled>>
  PROVE  /\ handlers' \subseteq Handlers
         /\ queue' \in Seq(Commits) /\ stored' = stored /\ captured' \in Seq(Commits) /\ fails' = fails
         /\ flush' \in Flushes /\ (flush' = flush \/ flush'.pc = "persist")
         /\ \A h \in handlers' : h.step = "collect" => h \in handlers
         /\ FlushShape' /\ TakenOnce' /\ NoneAhead' /\ InOrder(queue, stored, captured)'
         /\ Len(captured) <= Len(captured')
<1> DEFINE p == IF s.chat = chat /\ plan # NoPlan THEN plan ELSE s.plan
           c == [by |-> turn, via |-> via, epoch |-> switches, chat |-> s.chat, plan |-> p, msg |-> msg]
           h == [by |-> turn, via |-> via, epoch |-> switches, chat |-> s.chat, plan |-> p,
                 step |-> IF s.chat = chat THEN "read" ELSE "audit"]
<1>1. /\ p \in Plans \cup {NoPlan} /\ switches \in 0..MaxSwitches /\ turn \in Turns /\ s.chat \in Chats
      /\ TypeOK /\ CaptureInv /\ FlushShape
  BY DEF CompletionInv, TypeOK, Scopes
<1>2. CASE msg # NoMessage
  <2>1. Enqueue(c) /\ handlers' = handlers
    BY <1>2 DEF Complete
  <2>2. c \in Commits /\ c.by = turn /\ c.epoch = switches
    BY <1>1 DEF Commits
  <2> HIDE DEF c
  <2>3. TakenOnce' /\ NoneAhead'
    <3>1. captured' = Append(captured, c)
      BY <2>1 DEF Enqueue
    <3>2. \A g \in handlers' : g \in handlers /\ ~(g.step = "read" /\ g.by = c.by /\ g.epoch = c.epoch)
      BY <2>1, <2>2 DEF ReadIn
    <3>3. c.by <= turn /\ c.epoch <= switches
      BY <1>1, <2>2, HandlersKnown
    <3> QED
      BY <1>1, <2>2, <3>1, <3>2, <3>3, ReplyTaken
  <2>4. FlushShape'
    BY <1>1, <2>1, <2>2, Enqueued DEF FlushShape
  <2> QED
    BY <1>1, <2>1, <2>2, <2>3, <2>4, Enqueued DEF TypeOK
<1>3. CASE msg = NoMessage
  <2>1. handlers' = handlers \cup {h} /\ UNCHANGED saving
    BY <1>3 DEF Complete
  <2>2. h \in Handlers /\ h.by = turn /\ h.epoch = switches /\ h.step \in {"read", "audit"}
    BY <1>1 DEF Handlers
  <2> HIDE DEF h
  <2>3. TakenOnce'
    <3>1. CapturedOnce'
      BY <1>1, <2>1 DEF saving, CaptureInv, TakenOnce, CapturedOnce
    <3>2. \A g \in handlers' : g.step = "read" => ~CapturedIn(g.by, g.epoch)'
      BY <1>1, <2>1, <2>2 DEF saving, CaptureInv, TakenOnce, CapturedIn
    <3>3. \A f, g \in handlers' :
             f.step = "read" /\ g.step = "read" /\ f.by = g.by /\ f.epoch = g.epoch => f = g
      BY <1>1, <2>1, <2>2 DEF CaptureInv, TakenOnce, ReadIn
    <3> QED
      BY <3>1, <3>2, <3>3 DEF TakenOnce, CapturedIn
  <2>4. NoneAhead'
    BY <1>1, <2>1, <2>2, HandlersKnown DEF saving, CaptureInv, NoneAhead
  <2>5. FlushShape'
    BY <1>1, <2>1, <2>2 DEF saving, FlushShape
  <2>6. InOrder(queue, stored, captured)' /\ Len(captured) <= Len(captured')
    BY <1>1, <2>1 DEF CompletionInv, saving, TypeOK
  <2> QED
    BY <1>1, <2>1, <2>2, <2>3, <2>4, <2>5, <2>6 DEF TypeOK, saving, Flushes
<1> QED
  BY <1>2, <1>3

LEMMA ReceivedStep ==
  ASSUME CompletionInv, NEW how \in {"carried", "bare"}, Received(how)
  PROVE  CompletionInv'
<1>1. /\ TypeOK /\ CaptureInv /\ "received" \in left /\ left' = left \ {"received"} /\ ~Preparing
      /\ turn \in Turns /\ prep = NoPrep
      /\ UNCHANGED <<chat, turn, home, phase, settled, switches, plan, prep, late, reconciled>>
  BY DEF CompletionInv, TypeOK, TurnShape, Received, Turns
<1>2. TurnShape' /\ Marked'
  BY <1>1 DEF CompletionInv, TurnShape, Marked, Preparing
<1>3. ~MayPrepare'
  BY <1>1 DEF MayPrepare, Preparing
<1>4. CASE scope = NoScope
  <2>1. UNCHANGED <<ending, prompted, saving>>
    BY <1>4 DEF Received
  <2>2. TypeOK'
    BY <1>1, <2>1 DEF TypeOK, ending, saving
  <2>3. FlushShape' /\ InOrder(queue, stored, captured)'
    BY <2>1 DEF CompletionInv, FlushShape, ending, saving
  <2>4. CapturedIn(turn, switches) \/ ReadIn(turn, switches) => Closed'
    BY <1>1, <1>4, <2>1 DEF CaptureInv, TakenIsClosed, Closed, Preparing, ending
  <2>5. CaptureInv'
    BY <1>1, <2>1, <2>4, CaptureStays DEF ending, saving
  <2>6. PlanInv'
    BY <1>1, <1>3, <2>1, PlansStay DEF CompletionInv, ending, saving
  <2> QED
    BY <1>2, <2>2, <2>3, <2>5, <2>6 DEF CompletionInv
<1>5. CASE scope # NoScope
  <2> DEFINE msg == IF how = "carried" THEN [turn |-> turn, chat |-> chat] ELSE NoMessage
  <2>1. scope' = NoScope /\ claimed' = TRUE /\ prompted' = FALSE /\ Complete("received", scope, msg)
    BY <1>5 DEF Received, Claim
  <2>2. scope \in Scopes /\ msg \in Messages \cup {NoMessage}
    BY <1>1, <1>5 DEF TypeOK, Scopes, Messages, Turns
  <2>3. ~CapturedIn(turn, switches) /\ ~ReadIn(turn, switches)
    BY <1>1, <1>5 DEF CaptureInv, TakenIsClosed
  <2> HIDE DEF msg
  <2>4. /\ handlers' \subseteq Handlers
        /\ queue' \in Seq(Commits) /\ stored' = stored /\ captured' \in Seq(Commits) /\ fails' = fails
        /\ flush' \in Flushes /\ (flush' = flush \/ flush'.pc = "persist")
        /\ \A h \in handlers' : h.step = "collect" => h \in handlers
        /\ FlushShape' /\ TakenOnce' /\ NoneAhead' /\ InOrder(queue, stored, captured)'
    BY <1>1, <2>1, <2>2, <2>3, Completes
  <2>5. TypeOK'
    BY <1>1, <2>1, <2>4 DEF TypeOK, Flushes
  <2>6. CaptureInv'
    BY <1>1, <2>1, <2>4 DEF CaptureInv, TakenIsClosed, Preparing
  <2>7. PlanInv'
    BY <1>1, <1>3, <2>4, PlansStay DEF CompletionInv
  <2> QED
    BY <1>2, <2>4, <2>5, <2>6, <2>7 DEF CompletionInv
<1> QED
  BY <1>4, <1>5

LEMMA EndedStep ==
  ASSUME CompletionInv, Ended
  PROVE  CompletionInv'
<1>1. /\ TypeOK /\ CaptureInv /\ "ended" \in left /\ left' = left \ {"ended"} /\ ~Preparing
      /\ turn \in Turns /\ prep = NoPrep /\ prompted' = FALSE /\ claimed' = FALSE
      /\ UNCHANGED <<chat, turn, home, phase, settled, switches, plan, prep, late, reconciled>>
  BY DEF CompletionInv, TypeOK, TurnShape, Ended, Turns
<1>2. TurnShape' /\ Marked'
  BY <1>1 DEF CompletionInv, TurnShape, Marked, Preparing
<1>3. ~MayPrepare'
  BY <1>1 DEF MayPrepare, Preparing
<1>4. CASE UNCHANGED <<handlers, saving>> /\ scope' \in {scope, NoScope}
  <2>1. TypeOK'
    BY <1>1, <1>4 DEF TypeOK, saving
  <2>2. FlushShape' /\ InOrder(queue, stored, captured)'
    BY <1>4 DEF CompletionInv, FlushShape, saving
  <2>3. CapturedIn(turn, switches) \/ ReadIn(turn, switches) => Closed'
    BY <1>1, <1>4 DEF CaptureInv, TakenIsClosed, Closed, Preparing
  <2>4. CaptureInv'
    BY <1>1, <1>4, <2>3, CaptureStays DEF saving
  <2>5. PlanInv'
    BY <1>1, <1>3, <1>4, PlansStay DEF CompletionInv, saving
  <2> QED
    BY <1>1, <1>2, <2>1, <2>2, <2>4, <2>5 DEF CompletionInv
<1>5. CASE ~claimed /\ scope' = NoScope
           /\ \E s \in Scopes : Complete("ended", s, NoMessage)
  <2>1. PICK s \in Scopes : Complete("ended", s, NoMessage)
    BY <1>5
  <2>2. ~CapturedIn(turn, switches) /\ ~ReadIn(turn, switches)
    BY <1>1, <1>5 DEF CaptureInv, TakenIsClosed
  <2>3. /\ handlers' \subseteq Handlers
        /\ queue' \in Seq(Commits) /\ stored' = stored /\ captured' \in Seq(Commits) /\ fails' = fails
        /\ flush' \in Flushes /\ (flush' = flush \/ flush'.pc = "persist")
        /\ \A h \in handlers' : h.step = "collect" => h \in handlers
        /\ FlushShape' /\ TakenOnce' /\ NoneAhead' /\ InOrder(queue, stored, captured)'
    BY <1>1, <2>1, <2>2, Completes
  <2>4. TypeOK'
    BY <1>1, <1>5, <2>3 DEF TypeOK, Flushes
  <2>5. CaptureInv'
    BY <1>1, <1>5, <2>3 DEF CaptureInv, TakenIsClosed, Preparing
  <2>6. PlanInv'
    BY <1>1, <1>3, <2>3, PlansStay DEF CompletionInv
  <2> QED
    BY <1>1, <1>2, <2>3, <2>4, <2>5, <2>6 DEF CompletionInv
<1>6. \/ UNCHANGED <<handlers, saving>> /\ scope' \in {scope, NoScope}
      \/ ~claimed /\ scope' = NoScope /\ \E s \in Scopes : Complete("ended", s, NoMessage)
  <2> DEFINE s == IF scope # NoScope THEN scope ELSE [chat |-> chat, plan |-> plan]
  <2>1. s \in Scopes
    BY <1>1 DEF TypeOK, Scopes
  <2>2. CASE claimed
    BY <2>2 DEF Ended
  <2>3. CASE ~claimed
    <3>1. scope' = NoScope /\ (UNCHANGED <<handlers, saving>> \/ Complete("ended", s, NoMessage))
      BY <2>3 DEF Ended
    <3> HIDE DEF s
    <3> QED
      BY <2>1, <2>3, <3>1
  <2> QED
    BY <2>2, <2>3
<1> QED
  BY <1>4, <1>5, <1>6

LEMMA ReadReplyStep ==
  ASSUME CompletionInv, NEW h \in handlers, ReadReply(h)
  PROVE  CompletionInv'
<1>1. /\ TypeOK /\ CaptureInv /\ h \in Handlers /\ h.step = "read" /\ handlers' = handlers \ {h}
      /\ UNCHANGED <<host, preparing, scope, claimed, reconciled>>
  BY DEF CompletionInv, TypeOK, ReadReply
<1>2. PICK m \in Messages \cup {NoMessage} :
         Enqueue([by |-> h.by, via |-> h.via, epoch |-> h.epoch, chat |-> h.chat, plan |-> h.plan, msg |-> m])
  BY <1>1, RepliesFit DEF ReadReply
<1> DEFINE c == [by |-> h.by, via |-> h.via, epoch |-> h.epoch, chat |-> h.chat, plan |-> h.plan, msg |-> m]
<1>3. c \in Commits /\ c.by = h.by /\ c.epoch = h.epoch /\ Enqueue(c)
  BY <1>1, <1>2 DEF Commits, Handlers
<1> HIDE DEF c
<1>4. /\ queue' \in Seq(Commits) /\ stored' = stored /\ captured' \in Seq(Commits) /\ fails' = fails
      /\ captured' = Append(captured, c) /\ queue' # <<>>
      /\ flush' \in Flushes /\ (flush' = flush \/ flush'.pc = "persist")
      /\ InOrder(queue, stored, captured)' /\ Len(captured) <= Len(captured')
  BY <1>3, Enqueued
<1>5. TypeOK'
  BY <1>1, <1>4 DEF TypeOK, Flushes, host, preparing
<1>6. TurnShape' /\ FlushShape'
  BY <1>1, <1>4 DEF CompletionInv, TurnShape, FlushShape, Preparing, host, preparing
<1>7. CaptureInv'
  <2>1. ~CapturedIn(c.by, c.epoch) /\ c.by <= turn /\ c.epoch <= switches
    BY <1>1, <1>3 DEF CaptureInv, TakenOnce, NoneAhead
  <2>2. \A g \in handlers' : g \in handlers /\ ~(g.step = "read" /\ g.by = c.by /\ g.epoch = c.epoch)
    BY <1>1, <1>3 DEF CaptureInv, TakenOnce
  <2>3. TakenOnce' /\ NoneAhead'
    BY <1>1, <1>3, <1>4, <2>1, <2>2, ReplyTaken DEF host
  <2>4. CapturedIn(turn, switches)' => CapturedIn(turn, switches) \/ (c.by = turn /\ c.epoch = switches)
    BY <1>1, <1>3, <1>4, Appended DEF CapturedIn, host, TypeOK
  <2>5. ReadIn(turn, switches)' => ReadIn(turn, switches)
    BY <1>1 DEF ReadIn, host
  <2>6. c.by = turn /\ c.epoch = switches => ReadIn(turn, switches)
    BY <1>1, <1>3 DEF ReadIn
  <2>7. TakenIsClosed'
    BY <1>1, <2>4, <2>5, <2>6 DEF CaptureInv, TakenIsClosed, Preparing, host, preparing
  <2> QED
    BY <2>3, <2>7 DEF CaptureInv
<1>8. PlanInv'
  <2>1. MayPrepare' => MayPrepare
    BY <1>1 DEF MayPrepare, Preparing, host, preparing
  <2> QED
    BY <1>1, <1>4, <2>1, PlansStay DEF CompletionInv, host, preparing
<1>9. Marked'
  <2>1. prep # NoPrep => prep.mark \in Nat /\ Len(captured) \in Nat /\ Len(captured') \in Nat
    BY <1>1, <1>4 DEF TypeOK
  <2> QED
    BY <1>1, <1>4, <2>1 DEF CompletionInv, Marked, preparing
<1> QED
  BY <1>4, <1>5, <1>6, <1>7, <1>8, <1>9 DEF CompletionInv

LEMMA ReadNothingStep ==
  ASSUME CompletionInv, NEW h \in handlers, ReadNothing(h)
  PROVE  CompletionInv'
<1> DEFINE g == [h EXCEPT !.step = "audit"]
<1>1. /\ TypeOK /\ CaptureInv /\ h \in Handlers /\ handlers' = (handlers \ {h}) \cup {g}
      /\ UNCHANGED <<host, preparing, scope, claimed, saving, reconciled>>
  BY DEF CompletionInv, TypeOK, ReadNothing
<1>2. g \in Handlers /\ g.step = "audit" /\ g.by = h.by /\ g.epoch = h.epoch
  BY <1>1 DEF Handlers
<1> HIDE DEF g
<1>3. TypeOK'
  BY <1>1, <1>2 DEF TypeOK, host, preparing, saving
<1>4. TurnShape' /\ FlushShape' /\ Marked' /\ InOrder(queue, stored, captured)'
  BY <1>1, <1>2 DEF CompletionInv, TurnShape, FlushShape, Marked, Preparing, host, preparing, saving
<1>5. CaptureInv'
  BY <1>1, <1>2, HandlerLeaves DEF host, saving
<1>6. PlanInv'
  <2>1. MayPrepare' => MayPrepare
    BY <1>1 DEF MayPrepare, Preparing, host, preparing
  <2> QED
    BY <1>1, <1>2, <2>1, PlansStay DEF CompletionInv, host, preparing, saving
<1> QED
  BY <1>3, <1>4, <1>5, <1>6 DEF CompletionInv

-----------------------------------------------------------------------------
(* The flush.                                                                *)

(* Nothing but the flush and the caller waiting for it moves.                *)
LEMMA FlushMoves ==
  ASSUME CompletionInv,
         UNCHANGED <<host, plan, late, prompted, ending, captured, reconciled>>,
         queue' \in Seq(Commits), stored' \in Seq(Commits), fails' \in 0..MaxFails,
         InOrder(queue, stored, captured)', Len(stored) <= Len(stored'),
         flush' \in Flushes, flush'.pc = "persist" => queue' # <<>>,
         flush'.pc = "audit" => flush'.by # 0, flush'.pc # "collect",
         prep' \in Preps \cup {NoPrep},
         prep' # NoPrep => /\ prep # NoPrep /\ prep'.turn = prep.turn /\ prep'.mark = prep.mark
                           /\ prep'.step = "build" => prep.step = "build" \/ queue' = <<>>
  PROVE  CompletionInv'
<1>1. TypeOK'
  BY DEF CompletionInv, TypeOK, Flushes, Preps, host, ending
<1>2. TurnShape' /\ FlushShape'
  BY DEF CompletionInv, TurnShape, FlushShape, Preparing, host, ending
<1>3. CaptureInv'
  <2>1. CapturedIn(turn, switches) \/ ReadIn(turn, switches) => Closed'
    BY DEF CompletionInv, CaptureInv, TakenIsClosed, Closed, Preparing, host, ending
  <2> QED
    BY <2>1, CaptureStays DEF CompletionInv, host, ending
<1>4. PlanInv'
  <2>1. MayPrepare' => MayPrepare
    BY DEF MayPrepare, Preparing, host
  <2> QED
    BY <2>1, PlansStay DEF CompletionInv, host, ending
<1>5. Marked'
  <2> SUFFICES ASSUME prep' # NoPrep
               PROVE  prep'.mark <= Len(captured') /\ (prep'.step = "build" => prep'.mark <= Len(stored'))
    BY DEF Marked
  <2>1. /\ prep # NoPrep /\ prep'.mark = prep.mark /\ prep.mark \in Nat /\ prep.mark <= Len(captured)
        /\ prep.step = "build" => prep.mark <= Len(stored)
    BY DEF CompletionInv, Marked, TypeOK
  <2>2. Len(stored) \in Nat /\ Len(stored') \in Nat /\ Len(captured) \in Nat
    BY DEF CompletionInv, TypeOK
  <2>3. queue' = <<>> => Len(stored') = Len(captured)
    <3>1. captured \in Seq(Commits) /\ captured' = captured
      BY DEF CompletionInv, TypeOK
    <3> QED
      BY <3>1, AllStored
  <2> QED
    BY <2>1, <2>2, <2>3
<1> QED
  BY <1>1, <1>2, <1>3, <1>4, <1>5 DEF CompletionInv

LEMMA Wrote ==
  ASSUME CompletionInv, queue # <<>>, Write
  PROVE  /\ stored' \in Seq(Commits) /\ InOrder(queue, stored', captured)
         /\ Len(stored') = Len(captured) - Len(queue) + 1 /\ Len(stored) <= Len(stored')
<1>1. queue \in Seq(Commits) /\ stored \in Seq(Commits) /\ captured \in Seq(Commits) /\ InOrder(queue, stored, captured)
  BY DEF CompletionInv, TypeOK
<1>2. \A i, j \in DOMAIN captured : captured[i] = captured[j] => i = j
  BY DEF CompletionInv, CaptureInv, TakenOnce, CapturedOnce
<1>3. stored' = WithHead(queue, stored)
  BY DEF Write, WithHead
<1>4. /\ WithHead(queue, stored) \in Seq(Commits) /\ InOrder(queue, WithHead(queue, stored), captured)
      /\ Len(WithHead(queue, stored)) = Len(captured) - Len(queue) + 1
      /\ Len(stored) <= Len(WithHead(queue, stored))
  BY <1>1, <1>2, WrittenInOrder
<1> QED
  BY <1>3, <1>4

LEMMA PersistStep ==
  ASSUME CompletionInv, Persist
  PROVE  CompletionInv'
<1>1. /\ queue # <<>> /\ Write /\ queue' = Tail(queue)
      /\ UNCHANGED <<host, plan, late, prompted, ending, captured, fails, reconciled>>
  BY DEF CompletionInv, FlushShape, Persist
<1>2. queue \in Seq(Commits) /\ captured \in Seq(Commits) /\ fails' \in 0..MaxFails
  BY <1>1 DEF CompletionInv, TypeOK
<1>3. /\ stored' \in Seq(Commits) /\ InOrder(queue, stored', captured)
      /\ Len(stored') = Len(captured) - Len(queue) + 1 /\ Len(stored) <= Len(stored')
  BY <1>1, Wrote
<1>4. queue' \in Seq(Commits) /\ InOrder(queue, stored, captured)'
  BY <1>1, <1>2, <1>3, ShiftedInOrder
<1>5. CASE flush' = [Idle EXCEPT !.pc = "audit", !.by = Head(queue).by] /\ prep' = prep
  <2>1. Head(queue) \in Commits
    BY <1>1, <1>2
  <2>2. Head(queue).by \in Turns
    BY <2>1 DEF Commits
  <2>3. flush' \in Flushes /\ flush'.pc = "audit" /\ flush'.by # 0
    <3>1. Idle \in Flushes /\ Head(queue).by \in 0..MaxTurns /\ Head(queue).by # 0
      BY <2>2, Sizes DEF Idle, Flushes, Turns
    <3> QED
      BY <1>5, <3>1 DEF Flushes
  <2>4. prep \in Preps \cup {NoPrep}
    BY DEF CompletionInv, TypeOK, Preps
  <2> QED
    BY <1>1, <1>2, <1>3, <1>4, <1>5, <2>3, <2>4, FlushMoves
<1>6. CASE Continue(queue')
  BY <1>1, <1>2, <1>3, <1>4, <1>6, Continued, FlushMoves
<1> QED
  BY <1>5, <1>6 DEF Persist

LEMMA PersistFailsStep ==
  ASSUME CompletionInv, NEW applied \in BOOLEAN, NEW retryable \in BOOLEAN, PersistFails(applied, retryable)
  PROVE  CompletionInv'
<1>1. /\ queue # <<>> /\ queue' = queue /\ flush.pc = "persist"
      /\ UNCHANGED <<host, plan, late, prompted, ending, captured, reconciled>>
  BY DEF CompletionInv, FlushShape, PersistFails, KeepsFailed
<1>2. fails' \in 0..MaxFails
  BY Sizes DEF CompletionInv, TypeOK, PersistFails
<1>3. queue \in Seq(Commits) /\ stored \in Seq(Commits) /\ InOrder(queue, stored, captured) /\ Len(stored) \in Nat
  BY DEF CompletionInv, TypeOK
<1>4. stored' \in Seq(Commits) /\ InOrder(queue, stored, captured)' /\ Len(stored) <= Len(stored')
  <2>1. CASE Write
    BY <1>1, <2>1, Wrote
  <2>2. CASE stored' = stored
    BY <1>1, <1>3, <2>2
  <2> QED
    BY <2>1, <2>2 DEF PersistFails
<1>5. prep \in Preps \cup {NoPrep} /\ flush \in Flushes
  BY DEF CompletionInv, TypeOK, Preps, Flushes
<1>6. CASE MayRetry /\ flush' = [flush EXCEPT !.try = @ + 1] /\ prep' = prep
  <2>1. flush' \in Flushes /\ flush'.pc = "persist"
    BY <1>1, <1>5, <1>6, Sizes DEF MayRetry, Flushes
  <2> QED
    BY <1>1, <1>2, <1>3, <1>4, <1>5, <1>6, <2>1, FlushMoves
<1>7. CASE Abandon
  BY <1>1, <1>2, <1>3, <1>4, <1>5, <1>7, Abandoned, FlushMoves
<1> QED
  BY <1>6, <1>7 DEF PersistFails

LEMMA FlushAuditedStep ==
  ASSUME CompletionInv, FlushAudited
  PROVE  CompletionInv'
<1>1. /\ TypeOK /\ flush.pc = "audit"
      /\ UNCHANGED <<host, late, prompted, ending, queue, stored, captured, fails, reconciled>>
  BY DEF CompletionInv, FlushAudited
<1>2. CASE Continue(queue) /\ plan' = plan
  <2>1. queue \in Seq(Commits) /\ stored \in Seq(Commits) /\ fails \in 0..MaxFails /\ Len(stored) \in Nat
        /\ InOrder(queue, stored, captured)'
    BY <1>1 DEF CompletionInv, TypeOK
  <2> QED
    BY <1>1, <1>2, <2>1, Continued, FlushMoves
<1>3. CASE HasPlan /\ TakePlan /\ flush' = [flush EXCEPT !.pc = "collect", !.plan = plan] /\ prep' = prep
  <2>1. plan' = NoPlan /\ plan # NoPlan /\ plan \in Plans /\ flush \in Flushes /\ flush.by # 0
    BY <1>1, <1>3 DEF CompletionInv, FlushShape, HasPlan, TakePlan, TypeOK, Flushes
  <2>2. flush' \in Flushes /\ flush'.pc = "collect" /\ flush'.plan = plan /\ flush'.by = flush.by
    BY <1>3, <2>1 DEF Flushes
  <2>3. TypeOK'
    BY <1>1, <1>3, <2>1, <2>2 DEF TypeOK, Flushes, host, ending
  <2>4. TurnShape' /\ FlushShape' /\ Marked' /\ InOrder(queue, stored, captured)'
    BY <1>1, <1>3, <2>1, <2>2 DEF CompletionInv, TurnShape, FlushShape, Marked, Preparing, host, ending
  <2>5. CaptureInv'
    <3>1. CapturedIn(turn, switches) \/ ReadIn(turn, switches) => Closed'
      BY <1>1 DEF CompletionInv, CaptureInv, TakenIsClosed, Closed, Preparing, host, ending
    <3> QED
      BY <1>1, <3>1, CaptureStays DEF CompletionInv, host, ending
  <2>6. PlanInv'
    <3>1. MayPrepare' = MayPrepare
      BY <1>1, <1>3 DEF MayPrepare, Preparing, host
    <3>2. PlanOnce'
      BY <1>1 DEF CompletionInv, PlanInv, PlanOnce
    <3>3. Apart'
      <4>1. /\ \A i \in DOMAIN reconciled : reconciled[i].plan # NoPlan
            /\ \A h \in handlers : h.step = "collect" => h.plan # NoPlan
        BY <1>1, HandlersKnown, NoneIsNoValue DEF CompletionInv, FlushShape
      <4> QED
        BY <1>1, <2>1, <2>2, <4>1 DEF CompletionInv, PlanInv, Apart, ending
    <3>4. PlansPast'
      BY <1>1, <2>1, <2>2, <3>1 DEF CompletionInv, PlanInv, PlansPast, Past, host, ending
    <3> QED
      BY <3>2, <3>3, <3>4 DEF PlanInv
  <2> QED
    BY <2>3, <2>4, <2>5, <2>6 DEF CompletionInv
<1> QED
  BY <1>2, <1>3 DEF FlushAudited

-----------------------------------------------------------------------------
(* Plans are compared.                                                       *)

(* A party that held p compares it, and lets go of it.                       *)
LEMMA PlanCompared ==
  ASSUME TypeOK, PlanInv, NEW by \in Turns, NEW p \in Plans, Compare(by, p), plan' = plan,
         UNCHANGED <<turn, phase, prompted>>, prep' = NoPrep \/ prep # NoPrep,
         p # plan, Past(p), \A i \in DOMAIN reconciled : reconciled[i].plan # p,
         \A h \in handlers' : h.step = "collect" => h \in handlers /\ h.plan # p,
         flush'.pc = "collect" => flush' = flush /\ flush.plan # p
  PROVE  reconciled' \in Seq(Entries) /\ PlanInv'
<1>1. reconciled \in Seq(Entries)
  BY DEF TypeOK, Entries
<1>2. PICK r \in Seq(Entries) :
         /\ r = reconciled'
         /\ \A i \in DOMAIN r : \/ i \in DOMAIN reconciled /\ r[i] = reconciled[i]
                                \/ i = Len(reconciled) + 1 /\ r[i].plan = p
         /\ Len(reconciled) \in Nat
  <2>1. PICK m \in Messages \cup {NoMessage} :
           reconciled' = IF m = NoMessage THEN reconciled
                         ELSE Append(reconciled, [by |-> by, plan |-> p, msg |-> m])
    BY RepliesFit DEF Compare
  <2>2. CASE m = NoMessage
    BY <1>1, <2>1, <2>2
  <2>3. CASE m # NoMessage
    <3> DEFINE e == [by |-> by, plan |-> p, msg |-> m]
    <3>1. e \in Entries /\ e.plan = p
      BY <2>3 DEF Entries
    <3>2. reconciled' = Append(reconciled, e)
      BY <2>1, <2>3
    <3> HIDE DEF e
    <3> QED
      BY <1>1, <3>1, <3>2, Appended
  <2> QED
    BY <2>2, <2>3
<1>3. PlanOnce'
  <2>1. SUFFICES ASSUME NEW i \in DOMAIN r, NEW j \in DOMAIN r, r[i].plan = r[j].plan PROVE i = j
    BY <1>2 DEF PlanOnce
  <2> QED
    BY <1>2, <2>1 DEF PlanInv, PlanOnce
<1>4. \A i \in DOMAIN r : r[i].plan = p \/ (i \in DOMAIN reconciled /\ r[i].plan = reconciled[i].plan)
  BY <1>2
<1>5. Apart'
  <2>1. \A i \in DOMAIN r : r[i].plan # plan
    BY <1>4 DEF PlanInv, Apart
  <2>2. \A h \in handlers' : h.step = "collect" => h.plan # plan /\ \A i \in DOMAIN r : r[i].plan # h.plan
    BY <1>4 DEF PlanInv, Apart
  <2>3. \A g, h \in handlers' : g.step = "collect" /\ h.step = "collect" /\ g.plan = h.plan => g = h
    BY DEF PlanInv, Apart
  <2>4. flush'.pc = "collect" =>
           /\ flush'.plan # plan
           /\ \A i \in DOMAIN r : r[i].plan # flush'.plan
           /\ \A h \in handlers' : h.step = "collect" => h.plan # flush'.plan
    BY <1>4 DEF PlanInv, Apart
  <2> QED
    BY <1>2, <2>1, <2>2, <2>3, <2>4 DEF Apart
<1>6. PlansPast'
  <2>1. turn' = turn /\ (MayPrepare' => MayPrepare)
    BY DEF MayPrepare, Preparing
  <2>2. \A i \in DOMAIN r : r[i].plan.turn <= turn /\ (MayPrepare => r[i].plan.turn # turn)
    BY <1>4 DEF PlanInv, PlansPast, Past
  <2>3. \A h \in handlers' : h.step = "collect" => h.plan.turn <= turn /\ (MayPrepare => h.plan.turn # turn)
    BY DEF PlanInv, PlansPast, Past
  <2>4. flush'.pc = "collect" => flush'.plan.turn <= turn /\ (MayPrepare => flush'.plan.turn # turn)
    BY DEF PlanInv, PlansPast, Past
  <2>5. plan # NoPlan => plan.turn <= turn /\ (MayPrepare => plan.turn # turn)
    BY DEF PlanInv, PlansPast, Past
  <2> QED
    BY <1>2, <2>1, <2>2, <2>3, <2>4, <2>5 DEF PlansPast, Past
<1> QED
  BY <1>2, <1>3, <1>5, <1>6 DEF PlanInv

LEMMA FlushComparedStep ==
  ASSUME CompletionInv, FlushCompared
  PROVE  CompletionInv'
<1>1. /\ TypeOK /\ PlanInv /\ flush.pc = "collect" /\ Compare(flush.by, flush.plan) /\ Continue(queue)
      /\ UNCHANGED <<host, plan, late, prompted, ending, queue, stored, captured, fails>>
  BY DEF CompletionInv, FlushCompared
<1>2. /\ flush.by \in Turns /\ flush.plan \in Plans
      /\ queue \in Seq(Commits) /\ stored \in Seq(Commits) /\ captured \in Seq(Commits)
      /\ Len(stored) \in Nat /\ InOrder(queue, stored, captured)'
  BY <1>1 DEF CompletionInv, TypeOK, FlushShape, Turns
<1>3. /\ flush' \in Flushes /\ (flush'.pc = "persist" => queue # <<>>) /\ flush'.pc \in {"idle", "persist"}
      /\ prep' \in Preps \cup {NoPrep}
      /\ prep' # NoPrep =>
            /\ prep # NoPrep /\ prep'.turn = prep.turn /\ prep'.mark = prep.mark
            /\ prep'.step = "build" => prep.step = "build" \/ queue = <<>>
  BY <1>1, <1>2, Continued
<1>4. reconciled' \in Seq(Entries) /\ PlanInv'
  <2>1. /\ flush.plan # plan /\ Past(flush.plan)
        /\ \A i \in DOMAIN reconciled : reconciled[i].plan # flush.plan
        /\ \A h \in handlers : h.step = "collect" => h.plan # flush.plan
    BY <1>1 DEF PlanInv, Apart, PlansPast
  <2> QED
    BY <1>1, <1>2, <1>3, <2>1, PlanCompared DEF host, ending
<1>5. TypeOK'
  BY <1>1, <1>3, <1>4 DEF TypeOK, Flushes, Preps, Entries, host, ending
<1>6. TurnShape' /\ FlushShape'
  BY <1>1, <1>3 DEF CompletionInv, TurnShape, FlushShape, Preparing, host, ending
<1>7. CaptureInv'
  <2>1. CapturedIn(turn, switches) \/ ReadIn(turn, switches) => Closed'
    BY <1>1 DEF CompletionInv, CaptureInv, TakenIsClosed, Closed, Preparing, host, ending
  <2> QED
    BY <1>1, <2>1, CaptureStays DEF CompletionInv, host, ending
<1>8. Marked'
  <2>1. queue = <<>> => Len(stored) = Len(captured)
    BY <1>2, AllStored DEF CompletionInv
  <2> QED
    BY <1>1, <1>2, <1>3, <2>1 DEF CompletionInv, Marked
<1> QED
  BY <1>2, <1>4, <1>5, <1>6, <1>7, <1>8 DEF CompletionInv

LEMMA AuditedStep ==
  ASSUME CompletionInv, NEW h \in handlers, Audited(h)
  PROVE  CompletionInv'
<1>1. /\ TypeOK /\ CaptureInv /\ h \in Handlers /\ h.step = "audit"
      /\ UNCHANGED <<host, prep, late, prompted, scope, claimed, saving, reconciled>>
  BY DEF CompletionInv, TypeOK, Audited
<1>2. CASE handlers' = handlers \ {h} /\ plan' = plan
  <2>1. TypeOK'
    BY <1>1, <1>2 DEF TypeOK, host, saving
  <2>2. TurnShape' /\ FlushShape' /\ Marked' /\ InOrder(queue, stored, captured)'
    BY <1>1, <1>2 DEF CompletionInv, TurnShape, FlushShape, Marked, Preparing, host, saving
  <2>3. CaptureInv'
    BY <1>1, <1>2, HandlerLeaves DEF host, saving
  <2>4. PlanInv'
    <3>1. MayPrepare' => MayPrepare
      BY <1>1 DEF MayPrepare, Preparing, host
    <3> QED
      BY <1>1, <1>2, <3>1, PlansStay DEF CompletionInv, host, saving
  <2> QED
    BY <2>1, <2>2, <2>3, <2>4 DEF CompletionInv
<1>3. CASE HasPlan /\ TakePlan /\ handlers' = (handlers \ {h}) \cup {[h EXCEPT !.step = "collect", !.plan = plan]}
  <2> DEFINE g == [h EXCEPT !.step = "collect", !.plan = plan]
  <2>1. plan' = NoPlan /\ plan # NoPlan /\ plan \in Plans
    BY <1>1, <1>3 DEF HasPlan, TakePlan, TypeOK
  <2>2. g \in Handlers /\ g.step = "collect" /\ g.plan = plan /\ g.by = h.by /\ g.epoch = h.epoch
    BY <1>1, <2>1 DEF Handlers
  <2>3. handlers' = (handlers \ {h}) \cup {g}
    BY <1>3
  <2> HIDE DEF g
  <2>4. TypeOK'
    BY <1>1, <2>1, <2>2, <2>3 DEF TypeOK, host, saving
  <2>5. TurnShape' /\ FlushShape' /\ Marked' /\ InOrder(queue, stored, captured)'
    BY <1>1, <2>1, <2>2, <2>3 DEF CompletionInv, TurnShape, FlushShape, Marked, Preparing, host, saving
  <2>6. CaptureInv'
    BY <1>1, <2>2, <2>3, HandlerLeaves DEF host, saving
  <2>7. PlanInv'
    <3>1. MayPrepare' = MayPrepare
      BY <1>1 DEF MayPrepare, Preparing, host
    <3>2. PlanOnce'
      BY <1>1 DEF CompletionInv, PlanInv, PlanOnce
    <3>3. Apart'
      <4>1. /\ \A i \in DOMAIN reconciled : reconciled[i].plan # NoPlan
            /\ \A f \in handlers : f.step = "collect" => f.plan # NoPlan
            /\ flush.pc = "collect" => flush.plan # NoPlan
        BY <1>1, HandlersKnown, NoneIsNoValue DEF CompletionInv, FlushShape
      <4> QED
        BY <1>1, <2>1, <2>2, <2>3, <4>1 DEF CompletionInv, PlanInv, Apart, saving
    <3>4. PlansPast'
      BY <1>1, <2>1, <2>2, <2>3, <3>1 DEF CompletionInv, PlanInv, PlansPast, Past, host, saving
    <3> QED
      BY <3>2, <3>3, <3>4 DEF PlanInv
  <2> QED
    BY <2>4, <2>5, <2>6, <2>7 DEF CompletionInv
<1> QED
  BY <1>2, <1>3 DEF Audited

LEMMA ComparedStep ==
  ASSUME CompletionInv, NEW h \in handlers, Compared(h)
  PROVE  CompletionInv'
<1>1. /\ TypeOK /\ PlanInv /\ CaptureInv /\ h \in Handlers /\ h.step = "collect" /\ handlers' = handlers \ {h}
      /\ Compare(h.by, h.plan) /\ UNCHANGED <<host, preparing, scope, claimed, saving>>
  BY DEF CompletionInv, TypeOK, Compared
<1>2. h.by \in Turns /\ h.plan \in Plans
  BY <1>1 DEF CompletionInv, FlushShape, Handlers
<1>3. reconciled' \in Seq(Entries) /\ PlanInv'
  <2>1. /\ h.plan # plan /\ Past(h.plan)
        /\ \A i \in DOMAIN reconciled : reconciled[i].plan # h.plan
        /\ \A g \in handlers' : g.step = "collect" => g \in handlers /\ g.plan # h.plan
        /\ flush.pc = "collect" => flush.plan # h.plan
    BY <1>1 DEF PlanInv, Apart, PlansPast
  <2> QED
    BY <1>1, <1>2, <2>1, PlanCompared DEF host, preparing, saving
<1>4. TypeOK'
  BY <1>1, <1>3 DEF TypeOK, Entries, host, preparing, saving
<1>5. TurnShape' /\ FlushShape' /\ Marked' /\ InOrder(queue, stored, captured)'
  BY <1>1 DEF CompletionInv, TurnShape, FlushShape, Marked, Preparing, host, preparing, saving
<1>6. CaptureInv'
  BY <1>1, HandlerLeaves DEF host, saving
<1> QED
  BY <1>3, <1>4, <1>5, <1>6 DEF CompletionInv

-----------------------------------------------------------------------------
(* The theorems.                                                             *)

LEMMA StepIsSound == CompletionInv /\ [Next]_vars => CompletionInv'
<1> SUFFICES ASSUME CompletionInv, [Next]_vars PROVE CompletionInv'
  OBVIOUS
<1>1. CASE Host
  BY <1>1, TurnBegins, PromptReadyStep, HostStep, SwitchStep, ReceivedStep, EndedStep DEF Host
<1>2. CASE \E works \in BOOLEAN : Prepared(works)
  BY <1>2, PreparedStep
<1>3. CASE \E flushed \in BOOLEAN : LateReturns(flushed)
  BY <1>3, LateReturnsStep
<1>4. CASE Flushing
  BY <1>4, PersistStep, PersistFailsStep, FlushAuditedStep, FlushComparedStep DEF Flushing
<1>5. CASE \E h \in handlers : Handling(h)
  BY <1>5, ReadReplyStep, ReadNothingStep, AuditedStep, ComparedStep DEF Handling
<1>6. CASE UNCHANGED vars
  <2>1. UNCHANGED <<chat, turn, home, phase, left, settled, switches, plan, prep, late, prompted, scope, claimed,
                    handlers, queue, flush, stored, captured, fails, reconciled>>
    BY <1>6 DEF vars, host, preparing, ending, saving
  <2>2. TypeOK'
    BY <2>1 DEF CompletionInv, TypeOK
  <2>3. TurnShape' /\ FlushShape' /\ Marked' /\ InOrder(queue, stored, captured)'
    BY <2>1 DEF CompletionInv, TurnShape, FlushShape, Marked, Preparing
  <2>4. CaptureInv'
    BY <2>1 DEF CompletionInv, CaptureInv, TakenOnce, CapturedOnce, CapturedIn, ReadIn, NoneAhead, TakenIsClosed, Preparing
  <2>5. PlanInv'
    BY <2>1 DEF CompletionInv, PlanInv, PlanOnce, Apart, PlansPast, Past, MayPrepare, Preparing
  <2> QED
    BY <2>2, <2>3, <2>4, <2>5 DEF CompletionInv
<1> QED
  BY <1>1, <1>2, <1>3, <1>4, <1>5, <1>6 DEF Next

LEMMA AlwaysSound == Spec => []CompletionInv
<1> QED
  BY InitIsSound, StepIsSound, PTL DEF Spec

(* The completions of the replies reach the workspace in the order they were *)
(* captured, once each, whatever writes fail (flushPendingGenerationCompletion). *)
THEOREM CompletionsAreInOrder == Spec => []CompletionsInOrder
<1>1. CompletionInv => CompletionsInOrder
  <2> SUFFICES ASSUME CompletionInv PROVE CompletionsInOrder
    OBVIOUS
  <2>1. queue \in Seq(Commits) /\ stored \in Seq(Commits) /\ captured \in Seq(Commits) /\ InOrder(queue, stored, captured)
    BY DEF CompletionInv, TypeOK
  <2> QED
    BY <2>1, OrderIsKept DEF CompletionInv, CompletionsInOrder
<1> QED
  BY <1>1, AlwaysSound, PTL

(* A reply that message-received and generation-ended both announce is       *)
(* captured once while its chat stays open (onMessageReceived, onGenerationEnded). *)
THEOREM RepliesAreCapturedOnce == Spec => []CapturedOnce
<1>1. CompletionInv => CapturedOnce
  BY DEF CompletionInv, CaptureInv, TakenOnce
<1> QED
  BY <1>1, AlwaysSound, PTL

(* A plan is compared with one reply at most, although the flush and the     *)
(* handlers run side by side (reconcileGeneratedMessage).                    *)
THEOREM PlansAreComparedOnce == Spec => []PlanOnce
<1>1. CompletionInv => PlanOnce
  BY DEF CompletionInv, PlanInv
<1> QED
  BY <1>1, AlwaysSound, PTL

(* A plan is replaced only when every completion captured before its         *)
(* preparation began is in the workspace (onPromptReady flushes first).      *)
THEOREM CompletionsAreSavedFirst == Spec => SavedFirst
<1>1. CompletionInv /\ [Next]_vars => [plan' \notin {plan, NoPlan} => Len(stored) >= prep.mark]_vars
  <2> SUFFICES ASSUME CompletionInv, Next, plan' \notin {plan, NoPlan}
               PROVE  Len(stored) >= prep.mark
    OBVIOUS
  <2>1. PICK works \in BOOLEAN : Prepared(works)
    BY DEF Next, Host, SendMessage, Regenerate, PromptReady, GenerationStarted, Generate, Settle, TurnOver,
           SwitchChat, Received, Ended, LateReturns, Flushing, Persist, PersistFails, FlushAudited, FlushCompared,
           Handling, ReadReply, ReadNothing, Audited, Compared, TakePlan, preparing
  <2>2. prep # NoPrep /\ prep.step = "build" /\ prep.mark \in Nat /\ Len(stored) \in Nat
    BY <2>1 DEF Prepared, CompletionInv, TypeOK
  <2> QED
    BY <2>2 DEF CompletionInv, Marked
<1> QED
  BY <1>1, AlwaysSound, PTL DEF Spec, SavedFirst
=============================================================================
