--------------------------- MODULE ChangeSets_proofs ---------------------------
(* What holds of ChangeSets for every set of clients, batches, records and    *)
(* derived rows, and for every bound.                                         *)
EXTENDS ChangeSets, TLAPS

-----------------------------------------------------------------------------
(* Shapes.                                                                   *)

LEMMA AbsentIsValue == Absent \in Value /\ Absent.content = NoContent
  BY DEF Absent, Value

LEMMA UnreadIsVersioned == Unread \in Versioned
  BY AbsentIsValue DEF Unread, Versioned

LEMMA IdleIsOp == Idle \in Op /\ Idle.pc = "idle"
  BY AbsentIsValue, UnreadIsVersioned
  DEF Idle, Op, NoPayload, Payload, AllAbsent

LEMMA NoAuditIsAudit == NoAudit \in Audit
  BY AbsentIsValue DEF NoAudit, Audit, NoPayload, Payload, AllAbsent

\* A digest is a payload.
LEMMA DigestIsPayload ==
  ASSUME NEW b \in Batches, NEW payload \in Payload
  PROVE  Digest(b, payload) \in Payload
  BY DEF Digest, Payload

\* A put of a value keeps a versioned row a versioned row.
LEMMA PutIsVersioned ==
  ASSUME NEW row \in Versioned, NEW value \in Value
  PROVE  Put(row, value) \in Versioned
  BY DEF Put, Versioned

\* A call that moves to a well-formed state keeps every call well-formed.
LEMMA BecomesKeepsOp ==
  ASSUME TypeOK, NEW c \in Clients, NEW o \in Op, o.pc # "idle" => o.id \in Ids,
         Becomes(c, o)
  PROVE  /\ op' \in [Clients -> Op]
         /\ \A d \in Clients : op'[d].pc # "idle" => op'[d].id \in Ids
  BY DEF TypeOK, Becomes

LEMMA FailsKeepsOp ==
  ASSUME TypeOK, NEW c \in Clients, Fails(c)
  PROVE  /\ op' \in [Clients -> Op]
         /\ \A d \in Clients : op'[d].pc # "idle" => op'[d].id \in Ids
  BY IdleIsOp, BecomesKeepsOp DEF Fails

-----------------------------------------------------------------------------
(* Type correctness, call by call.                                           *)

LEMMA TypeInit == Init => TypeOK
<1> SUFFICES ASSUME Init PROVE TypeOK
  OBVIOUS
<1> USE DEF Init
<1>1. store \in [Recs -> Versioned] /\ audits \in [Ids -> Audit]
  BY UnreadIsVersioned, NoAuditIsAudit
<1>2. applied \in SUBSET Key /\ writes \in 0..MaxWrites
  BY Bounds
<1>3. derived \in [Derived -> [src : Ids \cup {NoId}, rev : Nat]]
  OBVIOUS
<1>4. op \in [Clients -> Op] /\ \A c \in Clients : op[c].pc = "idle"
  BY IdleIsOp
<1> QED
  BY <1>1, <1>2, <1>3, <1>4 DEF TypeOK

LEMMA StartCaptureTypes ==
  ASSUME TypeOK, NEW c \in Clients, NEW b \in Batches, NEW payload \in Payloads[b],
         StartCapture(c, b, payload)
  PROVE  TypeOK'
<1> DEFINE o == [Idle EXCEPT !.pc = "walk", !.id = <<b, 0>>, !.payload = payload]
<1>1. payload \in Payload
  BY BatchShape
<1>2. <<b, 0>> \in Ids
  BY Bounds DEF Ids
<1>3. o \in Op /\ o.id \in Ids
  BY <1>1, <1>2, IdleIsOp DEF Op
<1>4. Becomes(c, o)
  BY DEF StartCapture
<1> QED
  BY <1>3, <1>4, BecomesKeepsOp DEF StartCapture, TypeOK

LEMMA ConflictsKeepsOp ==
  ASSUME TypeOK, NEW c \in Clients, op[c].pc # "idle", Conflicts(c)
  PROVE  /\ op' \in [Clients -> Op]
         /\ \A d \in Clients : op'[d].pc # "idle" => op'[d].id \in Ids
<1> DEFINE o == [Idle EXCEPT !.pc = "walk", !.id = <<Batch(c), 0>>,
                             !.payload = op[c].payload, !.retried = TRUE]
<1>1. op[c] \in Op /\ op[c].id \in Ids
  BY DEF TypeOK
<1>2. <<Batch(c), 0>> \in Ids
  BY <1>1, Bounds DEF Ids, Batch
<1>3. o \in Op /\ o.id \in Ids
  BY <1>1, <1>2, IdleIsOp DEF Op
<1> QED
  BY <1>3, FailsKeepsOp, BecomesKeepsOp DEF Conflicts

LEMMA AcknowledgesKeepsOp ==
  ASSUME TypeOK, NEW c \in Clients, op[c].pc # "idle", Acknowledges(c)
  PROVE  /\ op' \in [Clients -> Op]
         /\ \A d \in Clients : op'[d].pc # "idle" => op'[d].id \in Ids
<1> DEFINE o == [Idle EXCEPT !.pc = "acked", !.id = op[c].id, !.payload = op[c].payload]
<1>1. op[c] \in Op /\ op[c].id \in Ids
  BY DEF TypeOK
<1>2. o \in Op /\ o.id \in Ids
  BY <1>1, IdleIsOp DEF Op
<1> QED
  BY <1>2, BecomesKeepsOp DEF Acknowledges

LEMMA WalkChainTypes ==
  ASSUME TypeOK, NEW c \in Clients, WalkChain(c)
  PROVE  TypeOK'
<1> DEFINE reading == [op[c] EXCEPT !.pc = "read"]
           next == [op[c] EXCEPT !.id = <<Batch(c), Attempt(c) + 1>>]
<1>1. op[c] \in Op /\ op[c].id \in Ids /\ op[c].pc # "idle"
  BY DEF TypeOK, WalkChain
<1>2. reading \in Op /\ reading.id \in Ids
  BY <1>1 DEF Op
<1>3. Attempt(c) < MaxRetry => next \in Op /\ next.id \in Ids
  BY <1>1, Bounds DEF Op, Ids, Batch, Attempt
<1>4. /\ op' \in [Clients -> Op]
      /\ \A d \in Clients : op'[d].pc # "idle" => op'[d].id \in Ids
  BY <1>1, <1>2, <1>3, BecomesKeepsOp, ConflictsKeepsOp, AcknowledgesKeepsOp DEF WalkChain
<1> QED
  BY <1>4 DEF WalkChain, TypeOK

LEMMA ReadRecordTypes ==
  ASSUME TypeOK, NEW c \in Clients, NEW r \in Recs, ReadRecord(c, r)
  PROVE  TypeOK'
<1> DEFINE o == [op[c] EXCEPT !.got = @ \cup {r}, !.read[r] = store[r]]
<1>1. op[c] \in Op /\ op[c].id \in Ids /\ store[r] \in Versioned
  BY DEF TypeOK, ReadRecord
<1>2. o \in Op /\ o.id \in Ids
  BY <1>1 DEF Op
<1> QED
  BY <1>2, BecomesKeepsOp DEF ReadRecord, TypeOK

\* The value a commit writes is a value.
LEMMA CommittedIsValue ==
  ASSUME TypeOK, NEW c \in Clients, NEW r \in Recs
  PROVE  Committed(c, r) \in Value
<1>1. op[c].payload \in Payload /\ store[r] \in Versioned
  BY DEF TypeOK, Op
<1>2. op[c].payload[r] \in Contents \cup {NoContent} /\ store[r].rev + 1 \in Nat
  BY <1>1 DEF Payload, Versioned
<1> QED
  BY <1>2, AbsentIsValue DEF Committed, Value

LEMMA WriteCommitTypes ==
  ASSUME TypeOK, NEW c \in Clients, op[c].pc # "idle", WriteCommit(c)
  PROVE  /\ store' \in [Recs -> Versioned]
         /\ audits' \in [Ids -> Audit]
         /\ applied' \in SUBSET Key
<1>1. op[c] \in Op /\ op[c].id \in Ids
  BY DEF TypeOK
<1>2. \A r \in Recs : store[r] \in Versioned /\ Committed(c, r) \in Value
  BY CommittedIsValue DEF TypeOK
<1>3. store' \in [Recs -> Versioned]
  BY <1>2, PutIsVersioned DEF WriteCommit
<1> DEFINE audit == [status |-> "live",
      before |-> [r \in Recs |-> IF r \in Span(c) THEN op[c].read[r].val ELSE Absent],
      after  |-> [r \in Recs |-> IF r \in Span(c) THEN Committed(c, r) ELSE Absent],
      digest |-> Request(c),
      rev    |-> audits[op[c].id].rev + 1]
<1>4. \A r \in Recs : op[c].read[r].val \in Value
  BY <1>1 DEF Op, Versioned
<1>5. audit.before \in [Recs -> Value] /\ audit.after \in [Recs -> Value]
  BY <1>2, <1>4, AbsentIsValue
<1>6. Batch(c) \in Batches /\ op[c].payload \in Payload
  BY <1>1 DEF Ids, Batch, Op
<1>7. Request(c) \in Payload
  BY <1>6, DigestIsPayload DEF Request
<1>8. audits[op[c].id].rev + 1 \in Nat
  BY <1>1 DEF TypeOK, Audit
<1>9. audit \in Audit
  BY <1>5, <1>7, <1>8 DEF Audit
<1>10. audits' = [audits EXCEPT ![op[c].id] = audit]
  BY <1>1 DEF WriteCommit, TypeOK
<1>11. audits' \in [Ids -> Audit]
  BY <1>9, <1>10 DEF TypeOK
<1>12. applied' \in SUBSET Key
  BY <1>1 DEF WriteCommit, TypeOK, Key, CommitKey
<1> QED
  BY <1>3, <1>11, <1>12

LEMMA ApplyCaptureTypes ==
  ASSUME TypeOK, NEW c \in Clients, ApplyCapture(c)
  PROVE  TypeOK'
<1>1. op[c].pc # "idle"
  BY DEF ApplyCapture
<1>2. /\ op' \in [Clients -> Op]
      /\ \A d \in Clients : op'[d].pc # "idle" => op'[d].id \in Ids
  BY <1>1, ConflictsKeepsOp, AcknowledgesKeepsOp DEF ApplyCapture
<1>3. /\ store' \in [Recs -> Versioned]
      /\ audits' \in [Ids -> Audit]
      /\ applied' \in SUBSET Key
  BY <1>1, WriteCommitTypes DEF ApplyCapture, TypeOK
<1> QED
  BY <1>2, <1>3 DEF ApplyCapture, TypeOK

-----------------------------------------------------------------------------
(* The steps of a rollback.                                                  *)

LEMMA BeginRollbackTypes ==
  ASSUME TypeOK, NEW c \in Clients, NEW id \in Ids, BeginRollback(c, id)
  PROVE  TypeOK'
<1> DEFINE o == [Idle EXCEPT !.pc = "preflight", !.id = id,
                             !.before = audits[id].before, !.after = audits[id].after]
<1>1. audits[id] \in Audit
  BY DEF TypeOK
<1>2. o \in Op /\ o.id \in Ids
  BY <1>1, IdleIsOp DEF Op, Audit
<1> QED
  BY <1>2, BecomesKeepsOp DEF BeginRollback, TypeOK

LEMMA PreflightTypes ==
  ASSUME TypeOK, NEW c \in Clients, NEW r \in Recs, Preflight(c, r)
  PROVE  TypeOK'
<1> DEFINE got == op[c].got \cup {r}
           passed == [op[c] EXCEPT !.pc = "reread", !.got = {}]
           more == [op[c] EXCEPT !.got = got]
<1>1. op[c] \in Op /\ op[c].id \in Ids
  BY DEF TypeOK, Preflight
<1>2. passed \in Op /\ passed.id \in Ids
  BY <1>1 DEF Op
<1>3. more \in Op /\ more.id \in Ids
  BY <1>1 DEF Op
<1>4. Fails(c) \/ Becomes(c, passed) \/ Becomes(c, more)
  BY DEF Preflight
<1>5. /\ op' \in [Clients -> Op]
      /\ \A d \in Clients : op'[d].pc # "idle" => op'[d].id \in Ids
  BY <1>2, <1>3, <1>4, FailsKeepsOp, BecomesKeepsOp, Zenon
<1> QED
  BY <1>5 DEF Preflight, TypeOK

LEMMA RereadTypes ==
  ASSUME TypeOK, NEW c \in Clients, NEW r \in Recs, Reread(c, r)
  PROVE  TypeOK'
<1> DEFINE got == op[c].got \cup {r}
           o == [op[c] EXCEPT !.got = got, !.read[r] = store[r],
                              !.pc = IF got = Span(c) THEN "scan" ELSE @]
<1>1. op[c] \in Op /\ op[c].id \in Ids /\ store[r] \in Versioned
  BY DEF TypeOK, Reread
<1>2. o \in Op /\ o.id \in Ids
  <2> DEFINE seen == [op[c].read EXCEPT ![r] = store[r]]
             pc == IF got = Span(c) THEN "scan" ELSE op[c].pc
  <2>1. seen \in [Recs -> Versioned] /\ got \in SUBSET Recs
    BY <1>1 DEF Op
  <2>2. o = [op[c] EXCEPT !.got = got, !.read = seen, !.pc = pc]
    BY <1>1 DEF Op
  <2> HIDE DEF seen, got
  <2> QED
    BY <1>1, <2>1, <2>2 DEF Op
<1>3. Fails(c) \/ Becomes(c, o)
  BY DEF Reread
<1>4. /\ op' \in [Clients -> Op]
      /\ \A d \in Clients : op'[d].pc # "idle" => op'[d].id \in Ids
  BY <1>2, <1>3, FailsKeepsOp, BecomesKeepsOp
<1> QED
  BY <1>4 DEF Reread, TypeOK

LEMMA ScanDerivedTypes ==
  ASSUME TypeOK, NEW c \in Clients, NEW d \in Derived, ScanDerived(c, d)
  PROVE  TypeOK'
<1> DEFINE o == [op[c] EXCEPT !.scanned = @ \cup {d}, !.seen[d] = derived[d].rev,
                              !.rows = IF StaleRow(op[c].id, d) THEN @ \cup {d} ELSE @]
<1>1. op[c] \in Op /\ op[c].id \in Ids /\ derived[d].rev \in Nat
  BY DEF TypeOK, ScanDerived
<1>2. o \in Op /\ o.id \in Ids
  BY <1>1 DEF Op
<1> QED
  BY <1>2, BecomesKeepsOp DEF ScanDerived, TypeOK

LEMMA ReadAuditTypes ==
  ASSUME TypeOK, NEW c \in Clients, ReadAudit(c)
  PROVE  TypeOK'
<1> DEFINE o == [op[c] EXCEPT !.pc = "rollback", !.auditRev = audits[op[c].id].rev]
<1>1. op[c] \in Op /\ op[c].id \in Ids /\ audits[op[c].id] \in Audit
  BY DEF TypeOK, ReadAudit
<1>2. o \in Op /\ o.id \in Ids
  BY <1>1 DEF Op, Audit
<1> QED
  BY <1>2, BecomesKeepsOp DEF ReadAudit, TypeOK

\* What a rollback puts back is a value.
LEMMA RestoredIsValue ==
  ASSUME TypeOK, NEW c \in Clients, NEW r \in Recs
  PROVE  Restored(c, r) \in Value
<1>1. /\ op[c].before[r] \in Value
      /\ op[c].read[r].val \in Value
      /\ store[r].rev + 1 \in Nat
  BY DEF TypeOK, Op, Versioned
<1> QED
  BY <1>1, AbsentIsValue DEF Restored, Value

LEMMA DropTypes ==
  ASSUME TypeOK, NEW rows
  PROVE  Drop(rows) \in [Derived -> [src : Ids \cup {NoId}, rev : Nat]]
  BY DEF TypeOK, Drop

LEMMA WriteRollbackTypes ==
  ASSUME TypeOK, NEW c \in Clients, op[c].pc # "idle", WriteRollback(c)
  PROVE  /\ store' \in [Recs -> Versioned]
         /\ audits' \in [Ids -> Audit]
         /\ applied' \in SUBSET Key
         /\ derived' \in [Derived -> [src : Ids \cup {NoId}, rev : Nat]]
<1>1. op[c] \in Op /\ op[c].id \in Ids /\ audits[op[c].id] \in Audit
  BY DEF TypeOK
<1>2. \A r \in Recs : store[r] \in Versioned /\ Restored(c, r) \in Value
  BY RestoredIsValue DEF TypeOK
<1>3. store' \in [Recs -> Versioned]
  BY <1>2, PutIsVersioned DEF WriteRollback
<1> DEFINE audit == [status |-> "rolledBack", before |-> op[c].before, after |-> op[c].after,
                     digest |-> audits[op[c].id].digest, rev |-> audits[op[c].id].rev + 1]
<1>4. audit \in Audit
  BY <1>1 DEF Audit, Op
<1>5. audits' = [audits EXCEPT ![op[c].id] = audit]
  BY <1>1 DEF WriteRollback, TypeOK
<1>6. audits' \in [Ids -> Audit]
  BY <1>4, <1>5 DEF TypeOK
<1>7. applied' \in SUBSET Key
  BY <1>1 DEF WriteRollback, TypeOK, Key, RollbackKey
<1> QED
  BY <1>3, <1>6, <1>7, DropTypes DEF WriteRollback

LEMMA ApplyRollbackTypes ==
  ASSUME TypeOK, NEW c \in Clients, ApplyRollback(c)
  PROVE  TypeOK'
<1>1. op[c].pc # "idle"
  BY DEF ApplyRollback
<1>2. /\ store' \in [Recs -> Versioned]
      /\ audits' \in [Ids -> Audit]
      /\ applied' \in SUBSET Key
      /\ derived' \in [Derived -> [src : Ids \cup {NoId}, rev : Nat]]
  BY <1>1, WriteRollbackTypes DEF ApplyRollback, TypeOK
<1> QED
  BY <1>2, FailsKeepsOp DEF ApplyRollback, TypeOK

-----------------------------------------------------------------------------
(* The derived rows, the writers from outside, a crash.                      *)

LEMMA StartDeriveTypes ==
  ASSUME TypeOK, NEW c \in Clients, NEW id \in Ids, NEW rows \in SUBSET Derived,
         StartDerive(c, id, rows)
  PROVE  TypeOK'
<1> DEFINE o == [Idle EXCEPT !.pc = "derive", !.id = id, !.rows = rows]
<1>1. o \in Op /\ o.id \in Ids
  BY IdleIsOp DEF Op
<1>2. writes' \in 0..MaxWrites
  BY Bounds DEF StartDerive, TypeOK
<1> QED
  BY <1>1, <1>2, BecomesKeepsOp DEF StartDerive, TypeOK

LEMMA WriteDerivedTypes ==
  ASSUME TypeOK, NEW c \in Clients, NEW d \in Derived, WriteDerived(c, d)
  PROVE  TypeOK'
<1> DEFINE rest == op[c].rows \ {d}
           o == IF rest = {} THEN Idle ELSE [op[c] EXCEPT !.rows = rest]
<1>1. op[c] \in Op /\ op[c].id \in Ids
  BY DEF TypeOK, WriteDerived
<1>2. [op[c] EXCEPT !.rows = rest] \in Op /\ [op[c] EXCEPT !.rows = rest].id \in Ids
  BY <1>1 DEF Op
<1>3. o \in Op /\ (o.pc # "idle" => o.id \in Ids)
  BY <1>2, IdleIsOp
<1>4. derived' \in [Derived -> [src : Ids \cup {NoId}, rev : Nat]]
  BY <1>1 DEF WriteDerived, TypeOK
<1> QED
  BY <1>3, <1>4, BecomesKeepsOp DEF WriteDerived, TypeOK

\* A put of a stamped content from outside keeps the store well-formed.
LEMMA PutKeepsStore ==
  ASSUME TypeOK, NEW r \in Recs, NEW value \in Value,
         store' = [store EXCEPT ![r] = Put(store[r], value)]
  PROVE  store' \in [Recs -> Versioned]
  BY PutIsVersioned DEF TypeOK

LEMMA EditRecordTypes ==
  ASSUME TypeOK, NEW r \in Recs, NEW content \in Contents \cup {NoContent},
         EditRecord(r, content)
  PROVE  TypeOK'
<1>1. [content |-> content, stamp |-> 0] \in Value
  BY DEF Value
<1>2. store' = [store EXCEPT ![r] = Put(store[r], [content |-> content, stamp |-> 0])]
  BY DEF EditRecord
<1>3. store' \in [Recs -> Versioned]
  BY <1>1, <1>2, PutKeepsStore
<1>4. writes' \in 0..MaxWrites
  BY Bounds DEF EditRecord, TypeOK
<1> QED
  BY <1>3, <1>4, DropTypes DEF EditRecord, TypeOK

LEMMA PersistJobTypes ==
  ASSUME TypeOK, NEW j \in Recs, NEW content \in Contents, PersistJob(j, content)
  PROVE  TypeOK'
<1> DEFINE value == [content |-> content, stamp |-> store[j].rev + 1]
<1>1. value \in Value
  BY DEF Value, TypeOK, Versioned
<1>2. store' = [store EXCEPT ![j] = Put(store[j], value)]
  BY DEF PersistJob
<1>3. store' \in [Recs -> Versioned]
  BY <1>1, <1>2, PutKeepsStore
<1>4. writes' \in 0..MaxWrites
  BY Bounds DEF PersistJob, TypeOK
<1> QED
  BY <1>3, <1>4 DEF PersistJob, TypeOK

LEMMA ResolveRejectionsTypes ==
  ASSUME TypeOK, NEW id \in Ids, NEW j \in Recs, ResolveRejections(id, j)
  PROVE  TypeOK'
<1> DEFINE new == [store[j].val EXCEPT !.stamp = store[j].rev + 1]
           own == j \in Touches[id[1]] /\ audits[id].after[j] = store[j].val
<1>1. store[j] \in Versioned /\ audits[id] \in Audit
  BY DEF TypeOK
<1>2. new \in Value
  BY <1>1 DEF Versioned, Value
<1>3. store' \in [Recs -> Versioned]
  BY <1>2, PutKeepsStore DEF ResolveRejections
<1> DEFINE after == [audits[id].after EXCEPT ![j] = IF own THEN new ELSE @]
           audit == [status |-> audits[id].status, before |-> audits[id].before,
                     after |-> after, digest |-> audits[id].digest,
                     rev |-> audits[id].rev + 1]
<1>4. after \in [Recs -> Value]
  BY <1>1, <1>2 DEF Audit
<1>5. audit \in Audit
  BY <1>1, <1>4 DEF Audit
<1>6. audits' \in [Ids -> Audit]
  <2>1. audits' = [audits EXCEPT ![id] = audit]
    BY <1>1 DEF ResolveRejections, TypeOK, Audit
  <2> QED
    BY <1>5, <2>1 DEF TypeOK
<1>7. writes' \in 0..MaxWrites
  BY Bounds DEF ResolveRejections, TypeOK
<1> QED
  BY <1>3, <1>6, <1>7 DEF ResolveRejections, TypeOK

-----------------------------------------------------------------------------
LEMMA TypeStep == TypeOK /\ [Next]_vars => TypeOK'
<1> SUFFICES ASSUME TypeOK, [Next]_vars PROVE TypeOK'
  OBVIOUS
<1>1. ASSUME NEW c \in Clients, Advance(c) PROVE TypeOK'
  BY <1>1, WalkChainTypes, ReadRecordTypes, PreflightTypes, RereadTypes, ApplyCaptureTypes,
     ScanDerivedTypes, WriteDerivedTypes, ReadAuditTypes, ApplyRollbackTypes
  DEF Advance
<1>2. ASSUME NEW c \in Clients, Begin(c) PROVE TypeOK'
  BY <1>2, StartCaptureTypes, BeginRollbackTypes, StartDeriveTypes DEF Begin
<1>3. ASSUME NEW c \in Clients, Crash(c) PROVE TypeOK'
  BY <1>3, FailsKeepsOp DEF Crash, TypeOK
<1>4. ASSUME Outside PROVE TypeOK'
  BY <1>4, RecordKinds, EditRecordTypes, PersistJobTypes, ResolveRejectionsTypes DEF Outside
<1>5. ASSUME UNCHANGED vars PROVE TypeOK'
  BY <1>5 DEF vars, TypeOK
<1> QED
  BY <1>1, <1>2, <1>3, <1>4, <1>5 DEF Next

\* Every reachable state of the repository and of the calls in flight has the
\* declared shape.
THEOREM TypeCorrect == Spec => []TypeOK
  BY TypeInit, TypeStep, PTL DEF Spec

-----------------------------------------------------------------------------
(* The retry chain.  A link goes from none to live to rolledBack and keeps    *)
(* its digest; a call that walks the chain has seen every earlier link rolled *)
(* back; a rollback in flight has seen its own link live.                     *)

\* There is one window, or every extraction of a batch says the same.
Alone == \A c, d \in Clients : c = d
OneReading ==
    \A b \in Batches : \A p, q \in Payloads[b] : Digest(b, p) = Digest(b, q)

Walking == {"walk", "read"}
RollingBack == {"preflight", "reread", "scan", "rollback"}

ChainWalked ==
    \A c \in Clients : op[c].pc \in Walking =>
        \A n \in 0..MaxRetry :
            n < Attempt(c) => audits[<<Batch(c), n>>].status = "rolledBack"

RollsBackCommitted ==
    \A c \in Clients : op[c].pc \in RollingBack => audits[op[c].id].status # "none"

\* A key is used by the transaction that makes the link.
KeysOfLinks ==
    \A id \in Ids : CommitKey(id) \in applied => audits[id].status # "none"

\* A single window finds the link it chose still unused.
ReadsFresh ==
    Alone => \A c \in Clients : op[c].pc = "read" => audits[op[c].id].status = "none"

\* What is committed, and what the links hold, are extractions of the batch.
Offered ==
    \A c \in Clients : op[c].pc \in Walking => op[c].payload \in Payloads[Batch(c)]
Extracted ==
    \A id \in Ids : audits[id].status # "none" =>
        \E p \in Payloads[id[1]] : audits[id].digest = Digest(id[1], p)

ChainInv ==
    /\ TypeOK
    /\ OneLiveLink
    /\ ChainWalked
    /\ RollsBackCommitted
    /\ KeysOfLinks
    /\ ReadsFresh
    /\ Offered
    /\ Extracted
    /\ Alone \/ OneReading => AckedIsStored

\* What a step may do to one link.
LinkStep(id) ==
    \/ audits'[id].status = audits[id].status /\ audits'[id].digest = audits[id].digest
    \/ /\ audits[id].status # "none" /\ audits'[id].status = "rolledBack"
       /\ audits'[id].digest = audits[id].digest
    \/ /\ audits[id].status = "none" /\ audits'[id].status = "live"
       /\ \E c \in Clients :
            /\ op[c].pc = "read" /\ op[c].id = id /\ op'[c].pc = "acked"
            /\ audits'[id].digest = Request(c)

\* What a call is acknowledged for: a link that holds its request, or the result of
\* another transaction under its key.
AckedFor(c) ==
    \/ audits'[op[c].id].status # "none" /\ Repeats(Request(c), audits'[op[c].id].digest)
    \/ op[c].pc = "read" /\ CommitKey(op[c].id) \in applied /\ audits' = audits

\* What a step may do to one call.
CallStep(c) ==
    \/ op'[c] = op[c]
    \/ op'[c].pc \in {"idle", "derive"}
    \/ /\ op'[c].pc = "walk" /\ op'[c].id[2] = 0
       /\ op'[c].payload \in Payloads[op'[c].id[1]]
    \/ /\ op[c].pc \in Walking /\ op'[c].pc = "walk" /\ op'[c].id[2] = 0
       /\ op'[c].payload = op[c].payload /\ op'[c].id[1] = Batch(c)
    \/ /\ op[c].pc = "walk" /\ op'[c].pc = "walk"
       /\ audits[op[c].id].status = "rolledBack" /\ audits' = audits
       /\ op'[c].payload = op[c].payload
       /\ op'[c].id = <<Batch(c), Attempt(c) + 1>>
    \/ /\ op[c].pc \in Walking /\ op'[c].pc = "read" /\ op'[c].id = op[c].id
       /\ op'[c].payload = op[c].payload /\ audits' = audits
       /\ op[c].pc = "walk" => audits[op[c].id].status = "none"
    \/ op[c].pc \in RollingBack /\ op'[c].pc \in RollingBack /\ op'[c].id = op[c].id
    \/ /\ op'[c].pc = "preflight" /\ audits' = audits
       /\ audits[op'[c].id].status = "live"
    \/ /\ op[c].pc \in Walking /\ op'[c].pc = "acked"
       /\ op'[c].id = op[c].id /\ op'[c].payload = op[c].payload
       /\ AckedFor(c)

LEMMA OtherCalls ==
  ASSUME TypeOK, NEW c \in Clients, NEW o, Becomes(c, o)
  PROVE  op'[c] = o /\ \A d \in Clients \ {c} : op'[d] = op[d]
  BY DEF TypeOK, Becomes

LEMMA FailsIsCallStep ==
  ASSUME TypeOK, NEW c \in Clients, Fails(c)
  PROVE  \A d \in Clients : CallStep(d)
  BY OtherCalls, IdleIsOp DEF Fails, CallStep

LEMMA ConflictsIsCallStep ==
  ASSUME TypeOK, NEW c \in Clients, op[c].pc \in Walking, Conflicts(c)
  PROVE  \A d \in Clients : CallStep(d)
<1> DEFINE o == [Idle EXCEPT !.pc = "walk", !.id = <<Batch(c), 0>>,
                             !.payload = op[c].payload, !.retried = TRUE]
<1>1. o.pc = "walk" /\ o.id[2] = 0 /\ o.payload = op[c].payload /\ o.id[1] = Batch(c)
  BY DEF Idle
<1>2. CASE Fails(c)
  BY <1>2, FailsIsCallStep
<1>3. CASE Becomes(c, o)
  <2> HIDE DEF o
  <2>1. op'[c] = o /\ \A d \in Clients \ {c} : op'[d] = op[d]
    BY <1>3, OtherCalls
  <2> QED
    BY <1>1, <2>1 DEF CallStep
<1> QED
  BY <1>2, <1>3 DEF Conflicts

LEMMA AcknowledgesIsCallStep ==
  ASSUME TypeOK, NEW c \in Clients, Acknowledges(c), op[c].pc \in Walking, AckedFor(c)
  PROVE  (\A d \in Clients : CallStep(d)) /\ op'[c].pc = "acked"
<1> DEFINE o == [Idle EXCEPT !.pc = "acked", !.id = op[c].id, !.payload = op[c].payload]
<1>1. o.pc = "acked" /\ o.id = op[c].id /\ o.payload = op[c].payload
  BY DEF Idle
<1>2. Becomes(c, o)
  BY DEF Acknowledges
<1> HIDE DEF o
<1>3. op'[c] = o /\ \A d \in Clients \ {c} : op'[d] = op[d]
  BY <1>2, OtherCalls
<1> QED
  BY <1>1, <1>3 DEF CallStep

LEMMA WalkChainIsCallStep ==
  ASSUME TypeOK, NEW c \in Clients, WalkChain(c)
  PROVE  \A d \in Clients : CallStep(d)
<1> DEFINE reading == [op[c] EXCEPT !.pc = "read"]
           next == [op[c] EXCEPT !.id = <<Batch(c), Attempt(c) + 1>>]
<1>1. op[c] \in Op /\ op[c].pc = "walk" /\ op[c].pc \in Walking /\ audits' = audits
  BY DEF TypeOK, WalkChain, Walking
<1>2. CASE audits[op[c].id].status = "none" /\ Becomes(c, reading)
  <2>1. reading.pc = "read" /\ reading.id = op[c].id /\ reading.payload = op[c].payload
    BY <1>1 DEF Op
  <2> HIDE DEF reading
  <2>2. op'[c] = reading /\ \A d \in Clients \ {c} : op'[d] = op[d]
    BY <1>2, OtherCalls
  <2> QED
    BY <1>1, <1>2, <2>1, <2>2 DEF CallStep
<1>3. CASE audits[op[c].id].status = "rolledBack" /\ Becomes(c, next)
  <2>1. /\ next.pc = "walk" /\ next.id = <<Batch(c), Attempt(c) + 1>>
        /\ next.payload = op[c].payload
    BY <1>1 DEF Op
  <2> HIDE DEF next
  <2>2. op'[c] = next /\ \A d \in Clients \ {c} : op'[d] = op[d]
    BY <1>3, OtherCalls
  <2> QED
    BY <1>1, <1>3, <2>1, <2>2 DEF CallStep
<1>4. CASE /\ audits[op[c].id].status = "live" /\ Acknowledges(c)
           /\ Repeats(Request(c), audits[op[c].id].digest)
  <2>1. AckedFor(c)
    BY <1>1, <1>4 DEF AckedFor
  <2> QED
    BY <1>1, <1>4, <2>1, AcknowledgesIsCallStep
<1>5. CASE Conflicts(c)
  BY <1>1, <1>5, ConflictsIsCallStep
<1> QED
  BY <1>2, <1>3, <1>4, <1>5 DEF WalkChain

LEMMA WriteCommitLink ==
  ASSUME TypeOK, NEW c \in Clients, op[c].pc = "read", CommitApplies(c), WriteCommit(c)
  PROVE  /\ audits[op[c].id].status = "none"
         /\ audits'[op[c].id].status = "live"
         /\ audits'[op[c].id].digest = Request(c)
         /\ \A id \in Ids \ {op[c].id} : audits'[id] = audits[id]
  BY DEF TypeOK, WriteCommit, CommitApplies

LEMMA ApplyCaptureSteps ==
  ASSUME TypeOK, NEW c \in Clients, ApplyCapture(c)
  PROVE  (\A d \in Clients : CallStep(d)) /\ (\A id \in Ids : LinkStep(id))
<1>1. op[c].pc = "read" /\ op[c].pc \in Walking
  BY DEF ApplyCapture, Walking
<1>2. CASE CommitApplies(c) /\ WriteCommit(c) /\ Acknowledges(c)
  <2>1. AckedFor(c)
    BY <1>1, <1>2, WriteCommitLink DEF AckedFor, Repeats
  <2>2. (\A d \in Clients : CallStep(d)) /\ op'[c].pc = "acked"
    BY <1>1, <1>2, <2>1, AcknowledgesIsCallStep
  <2>3. LinkStep(op[c].id)
    BY <1>1, <1>2, <2>2, WriteCommitLink DEF LinkStep
  <2>4. \A id \in Ids \ {op[c].id} : LinkStep(id)
    BY <1>1, <1>2, WriteCommitLink DEF LinkStep
  <2> QED
    BY <2>2, <2>3, <2>4
<1>3. CASE Conflicts(c) /\ UNCHANGED audits
  BY <1>1, <1>3, ConflictsIsCallStep DEF LinkStep
<1>4. CASE CommitKey(op[c].id) \in applied /\ Acknowledges(c) /\ UNCHANGED audits
  <2>1. AckedFor(c)
    BY <1>1, <1>4 DEF AckedFor
  <2> QED
    BY <1>1, <1>4, <2>1, AcknowledgesIsCallStep DEF LinkStep
<1> QED
  BY <1>2, <1>3, <1>4 DEF ApplyCapture

\* The other steps of a call that start, advance or end it, and leave the audits.
LEMMA QuietCallSteps ==
  ASSUME TypeOK, NEW c \in Clients,
         \/ \E b \in Batches : \E payload \in Payloads[b] : StartCapture(c, b, payload)
         \/ \E id \in Ids : BeginRollback(c, id)
         \/ \E id \in Ids, rows \in SUBSET Derived : StartDerive(c, id, rows)
         \/ \E r \in Recs : ReadRecord(c, r) \/ Preflight(c, r) \/ Reread(c, r)
         \/ \E d \in Derived : ScanDerived(c, d) \/ WriteDerived(c, d)
         \/ ReadAudit(c) \/ Crash(c)
  PROVE  (\A d \in Clients : CallStep(d)) /\ audits' = audits
<1>1. op[c] \in Op
  BY DEF TypeOK
<1>2. ASSUME NEW b \in Batches, NEW payload \in Payloads[b], StartCapture(c, b, payload)
      PROVE  /\ op'[c].pc = "walk" /\ op'[c].id[2] = 0
             /\ op'[c].payload \in Payloads[op'[c].id[1]]
  BY <1>2 DEF StartCapture, Becomes, Idle, TypeOK
<1>3. ASSUME NEW id \in Ids, BeginRollback(c, id)
      PROVE  op'[c].pc = "preflight" /\ audits[op'[c].id].status = "live"
  BY <1>3 DEF BeginRollback, Becomes, Idle, TypeOK
<1>4. ASSUME NEW id \in Ids, NEW rows \in SUBSET Derived, StartDerive(c, id, rows)
      PROVE  op'[c].pc = "derive"
  BY <1>4 DEF StartDerive, Becomes, Idle, TypeOK
<1>5. ASSUME NEW r \in Recs, ReadRecord(c, r)
      PROVE  /\ op[c].pc = "read" /\ op'[c].pc = "read" /\ op'[c].id = op[c].id
             /\ op'[c].payload = op[c].payload
  BY <1>1, <1>5 DEF ReadRecord, Becomes, TypeOK, Op
<1>6. ASSUME NEW r \in Recs, Preflight(c, r) \/ Reread(c, r)
      PROVE  \/ op'[c].pc = "idle"
             \/ op[c].pc \in RollingBack /\ op'[c].pc \in RollingBack /\ op'[c].id = op[c].id
  <2>1. CASE Fails(c)
    BY <2>1, IdleIsOp DEF Fails, Becomes, TypeOK
  <2>2. CASE Preflight(c, r) /\ ~Fails(c)
    <3> DEFINE passed == [op[c] EXCEPT !.pc = "reread", !.got = {}]
               more == [op[c] EXCEPT !.got = op[c].got \cup {r}]
    <3>1. /\ passed.pc = "reread" /\ passed.id = op[c].id
          /\ more.pc = op[c].pc /\ more.id = op[c].id
      BY <1>1 DEF Op
    <3>2. Becomes(c, passed) \/ Becomes(c, more)
      BY <2>2 DEF Preflight
    <3> HIDE DEF passed, more
    <3>3. op'[c] = passed \/ op'[c] = more
      BY <3>2, OtherCalls
    <3> QED
      BY <2>2, <3>1, <3>3 DEF Preflight, RollingBack
  <2>3. CASE Reread(c, r) /\ ~Fails(c)
    <3> DEFINE got == op[c].got \cup {r}
               o == [op[c] EXCEPT !.got = got, !.read[r] = store[r],
                                  !.pc = IF got = Span(c) THEN "scan" ELSE @]
    <3>1. o.pc \in {op[c].pc, "scan"} /\ o.id = op[c].id
      BY <1>1 DEF Op
    <3>2. Becomes(c, o)
      BY <2>3 DEF Reread
    <3> HIDE DEF o
    <3>3. op'[c] = o
      BY <3>2, OtherCalls
    <3> QED
      BY <2>3, <3>1, <3>3 DEF Reread, RollingBack
  <2> QED
    BY <1>6, <2>1, <2>2, <2>3
<1>7. ASSUME NEW d \in Derived, ScanDerived(c, d)
      PROVE  op[c].pc \in RollingBack /\ op'[c].pc \in RollingBack /\ op'[c].id = op[c].id
  BY <1>1, <1>7 DEF ScanDerived, Becomes, TypeOK, Op, RollingBack
<1>8. ASSUME ReadAudit(c)
      PROVE  op[c].pc \in RollingBack /\ op'[c].pc \in RollingBack /\ op'[c].id = op[c].id
  BY <1>1, <1>8 DEF ReadAudit, Becomes, TypeOK, Op, RollingBack
<1>9. ASSUME NEW d \in Derived, WriteDerived(c, d)
      PROVE  op'[c].pc \in {"idle", "derive"}
  <2>1. CASE op'[c] = Idle
    BY <2>1, IdleIsOp
  <2>2. CASE op'[c] # Idle
    BY <1>1, <1>9, <2>2 DEF WriteDerived, Becomes, TypeOK, Op
  <2> QED
    BY <2>1, <2>2
<1>10. Crash(c) => op'[c].pc = "idle"
  BY IdleIsOp DEF Crash, Fails, Becomes, TypeOK
<1>11. audits' = audits
  BY DEF StartCapture, BeginRollback, StartDerive, ReadRecord, Preflight, Reread,
         ScanDerived, WriteDerived, ReadAudit, Crash
<1>12. \A d \in Clients \ {c} : op'[d] = op[d]
  BY DEF StartCapture, BeginRollback, StartDerive, ReadRecord, Preflight, Reread,
         ScanDerived, WriteDerived, ReadAudit, Crash, Fails, Becomes, TypeOK
<1>13. CallStep(c)
  BY <1>2, <1>3, <1>4, <1>5, <1>6, <1>7, <1>8, <1>9, <1>10, <1>11 DEF CallStep, Walking
<1> QED
  BY <1>11, <1>12, <1>13 DEF CallStep

LEMMA ApplyRollbackSteps ==
  ASSUME TypeOK, RollsBackCommitted, NEW c \in Clients, ApplyRollback(c)
  PROVE  (\A d \in Clients : CallStep(d)) /\ (\A id \in Ids : LinkStep(id))
<1>1. op[c].pc \in RollingBack /\ op[c].id \in Ids /\ audits[op[c].id].status # "none"
  BY DEF ApplyRollback, RollsBackCommitted, RollingBack, TypeOK
<1>2. CASE WriteRollback(c)
  <2>1. \A id \in Ids : LinkStep(id)
    BY <1>1, <1>2 DEF WriteRollback, LinkStep, TypeOK
  <2> QED
    BY <2>1, FailsIsCallStep DEF ApplyRollback
<1>3. CASE UNCHANGED audits
  BY <1>3, FailsIsCallStep DEF ApplyRollback, LinkStep
<1> QED
  BY <1>2, <1>3 DEF ApplyRollback

LEMMA OutsideSteps ==
  ASSUME TypeOK, Outside
  PROVE  (\A d \in Clients : CallStep(d)) /\ (\A id \in Ids : LinkStep(id))
<1>1. op' = op
  BY DEF Outside, EditRecord, PersistJob, ResolveRejections
<1>2. ASSUME NEW i \in Ids, NEW j \in JobRecs, ResolveRejections(i, j)
      PROVE  \A id \in Ids : LinkStep(id)
  BY <1>2 DEF ResolveRejections, LinkStep, TypeOK, Audit
<1>3. CASE UNCHANGED audits
  BY <1>1, <1>3 DEF LinkStep, CallStep
<1>4. \A id \in Ids : LinkStep(id)
  BY <1>2, <1>3 DEF Outside, EditRecord, PersistJob
<1> QED
  BY <1>1, <1>4 DEF CallStep

\* A commit's key is used by the transaction that makes its link.
LEMMA KeysOfNext ==
  ASSUME TypeOK, [Next]_vars
  PROVE  \A id \in Ids :
            CommitKey(id) \in applied' =>
              CommitKey(id) \in applied \/ audits'[id].status # "none"
<1>1. CASE applied' = applied
  BY <1>1
<1>2. ASSUME NEW c \in Clients, op[c].pc = "read", WriteCommit(c)
      PROVE  \A id \in Ids : CommitKey(id) \in applied' =>
               CommitKey(id) \in applied \/ audits'[id].status # "none"
  <2>1. op[c].id \in Ids /\ audits \in [Ids -> Audit]
    BY <1>2 DEF TypeOK
  <2>2. audits'[op[c].id].status = "live"
    BY <1>2, <2>1 DEF WriteCommit
  <2>3. \A id \in Ids : CommitKey(id) = CommitKey(op[c].id) => id = op[c].id
    BY DEF CommitKey
  <2> QED
    BY <1>2, <2>2, <2>3 DEF WriteCommit
<1>3. ASSUME NEW c \in Clients, WriteRollback(c)
      PROVE  \A id \in Ids : CommitKey(id) \in applied' => CommitKey(id) \in applied
  BY <1>3 DEF WriteRollback, CommitKey, RollbackKey
<1>4. ASSUME NEW c \in Clients, Advance(c) \/ Begin(c) \/ Crash(c)
      PROVE  \/ applied' = applied
             \/ op[c].pc = "read" /\ WriteCommit(c)
             \/ WriteRollback(c)
  BY <1>4 DEF Advance, Begin, Crash, WalkChain, ReadRecord, Preflight, Reread, ApplyCapture,
     ScanDerived, WriteDerived, ReadAudit, ApplyRollback, StartCapture, BeginRollback,
     StartDerive
<1>5. Outside => applied' = applied
  BY DEF Outside, EditRecord, PersistJob, ResolveRejections
<1>6. UNCHANGED vars => applied' = applied
  BY DEF vars
<1> QED
  BY <1>1, <1>2, <1>3, <1>4, <1>5, <1>6 DEF Next

LEMMA StepsOfNext ==
  ASSUME TypeOK, RollsBackCommitted, [Next]_vars
  PROVE  (\A d \in Clients : CallStep(d)) /\ (\A id \in Ids : LinkStep(id))
<1>1. ASSUME NEW c \in Clients, Advance(c) \/ Begin(c) \/ Crash(c)
      PROVE  (\A d \in Clients : CallStep(d)) /\ (\A id \in Ids : LinkStep(id))
  <2>1. CASE WalkChain(c)
    BY <2>1, WalkChainIsCallStep DEF WalkChain, LinkStep
  <2>2. CASE ApplyCapture(c)
    BY <2>2, ApplyCaptureSteps
  <2>3. CASE ApplyRollback(c)
    BY <2>3, ApplyRollbackSteps
  <2>4. CASE ~WalkChain(c) /\ ~ApplyCapture(c) /\ ~ApplyRollback(c)
    <3>1. (\A d \in Clients : CallStep(d)) /\ audits' = audits
      BY <1>1, <2>4, QuietCallSteps DEF Advance, Begin
    <3> QED
      BY <3>1 DEF LinkStep
  <2> QED
    BY <2>1, <2>2, <2>3, <2>4
<1>2. CASE UNCHANGED vars
  BY <1>2 DEF vars, CallStep, LinkStep
<1> QED
  BY <1>1, <1>2, OutsideSteps DEF Next

-----------------------------------------------------------------------------
(* The chain invariant is inductive.                                         *)

LEMMA ChainInit == Init => ChainInv
<1> SUFFICES ASSUME Init PROVE ChainInv
  OBVIOUS
<1>1. \A c \in Clients : op[c].pc = "idle"
  BY IdleIsOp DEF Init
<1>2. \A id \in Ids : audits[id].status = "none"
  BY DEF Init, NoAudit
<1>3. OneLiveLink
  BY <1>2 DEF OneLiveLink, Ids
<1>4. KeysOfLinks
  BY DEF KeysOfLinks, Init
<1>5. Extracted
  BY <1>2 DEF Extracted
<1> QED
  BY <1>1, <1>3, <1>4, <1>5, TypeInit
  DEF ChainInv, ChainWalked, RollsBackCommitted, ReadsFresh, Offered, AckedIsStored,
      Walking, RollingBack

LEMMA ChainStep == ChainInv /\ [Next]_vars => ChainInv'
<1> SUFFICES ASSUME ChainInv, [Next]_vars PROVE ChainInv'
  OBVIOUS
<1>1. TypeOK /\ TypeOK'
  BY TypeStep DEF ChainInv
<1>2. (\A c \in Clients : CallStep(c)) /\ (\A id \in Ids : LinkStep(id))
  BY StepsOfNext DEF ChainInv
<1>3. \A id \in Ids : audits[id].status \in {"none", "live", "rolledBack"}
  BY <1>1 DEF TypeOK, Audit
<1>4. \A c \in Clients : op[c].pc # "idle" =>
         /\ op[c].id \in Ids /\ Batch(c) \in Batches /\ Attempt(c) \in 0..MaxRetry
         /\ op[c].id = <<Batch(c), Attempt(c)>>
  BY <1>1 DEF TypeOK, Ids, Batch, Attempt
<1>5. \A c \in Clients : op'[c].pc # "idle" =>
         /\ op'[c].id \in Ids /\ Batch(c)' \in Batches /\ Attempt(c)' \in 0..MaxRetry
         /\ op'[c].id = <<Batch(c)', Attempt(c)'>>
  BY <1>1 DEF TypeOK, Ids, Batch, Attempt
\* Rolled back is for ever, and so is a digest.
<1>6. \A id \in Ids : audits[id].status = "rolledBack" => audits'[id].status = "rolledBack"
  BY <1>2, <1>3 DEF LinkStep
<1>7. \A id \in Ids : audits[id].status # "none" =>
         audits'[id].status # "none" /\ audits'[id].digest = audits[id].digest
  BY <1>2, <1>3 DEF LinkStep
<1>8. OneLiveLink'
  <2> SUFFICES ASSUME NEW b \in Batches, NEW n \in 0..MaxRetry, NEW m \in 0..MaxRetry, n < m,
                      audits'[<<b, m>>].status # "none"
               PROVE  audits'[<<b, n>>].status = "rolledBack"
    BY DEF OneLiveLink
  <2>1. <<b, n>> \in Ids /\ <<b, m>> \in Ids
    BY DEF Ids
  <2>2. CASE audits[<<b, m>>].status # "none"
    BY <1>6, <2>1, <2>2 DEF ChainInv, OneLiveLink
  <2>3. CASE audits[<<b, m>>].status = "none"
    <3>1. PICK c \in Clients : op[c].pc = "read" /\ op[c].id = <<b, m>>
      BY <1>2, <2>1, <2>3 DEF LinkStep
    <3>2. Batch(c) = b /\ Attempt(c) = m
      BY <3>1 DEF Batch, Attempt
    <3> QED
      BY <1>6, <2>1, <3>1, <3>2 DEF ChainInv, ChainWalked, Walking
  <2> QED
    BY <2>2, <2>3
<1>9. ChainWalked'
  <2> SUFFICES ASSUME NEW c \in Clients, op'[c].pc \in Walking,
                      NEW n \in 0..MaxRetry, n < Attempt(c)'
               PROVE  audits'[<<Batch(c)', n>>].status = "rolledBack"
    BY DEF ChainWalked
  <2>1. op'[c].pc \in {"walk", "read"} /\ Attempt(c)' \in 0..MaxRetry /\ Batch(c)' \in Batches
    BY <1>5 DEF Walking
  <2>2. <<Batch(c)', n>> \in Ids
    BY <2>1 DEF Ids
  <2>3. CASE op'[c].id = op[c].id /\ op[c].pc \in Walking
    <3>1. Batch(c)' = Batch(c) /\ Attempt(c)' = Attempt(c)
      BY <2>3 DEF Batch, Attempt
    <3> QED
      BY <1>6, <2>2, <2>3, <3>1 DEF ChainInv, ChainWalked
  <2>4. CASE op'[c].id[2] = 0
    BY <2>1, <2>4 DEF Attempt
  <2>5. CASE /\ op[c].pc = "walk" /\ audits[op[c].id].status = "rolledBack"
             /\ op'[c].id = <<Batch(c), Attempt(c) + 1>>
    <3>1. Batch(c)' = Batch(c) /\ Attempt(c)' = Attempt(c) + 1
      BY <2>5 DEF Batch, Attempt
    <3>2. op[c].id = <<Batch(c), Attempt(c)>> /\ Attempt(c) \in 0..MaxRetry
      BY <1>4, <2>5
    <3>3. n < Attempt(c) \/ n = Attempt(c)
      BY <3>1, <3>2
    <3>4. audits[<<Batch(c), n>>].status = "rolledBack"
      BY <2>5, <3>2, <3>3 DEF ChainInv, ChainWalked, Walking
    <3> QED
      BY <1>6, <2>2, <3>1, <3>4
  <2> QED
    BY <1>2, <2>1, <2>3, <2>4, <2>5 DEF CallStep, RollingBack
<1>10. RollsBackCommitted'
  <2> SUFFICES ASSUME NEW c \in Clients, op'[c].pc \in RollingBack
               PROVE  audits'[op'[c].id].status # "none"
    BY DEF RollsBackCommitted
  <2>1. op'[c].id \in Ids
    BY <1>5 DEF RollingBack
  <2>2. CASE op[c].pc \in RollingBack /\ op'[c].id = op[c].id
    BY <1>7, <2>1, <2>2 DEF ChainInv, RollsBackCommitted
  <2>3. CASE audits[op'[c].id].status = "live"
    BY <1>7, <2>1, <2>3
  <2> QED
    BY <1>2, <2>2, <2>3 DEF CallStep, RollingBack
<1>11. KeysOfLinks'
  BY <1>1, <1>7, KeysOfNext DEF ChainInv, KeysOfLinks
<1>12. ReadsFresh'
  <2> SUFFICES ASSUME Alone, NEW c \in Clients, op'[c].pc = "read"
               PROVE  audits'[op'[c].id].status = "none"
    BY DEF ReadsFresh, Alone
  <2>1. op[c].pc \in Walking /\ op'[c].id = op[c].id
    BY <1>2 DEF CallStep, Walking, RollingBack
  <2>2. op'[c].id \in Ids
    BY <1>5
  <2>3. audits[op[c].id].status = "none"
    BY <1>2, <2>1 DEF CallStep, Walking, RollingBack, ChainInv, ReadsFresh
  <2>4. \A d \in Clients : op'[d].pc # "acked"
    BY DEF Alone
  <2> QED
    BY <1>2, <2>1, <2>2, <2>3, <2>4 DEF LinkStep
<1>13. Offered'
  <2> SUFFICES ASSUME NEW c \in Clients, op'[c].pc \in Walking
               PROVE  op'[c].payload \in Payloads[Batch(c)']
    BY DEF Offered
  <2>1. CASE op'[c].payload \in Payloads[op'[c].id[1]]
    BY <2>1 DEF Batch
  <2>2. CASE op[c].pc \in Walking /\ op'[c].payload = op[c].payload /\ op'[c].id[1] = op[c].id[1]
    BY <2>2 DEF Batch, ChainInv, Offered
  <2> QED
    BY <1>2, <2>1, <2>2 DEF CallStep, Walking, RollingBack, Batch
<1>14. Extracted'
  <2> SUFFICES ASSUME NEW id \in Ids, audits'[id].status # "none"
               PROVE  \E p \in Payloads[id[1]] : audits'[id].digest = Digest(id[1], p)
    BY DEF Extracted
  <2>1. CASE audits[id].status # "none"
    BY <1>7, <2>1 DEF ChainInv, Extracted
  <2>2. CASE audits[id].status = "none"
    <3>1. PICK c \in Clients : op[c].pc = "read" /\ op[c].id = id /\ audits'[id].digest = Request(c)
      BY <1>2, <2>2 DEF LinkStep
    <3>2. op[c].payload \in Payloads[Batch(c)]
      BY <3>1 DEF ChainInv, Offered, Walking
    <3> QED
      BY <3>1, <3>2 DEF Request, Batch
  <2> QED
    BY <2>1, <2>2
<1>15. Alone \/ OneReading => AckedIsStored'
  <2> SUFFICES ASSUME Alone \/ OneReading, NEW c \in Clients, op'[c].pc = "acked"
               PROVE  \E n \in 0..MaxRetry :
                        /\ audits'[<<Batch(c)', n>>].status # "none"
                        /\ Repeats(Request(c)', audits'[<<Batch(c)', n>>].digest)
    BY DEF AckedIsStored, Alone, OneReading
  <2>1. CASE op'[c] = op[c]
    <3>1. Batch(c)' = Batch(c) /\ Batch(c) \in Batches /\ Request(c)' = Request(c)
      BY <1>4, <2>1 DEF Batch, Request
    <3>2. PICK n \in 0..MaxRetry :
            /\ audits[<<Batch(c), n>>].status # "none"
            /\ Repeats(Request(c), audits[<<Batch(c), n>>].digest)
      BY <2>1 DEF ChainInv, AckedIsStored
    <3>3. <<Batch(c), n>> \in Ids
      BY <3>1 DEF Ids
    <3> QED
      BY <1>7, <3>1, <3>2, <3>3
  <2>2. CASE /\ op[c].pc \in Walking /\ op'[c].id = op[c].id
             /\ op'[c].payload = op[c].payload /\ AckedFor(c)
    <3>1. /\ op[c].id = <<Batch(c), Attempt(c)>> /\ op[c].id \in Ids
          /\ Batch(c) \in Batches /\ Attempt(c) \in 0..MaxRetry
      BY <1>4, <2>2 DEF Walking
    <3>2. Batch(c)' = Batch(c) /\ Request(c)' = Request(c)
      BY <2>2 DEF Batch, Request
    <3>3. CASE audits'[op[c].id].status # "none" /\ Repeats(Request(c), audits'[op[c].id].digest)
      BY <3>1, <3>2, <3>3
    <3>4. CASE op[c].pc = "read" /\ CommitKey(op[c].id) \in applied /\ audits' = audits
      <4>1. audits[op[c].id].status # "none"
        BY <3>1, <3>4 DEF ChainInv, KeysOfLinks
      <4>2. OneReading
        BY <3>4, <4>1 DEF ChainInv, ReadsFresh
      <4>3. PICK p \in Payloads[Batch(c)] : audits[op[c].id].digest = Digest(Batch(c), p)
        BY <3>1, <4>1 DEF ChainInv, Extracted, Batch
      <4>4. op[c].payload \in Payloads[Batch(c)]
        BY <2>2 DEF ChainInv, Offered
      <4>5. audits'[op[c].id].digest = Request(c)'
        BY <3>1, <3>2, <3>4, <4>2, <4>3, <4>4 DEF OneReading, Request
      <4> QED
        BY <3>1, <3>2, <3>4, <4>1, <4>5 DEF Repeats
    <3> QED
      BY <2>2, <3>3, <3>4 DEF AckedFor
  <2> QED
    BY <1>2, <2>1, <2>2 DEF CallStep, Walking, RollingBack
<1> QED
  BY <1>1, <1>8, <1>9, <1>10, <1>11, <1>12, <1>13, <1>14, <1>15 DEF ChainInv

\* The chain invariant holds in every reachable state.
LEMMA ChainCorrect == Spec => []ChainInv
  BY ChainInit, ChainStep, PTL DEF Spec

\* Exactly-once: of the links of a batch at most one is live, however many clients
\* capture, retry and roll back the batch at once.
THEOREM AtMostOneLiveLink == Spec => []OneLiveLink
<1>1. ChainInv => OneLiveLink
  BY DEF ChainInv
<1> QED
  BY <1>1, ChainCorrect, PTL

\* A caller is told that its capture is stored only if a link of its batch holds it:
\* when there is one window, whatever the other writers do, and when there are many
\* as long as every extraction of a batch says the same.  (The run RacingCaptures
\* shows what happens when two windows extract a batch differently.)
THEOREM AcknowledgedIsStored ==
  ASSUME Alone \/ OneReading
  PROVE  Spec => []AckedIsStored
<1>1. ChainInv => AckedIsStored
  BY DEF ChainInv
<1> QED
  BY <1>1, ChainCorrect, PTL

-----------------------------------------------------------------------------
(* Orphans.  With a single client no change set is rolled back while rows are *)
(* written for it: the rollback in flight has marked every row it has scanned *)
(* and found stamped with its change set, and nothing is stamped meanwhile.   *)

\* Rows are written for a live change set only.
Derives(c) == op[c].pc = "derive" => audits[op[c].id].status = "live"

\* A rollback deletes what it has scanned and found stamped with its change set,
\* and applies when it has scanned every row.
Scanned(c) ==
    /\ op[c].pc \in RollingBack =>
         \A d \in op[c].scanned : derived[d].src = op[c].id => d \in op[c].rows
    /\ op[c].pc = "rollback" => op[c].scanned = Derived

OrphanInv ==
    /\ TypeOK
    /\ NoOrphans
    /\ \A c \in Clients : Derives(c) /\ Scanned(c)

LEMMA OrphanInit == Init => OrphanInv
<1> SUFFICES ASSUME Init PROVE OrphanInv
  OBVIOUS
<1>1. NoOrphans
  BY DEF Init, NoOrphans
<1>2. \A c \in Clients : op[c].pc = "idle"
  BY IdleIsOp DEF Init
<1> QED
  BY <1>1, <1>2, TypeInit DEF OrphanInv, Derives, Scanned, RollingBack

\* A step that writes no derived row and ends no change set keeps NoOrphans.
LEMMA NoOrphansKept ==
  ASSUME NoOrphans, TypeOK, derived' = derived,
         \A id \in Ids : audits[id].status = "live" => audits'[id].status = "live"
  PROVE  NoOrphans'
  BY DEF NoOrphans, TypeOK

\* The only call in flight moves to o.
LEMMA OnlyCall ==
  ASSUME Alone, TypeOK, NEW c \in Clients, NEW o, Becomes(c, o)
  PROVE  \A d \in Clients : d = c /\ op'[d] = o
  BY DEF Alone, TypeOK, Becomes

LEMMA FailsKeepsOrphans ==
  ASSUME Alone, TypeOK, NEW c \in Clients, Fails(c)
  PROVE  \A d \in Clients : (Derives(d) /\ Scanned(d))'
<1>1. \A d \in Clients : op'[d] = Idle
  BY OnlyCall DEF Fails
<1> QED
  BY <1>1, IdleIsOp DEF Derives, Scanned, RollingBack

\* A call that neither derives nor rolls back next.
LEMMA CommittingKeepsOrphans ==
  ASSUME Alone, TypeOK, NEW c \in Clients, NEW o, Becomes(c, o),
         o.pc \in {"idle", "acked"} \cup Walking
  PROVE  \A d \in Clients : (Derives(d) /\ Scanned(d))'
<1>1. \A d \in Clients : op'[d] = o
  BY OnlyCall
<1> QED
  BY <1>1 DEF Derives, Scanned, RollingBack, Walking

LEMMA ConflictsKeepsOrphans ==
  ASSUME Alone, TypeOK, NEW c \in Clients, Conflicts(c)
  PROVE  \A d \in Clients : (Derives(d) /\ Scanned(d))'
<1> DEFINE o == [Idle EXCEPT !.pc = "walk", !.id = <<Batch(c), 0>>,
                             !.payload = op[c].payload, !.retried = TRUE]
<1>1. o.pc \in Walking
  BY DEF Idle, Walking
<1>2. Fails(c) \/ Becomes(c, o)
  BY DEF Conflicts
<1> HIDE DEF o
<1> QED
  BY <1>1, <1>2, FailsKeepsOrphans, CommittingKeepsOrphans

LEMMA AcknowledgesKeepsOrphans ==
  ASSUME Alone, TypeOK, NEW c \in Clients, Acknowledges(c)
  PROVE  \A d \in Clients : (Derives(d) /\ Scanned(d))'
<1> DEFINE o == [Idle EXCEPT !.pc = "acked", !.id = op[c].id, !.payload = op[c].payload]
<1>1. o.pc = "acked"
  BY DEF Idle
<1>2. Becomes(c, o)
  BY DEF Acknowledges
<1> HIDE DEF o
<1> QED
  BY <1>1, <1>2, CommittingKeepsOrphans

LEMMA CapturingKeepsOrphans ==
  ASSUME Alone, OrphanInv, NEW c \in Clients,
         \/ \E b \in Batches : \E payload \in Payloads[b] : StartCapture(c, b, payload)
         \/ WalkChain(c)
         \/ \E r \in Recs : ReadRecord(c, r)
         \/ ApplyCapture(c)
  PROVE  NoOrphans' /\ \A d \in Clients : (Derives(d) /\ Scanned(d))'
<1>1. TypeOK /\ NoOrphans /\ op[c] \in Op
  BY DEF OrphanInv, TypeOK
<1>2. ASSUME NEW b \in Batches, NEW payload \in Payloads[b], StartCapture(c, b, payload)
      PROVE  \A d \in Clients : (Derives(d) /\ Scanned(d))'
  <2> DEFINE o == [Idle EXCEPT !.pc = "walk", !.id = <<b, 0>>, !.payload = payload]
  <2>1. o.pc \in Walking
    BY DEF Idle, Walking
  <2>2. Becomes(c, o)
    BY <1>2 DEF StartCapture
  <2> HIDE DEF o
  <2> QED
    BY <1>1, <2>1, <2>2, CommittingKeepsOrphans
<1>3. ASSUME WalkChain(c)
      PROVE  \A d \in Clients : (Derives(d) /\ Scanned(d))'
  <2> DEFINE reading == [op[c] EXCEPT !.pc = "read"]
             next == [op[c] EXCEPT !.id = <<Batch(c), Attempt(c) + 1>>]
  <2>1. reading.pc \in Walking /\ next.pc \in Walking
    BY <1>1, <1>3 DEF Op, WalkChain, Walking
  <2>2. Becomes(c, reading) \/ Becomes(c, next) \/ Acknowledges(c) \/ Conflicts(c)
    BY <1>3 DEF WalkChain
  <2> HIDE DEF reading, next
  <2> QED
    BY <1>1, <2>1, <2>2, CommittingKeepsOrphans, AcknowledgesKeepsOrphans, ConflictsKeepsOrphans
<1>4. ASSUME NEW r \in Recs, ReadRecord(c, r)
      PROVE  \A d \in Clients : (Derives(d) /\ Scanned(d))'
  <2> DEFINE o == [op[c] EXCEPT !.got = @ \cup {r}, !.read[r] = store[r]]
  <2>1. o.pc \in Walking
    BY <1>1, <1>4 DEF Op, ReadRecord, Walking
  <2>2. Becomes(c, o)
    BY <1>4 DEF ReadRecord
  <2> HIDE DEF o
  <2> QED
    BY <1>1, <2>1, <2>2, CommittingKeepsOrphans
<1>5. ASSUME ApplyCapture(c)
      PROVE  \A d \in Clients : (Derives(d) /\ Scanned(d))'
  <2>1. Acknowledges(c) \/ Conflicts(c)
    BY <1>5 DEF ApplyCapture
  <2> QED
    BY <1>1, <2>1, AcknowledgesKeepsOrphans, ConflictsKeepsOrphans
<1>6. derived' = derived
  BY DEF StartCapture, WalkChain, ReadRecord, ApplyCapture
<1>7. \A id \in Ids : audits[id].status = "live" => audits'[id].status = "live"
  <2>1. CASE ApplyCapture(c)
    BY <1>1, <2>1 DEF ApplyCapture, WriteCommit, TypeOK
  <2>2. CASE ~ApplyCapture(c)
    BY <2>2 DEF StartCapture, WalkChain, ReadRecord
  <2> QED
    BY <2>1, <2>2
<1> QED
  BY <1>1, <1>2, <1>3, <1>4, <1>5, <1>6, <1>7, NoOrphansKept

\* The reads of a rollback: the scan marks the rows of the change set.
LEMMA RollingBackKeepsOrphans ==
  ASSUME Alone, OrphanInv, NEW c \in Clients,
         \/ \E id \in Ids : BeginRollback(c, id)
         \/ \E r \in Recs : Preflight(c, r) \/ Reread(c, r)
         \/ \E d \in Derived : ScanDerived(c, d)
         \/ ReadAudit(c)
  PROVE  NoOrphans' /\ \A d \in Clients : (Derives(d) /\ Scanned(d))'
<1>1. TypeOK /\ NoOrphans /\ op[c] \in Op /\ Scanned(c)
  BY DEF OrphanInv, TypeOK
<1>2. derived' = derived /\ audits' = audits
  BY DEF BeginRollback, Preflight, Reread, ScanDerived, ReadAudit
\* What the call must have become.
<1> DEFINE Fits(o) == /\ o.pc \in RollingBack
                      /\ \A d \in o.scanned : derived[d].src = o.id => d \in o.rows
                      /\ o.pc = "rollback" => o.scanned = Derived
<1>3. ASSUME NEW o, Becomes(c, o), Fits(o)
      PROVE  \A d \in Clients : (Derives(d) /\ Scanned(d))'
  <2>1. \A d \in Clients : op'[d] = o
    BY <1>1, <1>3, OnlyCall
  <2> QED
    BY <1>2, <1>3, <2>1 DEF Derives, Scanned, RollingBack
<1>4. ASSUME NEW id \in Ids, BeginRollback(c, id)
      PROVE  \A d \in Clients : (Derives(d) /\ Scanned(d))'
  <2> DEFINE o == [Idle EXCEPT !.pc = "preflight", !.id = id,
                               !.before = audits[id].before, !.after = audits[id].after]
  <2>1. Becomes(c, o)
    BY <1>4 DEF BeginRollback
  <2>2. Fits(o)
    BY DEF Idle, RollingBack
  <2> HIDE DEF o, Fits
  <2> QED
    BY <1>3, <2>1, <2>2
<1>5. ASSUME NEW r \in Recs, Preflight(c, r)
      PROVE  \A d \in Clients : (Derives(d) /\ Scanned(d))'
  <2> DEFINE passed == [op[c] EXCEPT !.pc = "reread", !.got = {}]
             more == [op[c] EXCEPT !.got = op[c].got \cup {r}]
  <2>1. Fails(c) \/ Becomes(c, passed) \/ Becomes(c, more)
    BY <1>5 DEF Preflight
  <2>2. Fits(passed) /\ Fits(more)
    BY <1>1, <1>5 DEF Preflight, Op, Scanned, RollingBack
  <2> HIDE DEF passed, more, Fits
  <2> QED
    BY <1>1, <1>3, <2>1, <2>2, FailsKeepsOrphans
<1>6. ASSUME NEW r \in Recs, Reread(c, r)
      PROVE  \A d \in Clients : (Derives(d) /\ Scanned(d))'
  <2> DEFINE got == op[c].got \cup {r}
             o == [op[c] EXCEPT !.got = got, !.read[r] = store[r],
                                !.pc = IF got = Span(c) THEN "scan" ELSE @]
  <2>1. Fails(c) \/ Becomes(c, o)
    BY <1>6 DEF Reread
  <2>2. Fits(o)
    BY <1>1, <1>6 DEF Reread, Op, Scanned, RollingBack
  <2> HIDE DEF o, Fits
  <2> QED
    BY <1>1, <1>3, <2>1, <2>2, FailsKeepsOrphans
<1>7. ASSUME NEW d \in Derived, ScanDerived(c, d)
      PROVE  \A e \in Clients : (Derives(e) /\ Scanned(e))'
  <2> DEFINE o == [op[c] EXCEPT !.scanned = @ \cup {d}, !.seen[d] = derived[d].rev,
                                !.rows = IF StaleRow(op[c].id, d) THEN @ \cup {d} ELSE @]
  <2>1. Becomes(c, o)
    BY <1>7 DEF ScanDerived
  <2>2. /\ o.pc = "scan" /\ o.id = op[c].id /\ o.scanned = op[c].scanned \cup {d}
        /\ o.rows = IF StaleRow(op[c].id, d) THEN op[c].rows \cup {d} ELSE op[c].rows
    BY <1>1, <1>7 DEF ScanDerived, Op
  <2>3. op[c].id \in Ids /\ (derived[d].src = op[c].id => StaleRow(op[c].id, d))
    BY <1>1, <1>7, Sentinels DEF ScanDerived, StaleRow, TypeOK, Ids
  <2> HIDE DEF o
  <2>4. Fits(o)
    BY <1>1, <1>7, <2>2, <2>3 DEF ScanDerived, Scanned, RollingBack
  <2> HIDE DEF Fits
  <2> QED
    BY <1>3, <2>1, <2>4
<1>8. ASSUME ReadAudit(c)
      PROVE  \A d \in Clients : (Derives(d) /\ Scanned(d))'
  <2> DEFINE o == [op[c] EXCEPT !.pc = "rollback", !.auditRev = audits[op[c].id].rev]
  <2>1. Becomes(c, o)
    BY <1>8 DEF ReadAudit
  <2>2. Fits(o)
    BY <1>1, <1>8 DEF ReadAudit, Op, Scanned, RollingBack
  <2> HIDE DEF o, Fits
  <2> QED
    BY <1>3, <2>1, <2>2
<1> HIDE DEF Fits
<1> QED
  BY <1>1, <1>2, <1>4, <1>5, <1>6, <1>7, <1>8, NoOrphansKept

\* The rollback is applied to all the rows of its change set or not at all.
LEMMA ApplyRollbackKeepsOrphans ==
  ASSUME Alone, OrphanInv, NEW c \in Clients, ApplyRollback(c)
  PROVE  NoOrphans' /\ \A d \in Clients : (Derives(d) /\ Scanned(d))'
<1>1. TypeOK /\ NoOrphans /\ Scanned(c) /\ op[c].id \in Ids
  BY DEF OrphanInv, TypeOK, ApplyRollback
<1>2. Fails(c)
  BY DEF ApplyRollback
<1>3. CASE WriteRollback(c)
  <2>1. \A d \in Derived : derived[d].src = op[c].id => d \in op[c].rows
    BY <1>1 DEF ApplyRollback, Scanned, RollingBack
  <2>2. \A id \in Ids : id # op[c].id => audits'[id].status = audits[id].status
    BY <1>1, <1>3 DEF WriteRollback, TypeOK
  <2>3. ASSUME NEW d \in Derived, derived'[d].src # NoId
        PROVE  d \notin op[c].rows /\ derived'[d] = derived[d]
    BY <1>3, <2>3 DEF WriteRollback, Drop
  <2>4. NoOrphans'
    BY <1>1, <2>1, <2>2, <2>3 DEF NoOrphans, TypeOK
  <2> QED
    BY <1>1, <1>2, <2>4, FailsKeepsOrphans
<1>4. CASE ~WriteRollback(c)
  BY <1>1, <1>2, <1>4, FailsKeepsOrphans, NoOrphansKept DEF ApplyRollback
<1> QED
  BY <1>3, <1>4

LEMMA DerivingKeepsOrphans ==
  ASSUME Alone, OrphanInv, NEW c \in Clients,
         \/ \E id \in Ids, rows \in SUBSET Derived : StartDerive(c, id, rows)
         \/ \E d \in Derived : WriteDerived(c, d)
  PROVE  NoOrphans' /\ \A d \in Clients : (Derives(d) /\ Scanned(d))'
<1>1. TypeOK /\ NoOrphans /\ op[c] \in Op /\ Derives(c)
  BY DEF OrphanInv, TypeOK
<1>2. audits' = audits
  BY DEF StartDerive, WriteDerived
<1>3. ASSUME NEW id \in Ids, NEW rows \in SUBSET Derived, StartDerive(c, id, rows)
      PROVE  NoOrphans' /\ \A d \in Clients : (Derives(d) /\ Scanned(d))'
  <2> DEFINE o == [Idle EXCEPT !.pc = "derive", !.id = id, !.rows = rows]
  <2>1. Becomes(c, o) /\ derived' = derived /\ audits[id].status = "live"
    BY <1>3 DEF StartDerive
  <2>2. o.pc = "derive" /\ o.id = id
    BY DEF Idle
  <2> HIDE DEF o
  <2>3. \A d \in Clients : op'[d] = o
    BY <1>1, <2>1, OnlyCall
  <2>4. \A d \in Clients : (Derives(d) /\ Scanned(d))'
    BY <1>2, <2>1, <2>2, <2>3 DEF Derives, Scanned, RollingBack
  <2> QED
    BY <1>1, <1>2, <2>1, <2>4, NoOrphansKept
<1>4. ASSUME NEW d \in Derived, WriteDerived(c, d)
      PROVE  NoOrphans' /\ \A e \in Clients : (Derives(e) /\ Scanned(e))'
  <2> DEFINE more == [op[c] EXCEPT !.rows = op[c].rows \ {d}]
  <2>1. Becomes(c, Idle) \/ Becomes(c, more)
    BY <1>4 DEF WriteDerived
  <2>2. more.pc = "derive" /\ more.id = op[c].id /\ audits[op[c].id].status = "live"
    BY <1>1, <1>4 DEF WriteDerived, Op, Derives
  <2>3. NoOrphans'
    BY <1>1, <1>2, <1>4, <2>2 DEF NoOrphans, WriteDerived, TypeOK
  <2> HIDE DEF more
  <2>4. ASSUME Becomes(c, more)
        PROVE  \A e \in Clients : (Derives(e) /\ Scanned(e))'
    <3>1. \A e \in Clients : op'[e] = more
      BY <1>1, <2>4, OnlyCall
    <3> QED
      BY <1>2, <2>2, <3>1 DEF Derives, Scanned, RollingBack
  <2> QED
    BY <1>1, <2>1, <2>3, <2>4, FailsKeepsOrphans DEF Fails
<1> QED
  BY <1>3, <1>4

\* The writers from outside only take stamps away, and end no change set.
LEMMA OutsideKeepsOrphans ==
  ASSUME OrphanInv, Outside
  PROVE  NoOrphans' /\ \A d \in Clients : (Derives(d) /\ Scanned(d))'
<1>1. op' = op
  BY DEF Outside, EditRecord, PersistJob, ResolveRejections
<1>2. \A id \in Ids : audits'[id].status = audits[id].status
  <2>1. ASSUME NEW i \in Ids, NEW j \in JobRecs, ResolveRejections(i, j)
        PROVE  \A id \in Ids : audits'[id].status = audits[id].status
    BY <2>1 DEF ResolveRejections, OrphanInv, TypeOK, Audit
  <2> QED
    BY <2>1 DEF Outside, EditRecord, PersistJob
<1>3. \A d \in Derived : derived'[d].src \in {derived[d].src, NoId}
  <2>1. ASSUME NEW rows PROVE \A d \in Derived : Drop(rows)[d].src \in {derived[d].src, NoId}
    BY DEF Drop
  <2>2. derived' = derived \/ \E rows : derived' = Drop(rows)
    BY DEF Outside, EditRecord, PersistJob, ResolveRejections
  <2> QED
    BY <2>1, <2>2
<1>4. NoOrphans'
  BY <1>2, <1>3 DEF OrphanInv, NoOrphans, TypeOK
<1>5. ASSUME NEW c \in Clients
      PROVE  (Derives(c) /\ Scanned(c))'
  <2>1. op[c] \in Op /\ Derives(c) /\ Scanned(c) /\ (op[c].pc # "idle" => op[c].id \in Ids)
    BY DEF OrphanInv, TypeOK
  <2>2. Derives(c)'
    BY <1>1, <1>2, <2>1 DEF Derives
  <2>3. Scanned(c)'
    <3>1. op[c].pc \in RollingBack => op[c].id # NoId
      BY <2>1, Sentinels DEF RollingBack, Ids
    <3> QED
      BY <1>1, <1>3, <2>1, <3>1 DEF Scanned, Op
  <2> QED
    BY <2>2, <2>3
<1> QED
  BY <1>4, <1>5

LEMMA OrphanStep == Alone /\ OrphanInv /\ [Next]_vars => OrphanInv'
<1> SUFFICES ASSUME Alone, OrphanInv, [Next]_vars PROVE OrphanInv'
  OBVIOUS
<1>1. TypeOK /\ TypeOK' /\ NoOrphans
  BY TypeStep DEF OrphanInv
<1>2. ASSUME NEW c \in Clients, Advance(c) \/ Begin(c)
      PROVE  NoOrphans' /\ \A d \in Clients : (Derives(d) /\ Scanned(d))'
  BY <1>2, CapturingKeepsOrphans, RollingBackKeepsOrphans, ApplyRollbackKeepsOrphans,
     DerivingKeepsOrphans DEF Advance, Begin
<1>3. ASSUME NEW c \in Clients, Crash(c)
      PROVE  NoOrphans' /\ \A d \in Clients : (Derives(d) /\ Scanned(d))'
  <2>1. Fails(c) /\ derived' = derived /\ audits' = audits
    BY <1>3 DEF Crash
  <2> QED
    BY <1>1, <2>1, FailsKeepsOrphans, NoOrphansKept
<1>4. CASE UNCHANGED vars
  <2>1. NoOrphans'
    BY <1>1, <1>4, NoOrphansKept DEF vars
  <2>2. \A d \in Clients : (Derives(d) /\ Scanned(d))'
    BY <1>4 DEF vars, OrphanInv, Derives, Scanned
  <2> QED
    BY <1>1, <2>1, <2>2 DEF OrphanInv
<1> QED
  BY <1>1, <1>2, <1>3, <1>4, OutsideKeepsOrphans DEF Next, OrphanInv

\* A single client leaves no orphans: a rollback that was applied has left none of
\* its change set's derived rows behind, whatever crashed between two of its steps
\* and whatever was edited from outside.  (With two clients it fails: the run that
\* shows it has one write derived rows while the other rolls back.)
THEOREM LeavesNoOrphans == ASSUME Alone PROVE Spec => []NoOrphans
<1>1. Init => OrphanInv
  BY OrphanInit
<1>2. OrphanInv /\ [Next]_vars => OrphanInv'
  BY OrphanStep
<1>3. OrphanInv => NoOrphans
  BY DEF OrphanInv
<1> QED
  BY <1>1, <1>2, <1>3, PTL DEF Spec

-----------------------------------------------------------------------------
(* ChangeSets implements UndoLedger for every set of clients, batches and      *)
(* records: each of its steps is a step of the ledger or changes nothing the   *)
(* ledger sees.                                                                *)

(* The ledger as a function of the audits.                                   *)

LiveIn(a, b) == {n \in 0..MaxRetry : a[<<b, n>>].status = "live"}
LedgerOf(a) ==
    [b \in Batches |->
        IF LiveIn(a, b) = {} THEN NoId
        ELSE Entry(b, a[<<b, CHOOSE n \in LiveIn(a, b) : TRUE>>])]

\* Of the links of a batch at most one is live.
Single(a) ==
    \A b \in Batches : \A n, m \in 0..MaxRetry :
        n < m /\ a[<<b, m>>].status # "none" => a[<<b, n>>].status = "rolledBack"

LEMMA LedgerNow == Ledger = LedgerOf(audits) /\ Ledger' = LedgerOf(audits')
  BY DEF Ledger, LedgerOf, LiveLinks, LiveIn

LEMMA SingleNow ==
    /\ OneLiveLink => Single(audits)
    /\ OneLiveLink' => Single(audits')
  BY DEF OneLiveLink, Single

LEMMA EntryIsNotNoId ==
  ASSUME NEW b \in Batches, NEW audit \in Audit
  PROVE  Entry(b, audit) # NoId
<1>1. Touches[b] \in SUBSET Recs
  BY BatchShape
<1>2. Entry(b, audit) \in [before : [Touches[b] -> Value], after : [Touches[b] -> Value]]
  BY <1>1 DEF Entry, Audit
<1> QED
  BY <1>1, <1>2, NoEntry

\* The entry of a batch is that of its one live link.
LEMMA LedgerOfLive ==
  ASSUME NEW a \in [Ids -> Audit], Single(a), NEW b \in Batches, NEW n \in 0..MaxRetry,
         a[<<b, n>>].status = "live"
  PROVE  /\ LedgerOf(a)[b] = Entry(b, a[<<b, n>>])
         /\ LedgerOf(a)[b] # NoId
<1>1. \A m \in 0..MaxRetry : a[<<b, m>>].status = "live" => m = n
  <2> SUFFICES ASSUME NEW m \in 0..MaxRetry, a[<<b, m>>].status = "live", m # n PROVE FALSE
    OBVIOUS
  <2>1. n < m \/ m < n
    BY Bounds
  <2> QED
    BY <2>1 DEF Single
<1>2. LiveIn(a, b) = {n}
  BY <1>1 DEF LiveIn
<1>3. (CHOOSE m \in LiveIn(a, b) : TRUE) = n
  BY <1>2
<1>4. LedgerOf(a)[b] = Entry(b, a[<<b, n>>])
  BY <1>2, <1>3 DEF LedgerOf
<1>5. a[<<b, n>>] \in Audit
  BY DEF Ids
<1> QED
  BY <1>4, <1>5, EntryIsNotNoId

LEMMA LedgerOfNone ==
  ASSUME NEW a, NEW b \in Batches,
         \A n \in 0..MaxRetry : a[<<b, n>>].status # "live"
  PROVE  LedgerOf(a)[b] = NoId
  BY DEF LedgerOf, LiveIn

\* Only the entry of the batch whose link changed may change.
LEMMA LedgerOfOther ==
  ASSUME NEW a, NEW a2, NEW b \in Batches,
         \A n \in 0..MaxRetry : a2[<<b, n>>] = a[<<b, n>>]
  PROVE  LedgerOf(a2)[b] = LedgerOf(a)[b]
<1>1. LiveIn(a2, b) = LiveIn(a, b)
  BY DEF LiveIn
<1>2. CASE LiveIn(a, b) = {}
  BY <1>1, <1>2 DEF LedgerOf
<1>3. CASE LiveIn(a, b) # {}
  <2> DEFINE m == CHOOSE n \in LiveIn(a, b) : TRUE
  <2>1. m \in LiveIn(a, b)
    BY <1>3
  <2>2. a2[<<b, m>>] = a[<<b, m>>]
    BY <2>1 DEF LiveIn
  <2>3. LedgerOf(a)[b] = Entry(b, a[<<b, m>>])
    BY <1>3 DEF LedgerOf
  <2>4. LedgerOf(a2)[b] = Entry(b, a2[<<b, m>>])
    BY <1>1, <1>3 DEF LedgerOf
  <2> QED
    BY <2>2, <2>3, <2>4
<1> QED
  BY <1>2, <1>3

\* What one link becomes, the ledger becomes.
LEMMA LedgerOfExcept ==
  ASSUME NEW a, NEW a2, NEW b \in Batches,
         \A id \in Ids : id[1] # b => a2[id] = a[id]
  PROVE  LedgerOf(a2) = [LedgerOf(a) EXCEPT ![b] = LedgerOf(a2)[b]]
<1>1. \A c \in Batches \ {b} : LedgerOf(a2)[c] = LedgerOf(a)[c]
  <2> SUFFICES ASSUME NEW c \in Batches \ {b} PROVE LedgerOf(a2)[c] = LedgerOf(a)[c]
    OBVIOUS
  <2>1. \A n \in 0..MaxRetry : a2[<<c, n>>] = a[<<c, n>>]
    BY DEF Ids
  <2> QED
    BY <2>1, LedgerOfOther
<1>2. /\ LedgerOf(a2) = [c \in Batches |-> LedgerOf(a2)[c]]
      /\ LedgerOf(a) = [c \in Batches |-> LedgerOf(a)[c]]
  BY DEF LedgerOf
<1> QED
  BY <1>1, <1>2

-----------------------------------------------------------------------------
(* A rollback in flight.  What it loaded is what its change set still says,   *)
(* except for a job row that was settled meanwhile: such a row carries a      *)
(* later stamp than the one that was loaded, for ever.                        *)

StampsBounded == \A j \in JobRecs : store[j].val.stamp <= store[j].rev

RolledBackIsApplied ==
    \A id \in Ids : audits[id].status = "rolledBack" => RollbackKey(id) \in applied

\* The row can never again be what value says.
Superseded(row, value) ==
    /\ value # Absent
    /\ value.stamp <= row.rev
    /\ row.val = Absent \/ value.stamp < row.val.stamp

RollbackLoaded ==
    \A c \in Clients : op[c].pc \in RollingBack =>
        /\ op[c].before = audits[op[c].id].before
        /\ \A r \in Span(c) :
              \/ op[c].after[r] = audits[op[c].id].after[r]
              \/ r \in JobRecs /\ Superseded(store[r], op[c].after[r])

\* The rows a rollback has read again are those its change set wrote.
Matched(o) ==
    /\ o.pc = "reread" => \A r \in o.got : o.read[r].val = o.after[r]
    /\ o.pc \in {"scan", "rollback"} => \A r \in Touches[o.id[1]] : o.read[r].val = o.after[r]

LedgerInv ==
    /\ ChainInv
    /\ StampsBounded
    /\ RolledBackIsApplied
    /\ RollbackLoaded
    /\ \A c \in Clients : Matched(op[c])

\* What a step may do to a job row.
JobStep(j) ==
    \/ store'[j] = store[j]
    \/ store'[j].val = Absent /\ store[j].rev <= store'[j].rev
    \/ store'[j].rev = store[j].rev + 1 /\ store'[j].val.stamp = store'[j].rev

\* What a step may do to a call that is or becomes a rollback.
RollerStep(c) ==
    \/ op'[c] = op[c]
    \/ op'[c].pc \notin RollingBack /\ Matched(op'[c])
    \/ /\ audits' = audits /\ store' = store
       /\ op'[c].pc = "preflight" /\ Matched(op'[c])
       /\ op'[c].before = audits[op'[c].id].before
       /\ op'[c].after = audits[op'[c].id].after
    \/ /\ audits' = audits /\ store' = store
       /\ op[c].pc \in RollingBack /\ Matched(op'[c])
       /\ op'[c].id = op[c].id /\ op'[c].before = op[c].before /\ op'[c].after = op[c].after

LEMMA FailsPc ==
  ASSUME TypeOK, NEW c \in Clients, Fails(c)
  PROVE  op'[c].pc = "idle"
  BY OtherCalls, IdleIsOp DEF Fails

LEMMA AcknowledgesPc ==
  ASSUME TypeOK, NEW c \in Clients, Acknowledges(c)
  PROVE  op'[c].pc = "acked"
  BY DEF Acknowledges, Becomes, Idle, TypeOK

LEMMA ConflictsPc ==
  ASSUME TypeOK, NEW c \in Clients, Conflicts(c)
  PROVE  op'[c].pc \in {"idle", "walk"}
<1>1. CASE Fails(c)
  BY <1>1, FailsPc
<1>2. CASE ~Fails(c)
  BY <1>2 DEF Conflicts, Becomes, Idle, TypeOK
<1> QED
  BY <1>1, <1>2

LEMMA OutsideRollback ==
  ASSUME NEW o, o.pc \in {"idle", "acked", "walk", "read", "derive"}
  PROVE  o.pc \notin RollingBack /\ Matched(o)
  BY DEF RollingBack, Matched

LEMMA CaptureCallPc ==
  ASSUME TypeOK, NEW c \in Clients,
         \/ \E b \in Batches : \E payload \in Payloads[b] : StartCapture(c, b, payload)
         \/ \E id \in Ids, rows \in SUBSET Derived : StartDerive(c, id, rows)
         \/ WalkChain(c) \/ ApplyCapture(c) \/ ApplyRollback(c) \/ Crash(c)
         \/ \E r \in Recs : ReadRecord(c, r)
         \/ \E d \in Derived : WriteDerived(c, d)
  PROVE  op'[c].pc \in {"idle", "acked", "walk", "read", "derive"}
<1>1. op[c] \in Op
  BY DEF TypeOK
<1>2. ASSUME NEW b \in Batches, NEW payload \in Payloads[b], StartCapture(c, b, payload)
      PROVE  op'[c].pc = "walk"
  BY <1>2 DEF StartCapture, Becomes, Idle, TypeOK
<1>3. ASSUME NEW id \in Ids, NEW rows \in SUBSET Derived, StartDerive(c, id, rows)
      PROVE  op'[c].pc = "derive"
  BY <1>3 DEF StartDerive, Becomes, Idle, TypeOK
<1>4. ASSUME WalkChain(c) PROVE op'[c].pc \in {"idle", "acked", "walk", "read"}
  <2>1. CASE Acknowledges(c) \/ Conflicts(c)
    BY <2>1, AcknowledgesPc, ConflictsPc
  <2>2. CASE Becomes(c, [op[c] EXCEPT !.pc = "read"])
    BY <1>1, <2>2 DEF Becomes, Op, TypeOK
  <2>3. CASE Becomes(c, [op[c] EXCEPT !.id = <<Batch(c), Attempt(c) + 1>>])
    BY <1>1, <1>4, <2>3 DEF Becomes, Op, TypeOK, WalkChain
  <2> QED
    BY <1>4, <2>1, <2>2, <2>3 DEF WalkChain
<1>5. ASSUME ApplyCapture(c) PROVE op'[c].pc \in {"idle", "acked", "walk"}
  BY <1>5, AcknowledgesPc, ConflictsPc DEF ApplyCapture
<1>6. ASSUME ApplyRollback(c) \/ Crash(c) PROVE op'[c].pc = "idle"
  BY <1>6, FailsPc DEF ApplyRollback, Crash
<1>7. ASSUME NEW r \in Recs, ReadRecord(c, r) PROVE op'[c].pc = "read"
  BY <1>1, <1>7 DEF ReadRecord, Becomes, TypeOK, Op
<1>8. ASSUME NEW d \in Derived, WriteDerived(c, d) PROVE op'[c].pc \in {"idle", "derive"}
  <2>1. CASE op'[c] = Idle
    BY <2>1, IdleIsOp
  <2>2. CASE op'[c] # Idle
    BY <1>1, <1>8, <2>2 DEF WriteDerived, Becomes, TypeOK, Op
  <2> QED
    BY <2>1, <2>2
<1> QED
  BY <1>2, <1>3, <1>4, <1>5, <1>6, <1>7, <1>8

LEMMA BeginRollbackCall ==
  ASSUME TypeOK, NEW c \in Clients, NEW id \in Ids, BeginRollback(c, id)
  PROVE  RollerStep(c)
<1> DEFINE o == [Idle EXCEPT !.pc = "preflight", !.id = id,
                             !.before = audits[id].before, !.after = audits[id].after]
<1>1. /\ o.pc = "preflight" /\ o.id = id
      /\ o.before = audits[id].before /\ o.after = audits[id].after
  BY DEF Idle
<1>2. Becomes(c, o) /\ audits' = audits /\ store' = store
  BY DEF BeginRollback
<1> HIDE DEF o
<1>3. op'[c] = o
  BY <1>2, OtherCalls
<1> QED
  BY <1>1, <1>2, <1>3 DEF RollerStep, Matched

LEMMA PreflightCall ==
  ASSUME TypeOK, NEW c \in Clients, NEW r \in Recs, Preflight(c, r)
  PROVE  RollerStep(c)
<1> DEFINE passed == [op[c] EXCEPT !.pc = "reread", !.got = {}]
           more == [op[c] EXCEPT !.got = op[c].got \cup {r}]
<1>1. op[c] \in Op /\ op[c].pc = "preflight" /\ audits' = audits /\ store' = store
  BY DEF Preflight, TypeOK
<1>2. /\ passed.pc = "reread" /\ passed.got = {} /\ passed.id = op[c].id
      /\ passed.before = op[c].before /\ passed.after = op[c].after
      /\ more.pc = "preflight" /\ more.id = op[c].id
      /\ more.before = op[c].before /\ more.after = op[c].after
  BY <1>1 DEF Op
<1>3. Fails(c) \/ Becomes(c, passed) \/ Becomes(c, more)
  BY DEF Preflight
<1> HIDE DEF passed, more
<1>4. CASE Fails(c)
  BY <1>4, FailsPc, OutsideRollback DEF RollerStep
<1>5. CASE Becomes(c, passed) \/ Becomes(c, more)
  <2>1. op'[c] = passed \/ op'[c] = more
    BY <1>5, OtherCalls
  <2> QED
    BY <1>1, <1>2, <2>1 DEF RollerStep, Matched, RollingBack
<1> QED
  BY <1>3, <1>4, <1>5

LEMMA RereadCall ==
  ASSUME TypeOK, NEW c \in Clients, NEW r \in Recs, Reread(c, r), Matched(op[c])
  PROVE  RollerStep(c)
<1> DEFINE got == op[c].got \cup {r}
           o == [op[c] EXCEPT !.got = got, !.read[r] = store[r],
                              !.pc = IF got = Span(c) THEN "scan" ELSE @]
<1>1. op[c] \in Op /\ op[c].pc = "reread" /\ audits' = audits /\ store' = store
  BY DEF Reread, TypeOK
<1>2. CASE Fails(c)
  BY <1>2, FailsPc, OutsideRollback DEF RollerStep
<1>3. CASE store[r].val = op[c].after[r] /\ Becomes(c, o)
  <2>1. /\ o.id = op[c].id /\ o.before = op[c].before /\ o.after = op[c].after
        /\ o.got = got /\ o.read = [op[c].read EXCEPT ![r] = store[r]]
        /\ o.pc = IF got = Span(c) THEN "scan" ELSE "reread"
    BY <1>1 DEF Op
  <2>2. \A s \in got : s \in Recs /\ o.read[s].val = o.after[s]
    BY <1>1, <1>3, <2>1 DEF Matched, Op
  <2>3. Matched(o)
    BY <2>1, <2>2 DEF Matched, Span, Batch
  <2> HIDE DEF o
  <2>4. op'[c] = o
    BY <1>3, OtherCalls
  <2> QED
    BY <1>1, <2>1, <2>3, <2>4 DEF RollerStep, RollingBack
<1> QED
  BY <1>2, <1>3 DEF Reread

LEMMA ScanCall ==
  ASSUME TypeOK, NEW c \in Clients, Matched(op[c]),
         ReadAudit(c) \/ \E d \in Derived : ScanDerived(c, d)
  PROVE  RollerStep(c)
<1>1. op[c] \in Op /\ op[c].pc = "scan" /\ audits' = audits /\ store' = store
  BY DEF ReadAudit, ScanDerived, TypeOK
<1>2. /\ op'[c].pc \in {"scan", "rollback"} /\ op'[c].id = op[c].id
      /\ op'[c].before = op[c].before /\ op'[c].after = op[c].after /\ op'[c].read = op[c].read
  <2>1. CASE ReadAudit(c)
    BY <1>1, <2>1 DEF ReadAudit, Becomes, Op, TypeOK
  <2>2. ASSUME NEW d \in Derived, ScanDerived(c, d)
        PROVE  /\ op'[c].pc = "scan" /\ op'[c].id = op[c].id
               /\ op'[c].before = op[c].before /\ op'[c].after = op[c].after
               /\ op'[c].read = op[c].read
    BY <1>1, <2>2 DEF ScanDerived, Becomes, Op, TypeOK
  <2> QED
    BY <2>1, <2>2
<1> QED
  BY <1>1, <1>2 DEF RollerStep, Matched, RollingBack

LEMMA RollerSteps ==
  ASSUME TypeOK, \A c \in Clients : Matched(op[c]), [Next]_vars
  PROVE  \A d \in Clients : RollerStep(d)
<1>1. ASSUME NEW c \in Clients, Advance(c) \/ Begin(c) \/ Crash(c)
      PROVE  RollerStep(c) /\ \A d \in Clients \ {c} : op'[d] = op[d]
  <2>1. RollerStep(c)
    BY <1>1, CaptureCallPc, OutsideRollback, BeginRollbackCall, PreflightCall, RereadCall, ScanCall
    DEF Advance, Begin, RollerStep
  <2>2. \E o : Becomes(c, o)
    BY <1>1 DEF Advance, Begin, Crash, WalkChain, ReadRecord, Preflight, Reread, ApplyCapture,
       ScanDerived, WriteDerived, ReadAudit, ApplyRollback, StartCapture, BeginRollback,
       StartDerive, Fails, Conflicts, Acknowledges
  <2> QED
    BY <2>1, <2>2, OtherCalls
<1>2. CASE Outside
  BY <1>2 DEF Outside, EditRecord, PersistJob, ResolveRejections, RollerStep
<1>3. CASE UNCHANGED vars
  BY <1>3 DEF vars, RollerStep
<1> QED
  BY <1>1, <1>2, <1>3 DEF Next, RollerStep
-----------------------------------------------------------------------------
(* The steps that write, and what they do to the job rows.                    *)

Commits(c) == CommitApplies(c) /\ WriteCommit(c) /\ op[c].pc = "read" /\ op[c].got = Span(c)
RollsBack(c) ==
    /\ op[c].pc = "rollback" /\ RollbackKey(op[c].id) \notin applied
    /\ RollbackApplies(c) /\ WriteRollback(c)
Edits == \E r \in Recs \ JobRecs, content \in Contents \cup {NoContent} : EditRecord(r, content)
Persists == \E j \in JobRecs, content \in Contents : PersistJob(j, content)
Resolves == \E id \in Ids, j \in JobRecs : ResolveRejections(id, j)
Quiet == UNCHANGED <<store, audits, applied>>

LEMMA WritingSteps ==
  ASSUME [Next]_vars
  PROVE  \/ Quiet
         \/ \E c \in Clients : Commits(c) \/ RollsBack(c)
         \/ Edits \/ Persists \/ Resolves
<1>1. ASSUME NEW c \in Clients, Advance(c) PROVE Quiet \/ Commits(c) \/ RollsBack(c)
  BY <1>1 DEF Advance, Quiet, Commits, RollsBack, WalkChain, ReadRecord, Preflight, Reread,
     ApplyCapture, ScanDerived, WriteDerived, ReadAudit, ApplyRollback
<1>2. ASSUME NEW c \in Clients, Begin(c) \/ Crash(c) PROVE Quiet
  BY <1>2 DEF Begin, Crash, Quiet, StartCapture, BeginRollback, StartDerive
<1>3. Outside => Edits \/ Persists \/ Resolves
  <2> SUFFICES ASSUME Outside, ~Persists, ~Resolves PROVE Edits
    OBVIOUS
  <2>1. PICK r \in Recs, content \in Contents \cup {NoContent} : EditRecord(r, content)
    BY DEF Outside, Persists, Resolves
  <2>2. r \in Recs \ JobRecs
    BY <2>1 DEF EditRecord
  <2> QED
    BY <2>1, <2>2 DEF Edits
<1>4. UNCHANGED vars => Quiet
  BY DEF vars, Quiet
<1> QED
  BY <1>1, <1>2, <1>3, <1>4 DEF Next

\* A put leaves the row with the value.
LEMMA PutValue ==
  ASSUME NEW row, NEW value
  PROVE  Put(row, value).val = value
  BY DEF Put

\* A put of a fresh stamp, or of nothing, is a step of a job row.
LEMMA PutIsJobStep ==
  ASSUME TypeOK, NEW j \in JobRecs, NEW value,
         store'[j] = Put(store[j], value),
         value = Absent \/ value.stamp = store[j].rev + 1
  PROVE  JobStep(j)
<1>1. store[j].rev \in Nat
  BY RecordKinds DEF TypeOK, Versioned
<1>2. CASE value = Absent /\ store[j].val = Absent
  BY <1>2 DEF Put, JobStep
<1>3. CASE ~(value = Absent /\ store[j].val = Absent)
  <2>1. store'[j] = [val |-> value, rev |-> store[j].rev + 1]
    BY <1>3 DEF Put
  <2> QED
    BY <1>1, <2>1 DEF JobStep
<1> QED
  BY <1>2, <1>3

LEMMA JobSteps ==
  ASSUME TypeOK, [Next]_vars
  PROVE  \A j \in JobRecs : JobStep(j)
<1> SUFFICES ASSUME NEW j \in JobRecs PROVE JobStep(j)
  OBVIOUS
<1>1. j \in Recs /\ j \notin CandidateRecs
  BY RecordKinds
<1>2. CASE store'[j] = store[j]
  BY <1>2 DEF JobStep
<1>3. ASSUME NEW c \in Clients, WriteCommit(c), store'[j] # store[j] PROVE JobStep(j)
  <2>1. store'[j] = Put(store[j], Committed(c, j))
    BY <1>1, <1>3 DEF WriteCommit
  <2>2. Committed(c, j) = Absent \/ Committed(c, j).stamp = store[j].rev + 1
    BY DEF Committed
  <2> QED
    BY <2>1, <2>2, PutIsJobStep
<1>4. ASSUME NEW c \in Clients, WriteRollback(c), store'[j] # store[j] PROVE JobStep(j)
  <2>1. store'[j] = Put(store[j], Restored(c, j))
    BY <1>1, <1>4 DEF WriteRollback
  <2>2. Restored(c, j) = Absent \/ Restored(c, j).stamp = store[j].rev + 1
    BY <1>1 DEF Restored
  <2> QED
    BY <2>1, <2>2, PutIsJobStep
<1>5. ASSUME NEW r \in Recs \ JobRecs, NEW content, EditRecord(r, content) PROVE JobStep(j)
  BY <1>1, <1>5, <1>2 DEF EditRecord, TypeOK
<1>6. ASSUME NEW k \in JobRecs, NEW content, PersistJob(k, content), store'[j] # store[j]
      PROVE  JobStep(j)
  <2>1. store'[j] = Put(store[j], [content |-> content, stamp |-> store[j].rev + 1])
    BY <1>1, <1>6 DEF PersistJob, TypeOK
  <2> QED
    BY <2>1, PutIsJobStep
<1>7. ASSUME NEW id \in Ids, NEW k \in JobRecs, ResolveRejections(id, k), store'[j] # store[j]
      PROVE  JobStep(j)
  <2>1. store'[j] = Put(store[j], [store[j].val EXCEPT !.stamp = store[j].rev + 1])
    BY <1>1, <1>7 DEF ResolveRejections, TypeOK
  <2>2. store[j].val \in Value
    BY <1>1 DEF TypeOK, Versioned
  <2>3. [store[j].val EXCEPT !.stamp = store[j].rev + 1].stamp = store[j].rev + 1
    BY <2>2 DEF Value
  <2> QED
    BY <2>1, <2>3, PutIsJobStep
<1> QED
  BY WritingSteps, <1>2, <1>3, <1>4, <1>5, <1>6, <1>7
  DEF Quiet, Commits, RollsBack, Edits, Persists, Resolves

LEMMA StampsStep ==
  ASSUME TypeOK, TypeOK', StampsBounded, [Next]_vars
  PROVE  StampsBounded'
<1> SUFFICES ASSUME NEW j \in JobRecs PROVE store'[j].val.stamp <= store'[j].rev
  BY DEF StampsBounded
<1>1. store[j] \in Versioned /\ store'[j] \in Versioned
  BY RecordKinds DEF TypeOK
<1>2. store'[j].val.stamp \in Nat /\ store'[j].rev \in Nat
  BY <1>1 DEF Versioned, Value
<1>3. Absent.stamp = 0
  BY DEF Absent
<1> QED
  BY <1>2, <1>3, JobSteps DEF JobStep, StampsBounded

\* Superseded is for ever.
LEMMA SupersededStep ==
  ASSUME TypeOK, TypeOK', [Next]_vars, NEW j \in JobRecs, NEW value \in Value,
         Superseded(store[j], value)
  PROVE  Superseded(store'[j], value)
<1>1. store[j] \in Versioned /\ store'[j] \in Versioned
  BY RecordKinds DEF TypeOK
<1>2. store[j].rev \in Nat /\ store'[j].rev \in Nat /\ value.stamp \in Nat
  BY <1>1 DEF Versioned, Value
<1> QED
  BY <1>2, JobSteps DEF JobStep, Superseded
-----------------------------------------------------------------------------
(* What a rollback in flight loaded stays what its change set says.           *)

\* What a step may do to the contents of a committed link.
LoadedStep(id) ==
    /\ audits'[id].before = audits[id].before
    /\ \A r \in Touches[id[1]] :
          \/ audits'[id].after[r] = audits[id].after[r]
          \/ r \in JobRecs /\ Superseded(store'[r], audits[id].after[r])

\* A rollback that may write still has what its change set says, and the store too.
LEMMA RollbackMatches ==
  ASSUME LedgerInv, NEW c \in Clients, RollsBack(c)
  PROVE  /\ op[c].id \in Ids /\ audits[op[c].id].status = "live"
         /\ op[c].before = audits[op[c].id].before
         /\ \A r \in Span(c) :
               /\ store[r].val = op[c].read[r].val
               /\ store[r].val = op[c].after[r]
               /\ op[c].after[r] = audits[op[c].id].after[r]
<1>1. TypeOK /\ op[c].pc = "rollback" /\ op[c].id \in Ids
  BY DEF LedgerInv, ChainInv, RollsBack, TypeOK
<1>2. Span(c) \subseteq Recs
  BY <1>1, BatchShape DEF Span, Batch, Ids
<1>3. audits[op[c].id].status = "live"
  <2>1. audits[op[c].id].status \in {"none", "live", "rolledBack"}
    BY <1>1 DEF TypeOK, Audit
  <2>2. audits[op[c].id].status # "none"
    BY <1>1 DEF LedgerInv, ChainInv, RollsBackCommitted, RollingBack
  <2>3. audits[op[c].id].status # "rolledBack"
    BY <1>1 DEF LedgerInv, RolledBackIsApplied, RollsBack
  <2> QED
    BY <2>1, <2>2, <2>3
<1>4. op[c].before = audits[op[c].id].before
  BY <1>1 DEF LedgerInv, RollbackLoaded, RollingBack
<1>5. ASSUME NEW r \in Span(c)
      PROVE  /\ store[r].val = op[c].read[r].val
             /\ store[r].val = op[c].after[r]
             /\ op[c].after[r] = audits[op[c].id].after[r]
  <2>1. op[c].read[r].val = op[c].after[r]
    BY <1>1 DEF LedgerInv, Matched, Span, Batch
  <2>2. store[r].val = op[c].read[r].val
    BY DEF RollsBack, RollbackApplies, Unchanged
  <2>3. ~(r \in JobRecs /\ Superseded(store[r], op[c].after[r]))
    <3>1. op[c].after[r] \in Value
      BY <1>1, <1>2 DEF TypeOK, Op
    <3> QED
      BY <2>1, <2>2, <3>1 DEF Superseded, Value
  <2> QED
    BY <1>1, <2>1, <2>2, <2>3 DEF LedgerInv, RollbackLoaded, RollingBack
<1> QED
  BY <1>1, <1>3, <1>4, <1>5

LEMMA CommitLoaded ==
  ASSUME TypeOK, NEW c \in Clients, Commits(c), NEW id \in Ids, audits[id].status # "none"
  PROVE  LoadedStep(id)
<1>1. id # op[c].id
  BY DEF Commits, CommitApplies
<1>2. audits'[id] = audits[id]
  BY <1>1 DEF Commits, WriteCommit, TypeOK
<1> QED
  BY <1>2 DEF LoadedStep

LEMMA RollbackKeepsLoaded ==
  ASSUME LedgerInv, NEW c \in Clients, RollsBack(c), NEW id \in Ids
  PROVE  LoadedStep(id)
<1>1. CASE id # op[c].id
  <2>1. audits'[id] = audits[id]
    BY <1>1 DEF RollsBack, WriteRollback, LedgerInv, ChainInv, TypeOK
  <2> QED
    BY <2>1 DEF LoadedStep
<1>2. CASE id = op[c].id
  <2>1. audits'[id].before = op[c].before /\ audits'[id].after = op[c].after
    BY <1>2 DEF RollsBack, WriteRollback, LedgerInv, ChainInv, TypeOK
  <2> QED
    BY <1>2, <2>1, RollbackMatches DEF LoadedStep, Span, Batch
<1> QED
  BY <1>1, <1>2

\* A settled job row moves on, so what was loaded of it before is superseded.
LEMMA ResolveLoaded ==
  ASSUME TypeOK, StampsBounded, NEW i \in Ids, NEW j \in JobRecs, ResolveRejections(i, j),
         NEW id \in Ids
  PROVE  LoadedStep(id)
<1> DEFINE new == [store[j].val EXCEPT !.stamp = store[j].rev + 1]
           own == j \in Touches[i[1]] /\ audits[i].after[j] = store[j].val
<1>1. store[j] \in Versioned /\ store[j].val \in Value /\ audits[i] \in Audit /\ j \in Recs
  BY RecordKinds DEF TypeOK, Versioned
<1>2. CASE id # i
  <2>1. audits'[id] = audits[id]
    BY <1>2 DEF ResolveRejections, TypeOK
  <2> QED
    BY <2>1 DEF LoadedStep
<1>3. CASE id = i
  <2>1. /\ audits'[i].before = audits[i].before
        /\ audits'[i].after = [audits[i].after EXCEPT ![j] = IF own THEN new ELSE @]
    BY <1>1 DEF ResolveRejections, TypeOK, Audit
  <2>2. \A r \in Recs \ {j} : audits'[i].after[r] = audits[i].after[r]
    BY <1>1, <2>1 DEF Audit
  <2>3. CASE ~own
    <3>1. audits'[i].after = audits[i].after
      BY <1>1, <2>1, <2>3 DEF Audit
    <3> QED
      BY <1>3, <2>1, <3>1 DEF LoadedStep
  <2>4. CASE own
    <3>1. store'[j] = [val |-> new, rev |-> store[j].rev + 1]
      BY <1>1 DEF ResolveRejections, Put, TypeOK
    <3>2. new.stamp = store[j].rev + 1
      BY <1>1 DEF Value
    <3>3. /\ store[j].val.stamp <= store[j].rev
          /\ store[j].val.stamp \in Nat /\ store[j].rev \in Nat
      BY <1>1 DEF StampsBounded, Versioned, Value
    <3>4. store[j].val # Absent
      BY DEF ResolveRejections
    <3> HIDE DEF new
    <3>5. Superseded(store'[j], audits[i].after[j])
      BY <2>4, <3>1, <3>2, <3>3, <3>4 DEF Superseded
    <3>6. \A r \in Touches[i[1]] : r \in Recs
      BY BatchShape DEF Ids
    <3> QED
      BY <1>3, <2>1, <2>2, <3>5, <3>6 DEF LoadedStep
  <2> QED
    BY <2>3, <2>4
<1> QED
  BY <1>2, <1>3

LEMMA LoadedSteps ==
  ASSUME LedgerInv, [Next]_vars, NEW id \in Ids, audits[id].status # "none"
  PROVE  LoadedStep(id)
<1>1. audits' = audits => LoadedStep(id)
  BY DEF LoadedStep
<1> QED
  BY <1>1, WritingSteps, CommitLoaded, RollbackKeepsLoaded, ResolveLoaded
  DEF LedgerInv, ChainInv, Quiet, Edits, Persists, Resolves, EditRecord, PersistJob

LEMMA LoadedInv ==
  ASSUME LedgerInv, [Next]_vars, TypeOK'
  PROVE  RollbackLoaded'
<1>1. TypeOK /\ \A c \in Clients : Matched(op[c])
  BY DEF LedgerInv, ChainInv
<1> SUFFICES ASSUME NEW c \in Clients, op'[c].pc \in RollingBack
             PROVE  /\ op'[c].before = audits'[op'[c].id].before
                    /\ \A r \in Touches[op'[c].id[1]] :
                          \/ op'[c].after[r] = audits'[op'[c].id].after[r]
                          \/ r \in JobRecs /\ Superseded(store'[r], op'[c].after[r])
  BY DEF RollbackLoaded, Span, Batch
<1>2. RollerStep(c)
  BY <1>1, RollerSteps
<1>3. CASE op'[c] = op[c]
  <2>1. op[c].pc \in RollingBack /\ op[c].id \in Ids /\ op[c] \in Op
    BY <1>1, <1>3 DEF TypeOK, RollingBack
  <2>2. LoadedStep(op[c].id)
    BY <2>1, LoadedSteps DEF LedgerInv, ChainInv, RollsBackCommitted
  <2>3. op[c].before = audits[op[c].id].before
    BY <2>1 DEF LedgerInv, RollbackLoaded
  <2>4. ASSUME NEW r \in Touches[op[c].id[1]]
        PROVE  \/ op[c].after[r] = audits'[op[c].id].after[r]
               \/ r \in JobRecs /\ Superseded(store'[r], op[c].after[r])
    <3>1. r \in Recs /\ op[c].after[r] \in Value
      BY <2>1, BatchShape DEF Ids, Op
    <3>2. CASE op[c].after[r] = audits[op[c].id].after[r]
      BY <2>2, <3>2 DEF LoadedStep
    <3>3. CASE r \in JobRecs /\ Superseded(store[r], op[c].after[r])
      BY <1>1, <3>1, <3>3, SupersededStep
    <3> QED
      BY <2>1, <3>2, <3>3 DEF LedgerInv, RollbackLoaded, Span, Batch
  <2> QED
    BY <1>3, <2>2, <2>3, <2>4 DEF LoadedStep
<1>4. CASE /\ audits' = audits /\ store' = store /\ op[c].pc \in RollingBack
           /\ op'[c].id = op[c].id /\ op'[c].before = op[c].before /\ op'[c].after = op[c].after
  BY <1>4 DEF LedgerInv, RollbackLoaded, Span, Batch
<1>5. CASE /\ audits' = audits /\ op'[c].before = audits[op'[c].id].before
           /\ op'[c].after = audits[op'[c].id].after
  BY <1>5
<1> QED
  BY <1>2, <1>3, <1>4, <1>5 DEF RollerStep

LEMMA AppliedStep ==
  ASSUME LedgerInv, [Next]_vars
  PROVE  RolledBackIsApplied'
<1> SUFFICES ASSUME NEW id \in Ids, audits'[id].status = "rolledBack"
             PROVE  RollbackKey(id) \in applied'
  BY DEF RolledBackIsApplied
<1>1. TypeOK /\ (audits[id].status = "rolledBack" => RollbackKey(id) \in applied)
  BY DEF LedgerInv, ChainInv, RolledBackIsApplied
<1>2. CASE UNCHANGED <<audits, applied>>
  BY <1>1, <1>2
<1>3. ASSUME NEW c \in Clients, Commits(c) PROVE RollbackKey(id) \in applied'
  BY <1>1, <1>3 DEF Commits, WriteCommit, TypeOK
<1>4. ASSUME NEW c \in Clients, RollsBack(c) PROVE RollbackKey(id) \in applied'
  BY <1>1, <1>4 DEF RollsBack, WriteRollback, TypeOK
<1>5. ASSUME NEW i \in Ids, NEW j \in JobRecs, ResolveRejections(i, j)
      PROVE  RollbackKey(id) \in applied'
  BY <1>1, <1>5 DEF ResolveRejections, TypeOK, Audit
<1> QED
  BY <1>2, <1>3, <1>4, <1>5, WritingSteps
  DEF Quiet, Edits, Persists, Resolves, EditRecord, PersistJob

LEMMA LedgerInit == Init => LedgerInv
<1> SUFFICES ASSUME Init PROVE LedgerInv
  OBVIOUS
<1>1. \A c \in Clients : op[c].pc = "idle"
  BY IdleIsOp DEF Init
<1>2. \A id \in Ids : audits[id].status = "none"
  BY DEF Init, NoAudit
<1>3. StampsBounded
  BY RecordKinds DEF Init, StampsBounded, Unread, Absent
<1> QED
  BY <1>1, <1>2, <1>3, ChainInit
  DEF LedgerInv, RolledBackIsApplied, RollbackLoaded, RollingBack, Matched

LEMMA LedgerStep == LedgerInv /\ [Next]_vars => LedgerInv'
<1> SUFFICES ASSUME LedgerInv, [Next]_vars PROVE LedgerInv'
  OBVIOUS
<1>1. ChainInv' /\ TypeOK /\ TypeOK'
  BY ChainStep, TypeStep DEF LedgerInv, ChainInv
<1>2. \A c \in Clients : Matched(op'[c])
  BY <1>1, RollerSteps DEF LedgerInv, RollerStep
<1> QED
  BY <1>1, <1>2, StampsStep, AppliedStep, LoadedInv DEF LedgerInv

LEMMA LedgerCorrect == Spec => []LedgerInv
  BY LedgerInit, LedgerStep, PTL DEF Spec
-----------------------------------------------------------------------------
(* Every step is a step of the ledger, or changes nothing the ledger sees.    *)

LEMMA MemOf ==
  /\ Mem = [r \in Recs |-> store[r].val]
  /\ Mem' = [r \in Recs |-> store'[r].val]
  BY DEF Mem

LEMMA QuietRefines ==
  ASSUME UNCHANGED <<store, audits>>
  PROVE  UNCHANGED Promised!vars
<1>1. Ledger' = Ledger
  BY LedgerNow
<1>2. Mem' = Mem
  BY MemOf
<1> QED
  BY <1>1, <1>2 DEF Promised!vars

\* The entry of the links of one batch, and no other, may change with one link.
LEMMA LedgerExcept ==
  ASSUME NEW b \in Batches, \A id \in Ids : id[1] # b => audits'[id] = audits[id]
  PROVE  Ledger' = [Ledger EXCEPT ![b] = LedgerOf(audits')[b]]
  BY LedgerNow, LedgerOfExcept, SMTT(30)

LEMMA EditRefines ==
  ASSUME TypeOK, Edits \/ Persists
  PROVE  \/ \E r \in Recs \ JobRecs : Promised!Edit(r)
         \/ \E j \in JobRecs : Promised!Edit(j)
<1>1. Ledger' = Ledger
  BY LedgerNow DEF Edits, Persists, EditRecord, PersistJob
<1>2. ASSUME NEW r \in Recs, NEW value, store' = [store EXCEPT ![r] = Put(store[r], value)]
      PROVE  Promised!Edit(r)
  <2>1. \A s \in Recs \ {r} : store'[s] = store[s]
    BY <1>2 DEF TypeOK
  <2>2. \A s \in Recs \ {r} : Mem'[s] = Mem[s]
    BY <2>1, MemOf
  <2> QED
    BY <1>1, <2>2 DEF Promised!Edit, Promised!OnlyWrites
<1>3. ASSUME NEW r \in Recs \ JobRecs, NEW content, EditRecord(r, content)
      PROVE  Promised!Edit(r)
  BY <1>2, <1>3 DEF EditRecord
<1>4. ASSUME NEW j \in JobRecs, NEW content, PersistJob(j, content)
      PROVE  Promised!Edit(j)
  BY <1>2, <1>4, RecordKinds DEF PersistJob
<1> QED
  BY <1>3, <1>4 DEF Edits, Persists

LEMMA CommitRefines ==
  ASSUME LedgerInv, LedgerInv', NEW c \in Clients, Commits(c)
  PROVE  Promised!Commit(Batch(c))
<1> DEFINE b == Batch(c)
           n == Attempt(c)
<1>1. TypeOK /\ op[c].pc = "read" /\ op[c].id \in Ids
  BY DEF LedgerInv, ChainInv, Commits, TypeOK
<1>2. b \in Batches /\ n \in 0..MaxRetry /\ op[c].id = <<b, n>>
  BY <1>1 DEF Ids, Batch, Attempt
<1>3. Touches[b] \subseteq Recs /\ Span(c) = Touches[b]
  BY <1>2, BatchShape DEF Span
<1>4. Single(audits) /\ Single(audits')
  BY SingleNow DEF LedgerInv, ChainInv
<1>5. audits[<<b, n>>].status = "none"
  BY <1>2 DEF Commits, CommitApplies
<1>6. \A m \in 0..MaxRetry : audits[<<b, m>>].status # "live"
  <2> SUFFICES ASSUME NEW m \in 0..MaxRetry PROVE audits[<<b, m>>].status # "live"
    OBVIOUS
  <2>1. CASE m < n
    BY <1>1, <2>1 DEF LedgerInv, ChainInv, ChainWalked, Walking
  <2>2. CASE m = n
    BY <1>5, <2>2
  <2>3. CASE n < m
    BY <1>2, <1>4, <1>5, <2>3 DEF Single
  <2> QED
    BY <1>2, <2>1, <2>2, <2>3
<1>7. Ledger[b] = NoId
  BY <1>2, <1>6, LedgerOfNone, LedgerNow
<1>8. ASSUME NEW r \in Touches[b]
      PROVE  /\ audits'[<<b, n>>].before[r] = Mem[r]
             /\ audits'[<<b, n>>].after[r] = Mem'[r]
  <2>1. r \in Recs /\ r \in Span(c)
    BY <1>3
  <2>2. /\ audits'[<<b, n>>].before[r] = op[c].read[r].val
        /\ audits'[<<b, n>>].after[r] = Committed(c, r)
    BY <1>1, <1>2, <2>1 DEF Commits, WriteCommit, TypeOK
  <2>3. store[r].val = op[c].read[r].val
    BY <2>1 DEF Commits, CommitApplies, Unchanged
  <2>4. store'[r] = Put(store[r], Committed(c, r))
    BY <2>1 DEF Commits, WriteCommit
  <2> QED
    BY <2>1, <2>2, <2>3, <2>4, MemOf, PutValue
<1>9. Entry(b, audits'[<<b, n>>]) = [before |-> [r \in Touches[b] |-> Mem[r]],
                                     after |-> [r \in Touches[b] |-> Mem'[r]]]
  BY <1>8 DEF Entry
<1>10. audits'[<<b, n>>].status = "live" /\ \A id \in Ids : id[1] # b => audits'[id] = audits[id]
  BY <1>1, <1>2 DEF Commits, WriteCommit, TypeOK
<1>11. audits' \in [Ids -> Audit]
  BY DEF LedgerInv, ChainInv, TypeOK
<1>12. LedgerOf(audits')[b] = Entry(b, audits'[<<b, n>>])
  BY <1>2, <1>4, <1>10, <1>11, LedgerOfLive
<1>13. Ledger' = [Ledger EXCEPT ![b] = Entry(b, audits'[<<b, n>>])]
  BY <1>2, <1>10, <1>12, LedgerExcept
<1>14. \A r \in Recs \ Touches[b] : Mem'[r] = Mem[r]
  BY <1>3, MemOf DEF Commits, WriteCommit
<1> QED
  BY <1>7, <1>9, <1>13, <1>14 DEF Promised!Commit, Promised!OnlyWrites

\* What the code puts back is what the ledger's undo puts back.
LEMMA RestoredReverts ==
  ASSUME NEW c \in Clients, NEW r \in Recs,
         store[r].val = op[c].read[r].val, Mem'[r] = Restored(c, r)
  PROVE  Promised!Reverted(r, op[c].before[r])
<1>1. Mem[r] = op[c].read[r].val
  BY MemOf
<1>2. CASE r \in CandidateRecs /\ op[c].read[r].val # Absent
  <2>1. Mem'[r].content = op[c].read[r].val.content
    BY <1>2, RecordKinds DEF Restored
  <2> QED
    BY <1>1, <1>2, <2>1, RecordKinds DEF Promised!Reverted
<1>3. CASE ~(r \in CandidateRecs /\ op[c].read[r].val # Absent) /\ r \in JobRecs
  <2>1. Mem'[r].content = op[c].before[r].content
    BY <1>3 DEF Restored
  <2> QED
    BY <1>1, <1>3, <2>1 DEF Promised!Reverted
<1>4. CASE ~(r \in CandidateRecs /\ op[c].read[r].val # Absent) /\ r \notin JobRecs
  <2>1. Mem'[r] = op[c].before[r]
    BY <1>4 DEF Restored
  <2> QED
    BY <1>1, <1>4, <2>1 DEF Promised!Reverted
<1> QED
  BY <1>2, <1>3, <1>4

LEMMA RollbackRefines ==
  ASSUME LedgerInv, LedgerInv', NEW c \in Clients, RollsBack(c)
  PROVE  Promised!Undo(Batch(c))
<1> DEFINE b == Batch(c)
           n == Attempt(c)
<1>1. TypeOK /\ op[c].id \in Ids
  BY RollbackMatches DEF LedgerInv, ChainInv
<1>2. b \in Batches /\ n \in 0..MaxRetry /\ op[c].id = <<b, n>>
  BY <1>1 DEF Ids, Batch, Attempt
<1>3. Touches[b] \subseteq Recs /\ Span(c) = Touches[b]
  BY <1>2, BatchShape DEF Span
<1>4. Single(audits) /\ audits[<<b, n>>].status = "live" /\ audits \in [Ids -> Audit]
  BY <1>1, <1>2, RollbackMatches, SingleNow DEF LedgerInv, ChainInv, TypeOK
<1>5. Ledger[b] = Entry(b, audits[<<b, n>>]) /\ Ledger[b] # NoId
  BY <1>2, <1>4, LedgerOfLive, LedgerNow
<1>6. ASSUME NEW r \in Touches[b]
      PROVE  Mem[r] = Ledger[b].after[r] /\ Promised!Reverted(r, Ledger[b].before[r])
  <2>1. r \in Recs /\ r \in Span(c)
    BY <1>3
  <2>2. /\ store[r].val = op[c].read[r].val
        /\ store[r].val = audits[<<b, n>>].after[r]
        /\ op[c].before[r] = audits[<<b, n>>].before[r]
    BY <1>2, <2>1, RollbackMatches
  <2>3. Ledger[b].after[r] = audits[<<b, n>>].after[r]
    BY <1>5 DEF Entry
  <2>4. Ledger[b].before[r] = op[c].before[r]
    BY <1>5, <2>2 DEF Entry
  <2>5. Mem'[r] = Restored(c, r)
    BY <2>1, MemOf, PutValue DEF RollsBack, WriteRollback
  <2>6. Promised!Reverted(r, op[c].before[r])
    BY <2>1, <2>2, <2>5, RestoredReverts
  <2>7. Mem[r] = Ledger[b].after[r]
    BY <2>1, <2>2, <2>3, MemOf
  <2> QED
    BY <2>4, <2>6, <2>7
<1>7. /\ audits'[<<b, n>>].status = "rolledBack"
      /\ \A id \in Ids : id # <<b, n>> => audits'[id] = audits[id]
  BY <1>1, <1>2 DEF RollsBack, WriteRollback, TypeOK
<1>8. \A m \in 0..MaxRetry : audits'[<<b, m>>].status # "live"
  <2> SUFFICES ASSUME NEW m \in 0..MaxRetry, m # n PROVE audits[<<b, m>>].status # "live"
    BY <1>2, <1>7 DEF Ids
  <2>1. m < n \/ n < m
    BY <1>2, Bounds
  <2> QED
    BY <1>2, <1>4, <2>1 DEF Single
<1>9. LedgerOf(audits')[b] = NoId
  BY <1>2, <1>8, LedgerOfNone
<1>10. Ledger' = [Ledger EXCEPT ![b] = NoId]
  BY <1>2, <1>7, <1>9, LedgerExcept
<1>11. \A r \in Recs \ Touches[b] : Mem'[r] = Mem[r]
  BY <1>3, MemOf DEF RollsBack, WriteRollback
<1> QED
  BY <1>5, <1>6, <1>10, <1>11 DEF Promised!Undo, Promised!OnlyWrites
LEMMA ResolveRefines ==
  ASSUME LedgerInv, LedgerInv', NEW i \in Ids, NEW j \in JobRecs, ResolveRejections(i, j)
  PROVE  \E b \in Batches : Promised!Settle(b, j)
<1> DEFINE b == i[1]
           n == i[2]
           new == [store[j].val EXCEPT !.stamp = store[j].rev + 1]
           own == j \in Touches[b] /\ audits[i].after[j] = store[j].val
<1>1. /\ TypeOK /\ b \in Batches /\ n \in 0..MaxRetry /\ i = <<b, n>> /\ j \in Recs
      /\ store[j].val \in Value /\ audits[i] \in Audit
  BY RecordKinds DEF LedgerInv, ChainInv, TypeOK, Ids, Versioned
<1>2. Touches[b] \subseteq Recs
  BY <1>1, BatchShape
<1>3. Single(audits) /\ Single(audits') /\ audits \in [Ids -> Audit] /\ audits' \in [Ids -> Audit]
  BY SingleNow DEF LedgerInv, ChainInv, TypeOK
<1>4. audits[<<b, n>>].status = "live"
  BY <1>1 DEF ResolveRejections
<1>5. Ledger[b] = Entry(b, audits[i]) /\ Ledger[b] # NoId
  BY <1>1, <1>3, <1>4, LedgerOfLive, LedgerNow
<1>6. /\ audits'[i].status = "live" /\ audits'[i].before = audits[i].before
      /\ audits'[i].after = [audits[i].after EXCEPT ![j] = IF own THEN new ELSE @]
      /\ \A id \in Ids : id # i => audits'[id] = audits[id]
  BY <1>1, <1>4 DEF ResolveRejections, TypeOK, Audit
<1>7. LedgerOf(audits')[b] = Entry(b, audits'[i])
  BY <1>1, <1>3, <1>6, LedgerOfLive
<1>8. Ledger' = [Ledger EXCEPT ![b] = Entry(b, audits'[i])]
  BY <1>1, <1>6, <1>7, LedgerExcept
<1>9. Mem'[j] = new /\ Mem[j] = store[j].val /\ \A r \in Recs \ {j} : Mem'[r] = Mem[r]
  BY <1>1, MemOf, PutValue DEF ResolveRejections, TypeOK
<1>10. Mem'[j].content = Mem[j].content
  BY <1>1, <1>9 DEF Value
<1>11. own <=> j \in Touches[b] /\ Ledger[b].after[j] = Mem[j]
  BY <1>5, <1>9 DEF Entry
<1>12. CASE own
  <2>1. Entry(b, audits'[i]) = [Entry(b, audits[i]) EXCEPT !.after[j] = new]
    <3>1. \A r \in Touches[b] : audits'[i].after[r] = IF r = j THEN new ELSE audits[i].after[r]
      BY <1>1, <1>2, <1>6, <1>12 DEF Audit
    <3> HIDE DEF new
    <3>2. [r \in Touches[b] |-> audits'[i].after[r]]
             = [[r \in Touches[b] |-> audits[i].after[r]] EXCEPT ![j] = new]
      BY <1>12, <3>1
    <3> DEFINE before == [r \in Touches[b] |-> audits[i].before[r]]
               after == [r \in Touches[b] |-> audits[i].after[r]]
    <3>3. Entry(b, audits[i]) = [before |-> before, after |-> after]
      BY DEF Entry
    <3>4. Entry(b, audits'[i]) = [before |-> before, after |-> [after EXCEPT ![j] = new]]
      BY <1>6, <3>2 DEF Entry
    <3> HIDE DEF before, after
    <3>5. [[before |-> before, after |-> after] EXCEPT !.after[j] = new]
             = [before |-> before, after |-> [after EXCEPT ![j] = new]]
      OBVIOUS
    <3> QED
      BY <3>3, <3>4, <3>5
  <2>2. Ledger' = [Ledger EXCEPT ![b].after[j] = Mem'[j]]
    BY <1>5, <1>8, <1>9, <2>1
  <2> QED
    BY <1>1, <1>5, <1>9, <1>10, <1>11, <1>12, <2>2 DEF Promised!Settle, Promised!OnlyWrites
<1>13. CASE ~own
  <2>1. audits'[i].after = audits[i].after
    BY <1>1, <1>6, <1>13 DEF Audit
  <2>2. Entry(b, audits'[i]) = Ledger[b]
    BY <1>5, <1>6, <2>1 DEF Entry
  <2>3. Ledger' = Ledger
    BY <1>8, <2>2, LedgerNow DEF LedgerOf
  <2> QED
    BY <1>1, <1>5, <1>9, <1>10, <1>11, <1>13, <2>3 DEF Promised!Settle, Promised!OnlyWrites
<1> QED
  BY <1>12, <1>13

LEMMA RefinesInit == Init => Promised!Init
<1> SUFFICES ASSUME Init PROVE Promised!Init
  OBVIOUS
<1>1. Mem = [r \in Recs |-> Absent]
  BY MemOf DEF Init, Unread
<1>2. \A b \in Batches : \A n \in 0..MaxRetry : audits[<<b, n>>].status # "live"
  BY DEF Init, NoAudit, Ids
<1>3. Ledger = [b \in Batches |-> NoId]
  BY <1>2, LedgerNow, LedgerOfNone DEF LedgerOf
<1> QED
  BY <1>1, <1>3 DEF Promised!Init

LEMMA RefinesStep == LedgerInv /\ LedgerInv' /\ [Next]_vars => [Promised!Next]_(Promised!vars)
<1> SUFFICES ASSUME LedgerInv, LedgerInv', [Next]_vars
             PROVE  Promised!Next \/ UNCHANGED Promised!vars
  OBVIOUS
<1>1. TypeOK /\ \A c \in Clients : op[c].pc # "idle" => Batch(c) \in Batches
  BY DEF LedgerInv, ChainInv, TypeOK, Ids, Batch
<1>2. Quiet => UNCHANGED Promised!vars
  BY QuietRefines DEF Quiet
<1>3. ASSUME NEW c \in Clients, Commits(c) PROVE Promised!Next
  BY <1>1, <1>3, CommitRefines DEF Commits, Promised!Next
<1>4. ASSUME NEW c \in Clients, RollsBack(c) PROVE Promised!Next
  BY <1>1, <1>4, RollbackRefines DEF RollsBack, Promised!Next
<1>5. Edits \/ Persists => Promised!Next
  BY <1>1, EditRefines DEF Promised!Next
<1>6. Resolves => Promised!Next
  BY ResolveRefines DEF Resolves, Promised!Next
<1> QED
  BY WritingSteps, <1>2, <1>3, <1>4, <1>5, <1>6

\* The repository implements the ledger: however commits, retries, rollbacks, edits,
\* job saves and crashes of any number of clients interleave, a change set remembers
\* exactly the values it replaced, and an undo happens only while its records still
\* hold what it wrote, and puts those values back.
THEOREM ImplementsLedger == Spec => ActsAsLedger
<1>1. Spec => Promised!Init
  BY RefinesInit DEF Spec
<1>2. LedgerInv /\ LedgerInv' /\ [Next]_vars => [Promised!Next]_(Promised!vars)
  BY RefinesStep
<1> QED
  BY <1>1, <1>2, LedgerCorrect, PTL DEF Spec, ActsAsLedger, Promised!Spec
=============================================================================
