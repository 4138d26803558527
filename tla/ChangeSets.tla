------------------------------ MODULE ChangeSets ------------------------------
(***************************************************************************)
(* The change sets of MultiActorMemoryRepository: commitCapture and its     *)
(* idempotent retry chain, rollbackChangeSet, the derived rows attached to  *)
(* a change set, and the writers that share its records.                    *)
(*                                                                         *)
(* Every call of the repository is a series of awaited reads followed by    *)
(* one atomic MemoryStore.apply with optimistic revisions, and any number   *)
(* of clients (browser tabs, a capture and the UI) run such calls at once.  *)
(* A client's call in flight is op[c]; every awaited read is a step.        *)
(*                                                                         *)
(* External (the SDK workspace): apply is atomic, a record's revision only  *)
(* grows, also over a deletion, an expected revision 0 means "absent", and  *)
(* an idempotency key that has been applied is never applied again: a second *)
(* transaction under it gets the result of the first, whatever it asks.      *)
(***************************************************************************)
EXTENDS Naturals

CONSTANTS
    Clients,        \* concurrent callers of the repository
    Batches,        \* base transaction keys, one per capture batch
    Recs,           \* business records of the chat
    JobRecs,        \* capture-jobs rows
    CandidateRecs,  \* memory-candidates rows
    StockRecs,      \* inventory states and the events that led to them
    Derived,        \* derived rows (details, links, vectors, edges, claims)
    Contents,       \* what a record can say
    NoContent,      \* content of an absent record
    NoId,           \* no change set
    Touches,        \* the records each batch writes
    DependsOn,      \* the records each derived row was computed from
    Payloads,       \* the results the extraction may produce for each batch
    MaxRetry,       \* bound: links of a retry chain
    MaxWrites       \* bound: writes from outside commits and rollbacks

Payload == [Recs -> Contents \cup {NoContent}]

ASSUME RecordKinds ==
    /\ JobRecs \subseteq Recs
    /\ CandidateRecs \subseteq Recs
    /\ StockRecs \subseteq Recs
    /\ JobRecs \cap CandidateRecs = {}
ASSUME BatchShape ==
    /\ Touches \in [Batches -> SUBSET Recs]
    /\ \A b \in Batches : Touches[b] # {}
    /\ Payloads \in [Batches -> SUBSET Payload]
    /\ DependsOn \in [Derived -> SUBSET Recs]
ASSUME Bounds ==
    /\ MaxRetry \in Nat
    /\ MaxWrites \in Nat
ASSUME Sentinels ==
    /\ NoContent \notin Contents
    /\ NoId \notin Batches \X (0..MaxRetry)

VARIABLES
    store,    \* business records: value and revision
    audits,   \* change-audits, by base key and retry attempt
    applied,  \* idempotency keys the SDK has applied; they outlive everything
    derived,  \* derived rows: the change set they are stamped with, a revision
    op,       \* the call each client has in flight
    writes    \* writes made from outside commits and rollbacks so far

vars == <<store, audits, applied, derived, op, writes>>

-----------------------------------------------------------------------------
(* Values.  The stamp stands for the status and updatedAt of a row: it is   *)
(* fresh whenever the code writes Date.now() into it.                       *)

Value == [content : Contents \cup {NoContent}, stamp : Nat]
Absent == [content |-> NoContent, stamp |-> 0]
Versioned == [val : Value, rev : Nat]
Unread == [val |-> Absent, rev |-> 0]

Ids == Batches \X (0..MaxRetry)

ASSUME NoEntry ==
    \A touched \in SUBSET Recs :
        NoId \notin [before : [touched -> Value], after : [touched -> Value]]

Audit == [status : {"none", "live", "rolledBack"},
          before : [Recs -> Value], after : [Recs -> Value],
          digest : Payload, rev : Nat]
NoPayload == [r \in Recs |-> NoContent]
AllAbsent == [r \in Recs |-> Absent]
NoAudit == [status |-> "none", before |-> AllAbsent, after |-> AllAbsent,
            digest |-> NoPayload, rev |-> 0]

\* The digest of a request covers what was extracted, not the job row.
Digest(b, payload) ==
    [r \in Recs |-> IF r \in Touches[b] \ JobRecs THEN payload[r] ELSE NoContent]

Key == [call : {"commit", "rollback"}, id : Ids]
CommitKey(id) == [call |-> "commit", id |-> id]
RollbackKey(id) == [call |-> "rollback", id |-> id]

\* read holds the rows read so far (got), seen the revisions of the derived rows
\* scanned so far; rows are those still to delete or to write; before and after
\* are the change set's, as it was loaded.
Op == [pc : {"idle", "acked", "walk", "read",
             "preflight", "reread", "scan", "rollback", "derive"},
       id : Ids \cup {NoId}, payload : Payload, retried : BOOLEAN,
       got : SUBSET Recs, read : [Recs -> Versioned],
       scanned : SUBSET Derived, seen : [Derived -> Nat], rows : SUBSET Derived,
       before : [Recs -> Value], after : [Recs -> Value], auditRev : Nat]

Idle == [pc |-> "idle", id |-> NoId, payload |-> NoPayload, retried |-> FALSE,
         got |-> {}, read |-> [r \in Recs |-> Unread],
         scanned |-> {}, seen |-> [d \in Derived |-> 0], rows |-> {},
         before |-> AllAbsent, after |-> AllAbsent, auditRev |-> 0]

Init ==
    /\ store = [r \in Recs |-> Unread]
    /\ audits = [id \in Ids |-> NoAudit]
    /\ applied = {}
    /\ derived = [d \in Derived |-> [src |-> NoId, rev |-> 0]]
    /\ op = [c \in Clients |-> Idle]
    /\ writes = 0

-----------------------------------------------------------------------------
(* MemoryStore.apply.                                                       *)

Ready(c) == op[c].pc \in {"idle", "acked"}
Batch(c) == op[c].id[1]
Attempt(c) == op[c].id[2]
Span(c) == Touches[Batch(c)]

\* Mutant: the revision of a row is not compared.
UnchangedOrNot(c, r) == TRUE

\* The precondition of one put or delete: the row is the one that was read.
Unchanged(c, r) ==
    IF op[c].read[r].val = Absent
    THEN store[r].val = Absent
    ELSE store[r] = op[c].read[r]

\* Deleting an absent row is no operation and leaves its revision alone.
Put(row, value) ==
    IF value = Absent /\ row.val = Absent THEN row ELSE [val |-> value, rev |-> row.rev + 1]

\* Mutant: the rows stay.
DropNothing(rows) == derived

Drop(rows) ==
    [d \in Derived |-> IF d \in rows THEN [src |-> NoId, rev |-> derived[d].rev + 1]
                                     ELSE derived[d]]

Becomes(c, o) == op' = [op EXCEPT ![c] = o]
Fails(c) == Becomes(c, Idle)
\* Mutant: the acknowledged change set is not named.
AcknowledgesNone(c) == Becomes(c, [Idle EXCEPT !.pc = "acked", !.payload = op[c].payload])

Acknowledges(c) ==
    Becomes(c, [Idle EXCEPT !.pc = "acked", !.id = op[c].id, !.payload = op[c].payload])

-----------------------------------------------------------------------------
(* commitCapture.                                                           *)

StartCapture(c, b, payload) ==
    /\ Ready(c)
    /\ Becomes(c, [Idle EXCEPT !.pc = "walk", !.id = <<b, 0>>, !.payload = payload])
    /\ UNCHANGED <<store, audits, applied, derived, writes>>

\* Mutants: a conflict sends the same transaction again, opens the next link of the
\* chain, or is taken for a duplicate.
ConflictsAsRead(c) == Becomes(c, op[c])
ConflictsByNextLink(c) ==
    IF Attempt(c) < MaxRetry
    THEN Becomes(c, [Idle EXCEPT !.pc = "walk", !.id = <<Batch(c), Attempt(c) + 1>>,
                                 !.payload = op[c].payload])
    ELSE Fails(c)
ConflictsAsDuplicate(c) == Acknowledges(c)

\* Does the request change the stock?
CarriesStock(digest) == \E r \in StockRecs : digest[r] # NoContent
Request(c) == Digest(Batch(c), op[c].payload)

\* A conflict makes commitCapture rebuild the transaction from fresh reads, once;
\* amounts were computed from what was read before, and are not sent again.
Conflicts(c) ==
    IF op[c].retried \/ CarriesStock(Request(c)) THEN Fails(c)
    ELSE Becomes(c, [Idle EXCEPT !.pc = "walk", !.id = <<Batch(c), 0>>,
                                 !.payload = op[c].payload, !.retried = TRUE])

\* The same request again, or one that found the stock already changed.
Repeats(request, digest) ==
    \/ digest = request
    \/ CarriesStock(digest) /\ ~CarriesStock(request)

\* One read of the retry chain: an unused link is taken, a live one that holds the
\* request is a duplicate, another live request is a conflict, and a link that was
\* rolled back leads to the next one.
WalkChain(c) ==
    /\ op[c].pc = "walk"
    /\ LET audit == audits[op[c].id] IN
         \/ /\ audit.status = "none"
            /\ Becomes(c, [op[c] EXCEPT !.pc = "read"])
         \/ /\ audit.status = "live"
            /\ IF Repeats(Request(c), audit.digest)
               THEN Acknowledges(c)
               ELSE Conflicts(c)
         \/ /\ audit.status = "rolledBack"
            /\ Attempt(c) < MaxRetry
            /\ Becomes(c, [op[c] EXCEPT !.id = <<Batch(c), Attempt(c) + 1>>])
    /\ UNCHANGED <<store, audits, applied, derived, writes>>

\* The awaited read of one record of the batch.
ReadRecord(c, r) ==
    /\ op[c].pc = "read"
    /\ r \in Span(c) \ op[c].got
    /\ Becomes(c, [op[c] EXCEPT !.got = @ \cup {r}, !.read[r] = store[r]])
    /\ UNCHANGED <<store, audits, applied, derived, writes>>

\* The value a commit writes; a job row carries the time it was written.
Committed(c, r) ==
    IF op[c].payload[r] = NoContent THEN Absent
    ELSE [content |-> op[c].payload[r],
          stamp |-> IF r \in JobRecs THEN store[r].rev + 1 ELSE 0]

\* The records, the audit (expected absent) and the job row in one transaction.
CommitApplies(c) ==
    /\ audits[op[c].id].status = "none"
    /\ \A r \in Span(c) : Unchanged(c, r)

WriteCommit(c) ==
    /\ store' = [r \in Recs |-> IF r \in Span(c) THEN Put(store[r], Committed(c, r))
                                                 ELSE store[r]]
    /\ audits' = [audits EXCEPT ![op[c].id] =
         [status |-> "live",
          before |-> [r \in Recs |-> IF r \in Span(c) THEN op[c].read[r].val ELSE Absent],
          after  |-> [r \in Recs |-> IF r \in Span(c) THEN Committed(c, r) ELSE Absent],
          digest |-> Request(c),
          rev    |-> @.rev + 1]]
    /\ applied' = applied \cup {CommitKey(op[c].id)}

ApplyCapture(c) ==
    /\ op[c].pc = "read"
    /\ op[c].got = Span(c)
    /\ \/ /\ CommitKey(op[c].id) \in applied
          /\ Acknowledges(c)
          /\ UNCHANGED <<store, audits, applied>>
       \/ /\ CommitKey(op[c].id) \notin applied
          /\ CommitApplies(c)
          /\ WriteCommit(c)
          /\ Acknowledges(c)
       \/ /\ CommitKey(op[c].id) \notin applied
          /\ ~CommitApplies(c)
          /\ Conflicts(c)
          /\ UNCHANGED <<store, audits, applied>>
    /\ UNCHANGED <<derived, writes>>

-----------------------------------------------------------------------------
(* rollbackChangeSet.                                                       *)

\* rollbackOrder: only a live change set has anything to undo.  The last link
\* of the bounded chain is never undone, so the chain never runs out.
BeginRollback(c, id) ==
    /\ Ready(c)
    /\ audits[id].status = "live"
    /\ id[2] < MaxRetry
    /\ Becomes(c, [Idle EXCEPT !.pc = "preflight", !.id = id,
                               !.before = audits[id].before, !.after = audits[id].after])
    /\ UNCHANGED <<store, audits, applied, derived, writes>>

\* preflightRollback: every record must still hold what the change set wrote.
Preflight(c, r) ==
    /\ op[c].pc = "preflight"
    /\ r \in Span(c) \ op[c].got
    /\ LET got == op[c].got \cup {r} IN
       IF store[r].val # op[c].after[r] THEN Fails(c)
       ELSE IF got = Span(c) THEN Becomes(c, [op[c] EXCEPT !.pc = "reread", !.got = {}])
       ELSE Becomes(c, [op[c] EXCEPT !.got = got])
    /\ UNCHANGED <<store, audits, applied, derived, writes>>

\* rollbackSingleChangeSet reads them again, for the revisions, and compares again.
Reread(c, r) ==
    /\ op[c].pc = "reread"
    /\ r \in Span(c) \ op[c].got
    /\ IF store[r].val # op[c].after[r] THEN Fails(c)
       ELSE LET got == op[c].got \cup {r} IN
            Becomes(c, [op[c] EXCEPT !.got = got, !.read[r] = store[r],
                                     !.pc = IF got = Span(c) THEN "scan" ELSE @])
    /\ UNCHANGED <<store, audits, applied, derived, writes>>

\* A derived row goes with the change set it is stamped with, and with any change
\* set that touches a record it was computed from.
StaleRow(id, d) ==
    /\ derived[d].src # NoId
    /\ \/ derived[d].src = id
       \/ DependsOn[d] \cap Touches[id[1]] # {}

ScanDerived(c, d) ==
    /\ op[c].pc = "scan"
    /\ d \in Derived \ op[c].scanned
    /\ Becomes(c, [op[c] EXCEPT !.scanned = @ \cup {d}, !.seen[d] = derived[d].rev,
                                !.rows = IF StaleRow(op[c].id, d) THEN @ \cup {d} ELSE @])
    /\ UNCHANGED <<store, audits, applied, derived, writes>>

ReadAudit(c) ==
    /\ op[c].pc = "scan"
    /\ op[c].scanned = Derived
    /\ Becomes(c, [op[c] EXCEPT !.pc = "rollback", !.auditRev = audits[op[c].id].rev])
    /\ UNCHANGED <<store, audits, applied, derived, writes>>

\* What a record becomes: a candidate that is there is marked, a job is restored
\* as paused, any other record (also one that was absent) becomes what it was.
Restored(c, r) ==
    LET before == op[c].before[r]
        now == op[c].read[r].val
        fresh == store[r].rev + 1
    IN CASE r \in CandidateRecs /\ now # Absent -> [content |-> now.content, stamp |-> fresh]
         [] r \in JobRecs /\ before # Absent    -> [content |-> before.content, stamp |-> fresh]
         [] OTHER                               -> before

RollbackApplies(c) ==
    /\ \A r \in Span(c) : Unchanged(c, r)
    /\ \A d \in op[c].rows : derived[d].rev = op[c].seen[d]
    /\ audits[op[c].id].rev = op[c].auditRev

WriteRollback(c) ==
    /\ store' = [r \in Recs |-> IF r \in Span(c) THEN Put(store[r], Restored(c, r))
                                                 ELSE store[r]]
    /\ derived' = Drop(op[c].rows)
    /\ audits' = [audits EXCEPT ![op[c].id] =
         [status |-> "rolledBack", before |-> op[c].before, after |-> op[c].after,
          digest |-> @.digest, rev |-> @.rev + 1]]
    /\ applied' = applied \cup {RollbackKey(op[c].id)}

ApplyRollback(c) ==
    /\ op[c].pc = "rollback"
    /\ IF RollbackKey(op[c].id) \notin applied /\ RollbackApplies(c)
       THEN WriteRollback(c)
       ELSE UNCHANGED <<store, audits, applied, derived>>
    /\ Fails(c)
    /\ UNCHANGED writes

-----------------------------------------------------------------------------
(* Derived rows and the other writers.                                      *)

\* upsertDerivedForChangeSet looks at the audit once ...
StartDerive(c, id, rows) ==
    /\ Ready(c)
    /\ writes < MaxWrites
    /\ audits[id].status = "live"
    /\ Becomes(c, [Idle EXCEPT !.pc = "derive", !.id = id, !.rows = rows])
    /\ writes' = writes + 1
    /\ UNCHANGED <<store, audits, applied, derived>>

\* ... and then writes collection after collection, with no precondition.
WriteDerived(c, d) ==
    /\ op[c].pc = "derive"
    /\ d \in op[c].rows
    /\ derived' = [derived EXCEPT ![d] = [src |-> op[c].id, rev |-> @.rev + 1]]
    /\ LET rest == op[c].rows \ {d} IN
       Becomes(c, IF rest = {} THEN Idle ELSE [op[c] EXCEPT !.rows = rest])
    /\ UNCHANGED <<store, audits, applied, writes>>

\* A manual edit or removal of a fact also drops the rows derived from it.
EditRecord(r, content) ==
    /\ writes < MaxWrites
    /\ r \in Recs \ JobRecs
    /\ store' = [store EXCEPT ![r] = Put(@, [content |-> content, stamp |-> 0])]
    /\ derived' = Drop({d \in Derived : derived[d].src # NoId /\ r \in DependsOn[d]})
    /\ writes' = writes + 1
    /\ UNCHANGED <<audits, applied, op>>

\* upsertCaptureJob: the workflow saves its progress.
PersistJob(j, content) ==
    /\ writes < MaxWrites
    /\ store' = [store EXCEPT ![j] = Put(@, [content |-> content, stamp |-> @.rev + 1])]
    /\ writes' = writes + 1
    /\ UNCHANGED <<audits, applied, derived, op>>

\* updateCaptureAuditRejections: recount the job row and keep the change set
\* undoable if the row was still its own.
ResolveRejections(id, j) ==
    /\ writes < MaxWrites
    /\ audits[id].status = "live"
    /\ store[j].val # Absent
    /\ LET new == [store[j].val EXCEPT !.stamp = store[j].rev + 1]
           own == j \in Touches[id[1]] /\ audits[id].after[j] = store[j].val
       IN /\ store' = [store EXCEPT ![j] = Put(@, new)]
          /\ audits' = [audits EXCEPT ![id].after[j] = IF own THEN new ELSE @,
                                     ![id].rev = @ + 1]
    /\ writes' = writes + 1
    /\ UNCHANGED <<applied, derived, op>>

\* The tab is closed or reloaded: the call is gone, what it applied stays.
Crash(c) ==
    /\ ~Ready(c)
    /\ Fails(c)
    /\ UNCHANGED <<store, audits, applied, derived, writes>>

-----------------------------------------------------------------------------
Advance(c) ==
    \/ WalkChain(c)
    \/ \E r \in Recs : ReadRecord(c, r) \/ Preflight(c, r) \/ Reread(c, r)
    \/ ApplyCapture(c)
    \/ \E d \in Derived : ScanDerived(c, d) \/ WriteDerived(c, d)
    \/ ReadAudit(c)
    \/ ApplyRollback(c)

Begin(c) ==
    \/ \E b \in Batches : \E payload \in Payloads[b] : StartCapture(c, b, payload)
    \/ \E id \in Ids : BeginRollback(c, id)
    \/ \E id \in Ids, rows \in (SUBSET Derived) \ {{}} : StartDerive(c, id, rows)

Outside ==
    \/ \E r \in Recs, content \in Contents \cup {NoContent} : EditRecord(r, content)
    \/ \E j \in JobRecs, content \in Contents : PersistJob(j, content)
    \/ \E id \in Ids, j \in JobRecs : ResolveRejections(id, j)

Next ==
    \/ \E c \in Clients : Advance(c) \/ Begin(c) \/ Crash(c)
    \/ Outside

Spec == Init /\ [][Next]_vars

\* Every awaited read and apply returns, so a call that was made goes on.
FairSpec == Spec /\ \A c \in Clients : WF_vars(Advance(c))

-----------------------------------------------------------------------------
(* Properties.                                                              *)

\* The state has the declared shape.
TypeOK ==
    /\ store \in [Recs -> Versioned]
    /\ audits \in [Ids -> Audit]
    /\ applied \in SUBSET Key
    /\ derived \in [Derived -> [src : Ids \cup {NoId}, rev : Nat]]
    /\ op \in [Clients -> Op]
    /\ \A c \in Clients : op[c].pc # "idle" => op[c].id \in Ids
    /\ writes \in 0..MaxWrites

\* The retry chain is exactly-once: however captures of one batch, their retries
\* and rollbacks interleave, at most one link of its chain is live, and every
\* earlier link was rolled back.
OneLiveLink ==
    \A b \in Batches : \A n, m \in 0..MaxRetry :
        n < m /\ audits[<<b, m>>].status # "none" => audits[<<b, n>>].status = "rolledBack"

\* A caller told that its capture is stored was not told so about another
\* extraction of the batch: a link of the chain holds its request, or a capture
\* that had already changed the stock the request leaves alone.
AckedIsStored ==
    \A c \in Clients : op[c].pc = "acked" =>
        \E n \in 0..MaxRetry :
            LET audit == audits[<<Batch(c), n>>] IN
            /\ audit.status # "none"
            /\ Repeats(Request(c), audit.digest)

\* Rolling a change set back leaves none of its derived rows behind (comment in
\* rollbackSingleChangeSet, lines 1989-1991).
NoOrphans ==
    \A d \in Derived : derived[d].src # NoId => audits[derived[d].src].status = "live"

\* Every call ends, whatever the others do: a conflict is retried once only.
CallsEnd == \A c \in Clients : ~Ready(c) ~> Ready(c)

-----------------------------------------------------------------------------
(* The refinement: the change set of a batch is the live link of its chain.  *)

LiveLinks(b) == {n \in 0..MaxRetry : audits[<<b, n>>].status = "live"}
Entry(b, audit) ==
    [before |-> [r \in Touches[b] |-> audit.before[r]],
     after  |-> [r \in Touches[b] |-> audit.after[r]]]

Mem == [r \in Recs |-> store[r].val]
Ledger ==
    [b \in Batches |->
        IF LiveLinks(b) = {} THEN NoId
        ELSE Entry(b, audits[<<b, CHOOSE n \in LiveLinks(b) : TRUE>>])]

Promised == INSTANCE UndoLedger WITH None <- NoId, mem <- Mem, ledger <- Ledger

\* Commits and rollbacks behave like the ledger: a change set remembers exactly
\* the values it replaced, and an undo never destroys a value written later.
ActsAsLedger == Promised!Spec
=============================================================================
