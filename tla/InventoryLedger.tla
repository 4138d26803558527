-------------------------- MODULE InventoryLedger --------------------------
(***************************************************************************)
(* The stock of one item in one chat: a state for each unit, rewritten by  *)
(* commands of the user and by captures, and an event for every change and *)
(* for what is only of historical interest. A command compares the revision*)
(* the user saw and the versions it read; a capture computes new states    *)
(* from what it read before the model call, in the way that the states it  *)
(* finds after the call suggest, and reads the versions it expects only    *)
(* when it commits.                                                        *)
(***************************************************************************)
EXTENDS Integers, Sequences

CONSTANTS Units,               \* "none" is the empty unit
          StockCommands,       \* what the user may enter
          Messages, Readings,  \* what the model may read in a message
          NoAmount, NoStock,
          MaxStockCommands, MaxStockJobs

VARIABLES item,        \* status of the item's row
          stock,       \* inventory-states: by unit key
          entries,     \* inventory-events; at is the revision it led to, or 0
          committed,   \* capture jobs whose transaction was applied
          reading,     \* the capture in flight
          command,     \* the command in flight
          stockCommands,
          overtaken,   \* history: a capture replaced a state that was newer than it read
          counted      \* history: how often an operation of a message was recorded
inventoryVars == <<item, stock, entries, committed, reading, command, stockCommands, overtaken, counted>>

(* The two writers spell the key of the empty unit differently. *)
inventoryUnitKey(u) == IF u = "none" THEN "" ELSE u
captureUnitKey(u) == IF u = "none" THEN "unitless" ELSE u
UnitKeys == (Units \ {"none"}) \cup {"", "unitless"}
StockJobs == 1..MaxStockJobs
SaidIn(r) == {r.said[i] : i \in DOMAIN r.said} \cup {r.snapshot[i] : i \in DOMAIN r.snapshot}
OperationIds == {o.id : o \in UNION {SaidIn(r) : r \in UNION {Readings[m] : m \in Messages}}}
Precisions == {"exact", "approximate", "unknown"}
Operations == {"set", "increase", "decrease", "remove"}
Ordered == [operation : Operations, amount : Nat, unit : Units, precision : Precisions]
Said == [id : OperationIds, operation : Operations, amount : Nat, unit : Units, precision : Precisions]
Stocks == [amount : Nat \cup {NoAmount}, unit : Units, precision : Precisions,
           availability : {"active", "unknown", "absent"}, revision : Nat \ {0}]

\* What the user and the model may ask for.
ASSUME StockShape ==
    /\ StockCommands \subseteq Ordered
    /\ \A m \in Messages : \A r \in Readings[m] :
         r.candidate \in {"none", "sure", "unsure"} /\ r.said \in Seq(Said) /\ r.snapshot \in Seq(Said)
    /\ NoStock \notin Stocks
    /\ MaxStockCommands \in Nat /\ MaxStockJobs \in Nat

Stocked(a, u, p, v, n) == [amount |-> a, unit |-> u, precision |-> p, availability |-> v, revision |-> n]
RevisionOf(s) == IF s = NoStock THEN 0 ELSE s.revision
AmountOf(s) == IF s = NoStock THEN NoAmount ELSE s.amount
Unplanned == [outcome |-> "unplanned", found |-> NoStock, key |-> "none"]
NoReading == [step |-> "none", job |-> 0]
NoCommand == [step |-> "none"]

InventoryTypeOK ==
    /\ item \in {"none", "pending", "confirmed", "invalid"}
    /\ \A k \in UnitKeys : stock[k] # NoStock =>
         /\ stock[k].amount = NoAmount \/ stock[k].amount \in Nat
         /\ stock[k].precision \in Precisions /\ stock[k].availability \in {"active", "unknown", "absent"}
    /\ committed \subseteq StockJobs
    /\ reading.step \in {"none", "read", "planned", "versions"} /\ reading.job \in 0..MaxStockJobs
    /\ command.step \in {"none", "asked", "read"} /\ stockCommands \in 0..MaxStockCommands
    /\ overtaken \in BOOLEAN

InventoryInit ==
    /\ item = "none" /\ stock = [k \in UnitKeys |-> NoStock] /\ entries = {}
    /\ committed = {}
    /\ reading = NoReading /\ command = NoCommand /\ stockCommands = 0
    /\ overtaken = FALSE /\ counted = [o \in OperationIds |-> 0]

-----------------------------------------------------------------------------
(* The user. *)
createInventoryItem ==
    /\ item = "none" /\ item' = "confirmed"
    /\ UNCHANGED <<stock, entries, committed, reading, command, stockCommands, overtaken, counted>>

invalidateInventoryItem ==
    /\ item \in {"pending", "confirmed"} /\ item' = "invalid"
    /\ UNCHANGED <<stock, entries, committed, reading, command, stockCommands, overtaken, counted>>

\* The page takes the state of the same unit that it shows.
Shown(u) == {k \in UnitKeys : stock[k] # NoStock /\ stock[k].unit = u}
AskCommand(c) ==
    /\ item \in {"pending", "confirmed"} /\ command = NoCommand
    /\ stockCommands < MaxStockCommands /\ stockCommands' = stockCommands + 1
    /\ \/ Shown(c.unit) = {} /\ command' = [step |-> "asked", of |-> c, saw |-> NoStock]
       \/ \E k \in Shown(c.unit) : command' = [step |-> "asked", of |-> c, saw |-> stock[k]]
    /\ UNCHANGED <<item, stock, entries, committed, reading, overtaken, counted>>

AfterCommand(c, before) ==
    IF c.operation = "increase" THEN before.amount + c.amount
    ELSE IF c.operation = "decrease" THEN before.amount - c.amount
    ELSE IF c.operation = "remove" \/ c.precision = "unknown" THEN NoAmount ELSE c.amount
CommandFits(c, before) ==
    c.operation \in {"increase", "decrease"} =>
        /\ before # NoStock
        /\ before.availability = "active" /\ before.precision = "exact"
        /\ AfterCommand(c, before) >= 0
\* Mutant: whatever revision is stored is accepted.
ReadAnyRevision ==
    /\ command.step = "asked"
    /\ LET before == stock[inventoryUnitKey(command.of.unit)]
       IN  IF item \in {"none", "invalid"} \/ ~CommandFits(command.of, before) THEN command' = NoCommand
           ELSE command' = [step |-> "read", of |-> command.of, saw |-> command.saw, before |-> before]
    /\ UNCHANGED <<item, stock, entries, committed, reading, stockCommands, overtaken, counted>>
ReadForCommand ==
    /\ command.step = "asked"
    /\ LET before == stock[inventoryUnitKey(command.of.unit)]
       IN  IF \/ item \in {"none", "invalid"}
              \/ RevisionOf(command.saw) # RevisionOf(before)
              \/ ~CommandFits(command.of, before)
           THEN command' = NoCommand
           ELSE command' = [step |-> "read", of |-> command.of, saw |-> command.saw, before |-> before]
    /\ UNCHANGED <<item, stock, entries, committed, reading, stockCommands, overtaken, counted>>

\* The command's transaction expects the version of the state it read.
applyInventoryCommand ==
    /\ command.step = "read" /\ command' = NoCommand
    /\ LET c == command.of
           k == inventoryUnitKey(c.unit)
           after == AfterCommand(c, command.before)
           n == RevisionOf(command.before) + 1
           precision == IF c.operation = "remove" /\ command.before # NoStock THEN command.before.precision ELSE c.precision
           availability == IF c.operation = "remove" THEN "absent" ELSE IF c.precision = "unknown" THEN "unknown" ELSE "active"
       IN  IF stock[k] # command.before THEN UNCHANGED <<stock, entries>>
           ELSE /\ stock' = [stock EXCEPT ![k] = Stocked(after, c.unit, precision, availability, n)]
                /\ entries' = entries \cup {[id |-> <<"command", stockCommands>>, key |-> k, at |-> n,
                                             before |-> AmountOf(command.before), after |-> after]}
    /\ UNCHANGED <<item, committed, reading, stockCommands, overtaken, counted>>

-----------------------------------------------------------------------------
(* A capture of a message; a failed one is sent again under its own job or *)
(* by a later one. The item, its states and the events are read first.     *)
ReadStock(m, r, j) ==
    /\ reading.step = "none" /\ r \in Readings[m]
    /\ \/ j = reading.job + 1
       \/ j = reading.job /\ j > 0
    /\ reading' = [step |-> "read", job |-> j, message |-> m, of |-> r, item |-> item, stock |-> stock,
                   ids |-> {e.id : e \in entries}]
    /\ UNCHANGED <<item, stock, entries, committed, command, stockCommands, overtaken, counted>>

(* After the model call the planner reads the states again and compares    *)
(* what the model said with the first one of the item, in the store's      *)
(* order: what is older than the state is history (a state that has changed*)
(* meanwhile is younger than the message), and what the model said when    *)
(* its own readings have gone stale is left for review.                    *)
PlannedAs(p) ==
    reading' = [step |-> "planned", job |-> reading.job, message |-> reading.message, of |-> reading.of,
                item |-> reading.item, stock |-> reading.stock, ids |-> reading.ids, plan |-> p]
PlanUpdates ==
    /\ reading.step = "read"
    /\ LET listed == {k \in UnitKeys : reading.item # "none" /\ stock[k] # NoStock}
       IN  \/ reading.of.snapshot # << >> /\ PlannedAs(Unplanned)
           \/ /\ reading.of.snapshot = << >> /\ listed = {}
              /\ \E outcome \in {"stale", "current"} :
                    PlannedAs([outcome |-> outcome, found |-> NoStock, key |-> "none"])
           \/ /\ reading.of.snapshot = << >>
              /\ \E k \in listed, outcome \in {"stale", "current", "history"} :
                    /\ stock[k] # reading.stock[k] => outcome # "current"
                    /\ PlannedAs([outcome |-> outcome, found |-> stock[k], key |-> k])
    /\ UNCHANGED <<item, stock, entries, committed, command, stockCommands, overtaken, counted>>

\* What is said already, or of another unit than the state, is not carried out.
Pointless(p, o) ==
    IF p.found = NoStock THEN o.operation = "remove" \/ (o.operation = "set" /\ o.precision = "unknown")
    ELSE \/ p.key # "" /\ o.unit # "none" /\ p.key # o.unit
         \/ /\ o.operation = "set" /\ o.precision # "unknown"
            /\ o.amount = p.found.amount /\ o.precision = p.found.precision
         \/ o.operation = "remove" /\ p.found.availability = "absent"
         \/ o.operation \in {"increase", "decrease"} /\ o.amount = 0
Dropped(p, o) == p.outcome = "stale" \/ (p.outcome # "unplanned" /\ Pointless(p, o))

(* An explicit snapshot of the message takes the place of what the model   *)
(* says of the same item; it is not planned.                               *)
mergeDeterministicInventory(r) == IF r.snapshot = << >> THEN r.said ELSE r.snapshot

\* An item that was voided is not restored, and its operations are dropped.
ItemUsable(r) == r.item # "invalid" /\ (r.item # "none" \/ r.of.candidate # "none" \/ r.of.snapshot # << >>)
ItemAfter(r) ==
    IF r.of.snapshot # << >> THEN IF r.item = "none" THEN "confirmed" ELSE "kept"
    ELSE IF r.of.candidate = "sure" THEN "confirmed"
    ELSE IF r.of.candidate = "unsure" THEN "pending" ELSE "kept"

\* One operation on what was computed so far.
Unit(o, s) == LET shown == {k \in UnitKeys : s[k] # NoStock}
              IN  IF o.unit # "none" \/ shown = {} THEN o.unit ELSE s[CHOOSE k \in shown : TRUE].unit
Follows(o, before) ==
    o.operation \in {"increase", "decrease"} =>
        /\ before # NoStock
        /\ before.precision = "exact" /\ before.amount # NoAmount
        /\ AfterCommand(o, before) >= 0
Operated(acc, o) ==
    LET u == Unit(o, acc.stock)
        k == captureUnitKey(u)
        before == acc.stock[k]
        n == RevisionOf(before) + 1
    IN  IF Dropped(acc.plan, o) THEN acc
        ELSE IF acc.plan.outcome = "history"
        THEN [stock |-> acc.stock, ids |-> acc.ids \cup {<<"said", o.id>>}, keys |-> acc.keys, plan |-> acc.plan,
              new |-> acc.new \cup {[id |-> <<"said", o.id>>, key |-> k, at |-> 0,
                                    before |-> AmountOf(before), after |-> NoAmount]}]
        ELSE IF ~Follows(o, before) THEN acc
        ELSE LET after == AfterCommand(o, before)
                 availability == IF o.operation = "remove" THEN "absent" ELSE IF o.precision = "unknown" THEN "unknown" ELSE "active"
             IN  [stock |-> [acc.stock EXCEPT ![k] = Stocked(after, u, o.precision, availability, n)],
                  ids |-> acc.ids \cup {<<"said", o.id>>}, keys |-> acc.keys \cup {k}, plan |-> acc.plan,
                  new |-> acc.new \cup {[id |-> <<"said", o.id>>, key |-> k, at |-> n, before |-> AmountOf(before), after |-> after]}]
OperatedOnce(acc, o) == IF <<"said", o.id>> \in acc.ids THEN acc ELSE Operated(acc, o)
Course(start, said) ==
    LET upto[n \in 0..Len(said)] == IF n = 0 THEN start ELSE OperatedOnce(upto[n - 1], said[n])
    IN  upto[Len(said)]
Computed(r) == LET start == [stock |-> r.stock, ids |-> r.ids, keys |-> {}, plan |-> r.plan, new |-> {}]
               IN  IF ItemUsable(r) THEN Course(start, mergeDeterministicInventory(r.of)) ELSE start

(* commitCapture: a job that committed before changes nothing; it is       *)
(* acknowledged when the request is the same, or when all that is missing  *)
(* is the inventory that is there already, and fails otherwise. A conflict *)
(* fails a capture that writes states; without any it is tried again.      *)
Acknowledged(r) == r.job \in committed
CommitVersions ==
    /\ reading.step = "planned"
    /\ reading' = IF Acknowledged(reading) THEN [reading EXCEPT !.step = "none"]
                  ELSE [step |-> "versions", job |-> reading.job, message |-> reading.message, of |-> reading.of,
                        item |-> reading.item, stock |-> reading.stock, ids |-> reading.ids, plan |-> reading.plan,
                        itemNow |-> item, stockNow |-> stock]
    /\ UNCHANGED <<item, stock, entries, committed, command, stockCommands, overtaken, counted>>

\* Mutant: the versions are not compared.
StockUnmoved(keys) == TRUE
StockAsRead(keys) == \A k \in keys : stock[k] = reading.stockNow[k]
CommitStock ==
    /\ reading.step = "versions"
    /\ reading' = [step |-> "none", job |-> reading.job]
    /\ LET done == Computed(reading)
           written == IF ItemUsable(reading) THEN ItemAfter(reading) ELSE "kept"
           moved == ~StockAsRead(done.keys) \/ (written # "kept" /\ item # reading.itemNow)
       IN  IF done.keys # {} /\ moved
           THEN UNCHANGED <<item, stock, entries, committed, overtaken, counted>>
           ELSE /\ item' = IF written = "kept" THEN item ELSE written
                /\ stock' = [k \in UnitKeys |-> IF k \in done.keys THEN done.stock[k] ELSE stock[k]]
                /\ entries' = entries \cup done.new
                /\ committed' = committed \cup {reading.job}
                /\ overtaken' = (overtaken \/ \E k \in done.keys : reading.stockNow[k] # reading.stock[k])
                /\ counted' = [o \in OperationIds |-> counted[o] + IF \E e \in done.new : e.id = <<"said", o>> THEN 1 ELSE 0]
    /\ UNCHANGED <<command, stockCommands>>

InventoryNext ==
    \/ createInventoryItem \/ invalidateInventoryItem
    \/ \E c \in StockCommands : AskCommand(c)
    \/ ReadForCommand \/ applyInventoryCommand
    \/ \E m \in Messages : \E r \in Readings[m], j \in StockJobs : ReadStock(m, r, j)
    \/ PlanUpdates \/ CommitVersions \/ CommitStock
InventorySpec == InventoryInit /\ [][InventoryNext]_inventoryVars

-----------------------------------------------------------------------------
(* The events of a unit tell how its state came to be: beside those kept   *)
(* for history alone there is one for each revision, each from the amount  *)
(* the one before led to.                                                  *)
LedgerAddsUp ==
    ~overtaken =>
    \A k \in UnitKeys :
        LET of == {e \in entries : e.key = k /\ e.at # 0}
            at(n) == CHOOSE e \in of : e.at = n
        IN  /\ {e.at : e \in of} = 1..RevisionOf(stock[k])
            /\ \A e, f \in of : e.at = f.at => e = f
            /\ \A e \in of : e.before = IF e.at = 1 THEN NoAmount ELSE at(e.at - 1).after
            /\ stock[k] # NoStock => at(stock[k].revision).after = stock[k].amount

(* What a message says is recorded once, as a change or as history, however *)
(* often the message is captured, also when a committed capture is reported *)
(* as failed.                                                              *)
CountedOnce == \A o \in OperationIds : counted[o] <= 1

(* A command that names a unit is applied to the state the user saw, or    *)
(* not at all.                                                             *)
EditsWhatWasSeen ==
    (command.step = "read" /\ command' = NoCommand /\ stock' # stock /\ command.of.unit # "none" /\ ~overtaken)
        => command.saw = stock[inventoryUnitKey(command.of.unit)]

(* A capture that began after the user voided the item changes nothing.    *)
VoidedStays ==
    (item = "invalid" /\ (reading.step # "none" => reading.item = "invalid"))
        => item' = "invalid" /\ (reading # reading' => stock' = stock)

(* The amounts are those the events lead to. *)
StockSound == InventoryTypeOK /\ LedgerAddsUp

(* What may change the stock of an item, and how often. *)
StockKept == /\ []CountedOnce
             /\ [][EditsWhatWasSeen /\ VoidedStays]_inventoryVars

(* A capture never replaces a state that was corrected after it was read:  *)
(* new amounts are computed from a concrete prior revision.                *)
CorrectionsSurvive == ~overtaken
=============================================================================
