----------------------------- MODULE MCLedgers -----------------------------
(* The ledgers of a chat: rows that captures, edits and removals of the user *)
(* rewrite, and the recall details of its replies, which follow the host's   *)
(* chat; under them the batches of captures, in two windows at once.         *)
(* They are kept apart, so a behaviour follows one of them (part) and leaves *)
(* the others as they are.                                                  *)
EXTENDS MCChangeSets, FactLedger, InventoryLedger, GenerationDetails

VARIABLE part
ledgerVars == <<vars, factVars, inventoryVars, detailVars, part>>

ClaimOf(id, text, at, mutable, sure) ==
    [id |-> id, text |-> text, at |-> at, mutable |-> mutable, sure |-> sure, known |-> TRUE, approved |-> FALSE]
SlotClaims == {ClaimOf("k1", "x", 1, TRUE, 2), ClaimOf("k2", "y", 2, TRUE, 2), ClaimOf("k3", "z", 2, FALSE, 1)}

Enter(change, n, u, p) == [operation |-> change, amount |-> n, unit |-> u, precision |-> p]
Entered == {Enter("set", 2, "each", "exact"), Enter("decrease", 1, "each", "exact"),
            Enter("set", 0, "none", "unknown"), Enter("remove", 0, "each", "exact")}
Say(id, change, n, u, p) == [id |-> id, operation |-> change, amount |-> n, unit |-> u, precision |-> p]
Reads(candidate, snapshot, said) == [candidate |-> candidate, snapshot |-> snapshot, said |-> said]
More == Say("i", "increase", 1, "each", "exact")
Told == [m \in {"m1", "m2"} |->
           IF m = "m1" THEN {Reads("sure", << >>, <<Say("s", "set", 3, "none", "exact")>>), Reads("unsure", << >>, << >>)}
           ELSE {Reads("none", << >>, <<More, Say("r", "remove", 0, "none", "exact")>>),
                 Reads("none", <<Say("t", "set", 1, "each", "exact")>>, <<More>>)}]

MCInit == /\ Init /\ FactInit /\ InventoryInit /\ DetailInit
          /\ part \in {"batches", "facts", "stock", "details"}
MCNext == \/ part = "batches" /\ Next /\ UNCHANGED <<factVars, inventoryVars, detailVars, part>>
          \/ part = "facts" /\ FactNext /\ UNCHANGED <<vars, inventoryVars, detailVars, part>>
          \/ part = "stock" /\ InventoryNext /\ UNCHANGED <<vars, factVars, detailVars, part>>
          \/ part = "details" /\ DetailNext /\ UNCHANGED <<vars, factVars, inventoryVars, part>>
MCSpec == MCInit /\ [][MCNext]_ledgerVars
=============================================================================
