--------------------------- MODULE MilestonePayout ---------------------------
(***************************************************************************)
(* What the escrow promises, without calls, accounting or signatures: a    *)
(* pot of tokens from which two milestones are paid, each once, in order,  *)
(* in full and only while the compliance gate is open; every token leaving *)
(* the pot spends one authorization that was never spent before            *)
(* (docs/engineering/security-model.md, "Release Invariant").              *)
(***************************************************************************)
EXTENDS Integers

CONSTANTS M1, M2

VARIABLES
    pot,        \* tokens held
    paid,       \* milestones paid so far: 0, 1 or 2
    gate,       \* do both parties pass the validator?
    spent       \* authorizations that have moved tokens

vars == <<pot, paid, gate, spent>>

Due(m) == IF m = 1 THEN M1 ELSE M2

Init == pot = 0 /\ paid = 0 /\ gate \in BOOLEAN /\ spent = {}

Deposit ==
    /\ pot' > pot
    /\ UNCHANGED <<paid, gate, spent>>

\* One authorization not spent before is spent now.
Spend == \E id \in spent' : id \notin spent /\ spent' = spent \cup {id}

Pay ==
    /\ gate
    /\ paid < 2
    /\ pot >= Due(paid + 1)
    /\ pot' = pot - Due(paid + 1)
    /\ paid' = paid + 1
    /\ Spend
    /\ UNCHANGED gate

Refund ==
    /\ 0 <= pot' /\ pot' < pot
    /\ Spend
    /\ UNCHANGED <<paid, gate>>

GateMoves == gate' \in BOOLEAN /\ UNCHANGED <<pot, paid, spent>>

Next == Deposit \/ Pay \/ Refund \/ GateMoves

Spec == Init /\ [][Next]_vars

=============================================================================
