---------------------------- MODULE TradeDomain ----------------------------
(***************************************************************************)
(* The rules of packages/domain/src/state.ts: a trade row and the functions*)
(* that turn one row into the next.  A row holds what the decisions look   *)
(* at: the status, each milestone's status and evidence, and whether the   *)
(* row names the escrow the server is configured for.                      *)
(***************************************************************************)
EXTENDS Integers

CONSTANT Digests        \* evidence digests parties anchor

Milestones == {1, 2}

NoDigest   == "none"
Compliance == "compliance"      \* the digest of the checks a release is bound to

\* No document hashes to a digest of checks or to the absent one.
ASSUME DigestsAssumption == Digests \cap {NoDigest, Compliance} = {}

TradeStatus == {"DRAFT", "FUNDED", "ACTIVE", "COMPLETE", "HOLD"}

Milestone == [status : {"PENDING", "RELEASED"},
              evidence : Digests \cup {NoDigest, Compliance}]

Trade == [status : TradeStatus, milestones : [Milestones -> Milestone],
          bound : BOOLEAN]

CreateTrade(bound) ==
    [status |-> "DRAFT", bound |-> bound,
     milestones |-> [m \in Milestones |-> [status |-> "PENDING", evidence |-> NoDigest]]]

MarkFunded(trade) ==
    IF trade.status = "DRAFT" THEN [trade EXCEPT !.status = "FUNDED"] ELSE trade

\* Mutant: evidence of a released milestone is replaced too.
AnchorAnyMilestone(trade, m, digest) ==
    [trade EXCEPT !.milestones[m].evidence = digest]

AnchorMilestoneEvidence(trade, m, digest) ==
    IF trade.milestones[m].status = "PENDING"
    THEN [trade EXCEPT !.milestones[m].evidence = digest]
    ELSE trade

EnterHold(trade) ==
    IF trade.status \in {"FUNDED", "ACTIVE"}
    THEN [trade EXCEPT !.status = "HOLD"]
    ELSE trade

\* Mutant: a released milestone is released again.
DecideReleaseAgain(trade, m, clear) ==
    /\ clear
    /\ m = 2 => trade.milestones[1].status = "RELEASED"
    /\ trade.status \in {"FUNDED", "ACTIVE"}

\* Evidence is gathered in the same attempt, so it is never stale; `clear` says
\* that all four checks answered and passed.
DecideRelease(trade, m, clear) ==
    /\ clear
    /\ trade.milestones[m].status = "PENDING"
    /\ m = 2 => trade.milestones[1].status = "RELEASED"
    /\ trade.status \in {"FUNDED", "ACTIVE"}

\* Everything but the escrow is copied from the row the authorization is for.
AuthorizationBinds(trade) == trade.bound

MarkMilestoneReleased(trade, m) ==
    [trade EXCEPT
        !.milestones[m] = [status |-> "RELEASED", evidence |-> Compliance],
        !.status = IF m = 2 THEN "COMPLETE" ELSE IF @ = "FUNDED" THEN "ACTIVE" ELSE @]

=============================================================================
