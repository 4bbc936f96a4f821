-------------------------- MODULE BridgeSureEscrow --------------------------
(***************************************************************************)
(* The escrow contract of contracts/src/BridgeSureEscrow.sol: custody of   *)
(* one trade's CVA tokens, paid out in two milestones against              *)
(* authorizations signed by the release signer, each payout gated by the   *)
(* validator.                                                              *)
(*                                                                         *)
(* A call that reverts leaves no trace on the chain, so every `revert` of  *)
(* the source is a conjunct of the action's guard and a reverting call is  *)
(* no step at all.  A value-moving call is split at the one point where    *)
(* foreign code runs, the token transfer: the Call action performs what    *)
(* the source does before it, the Return action what it does after it, and *)
(* `frames` is the stack of calls waiting for their transfer.  Only calls  *)
(* made by that foreign code can happen in between; other transactions,    *)
(* the validator and the clock wait until the stack is empty.              *)
(***************************************************************************)
EXTENDS Integers, Sequences

CONSTANTS
    M1, M2,             \* milestoneOneAmount, milestoneTwoAmount
    HoldDuration,       \* constructor argument: 0 for no initial hold
    FundAmounts,        \* the amounts anyone passes to fund()
    Authorizations,     \* the authorizations anyone presents
    ImporterFunds,      \* the importer's token balance at deployment
    MaxTime             \* bound: block timestamps are 0..MaxTime

Parties    == {"importer", "exporter"}
Accounts   == Parties \cup {"escrow"}
Callers    == Parties \cup {"admin"}
Milestones == {1, 2}

\* Fields of an authorization that may disagree with the escrow's immutables;
\* a wrong signature, domain or chain shows up as a wrong signer.
Fields == {"tradeId", "party", "token", "signer"}

Authorization ==
    [milestoneId : Nat, amount : Nat, nonce : Nat, expiry : Nat,
     wrong : SUBSET Fields]

ASSUME AmountsAssumption ==
    /\ M1 \in Nat \ {0}
    /\ M2 \in Nat \ {0}
    /\ HoldDuration \in Nat
    /\ ImporterFunds \in Nat
    /\ MaxTime \in Nat
    /\ FundAmounts \subseteq Nat
    /\ Authorizations \subseteq Authorization

VARIABLES
    fundedAmount, releasedAmount, funded, milestoneReleased, usedNonces, held,
    frames,             \* calls waiting for their token transfer, innermost first
    balance,            \* token balances
    validator,          \* the CVI validator's view of this pool and its users
    policyAccepts,      \* what the token's canTransfer answers, if it has one
    now

escrowVars == <<fundedAmount, releasedAmount, funded, milestoneReleased,
                usedNonces, held>>
worldVars  == <<validator, policyAccepts, now>>
vars       == <<escrowVars, frames, balance, worldVars>>

Frame == [op : {"fund", "release", "refund"}, amount : Nat, milestoneId : Nat,
          nonce : Nat]

TypeOK ==
    /\ fundedAmount \in Nat
    /\ releasedAmount \in Nat
    /\ funded \in BOOLEAN
    /\ milestoneReleased \in [Milestones -> BOOLEAN]
    /\ usedNonces \in SUBSET (Nat \X Nat)
    /\ held \in BOOLEAN
    /\ frames \in Seq(Frame)
    /\ balance \in [Accounts -> Nat]
    /\ validator \in [registered : BOOLEAN, paused : BOOLEAN,
                      eligible : SUBSET Parties]
    /\ policyAccepts \in BOOLEAN
    /\ now \in Nat

\* The constructor; the token hook is absent or accepting when policyAccepts.
Init ==
    /\ fundedAmount = 0
    /\ releasedAmount = 0
    /\ funded = FALSE
    /\ milestoneReleased = [m \in Milestones |-> FALSE]
    /\ usedNonces = {}
    /\ held = (HoldDuration > 0)
    /\ frames = << >>
    /\ balance = [a \in Accounts |-> IF a = "importer" THEN ImporterFunds ELSE 0]
    /\ validator = [registered |-> FALSE, paused |-> FALSE, eligible |-> Parties]
    /\ policyAccepts = TRUE
    /\ now = 0

-----------------------------------------------------------------------------
(* The checks the value-moving calls share.                                *)

\* Mutant: a call may come in while another waits for its transfer.
ReentrancyAllowed == Len(frames) < 2

NonReentrant == frames = << >>

MilestoneAmount(m) == IF m = 1 THEN M1 ELSE M2

NonceKey(auth) == <<auth.milestoneId, auth.nonce>>

\* Mutant: the nonce is consumed but never looked up.
AuthorizationReplayable(auth) ==
    /\ auth.expiry >= now
    /\ auth.wrong = {}

\* _verifyAuthorization up to the point where it marks the nonce.
AuthorizationVerified(auth) ==
    /\ NonceKey(auth) \notin usedNonces             \* AuthorizationReplay
    /\ auth.expiry >= now                           \* AuthorizationExpired
    /\ "tradeId" \notin auth.wrong                  \* WrongTrade
    /\ "party" \notin auth.wrong                    \* WrongParty
    /\ "token" \notin auth.wrong                    \* WrongToken
    /\ "signer" \notin auth.wrong                   \* UnauthorizedSigner

ConsumeNonce(auth) == usedNonces' = usedNonces \cup {NonceKey(auth)}

\* complianceVerify reverts for an unregistered or paused pool.
ComplianceVerified(participant) ==
    /\ validator.registered /\ ~validator.paused
    /\ participant \in validator.eligible

Transfer(from, to, amount) ==
    /\ balance[from] >= amount
    /\ balance' = [balance EXCEPT ![from] = @ - amount, ![to] = @ + amount]

Push(frame) == frames' = <<frame>> \o frames

\* The innermost pending call is op: finish it with its transfer.
Pop(op) ==
    /\ frames # << >>
    /\ Head(frames).op = op
    /\ frames' = Tail(frames)

-----------------------------------------------------------------------------
(* fund: the transfer comes before the effects, so the guard alone keeps   *)
(* a second deposit out.                                                   *)

FundCall(sender, amount) ==
    /\ NonReentrant
    /\ ~funded                                      \* TradeNotFunded
    /\ amount # 0                                   \* ZeroAmount
    /\ sender = "importer"                          \* WrongParty
    /\ balance["importer"] >= amount
    /\ Push([op |-> "fund", amount |-> amount, milestoneId |-> 0, nonce |-> 0])
    /\ UNCHANGED <<escrowVars, balance, worldVars>>

FundReturn ==
    /\ Pop("fund")
    /\ Transfer("importer", "escrow", Head(frames).amount)
    /\ fundedAmount' = Head(frames).amount
    /\ funded' = TRUE
    /\ UNCHANGED <<releasedAmount, milestoneReleased, usedNonces, held, worldVars>>

\* Mutant: a milestone already released can be released again.
ReleasePermittedAgain(auth) ==
    /\ auth.milestoneId \in Milestones
    /\ auth.milestoneId = 2 => milestoneReleased[1]
    /\ funded
    /\ auth.amount = MilestoneAmount(auth.milestoneId)
    /\ releasedAmount + auth.amount <= fundedAmount

\* Mutant: milestones in any order.
ReleasePermittedAnyOrder(auth) ==
    /\ auth.milestoneId \in Milestones
    /\ ~milestoneReleased[auth.milestoneId]
    /\ funded
    /\ auth.amount = MilestoneAmount(auth.milestoneId)
    /\ releasedAmount + auth.amount <= fundedAmount

(* releaseMilestone: any account may submit the authorization.             *)
ReleasePermitted(auth) ==
    /\ auth.milestoneId \in Milestones              \* WrongMilestone
    /\ ~milestoneReleased[auth.milestoneId]         \* MilestoneAlreadyReleased
    /\ auth.milestoneId = 2 => milestoneReleased[1] \* MilestoneOutOfSequence
    /\ funded                                       \* TradeNotFunded
    /\ auth.amount = MilestoneAmount(auth.milestoneId)  \* WrongAmount
    /\ releasedAmount + auth.amount <= fundedAmount \* InsufficientFunds

ReleaseCall(auth) ==
    /\ NonReentrant
    /\ AuthorizationVerified(auth)
    /\ ReleasePermitted(auth)
    /\ ComplianceVerified("importer")
    /\ ComplianceVerified("exporter")
    /\ policyAccepts                                \* CvaTransferRejected
    /\ balance["escrow"] >= auth.amount             \* or safeTransfer reverts
    /\ ConsumeNonce(auth)
    /\ milestoneReleased' = [milestoneReleased EXCEPT ![auth.milestoneId] = TRUE]
    /\ releasedAmount' = releasedAmount + auth.amount
    /\ Push([op |-> "release", amount |-> auth.amount,
             milestoneId |-> auth.milestoneId, nonce |-> auth.nonce])
    /\ UNCHANGED <<fundedAmount, funded, held, balance, worldVars>>

ReleaseReturn ==
    /\ Pop("release")
    /\ Transfer("escrow", "exporter", Head(frames).amount)
    /\ UNCHANGED <<escrowVars, worldVars>>

\* Mutant: unchecked subtraction, and no RefundNotAllowed.
RefundUnchecked(sender, auth) ==
    /\ NonReentrant
    /\ sender = "admin" /\ auth.milestoneId = 0 /\ funded
    /\ AuthorizationVerified(auth)
    /\ ConsumeNonce(auth)
    /\ fundedAmount' = 0
    /\ funded' = FALSE
    /\ Push([op |-> "refund", amount |-> fundedAmount - releasedAmount,
             milestoneId |-> 0, nonce |-> auth.nonce])
    /\ UNCHANGED <<releasedAmount, milestoneReleased, held, balance, worldVars>>

\* Mutant: the trade stays funded after the refund.
RefundKeepsFunded(sender, auth) ==
    /\ NonReentrant
    /\ sender = "admin" /\ auth.milestoneId = 0 /\ funded
    /\ AuthorizationVerified(auth)
    /\ fundedAmount > releasedAmount
    /\ balance["escrow"] >= fundedAmount - releasedAmount
    /\ ConsumeNonce(auth)
    /\ Push([op |-> "refund", amount |-> fundedAmount - releasedAmount,
             milestoneId |-> 0, nonce |-> auth.nonce])
    /\ UNCHANGED <<fundedAmount, funded, releasedAmount, milestoneReleased, held,
                   balance, worldVars>>

(* refund: the subtraction is checked arithmetic and reverts below zero.   *)
RefundCall(sender, auth) ==
    /\ NonReentrant
    /\ sender = "admin"                             \* OnlyAdmin
    /\ auth.milestoneId = 0                         \* WrongMilestone
    /\ funded                                       \* TradeNotFunded
    /\ AuthorizationVerified(auth)
    /\ fundedAmount > releasedAmount                \* RefundNotAllowed, underflow
    /\ balance["escrow"] >= fundedAmount - releasedAmount
    /\ ConsumeNonce(auth)
    /\ fundedAmount' = 0
    /\ funded' = FALSE
    /\ Push([op |-> "refund", amount |-> fundedAmount - releasedAmount,
             milestoneId |-> 0, nonce |-> auth.nonce])
    /\ UNCHANGED <<releasedAmount, milestoneReleased, held, balance, worldVars>>

RefundReturn ==
    /\ Pop("refund")
    /\ Transfer("escrow", "importer", Head(frames).amount)
    /\ UNCHANGED <<escrowVars, worldVars>>

(* enterHold carries no reentrancy guard; nothing ever clears `held`.      *)
EnterHold(sender) ==
    /\ sender = "admin"                             \* OnlyAdmin
    /\ ~(funded /\ releasedAmount = fundedAmount)   \* RefundNotAllowed
    /\ held' = TRUE
    /\ UNCHANGED <<fundedAmount, releasedAmount, funded, milestoneReleased,
                   usedNonces, frames, balance, worldVars>>

RegisterPool(sender) ==
    /\ NonReentrant
    /\ sender = "admin"                             \* OnlyAdmin
    /\ validator' = [validator EXCEPT !.registered = TRUE]
    /\ UNCHANGED <<escrowVars, frames, balance, policyAccepts, now>>

-----------------------------------------------------------------------------
(* The contracts and the clock around the escrow, between transactions.    *)

SetEligible(users) ==
    /\ frames = << >>
    /\ validator' = [validator EXCEPT !.eligible = users]
    /\ UNCHANGED <<escrowVars, frames, balance, policyAccepts, now>>

SetPaused(paused) ==
    /\ frames = << >>
    /\ validator' = [validator EXCEPT !.paused = paused]
    /\ UNCHANGED <<escrowVars, frames, balance, policyAccepts, now>>

SetPolicy(accepts) ==
    /\ frames = << >>
    /\ policyAccepts' = accepts
    /\ UNCHANGED <<escrowVars, frames, balance, validator, now>>

Tick ==
    /\ frames = << >>
    /\ now < MaxTime
    /\ now' = now + 1
    /\ UNCHANGED <<escrowVars, frames, balance, validator, policyAccepts>>

Next ==
    \/ \E sender \in Callers, amount \in FundAmounts : FundCall(sender, amount)
    \/ FundReturn
    \/ \E auth \in Authorizations : ReleaseCall(auth)
    \/ ReleaseReturn
    \/ \E sender \in Callers, auth \in Authorizations : RefundCall(sender, auth)
    \/ RefundReturn
    \/ \E sender \in Callers : EnterHold(sender) \/ RegisterPool(sender)
    \/ \E users \in SUBSET Parties : SetEligible(users)
    \/ \E flag \in BOOLEAN : SetPaused(flag) \/ SetPolicy(flag)
    \/ Tick

Spec == Init /\ [][Next]_vars

-----------------------------------------------------------------------------
(* getTradeState: the status the contract reports.  REFUNDED is never one. *)
TradeStatus ==
    CASE funded /\ releasedAmount = fundedAmount -> "COMPLETE"
      [] ~(funded /\ releasedAmount = fundedAmount) /\ held -> "HOLD"
      [] ~(funded /\ releasedAmount = fundedAmount) /\ ~held
            /\ releasedAmount > 0 -> "ACTIVE"
      [] ~(funded /\ releasedAmount = fundedAmount) /\ ~held
            /\ releasedAmount = 0 /\ funded -> "FUNDED"
      [] OTHER -> "DRAFT"

AmountOf(released) ==
    (IF released[1] THEN M1 ELSE 0) + (IF released[2] THEN M2 ELSE 0)

-----------------------------------------------------------------------------
(* Properties.                                                             *)

\* Between transactions the exporter has received exactly the amounts of the
\* milestones marked released, once each, and the accounting agrees: no
\* sequence of funding, refunding, re-funding and replayed authorizations pays
\* a milestone twice or in part (releaseMilestone).
ExporterPaidExactly ==
    frames = << >> =>
        /\ balance["exporter"] = releasedAmount
        /\ releasedAmount = AmountOf(milestoneReleased)

\* Milestone two is never paid before milestone one, also not across refunds
\* and new deposits (the sequence check of releaseMilestone).
PaidInSequence == milestoneReleased[2] => milestoneReleased[1]

\* While funded the escrow holds at least what it still owes under its own
\* accounting, so no accepted release or refund can fail for lack of tokens
\* (fund, releaseMilestone and refund together).
CustodyCovers ==
    frames = << >> /\ funded =>
        balance["escrow"] >= fundedAmount - releasedAmount

\* The importer's tokens are taken only while the trade is unfunded, although
\* fund() sets `funded` after the external transfer (nonReentrant on fund).
NoSecondDeposit ==
    [][balance'["importer"] < balance["importer"] => ~funded]_vars

\* A trade that the contract once reports COMPLETE stays so: no deposit, hold,
\* refund or release is accepted any more, also from within the last transfer
\* (the guards of fund, enterHold, refund and releaseMilestone together).
CompleteIsFinal ==
    [][TradeStatus = "COMPLETE" => TradeStatus' = "COMPLETE"]_vars

\* What the escrow promises, one step per token transfer.  A pending release or
\* refund is not yet paid, and its authorization not yet spent, for that reader.
PendingOp == IF frames = << >> THEN "none" ELSE Head(frames).op

PaidCount ==
    (IF milestoneReleased[1] THEN 1 ELSE 0) + (IF milestoneReleased[2] THEN 1 ELSE 0)
        - (IF PendingOp = "release" THEN 1 ELSE 0)

GateOpen == \A party \in Parties : ComplianceVerified(party)

SpentNonces ==
    IF PendingOp \in {"release", "refund"}
    THEN usedNonces \ {<<Head(frames).milestoneId, Head(frames).nonce>>}
    ELSE usedNonces

Payout == INSTANCE MilestonePayout
          WITH pot <- balance["escrow"], paid <- PaidCount, gate <- GateOpen,
               spent <- SpentNonces

\* Every behaviour of the contract is one of MilestonePayout: the pot shrinks
\* only by a milestone paid in order, in full and through the open gate, or by
\* a refund, and each time one authorization is spent that never was before.
ImplementsPayout == Payout!Spec

=============================================================================
