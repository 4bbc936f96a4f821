----------------------- MODULE BridgeSureEscrowProofs -----------------------
(***************************************************************************)
(* Proofs about the escrow, for every choice of milestone amounts,         *)
(* deposits and authorizations.  The safety properties speak of the moments*)
(* between transactions; what is inductive says in addition what is still  *)
(* to be transferred while a call waits for its transfer.                  *)
(***************************************************************************)
EXTENDS BridgeSureEscrow, TLAPS

Pending(op) == IF PendingOp = op THEN Head(frames).amount ELSE 0

\* The reentrancy guard: at most one call is ever waiting for its transfer.
OneCall == Len(frames) <= 1

\* What the waiting call has established before its transfer.
PendingFund == PendingOp = "fund" => ~funded /\ Head(frames).amount > 0

PendingRelease ==
    PendingOp = "release" =>
        LET m == Head(frames).milestoneId IN
        /\ m \in Milestones
        /\ Head(frames).amount = MilestoneAmount(m)
        /\ milestoneReleased[m]
        /\ m = 1 => ~milestoneReleased[2]
        /\ <<m, Head(frames).nonce>> \in usedNonces
        /\ GateOpen

PendingRefund ==
    PendingOp = "refund" =>
        /\ ~funded
        /\ Head(frames).amount > 0
        /\ <<Head(frames).milestoneId, Head(frames).nonce>> \in usedNonces

\* The accounting, with the transfer that is still to come.
Accounting ==
    /\ releasedAmount = AmountOf(milestoneReleased)
    /\ balance["exporter"] + Pending("release") = releasedAmount

Custody ==
    funded => balance["escrow"] - Pending("release") >= fundedAmount - releasedAmount

IInv ==
    /\ TypeOK
    /\ OneCall
    /\ PendingFund /\ PendingRelease /\ PendingRefund
    /\ PaidInSequence
    /\ Accounting
    /\ Custody

-----------------------------------------------------------------------------
(* The call stack as the reentrancy guard leaves it.                       *)

\* Starting a call on an empty stack leaves exactly that call on it.
LEMMA PushOne ==
    ASSUME frames = << >>, NEW f \in Frame, Push(f)
    PROVE  /\ frames' # << >>
           /\ Head(frames') = f
           /\ Len(frames') = 1
           /\ frames' \in Seq(Frame)
  BY DEF Push

\* Finishing the only call on the stack empties it.
LEMMA PopOne ==
    ASSUME frames \in Seq(Frame), OneCall, NEW op, Pop(op)
    PROVE  /\ Head(frames) \in Frame
           /\ PendingOp = op
           /\ frames' = << >>
           /\ OneCall'
           /\ PendingOp' = "none"
  BY DEF Pop, OneCall, PendingOp

-----------------------------------------------------------------------------
(* The inductive invariant holds initially and every step preserves it.    *)

\* The deployed contract satisfies the invariant (constructor).
LEMMA InitInv == Init => IInv
<1> SUFFICES ASSUME Init PROVE IInv
  OBVIOUS
<1>1. TypeOK
  <2>1. balance \in [Accounts -> Nat]
    BY AmountsAssumption DEF Init, Accounts
  <2>2. frames \in Seq(Frame) /\ milestoneReleased \in [Milestones -> BOOLEAN]
    BY DEF Init
  <2>3. validator \in [registered : BOOLEAN, paused : BOOLEAN, eligible : SUBSET Parties]
    BY DEF Init
  <2>4. usedNonces \in SUBSET (Nat \X Nat)
    BY DEF Init
  <2>5. /\ fundedAmount \in Nat /\ releasedAmount \in Nat /\ funded \in BOOLEAN
        /\ policyAccepts \in BOOLEAN /\ now \in Nat
    BY DEF Init
  <2>6. held \in BOOLEAN
    BY AmountsAssumption DEF Init, AmountsAssumption
  <2> QED BY <2>1, <2>2, <2>3, <2>4, <2>5, <2>6 DEF TypeOK
<1>2. PendingOp = "none" /\ OneCall
  BY DEF Init, PendingOp, OneCall
<1>3. PendingFund /\ PendingRelease /\ PendingRefund
  BY <1>2 DEF PendingFund, PendingRelease, PendingRefund
<1>4. PaidInSequence /\ Accounting /\ Custody
  BY <1>2 DEF Init, PaidInSequence, Accounting, Custody, Pending, AmountOf, Milestones,
              Accounts, Parties
<1> QED BY <1>1, <1>2, <1>3, <1>4 DEF IInv

\* Steps that leave the calls, the balances and the books alone.
LEMMA QuietStepInv ==
    ASSUME IInv, TypeOK',
           UNCHANGED <<frames, balance, fundedAmount, releasedAmount, funded,
                       milestoneReleased, usedNonces>>,
           frames = << >> \/ GateOpen' = GateOpen
    PROVE  IInv'
<1>1. PendingOp' = PendingOp /\ Pending("release")' = Pending("release")
  BY DEF PendingOp, Pending
<1>2. OneCall' /\ PendingFund' /\ PendingRefund'
  BY <1>1 DEF IInv, OneCall, PendingFund, PendingRefund
<1>3. PendingRelease'
  BY <1>1 DEF IInv, PendingRelease, PendingOp
<1>4. PaidInSequence' /\ Accounting' /\ Custody'
  BY <1>1 DEF IInv, PaidInSequence, Accounting, Custody, AmountOf
<1> QED BY <1>2, <1>3, <1>4 DEF IInv

\* fund up to its transfer keeps the invariant.
LEMMA FundCallInv ==
    ASSUME IInv, NEW sender \in Callers, NEW amount \in FundAmounts,
           FundCall(sender, amount)
    PROVE  IInv'
<1> DEFINE f == [op |-> "fund", amount |-> amount, milestoneId |-> 0, nonce |-> 0]
<1>1. f \in Frame /\ amount > 0
  BY AmountsAssumption DEF Frame, FundCall
<1>2. frames = << >> /\ Push(f)
  BY DEF FundCall, NonReentrant
<1>3. /\ Head(frames') = f /\ Len(frames') = 1 /\ frames' \in Seq(Frame)
      /\ PendingOp = "none" /\ PendingOp' = "fund"
  <2>1. /\ frames' # << >> /\ Head(frames') = f /\ Len(frames') = 1
        /\ frames' \in Seq(Frame)
    BY <1>1, <1>2, PushOne
  <2> QED BY <1>2, <2>1 DEF PendingOp
<1>4. TypeOK' /\ OneCall'
  BY <1>3 DEF IInv, TypeOK, OneCall, FundCall, escrowVars, worldVars
<1>5. PendingFund' /\ PendingRelease' /\ PendingRefund'
  BY <1>1, <1>3 DEF PendingFund, PendingRelease, PendingRefund, FundCall, escrowVars
<1>6. PaidInSequence' /\ Accounting' /\ Custody'
  BY <1>3 DEF IInv, PaidInSequence, Accounting, Custody, Pending, AmountOf, FundCall,
              escrowVars
<1> QED BY <1>4, <1>5, <1>6 DEF IInv

\* fund after its transfer keeps the invariant: the deposit is booked in full.
LEMMA FundReturnInv ==
    ASSUME IInv, FundReturn
    PROVE  IInv'
<1>1. /\ Head(frames) \in Frame /\ PendingOp = "fund" /\ PendingOp' = "none"
      /\ frames' = << >> /\ OneCall'
  BY PopOne DEF IInv, TypeOK, FundReturn
<1>2. Head(frames).amount \in Nat
  BY <1>1 DEF Frame
<1>3. /\ balance' \in [Accounts -> Nat]
      /\ balance'["exporter"] = balance["exporter"]
      /\ balance'["escrow"] = balance["escrow"] + Head(frames).amount
  BY <1>2 DEF IInv, TypeOK, FundReturn, Transfer, Accounts, Parties
<1>4. TypeOK'
  BY <1>1, <1>2, <1>3 DEF IInv, TypeOK, FundReturn, worldVars
<1>5. PendingFund' /\ PendingRelease' /\ PendingRefund'
  BY <1>1 DEF PendingFund, PendingRelease, PendingRefund
<1>6. PaidInSequence' /\ Accounting'
  BY <1>1, <1>3 DEF IInv, PaidInSequence, Accounting, Pending, AmountOf, FundReturn
<1>7. Custody'
  BY <1>1, <1>2, <1>3 DEF IInv, TypeOK, Custody, Pending, FundReturn, Accounts
<1> QED BY <1>1, <1>4, <1>5, <1>6, <1>7 DEF IInv

\* releaseMilestone up to its transfer keeps the invariant: the books run ahead
\* of the balances by exactly the amount pending.
LEMMA ReleaseCallInv ==
    ASSUME IInv, NEW auth \in Authorizations, ReleaseCall(auth)
    PROVE  IInv'
<1> DEFINE m == auth.milestoneId
           f == [op |-> "release", amount |-> auth.amount, milestoneId |-> m,
                 nonce |-> auth.nonce]
<1>1. /\ auth \in Authorization /\ f \in Frame /\ m \in Milestones
      /\ auth.amount = MilestoneAmount(m)
  BY AmountsAssumption DEF Authorization, Frame, ReleaseCall, ReleasePermitted
<1>2. frames = << >> /\ Push(f)
  BY DEF ReleaseCall, NonReentrant
<1>3. /\ Head(frames') = f /\ Len(frames') = 1 /\ frames' \in Seq(Frame)
      /\ PendingOp = "none" /\ PendingOp' = "release"
  <2>1. /\ frames' # << >> /\ Head(frames') = f /\ Len(frames') = 1
        /\ frames' \in Seq(Frame)
    BY <1>1, <1>2, PushOne
  <2> QED BY <1>2, <2>1 DEF PendingOp
<1>4. usedNonces' = usedNonces \cup {<<m, auth.nonce>>}
  BY DEF ReleaseCall, ConsumeNonce, NonceKey
<1>5. TypeOK' /\ OneCall'
  BY <1>1, <1>3, <1>4
     DEF IInv, TypeOK, OneCall, ReleaseCall, worldVars, Authorization, Milestones
<1>6. PendingFund' /\ PendingRefund'
  BY <1>3 DEF PendingFund, PendingRefund
<1>7. /\ milestoneReleased' = [milestoneReleased EXCEPT ![m] = TRUE]
      /\ ~milestoneReleased[m] /\ (m = 2 => milestoneReleased[1])
      /\ milestoneReleased \in [Milestones -> BOOLEAN]
  BY DEF IInv, TypeOK, ReleaseCall, ReleasePermitted
<1>8. PendingRelease'
  <2>1. GateOpen'
    BY DEF ReleaseCall, GateOpen, ComplianceVerified, Parties, worldVars
  <2>2. milestoneReleased'[m] /\ (m = 1 => ~milestoneReleased'[2])
    BY <1>1, <1>7 DEF IInv, PaidInSequence, Milestones
  <2> QED BY <1>1, <1>3, <1>4, <2>1, <2>2 DEF PendingRelease, MilestoneAmount
<1>9. PaidInSequence'
  BY <1>1, <1>7 DEF IInv, PaidInSequence, Milestones
<1>10. Accounting'
  <2>1. releasedAmount' = releasedAmount + auth.amount
    BY DEF ReleaseCall
  <2>2. AmountOf(milestoneReleased') = AmountOf(milestoneReleased) + MilestoneAmount(m)
    BY <1>1, <1>7, AmountsAssumption DEF AmountOf, MilestoneAmount, Milestones
  <2>3. Pending("release") = 0 /\ Pending("release")' = auth.amount
    BY <1>3 DEF Pending
  <2>4. /\ balance' = balance /\ balance["exporter"] \in Nat /\ auth.amount \in Nat
        /\ releasedAmount \in Nat
    BY <1>1 DEF IInv, TypeOK, ReleaseCall, Accounts, Parties, Authorization
  <2> QED BY <1>1, <2>1, <2>2, <2>3, <2>4 DEF IInv, Accounting
<1>11. Custody'
  BY <1>1, <1>3
     DEF IInv, TypeOK, Custody, Pending, ReleaseCall, Accounts, Authorization
<1> QED BY <1>5, <1>6, <1>8, <1>9, <1>10, <1>11 DEF IInv

\* releaseMilestone's transfer brings the balances back in line with the books.
LEMMA ReleaseReturnInv ==
    ASSUME IInv, ReleaseReturn
    PROVE  IInv'
<1>1. /\ Head(frames) \in Frame /\ PendingOp = "release" /\ PendingOp' = "none"
      /\ frames' = << >> /\ OneCall'
  BY PopOne DEF IInv, TypeOK, ReleaseReturn
<1>2. Head(frames).amount \in Nat
  BY <1>1 DEF Frame
<1>3. /\ balance' \in [Accounts -> Nat]
      /\ balance'["exporter"] = balance["exporter"] + Head(frames).amount
      /\ balance'["escrow"] = balance["escrow"] - Head(frames).amount
  BY <1>2 DEF IInv, TypeOK, ReleaseReturn, Transfer, Accounts, Parties
<1>4. TypeOK'
  BY <1>1, <1>3 DEF IInv, TypeOK, ReleaseReturn, escrowVars, worldVars
<1>5. PendingFund' /\ PendingRelease' /\ PendingRefund'
  BY <1>1 DEF PendingFund, PendingRelease, PendingRefund
<1>6. PaidInSequence' /\ Accounting' /\ Custody'
  BY <1>1, <1>2, <1>3
     DEF IInv, TypeOK, PaidInSequence, Accounting, Custody, Pending, AmountOf,
         ReleaseReturn, escrowVars, Accounts, Parties
<1> QED BY <1>1, <1>4, <1>5, <1>6 DEF IInv

\* refund up to its transfer keeps the invariant.
LEMMA RefundCallInv ==
    ASSUME IInv, NEW sender \in Callers, NEW auth \in Authorizations,
           RefundCall(sender, auth)
    PROVE  IInv'
<1> DEFINE f == [op |-> "refund", amount |-> fundedAmount - releasedAmount,
                 milestoneId |-> 0, nonce |-> auth.nonce]
<1>1. auth \in Authorization /\ f \in Frame /\ f.amount > 0
  BY AmountsAssumption DEF IInv, TypeOK, Authorization, Frame, RefundCall
<1>2. frames = << >> /\ Push(f)
  BY DEF RefundCall, NonReentrant
<1>3. /\ Head(frames') = f /\ Len(frames') = 1 /\ frames' \in Seq(Frame)
      /\ PendingOp = "none" /\ PendingOp' = "refund"
  <2>1. /\ frames' # << >> /\ Head(frames') = f /\ Len(frames') = 1
        /\ frames' \in Seq(Frame)
    BY <1>1, <1>2, PushOne
  <2> QED BY <1>2, <2>1 DEF PendingOp
<1>4. usedNonces' = usedNonces \cup {<<0, auth.nonce>>}
  BY DEF RefundCall, ConsumeNonce, NonceKey
<1>5. TypeOK' /\ OneCall'
  <2>1. usedNonces' \in SUBSET (Nat \X Nat)
    BY <1>1, <1>4 DEF IInv, TypeOK, Authorization
  <2>2. frames' \in Seq(Frame) /\ OneCall'
    BY <1>3 DEF OneCall
  <2> QED BY <2>1, <2>2 DEF IInv, TypeOK, RefundCall, worldVars
<1>6. PendingFund' /\ PendingRelease' /\ PendingRefund'
  BY <1>1, <1>3, <1>4 DEF PendingFund, PendingRelease, PendingRefund, RefundCall
<1>7. PaidInSequence' /\ Accounting' /\ Custody'
  BY <1>3 DEF IInv, PaidInSequence, Accounting, Custody, Pending, AmountOf, RefundCall
<1> QED BY <1>5, <1>6, <1>7 DEF IInv

\* refund's transfer keeps the invariant.
LEMMA RefundReturnInv ==
    ASSUME IInv, RefundReturn
    PROVE  IInv'
<1>1. /\ Head(frames) \in Frame /\ PendingOp = "refund" /\ PendingOp' = "none"
      /\ frames' = << >> /\ OneCall'
  BY PopOne DEF IInv, TypeOK, RefundReturn
<1>2. Head(frames).amount \in Nat /\ ~funded
  BY <1>1 DEF IInv, PendingRefund, Frame
<1>3. /\ balance' \in [Accounts -> Nat]
      /\ balance'["exporter"] = balance["exporter"]
  BY <1>2 DEF IInv, TypeOK, RefundReturn, Transfer, Accounts, Parties
<1>4. TypeOK'
  BY <1>1, <1>3 DEF IInv, TypeOK, RefundReturn, escrowVars, worldVars
<1>5. PendingFund' /\ PendingRelease' /\ PendingRefund'
  BY <1>1 DEF PendingFund, PendingRelease, PendingRefund
<1>6. PaidInSequence' /\ Accounting' /\ Custody'
  BY <1>1, <1>2, <1>3
     DEF IInv, PaidInSequence, Accounting, Custody, Pending, AmountOf, RefundReturn,
         escrowVars
<1> QED BY <1>1, <1>4, <1>5, <1>6 DEF IInv

\* Every step of the contract and of the world around it keeps the invariant.
LEMMA StepInv == IInv /\ [Next]_vars => IInv'
<1> SUFFICES ASSUME IInv, [Next]_vars PROVE IInv'
  OBVIOUS
<1>1. CASE \E sender \in Callers, amount \in FundAmounts : FundCall(sender, amount)
  BY <1>1, FundCallInv
<1>2. CASE FundReturn
  BY <1>2, FundReturnInv
<1>3. CASE \E auth \in Authorizations : ReleaseCall(auth)
  BY <1>3, ReleaseCallInv
<1>4. CASE ReleaseReturn
  BY <1>4, ReleaseReturnInv
<1>5. CASE \E sender \in Callers, auth \in Authorizations : RefundCall(sender, auth)
  BY <1>5, RefundCallInv
<1>6. CASE RefundReturn
  BY <1>6, RefundReturnInv
<1>7. CASE \E sender \in Callers : EnterHold(sender)
  <2>1. TypeOK'
    BY <1>7 DEF IInv, TypeOK, EnterHold, worldVars
  <2>2. GateOpen' = GateOpen
    BY <1>7 DEF EnterHold, GateOpen, ComplianceVerified, worldVars
  <2> QED BY <1>7, <2>1, <2>2, QuietStepInv DEF EnterHold
<1>8. CASE \/ \E sender \in Callers : RegisterPool(sender)
           \/ \E users \in SUBSET Parties : SetEligible(users)
           \/ \E flag \in BOOLEAN : SetPaused(flag) \/ SetPolicy(flag)
           \/ Tick
  <2>1. TypeOK'
    <3>1. CASE \E sender \in Callers : RegisterPool(sender)
      BY <3>1 DEF IInv, TypeOK, RegisterPool, escrowVars
    <3>2. CASE \E users \in SUBSET Parties : SetEligible(users)
      BY <3>2 DEF IInv, TypeOK, SetEligible, escrowVars
    <3>3. CASE \E flag \in BOOLEAN : SetPaused(flag) \/ SetPolicy(flag)
      BY <3>3 DEF IInv, TypeOK, SetPaused, SetPolicy, escrowVars
    <3>4. CASE Tick
      BY <3>4 DEF IInv, TypeOK, Tick, escrowVars
    <3> QED BY <1>8, <3>1, <3>2, <3>3, <3>4
  <2>2. /\ frames = << >>
        /\ UNCHANGED <<frames, balance, fundedAmount, releasedAmount, funded,
                       milestoneReleased, usedNonces>>
    BY <1>8 DEF RegisterPool, SetEligible, SetPaused, SetPolicy, Tick, escrowVars,
                NonReentrant
  <2> QED BY <2>1, <2>2, QuietStepInv
<1>9. CASE UNCHANGED vars
  <2>1. TypeOK' /\ GateOpen' = GateOpen
    BY <1>9 DEF IInv, TypeOK, GateOpen, ComplianceVerified, vars, escrowVars, worldVars
  <2> QED BY <1>9, <2>1, QuietStepInv DEF vars, escrowVars, worldVars
<1> QED
  BY <1>1, <1>2, <1>3, <1>4, <1>5, <1>6, <1>7, <1>8, <1>9 DEF Next

\* The inductive invariant holds in every reachable state (all calls of
\* BridgeSureEscrow.sol).
THEOREM Invariance == Spec => []IInv
  BY InitInv, StepInv, PTL DEF Spec

-----------------------------------------------------------------------------
(* What follows from it.                                                   *)

\* The state stays within its types (all storage of BridgeSureEscrow.sol).
THEOREM TypeCorrect == Spec => []TypeOK
  BY Invariance, PTL DEF IInv

\* Every milestone marked released has been paid to the exporter once and in
\* full, and nothing else has (releaseMilestone).
THEOREM PaymentsExact == Spec => []ExporterPaidExactly
<1>1. IInv => ExporterPaidExactly
  <2> SUFFICES ASSUME IInv, frames = << >>
               PROVE  /\ balance["exporter"] = releasedAmount
                      /\ releasedAmount = AmountOf(milestoneReleased)
    BY DEF ExporterPaidExactly
  <2>1. Pending("release") = 0
    BY DEF Pending, PendingOp
  <2> QED BY <2>1 DEF IInv, TypeOK, Accounting, Accounts, Parties
<1> QED BY <1>1, Invariance, PTL

\* Milestone two is paid only after milestone one, whatever is funded and
\* refunded in between (releaseMilestone).
THEOREM SequenceKept == Spec => []PaidInSequence
  BY Invariance, PTL DEF IInv

\* A funded escrow holds at least what its books say it owes.
THEOREM CustodyKept == Spec => []CustodyCovers
<1>1. IInv => CustodyCovers
  <2> SUFFICES ASSUME IInv, frames = << >>, funded
               PROVE  balance["escrow"] >= fundedAmount - releasedAmount
    BY DEF CustodyCovers
  <2>1. Pending("release") = 0
    BY DEF Pending, PendingOp
  <2> QED BY <2>1 DEF IInv, TypeOK, Custody, Accounts
<1> QED BY <1>1, Invariance, PTL

\* The importer's balance shrinks only while the trade is unfunded (fund).
THEOREM DepositOnce == Spec => NoSecondDeposit
<1>1. IInv /\ [Next]_vars
        => [balance'["importer"] < balance["importer"] => ~funded]_vars
  <2> SUFFICES ASSUME IInv, Next, balance'["importer"] < balance["importer"]
               PROVE  ~funded
    OBVIOUS
  <2>1. balance' # balance
    BY DEF IInv, TypeOK, Accounts, Parties
  <2>2. CASE FundReturn
    <3>1. PendingOp = "fund"
      BY <2>2, PopOne DEF IInv, TypeOK, FundReturn
    <3> QED BY <3>1 DEF IInv, PendingFund
  <2>3. CASE ReleaseReturn
    <3>1. balance'["importer"] = balance["importer"]
      BY <2>3 DEF IInv, TypeOK, ReleaseReturn, Transfer, Accounts, Parties
    <3> QED BY <3>1 DEF IInv, TypeOK, Accounts, Parties
  <2>4. CASE RefundReturn
    <3>1. Head(frames).amount \in Nat
      BY <2>4, PopOne DEF IInv, TypeOK, RefundReturn, Frame
    <3>2. balance'["importer"] = balance["importer"] + Head(frames).amount
      BY <2>4, <3>1 DEF IInv, TypeOK, RefundReturn, Transfer, Accounts, Parties
    <3> QED BY <3>1, <3>2 DEF IInv, TypeOK, Accounts, Parties
  <2> QED
    BY <2>1, <2>2, <2>3, <2>4
       DEF Next, FundCall, ReleaseCall, RefundCall, EnterHold, RegisterPool,
           SetEligible, SetPaused, SetPolicy, Tick
<1> QED BY <1>1, Invariance, PTL DEF Spec, NoSecondDeposit

\* A trade reported COMPLETE never reports anything else again: with everything
\* paid out every call that would change its books reverts (getTradeState).
THEOREM CompletionFinal == Spec => CompleteIsFinal
<1>1. IInv /\ [Next]_vars
        => [TradeStatus = "COMPLETE" => TradeStatus' = "COMPLETE"]_vars
  <2> SUFFICES ASSUME IInv, Next, TradeStatus = "COMPLETE"
               PROVE  TradeStatus' = "COMPLETE"
    OBVIOUS
  <2>1. funded /\ releasedAmount = fundedAmount
    BY DEF TradeStatus
  <2>2. fundedAmount \in Nat /\ releasedAmount \in Nat
    BY DEF IInv, TypeOK
  <2> SUFFICES UNCHANGED <<funded, releasedAmount, fundedAmount>>
    BY <2>1 DEF TradeStatus
  <2>3. CASE \E sender \in Callers, amount \in FundAmounts : FundCall(sender, amount)
    BY <2>3, <2>1 DEF FundCall
  <2>4. CASE FundReturn
    <3>1. PendingOp = "fund"
      BY <2>4, PopOne DEF IInv, TypeOK, FundReturn
    <3> QED BY <3>1, <2>1 DEF IInv, PendingFund
  <2>5. CASE \E auth \in Authorizations : ReleaseCall(auth)
    <3>1. PICK auth \in Authorizations : ReleaseCall(auth)
      BY <2>5
    <3>2. /\ releasedAmount + auth.amount <= fundedAmount
          /\ auth.amount = MilestoneAmount(auth.milestoneId)
      BY <3>1 DEF ReleaseCall, ReleasePermitted
    <3>3. MilestoneAmount(auth.milestoneId) \in Nat \ {0}
      BY AmountsAssumption DEF MilestoneAmount
    <3> QED BY <3>2, <3>3, <2>1, <2>2
  <2>6. CASE \E sender \in Callers, auth \in Authorizations : RefundCall(sender, auth)
    BY <2>6, <2>1, <2>2 DEF RefundCall
  <2> QED
    BY <2>3, <2>4, <2>5, <2>6
       DEF Next, ReleaseReturn, RefundReturn, EnterHold, RegisterPool, SetEligible,
           SetPaused, SetPolicy, Tick, escrowVars
<1> QED BY <1>1, Invariance, PTL DEF Spec, CompleteIsFinal

-----------------------------------------------------------------------------
(* The contract implements MilestonePayout: the transfer of a call is the  *)
(* abstract step, everything else stutters or moves the gate.              *)

MappedState == <<balance["escrow"], PaidCount, GateOpen, SpentNonces>>

\* A call that has not transferred yet is no step of MilestonePayout.
LEMMA CallStutters ==
    ASSUME IInv, Next,
           \/ \E sender \in Callers, amount \in FundAmounts : FundCall(sender, amount)
           \/ \E auth \in Authorizations : ReleaseCall(auth)
           \/ \E sender \in Callers, auth \in Authorizations : RefundCall(sender, auth)
    PROVE  UNCHANGED MappedState
<1>1. PendingOp = "none"
  BY DEF FundCall, ReleaseCall, RefundCall, NonReentrant, PendingOp
<1>2. balance' = balance /\ GateOpen' = GateOpen
  BY DEF FundCall, ReleaseCall, RefundCall, GateOpen, ComplianceVerified, worldVars
<1>3. CASE \E sender \in Callers, amount \in FundAmounts : FundCall(sender, amount)
  <2> PICK sender \in Callers, amount \in FundAmounts : FundCall(sender, amount)
    BY <1>3
  <2>1. PendingOp' = "fund"
    <3> DEFINE f == [op |-> "fund", amount |-> amount, milestoneId |-> 0, nonce |-> 0]
    <3>1. frames' # << >> /\ Head(frames') = f
      BY AmountsAssumption, PushOne DEF FundCall, NonReentrant, Frame
    <3> QED BY <3>1 DEF PendingOp
  <2> QED BY <1>1, <1>2, <2>1 DEF MappedState, PaidCount, SpentNonces, FundCall, escrowVars
<1>4. CASE \E auth \in Authorizations : ReleaseCall(auth)
  <2> PICK auth \in Authorizations : ReleaseCall(auth)
    BY <1>4
  <2> DEFINE m == auth.milestoneId
             f == [op |-> "release", amount |-> auth.amount, milestoneId |-> m,
                   nonce |-> auth.nonce]
  <2>1. PendingOp' = "release" /\ Head(frames') = f
    <3>1. f \in Frame
      BY AmountsAssumption DEF Frame, Authorization
    <3>2. frames' # << >> /\ Head(frames') = f
      BY <3>1, PushOne DEF ReleaseCall, NonReentrant
    <3> QED BY <3>2 DEF PendingOp
  <2>2. PaidCount' = PaidCount
    BY <1>1, <2>1 DEF IInv, TypeOK, PaidCount, ReleaseCall, ReleasePermitted, Milestones
  <2>3. SpentNonces' = SpentNonces
    <3>1. usedNonces' = usedNonces \cup {<<m, auth.nonce>>}
      BY DEF ReleaseCall, ConsumeNonce, NonceKey
    <3>2. <<m, auth.nonce>> \notin usedNonces
      BY DEF ReleaseCall, AuthorizationVerified, NonceKey
    <3> QED BY <1>1, <2>1, <3>1, <3>2 DEF SpentNonces
  <2> QED BY <1>2, <2>2, <2>3 DEF MappedState
<1>5. CASE \E sender \in Callers, auth \in Authorizations : RefundCall(sender, auth)
  <2> PICK sender \in Callers, auth \in Authorizations : RefundCall(sender, auth)
    BY <1>5
  <2> DEFINE f == [op |-> "refund", amount |-> fundedAmount - releasedAmount,
                   milestoneId |-> 0, nonce |-> auth.nonce]
  <2>1. PendingOp' = "refund" /\ Head(frames') = f
    <3>1. f \in Frame
      BY AmountsAssumption DEF Frame, Authorization, IInv, TypeOK, RefundCall
    <3>2. frames' # << >> /\ Head(frames') = f
      BY <3>1, PushOne DEF RefundCall, NonReentrant
    <3> QED BY <3>2 DEF PendingOp
  <2>2. SpentNonces' = SpentNonces
    <3>1. usedNonces' = usedNonces \cup {<<0, auth.nonce>>}
      BY DEF RefundCall, ConsumeNonce, NonceKey
    <3>2. <<0, auth.nonce>> \notin usedNonces
      BY DEF RefundCall, AuthorizationVerified, NonceKey
    <3> QED BY <1>1, <2>1, <3>1, <3>2 DEF SpentNonces
  <2> QED BY <1>1, <1>2, <2>1, <2>2 DEF MappedState, PaidCount, RefundCall
<1> QED BY <1>3, <1>4, <1>5

\* fund's transfer is a deposit into the pot.
LEMMA FundReturnDeposits ==
    ASSUME IInv, FundReturn
    PROVE  Payout!Deposit
<1>1. Head(frames) \in Frame /\ PendingOp = "fund" /\ PendingOp' = "none"
  BY PopOne DEF IInv, TypeOK, FundReturn
<1>2. balance'["escrow"] > balance["escrow"]
  BY <1>1 DEF IInv, TypeOK, PendingFund, FundReturn, Transfer, Frame, Accounts, Parties
<1>3. PaidCount' = PaidCount /\ SpentNonces' = SpentNonces /\ GateOpen' = GateOpen
  BY <1>1 DEF PaidCount, SpentNonces, FundReturn, GateOpen, ComplianceVerified, worldVars
<1> QED BY <1>2, <1>3 DEF Payout!Deposit

\* releaseMilestone's transfer pays the next milestone due, through the open gate.
LEMMA ReleaseReturnPays ==
    ASSUME IInv, ReleaseReturn
    PROVE  Payout!Pay
<1> DEFINE m == Head(frames).milestoneId
           id == <<m, Head(frames).nonce>>
<1>1. Head(frames) \in Frame /\ PendingOp = "release" /\ PendingOp' = "none"
  BY PopOne DEF IInv, TypeOK, ReleaseReturn
<1>2. /\ m \in Milestones /\ Head(frames).amount = MilestoneAmount(m)
      /\ milestoneReleased[m] /\ (m = 1 => ~milestoneReleased[2])
      /\ id \in usedNonces /\ GateOpen
  BY <1>1 DEF IInv, PendingRelease
<1>3. /\ PaidCount = m - 1 /\ PaidCount' = m
  BY <1>1, <1>2
     DEF IInv, PaidInSequence, PaidCount, ReleaseReturn, escrowVars, Milestones
<1>4. Payout!Due(PaidCount + 1) = Head(frames).amount
  BY <1>2, <1>3 DEF Payout!Due, MilestoneAmount, Milestones
<1>5. /\ balance["escrow"] >= Head(frames).amount
      /\ balance'["escrow"] = balance["escrow"] - Head(frames).amount
  BY <1>1 DEF IInv, TypeOK, ReleaseReturn, Transfer, Frame, Accounts, Parties
<1>6. id \in SpentNonces' /\ id \notin SpentNonces /\ SpentNonces' = SpentNonces \cup {id}
  BY <1>1, <1>2 DEF SpentNonces, ReleaseReturn, escrowVars
<1>7. GateOpen' = GateOpen
  BY DEF ReleaseReturn, GateOpen, ComplianceVerified, worldVars
<1>8. PaidCount < 2 /\ PaidCount' = PaidCount + 1
  BY <1>2, <1>3 DEF Milestones
<1> QED
  BY <1>2, <1>4, <1>5, <1>6, <1>7, <1>8 DEF Payout!Pay, Payout!Spend

\* refund's transfer is a refund from the pot.
LEMMA RefundReturnRefunds ==
    ASSUME IInv, RefundReturn
    PROVE  Payout!Refund
<1> DEFINE id == <<Head(frames).milestoneId, Head(frames).nonce>>
<1>1. Head(frames) \in Frame /\ PendingOp = "refund" /\ PendingOp' = "none"
  BY PopOne DEF IInv, TypeOK, RefundReturn
<1>2. 0 <= balance'["escrow"] /\ balance'["escrow"] < balance["escrow"]
  BY <1>1 DEF IInv, TypeOK, PendingRefund, RefundReturn, Transfer, Frame, Accounts, Parties
<1>3. id \in SpentNonces' /\ id \notin SpentNonces /\ SpentNonces' = SpentNonces \cup {id}
  BY <1>1 DEF IInv, PendingRefund, SpentNonces, RefundReturn, escrowVars
<1>4. PaidCount' = PaidCount /\ GateOpen' = GateOpen
  BY <1>1 DEF PaidCount, RefundReturn, escrowVars, GateOpen, ComplianceVerified, worldVars
<1> QED BY <1>2, <1>3, <1>4 DEF Payout!Refund, Payout!Spend

\* The escrow is an implementation of MilestonePayout: whatever is funded,
\* released, refunded and funded again, its tokens leave only by a milestone
\* paid in order and in full through the open compliance gate or by a refund,
\* and each time against an authorization never used before.
THEOREM Refinement == Spec => ImplementsPayout
<1>1. Init => Payout!Init
  BY DEF Init, Payout!Init, PaidCount, SpentNonces, PendingOp, GateOpen, Accounts, Milestones,
         ComplianceVerified
<1>2. IInv /\ [Next]_vars => [Payout!Next]_(Payout!vars)
  <2> SUFFICES ASSUME IInv, [Next]_vars
               PROVE  Payout!Next \/ UNCHANGED MappedState
    BY DEF Payout!vars, MappedState
  <2>1. CASE Next /\ (\/ \E sender \in Callers, amount \in FundAmounts :
                              FundCall(sender, amount)
                      \/ \E auth \in Authorizations : ReleaseCall(auth)
                      \/ \E sender \in Callers, auth \in Authorizations :
                              RefundCall(sender, auth))
    BY <2>1, CallStutters
  <2>2. CASE FundReturn
    BY <2>2, FundReturnDeposits DEF Payout!Next
  <2>3. CASE ReleaseReturn
    BY <2>3, ReleaseReturnPays DEF Payout!Next
  <2>4. CASE RefundReturn
    BY <2>4, RefundReturnRefunds DEF Payout!Next
  <2>5. CASE \/ \E sender \in Callers : EnterHold(sender)
             \/ UNCHANGED vars
    BY <2>5 DEF EnterHold, MappedState, PaidCount, SpentNonces, PendingOp, GateOpen,
                ComplianceVerified, vars, escrowVars, worldVars
  <2>6. CASE \/ \E sender \in Callers : RegisterPool(sender)
             \/ \E users \in SUBSET Parties : SetEligible(users)
             \/ \E flag \in BOOLEAN : SetPaused(flag) \/ SetPolicy(flag)
             \/ Tick
    <3>1. UNCHANGED <<frames, balance, milestoneReleased, usedNonces>>
      BY <2>6 DEF RegisterPool, SetEligible, SetPaused, SetPolicy, Tick, escrowVars
    <3>2. UNCHANGED <<balance["escrow"], PaidCount, SpentNonces>>
      BY <3>1 DEF PaidCount, SpentNonces, PendingOp
    <3>3. GateOpen' \in BOOLEAN
      BY DEF GateOpen
    <3> QED BY <3>2, <3>3 DEF Payout!Next, Payout!GateMoves
  <2> QED BY <2>1, <2>2, <2>3, <2>4, <2>5, <2>6 DEF Next
<1> QED BY <1>1, <1>2, Invariance, PTL DEF Spec, ImplementsPayout, Payout!Spec

=============================================================================
