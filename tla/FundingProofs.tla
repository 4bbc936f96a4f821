---------------------------- MODULE FundingProofs ----------------------------
(***************************************************************************)
(* Proofs about the funding scheduler beside the importer's panel          *)
(* (AutoFund, ImporterPanel), for any number of transactions, transfers,   *)
(* refunds and failures: the escrow never takes one deposit too many, and  *)
(* whoever tells the registry of a deposit has seen one mined.             *)
(***************************************************************************)
EXTENDS ImporterPanel, FiniteSetTheorems, SequenceTheorems, TLAPS

Tx == [kind : Kinds, status : {"pending", "success", "reverted"}]

IsDeposit(i) == i \in 1 .. Len(txs) /\ txs[i].kind = "fund"

DepositMined == \E i \in 1 .. Len(txs) : txs[i].kind = "fund" /\ txs[i].status # "pending"

-----------------------------------------------------------------------------
(* The inductive invariant.                                                *)

\* The escrow's books: what it took and has not refunded is what it holds.
EscrowSound ==
    /\ deposits = refunds + (IF escrowFunded THEN 1 ELSE 0)
    /\ escrowFunded => DepositMined

\* Whoever waits for a transaction waits for one that was sent, and the
\* scheduler mirrors a deposit that is there or was.
JobSound ==
    /\ job.pc = "waitApprove" => job.tx \in 1 .. Len(txs)
    /\ job.pc = "waitFund" => IsDeposit(job.tx)
    /\ job.pc = "mirror" => DepositMined
    /\ script \in 0 .. Len(txs)

\* What the page took care of includes whatever it knows to be told.
PanelSound ==
    /\ panel.approve \in 0 .. Len(txs)
    /\ panel.fund # 0 => IsDeposit(panel.fund)
    /\ panel.fundConfirmed => panel.fund # 0 /\ txs[panel.fund].status = "success"
    /\ \A i \in 1 .. Len(posted) : posted[i] = panel.fund => panel.fund \in panel.mirrored
    /\ panel.posting > 0 => DepositMined

PostedSound ==
    /\ \A i \in 1 .. Len(posted) : IsDeposit(posted[i]) /\ txs[posted[i]].status = "success"
    /\ IsFiniteSet({posted[i] : i \in 1 .. Len(posted)})
    /\ Cardinality({posted[i] : i \in 1 .. Len(posted)}) = Len(posted)

RowSound ==
    /\ intent.pc = "save" /\ intent.by = "panel" => DepositMined
    /\ row = "FUNDED" => claimed \/ DepositMined

FundInv ==
    /\ PanelTypeOK
    /\ EscrowSound /\ JobSound /\ PanelSound /\ PostedSound /\ RowSound

-----------------------------------------------------------------------------
(* Transactions: they are appended, and mined once.                        *)

\* What every step does to the transactions.
Grows ==
    /\ txs' \in Seq(Tx)
    /\ Len(txs) <= Len(txs')
    /\ \A i \in 1 .. Len(txs) :
          /\ txs'[i].kind = txs[i].kind
          /\ txs[i].status # "pending" => txs'[i] = txs[i]

\* Nothing sent or mined.
LEMMA SameGrows ==
    ASSUME txs \in Seq(Tx), UNCHANGED txs
    PROVE  Grows
  BY DEF Grows

\* One more transaction, the last one.
LEMMA SentGrows ==
    ASSUME txs \in Seq(Tx), NEW kind \in Kinds, Sent(kind)
    PROVE  /\ Grows
           /\ Len(txs') = Len(txs) + 1
           /\ txs'[Len(txs) + 1].kind = kind
<1> DEFINE tx == [kind |-> kind, status |-> "pending"]
<1>1. tx \in Tx
  BY DEF Tx
<1>2. txs' = Append(txs, tx)
  BY DEF Sent
<1> HIDE DEF tx
<1>3. /\ txs' \in Seq(Tx)
      /\ Len(txs') = Len(txs) + 1
      /\ \A i \in 1 .. Len(txs) : txs'[i] = txs[i]
      /\ txs'[Len(txs) + 1] = tx
  BY <1>1, <1>2, AppendProperties
<1>4. Len(txs) \in Nat
  BY LenProperties
<1> QED  BY <1>3, <1>4 DEF Grows, tx

\* A pending transaction gets its receipt.
LEMMA MinedGrows ==
    ASSUME txs \in Seq(Tx), Mine
    PROVE  Grows /\ Len(txs') = Len(txs)
<1>0. PICK i \in DOMAIN txs :
        /\ txs[i].status = "pending"
        /\ txs' = [txs EXCEPT ![i].status =
                      IF txs[i].kind = "approve" \/ FundSucceeds
                      THEN "success" ELSE "reverted"]
  BY Zenon DEF Mine, IsNext
<1> DEFINE status == IF txs[i].kind = "approve" \/ FundSucceeds
                     THEN "success" ELSE "reverted"
<1>1. /\ i \in 1 .. Len(txs) /\ status \in {"success", "reverted"}
      /\ txs[i].status = "pending"
      /\ txs' = [txs EXCEPT ![i].status = status]
  BY <1>0, LenProperties
<1> HIDE DEF status
<1>2. [txs[i] EXCEPT !.status = status] \in Tx
  <2>1. txs[i] \in Tx
    BY <1>1, ElementOfSeq
  <2> QED  BY <1>1, <2>1 DEF Tx
<1>3. txs' = [txs EXCEPT ![i] = [txs[i] EXCEPT !.status = status]]
  BY <1>1
<1>4. /\ txs' \in Seq(Tx) /\ Len(txs') = Len(txs)
      /\ \A j \in 1 .. Len(txs) :
            txs'[j] = IF j = i THEN [txs[i] EXCEPT !.status = status] ELSE txs[j]
  BY <1>2, <1>3, ExceptSeq
<1>5. [txs[i] EXCEPT !.status = status].kind = txs[i].kind
  BY ElementOfSeq DEF Tx
<1> QED  BY <1>1, <1>4, <1>5, LenProperties DEF Grows

\* Deposits, and that they took effect, are never taken back.
LEMMA DepositsStay ==
    ASSUME txs \in Seq(Tx), Grows
    PROVE  /\ DepositMined => DepositMined'
           /\ Len(txs) \in Nat /\ Len(txs') \in Nat /\ Len(txs) <= Len(txs')
           /\ \A i : IsDeposit(i) =>
                /\ i \in 1 .. Len(txs') /\ txs'[i].kind = "fund"
                /\ txs[i].status = "success" => txs'[i].status = "success"
<1>1. Len(txs) \in Nat /\ Len(txs') \in Nat /\ Len(txs) <= Len(txs')
  BY LenProperties DEF Grows
<1>2. \A i \in 1 .. Len(txs) : i \in 1 .. Len(txs')
  BY <1>1
<1>3. DepositMined => DepositMined'
  <2> SUFFICES ASSUME DepositMined PROVE DepositMined'
    OBVIOUS
  <2>1. PICK i \in 1 .. Len(txs) : txs[i].kind = "fund" /\ txs[i].status # "pending"
    BY DEF DepositMined
  <2>2. txs'[i] = txs[i] /\ i \in 1 .. Len(txs')
    BY <1>2, <2>1 DEF Grows
  <2> QED  BY <2>1, <2>2 DEF DepositMined
<1>4. ASSUME NEW i, IsDeposit(i)
      PROVE  /\ i \in 1 .. Len(txs') /\ txs'[i].kind = "fund"
             /\ txs[i].status = "success" => txs'[i].status = "success"
  BY <1>2, <1>4 DEF IsDeposit, Grows
<1> QED  BY <1>1, <1>3, <1>4

-----------------------------------------------------------------------------
(* What a step does not touch stays sound.                                 *)

\* The escrow's balance equation is about what is mined: longer transactions keep it.
LEMMA EscrowStays ==
    ASSUME txs \in Seq(Tx), Grows, EscrowSound, UNCHANGED <<deposits, refunds, escrowFunded>>
    PROVE  EscrowSound'
  BY DepositsStay DEF EscrowSound

\* The funding job's invariant survives transactions added or mined by others.
LEMMA JobStays ==
    ASSUME txs \in Seq(Tx), Grows, JobSound, UNCHANGED <<job, script>>
    PROVE  JobSound'
<1>1. job.pc = "waitFund" => IsDeposit(job.tx)'
  BY DepositsStay DEF JobSound, IsDeposit
<1>2. job.pc = "waitApprove" => job.tx \in 1 .. Len(txs')
  BY DepositsStay DEF JobSound
<1>3. script' \in 0 .. Len(txs')
  BY DepositsStay DEF JobSound
<1> QED  BY <1>1, <1>2, <1>3, DepositsStay DEF JobSound

\* The panel's invariant survives transactions added or mined by others.
LEMMA PanelStays ==
    ASSUME txs \in Seq(Tx), Grows, PanelSound, UNCHANGED <<panel, posted>>
    PROVE  PanelSound'
<1>1. panel.approve \in 0 .. Len(txs')
  BY DepositsStay DEF PanelSound
<1>2. panel.fund # 0 => IsDeposit(panel.fund)'
  BY DepositsStay DEF PanelSound, IsDeposit
<1>3. panel.fundConfirmed => panel.fund # 0 /\ txs'[panel.fund].status = "success"
  BY DepositsStay DEF PanelSound
<1> QED  BY <1>1, <1>2, <1>3, DepositsStay DEF PanelSound

\* The posted funding reports stay true when transactions are added or mined by others.
LEMMA PostedStays ==
    ASSUME txs \in Seq(Tx), Grows, PostedSound, UNCHANGED posted
    PROVE  PostedSound'
<1>1. ASSUME NEW i \in 1 .. Len(posted)
      PROVE  IsDeposit(posted[i])' /\ txs'[posted[i]].status = "success"
  BY DepositsStay DEF PostedSound, IsDeposit
<1> QED  BY <1>1 DEF PostedSound

\* The stored row's invariant survives transactions added or mined by others.
LEMMA RowStays ==
    ASSUME txs \in Seq(Tx), Grows, RowSound, UNCHANGED <<row, claimed, intent>>
    PROVE  RowSound'
  BY DepositsStay DEF RowSound

-----------------------------------------------------------------------------
(* Types.                                                                  *)

\* The parts of a job, a panel and a request that the steps below need.
LEMMA Fields ==
    ASSUME FundInv
    PROVE  /\ txs \in Seq(Tx) /\ Len(txs) \in Nat /\ MaxSent \in Nat
           /\ job \in Job /\ job.tx \in 0 .. MaxSent
           /\ panel \in Panel
           /\ panel.fund \in 0 .. MaxSent /\ panel.mirrored \subseteq 1 .. MaxSent
           /\ script \in 0 .. MaxSent
           /\ posted \in Seq(1 .. MaxSent)
<1>1. TypeOK /\ PanelTypeOK
  BY DEF FundInv, PanelTypeOK
<1>2. job \in Job /\ script \in 0 .. MaxSent
  BY <1>1 DEF TypeOK
<1>3. job.tx \in 0 .. MaxSent
  BY <1>2 DEF Job
<1>4. panel \in Panel /\ posted \in Seq(1 .. MaxSent)
  BY <1>1 DEF PanelTypeOK
<1>5. panel.fund \in 0 .. MaxSent /\ panel.mirrored \subseteq 1 .. MaxSent
  BY <1>4 DEF Panel
<1>6. txs \in Seq(Tx)
  BY <1>1 DEF TypeOK, Tx
<1>7. Len(txs) \in Nat
  BY <1>6, LenProperties
<1>8. MaxSent \in Nat
  BY AutoFundAssumption
<1> QED  BY <1>1, <1>2, <1>3, <1>4, <1>5, <1>6, <1>7, <1>8

\* NoJob and the other ends of a tick are jobs.
LEMMA JobSteps ==
    ASSUME job \in Job, MaxSent \in Nat
    PROVE  /\ NoJob \in Job /\ NoJob.pc = "idle" /\ NoJob.tx = 0
           /\ \A reason \in Reasons :
                 /\ [NoJob EXCEPT !.pc = "deny", !.reason = reason] \in Job
                 /\ [NoJob EXCEPT !.pc = "deny", !.reason = reason].pc = "deny"
           /\ \A pc \in {"readFunded", "readBalance", "readAllowance", "approve", "fund",
                         "mirror", "audit"} :
                 /\ [job EXCEPT !.pc = pc] \in Job
                 /\ [job EXCEPT !.pc = pc].pc = pc
           /\ \A pc \in {"waitApprove", "waitFund"}, tx \in 1 .. MaxSent :
                 /\ [job EXCEPT !.pc = pc, !.tx = tx] \in Job
                 /\ [job EXCEPT !.pc = pc, !.tx = tx].pc = pc
                 /\ [job EXCEPT !.pc = pc, !.tx = tx].tx = tx
<1>1. NoJob \in Job /\ NoJob.pc = "idle" /\ NoJob.tx = 0
  BY DEF Job, NoJob, NoReason
<1>2. ASSUME NEW reason \in Reasons
      PROVE  /\ [NoJob EXCEPT !.pc = "deny", !.reason = reason] \in Job
             /\ [NoJob EXCEPT !.pc = "deny", !.reason = reason].pc = "deny"
  BY <1>1 DEF Job, NoJob
<1>3. ASSUME NEW pc \in {"readFunded", "readBalance", "readAllowance", "approve", "fund",
                         "mirror", "audit"}
      PROVE  [job EXCEPT !.pc = pc] \in Job /\ [job EXCEPT !.pc = pc].pc = pc
  BY DEF Job
<1>4. ASSUME NEW pc \in {"waitApprove", "waitFund"}, NEW tx \in 1 .. MaxSent
      PROVE  /\ [job EXCEPT !.pc = pc, !.tx = tx] \in Job
             /\ [job EXCEPT !.pc = pc, !.tx = tx].pc = pc
             /\ [job EXCEPT !.pc = pc, !.tx = tx].tx = tx
  <2>1. tx \in 0 .. MaxSent
    OBVIOUS
  <2> QED  BY <2>1 DEF Job
<1> QED  BY <1>1, <1>2, <1>3, <1>4

\* A denial ends the tick, at once or after its audit record.
LEMMA Denied ==
    ASSUME job \in Job, MaxSent \in Nat, NEW reason \in Reasons, Deny(reason)
    PROVE  /\ job' \in Job /\ job'.pc \in {"idle", "deny"}
           /\ lastDenied' \in Reasons
<1>1. lastDenied' = reason
  BY DEF Deny
<1>2. job' = NoJob \/ job' = [NoJob EXCEPT !.pc = "deny", !.reason = reason]
  BY DEF Deny, EndTick
<1>3. /\ NoJob \in Job /\ NoJob.pc = "idle"
      /\ [NoJob EXCEPT !.pc = "deny", !.reason = reason] \in Job
      /\ [NoJob EXCEPT !.pc = "deny", !.reason = reason].pc = "deny"
  BY JobSteps
<1>4. CASE job' = NoJob
  BY <1>1, <1>3, <1>4
<1>5. CASE job' = [NoJob EXCEPT !.pc = "deny", !.reason = reason]
  BY <1>1, <1>3, <1>5
<1> QED  BY <1>2, <1>4, <1>5

-----------------------------------------------------------------------------
(* The scheduler's steps.                                                  *)

\* A step of the scheduler or around it, the page left alone.
LEMMA FundingFrame ==
    ASSUME FundInv, Grows, UNCHANGED panelVars,
           TypeOK', EscrowSound', JobSound',
           row' = "FUNDED" => claimed' \/ DepositMined'
    PROVE  FundInv'
<1>1. PanelTypeOK'
  BY DEF FundInv, PanelTypeOK, panelVars
<1>2. PanelSound'
  BY PanelStays, Fields DEF FundInv, panelVars
<1>3. PostedSound'
  BY PostedStays, Fields DEF FundInv, panelVars
<1>4. RowSound'
  BY DepositsStay, Fields DEF FundInv, RowSound, panelVars
<1> QED  BY <1>1, <1>2, <1>3, <1>4 DEF FundInv

\* A step of the tick that neither sends nor mirrors.
LEMMA TickFrame ==
    ASSUME FundInv, UNCHANGED panelVars,
           UNCHANGED <<row, claimed, chain, txs, script, transfers, refunds>>,
           job' \in Job, lastDenied' \in Reasons \cup {NoReason}, cooling' \in BOOLEAN,
           failures' \in 0 .. MaxFailures,
           job'.pc \notin {"waitApprove", "waitFund"},
           job'.pc = "mirror" => DepositMined
    PROVE  FundInv'
<1>1. Grows
  BY SameGrows, Fields
<1>2. TypeOK'
  BY DEF FundInv, PanelTypeOK, TypeOK, chain
<1>3. EscrowSound'
  BY EscrowStays, <1>1, Fields DEF FundInv, chain
<1>4. DepositMined' <=> DepositMined
  BY DEF DepositMined
<1>5. JobSound'
  BY <1>4 DEF FundInv, JobSound
<1>6. row' = "FUNDED" => claimed' \/ DepositMined'
  BY <1>4 DEF FundInv, RowSound
<1> QED  BY <1>1, <1>2, <1>3, <1>5, <1>6, FundingFrame

\* What the scheduler remembers, and the bound on failures.
LEMMA Remembered ==
    ASSUME FundInv
    PROVE  /\ lastDenied \in Reasons \cup {NoReason} /\ cooling \in BOOLEAN
           /\ failures \in 0 .. MaxFailures
           /\ Fail => failures' \in 0 .. MaxFailures
           /\ job \in Job /\ MaxSent \in Nat
<1>1. /\ lastDenied \in Reasons \cup {NoReason} /\ cooling \in BOOLEAN
      /\ failures \in 0 .. MaxFailures
  BY DEF FundInv, PanelTypeOK, TypeOK
<1>2. MaxFailures \in Nat
  BY AutoFundAssumption
<1> QED  BY <1>1, <1>2, Fields DEF Fail

\* The ticks and reads that only move the tick on.
LEMMA ReadInv ==
    ASSUME FundInv, UNCHANGED panelVars,
           Tick \/ ReadFunded \/ ReadAllowance \/ AuditFund \/ AuditDeny
    PROVE  FundInv'
<1>1. /\ job' \in Job /\ job'.pc \notin {"waitApprove", "waitFund"}
      /\ job'.pc = "mirror" => DepositMined
  <2>1. CASE Tick
    BY <2>1, JobSteps, Remembered DEF Tick, GoTo
  <2>2. CASE ReadFunded
    <3>1. CASE escrowFunded
      BY <2>2, <3>1, JobSteps, Remembered DEF ReadFunded, GoTo, FundInv, EscrowSound
    <3>2. CASE ~escrowFunded
      BY <2>2, <3>2, JobSteps, Remembered DEF ReadFunded, GoTo
    <3> QED  BY <3>1, <3>2
  <2>3. CASE ReadAllowance
    <3>1. CASE allowed
      BY <2>3, <3>1, JobSteps, Remembered DEF ReadAllowance, GoTo
    <3>2. CASE ~allowed
      BY <2>3, <3>2, JobSteps, Remembered DEF ReadAllowance, GoTo
    <3> QED  BY <3>1, <3>2
  <2>4. CASE AuditFund \/ AuditDeny
    BY <2>4, JobSteps, Remembered DEF AuditFund, AuditDeny, EndTick
  <2> QED  BY <2>1, <2>2, <2>3, <2>4
<1>2. UNCHANGED <<row, claimed, chain, txs, script, transfers, refunds, lastDenied,
                  cooling, failures>>
  BY DEF Tick, ReadFunded, ReadAllowance, AuditFund, AuditDeny, bounds
<1> QED  BY <1>1, <1>2, Remembered, TickFrame

\* The balance read of a funding attempt keeps the invariant, whichever way it goes.
LEMMA ReadBalanceInv ==
    ASSUME FundInv, UNCHANGED panelVars, ReadBalance
    PROVE  FundInv'
<1>1. /\ job' \in Job /\ job'.pc \in {"idle", "deny", "readAllowance"}
      /\ lastDenied' \in Reasons \cup {NoReason}
  <2>1. CASE Deny("balance below the total")
    BY <2>1, Denied, Remembered DEF Reasons
  <2>2. CASE EndTick /\ UNCHANGED lastDenied
    BY <2>2, JobSteps, Remembered DEF EndTick
  <2>3. CASE GoTo("readAllowance") /\ UNCHANGED lastDenied
    BY <2>3, JobSteps, Remembered DEF GoTo
  <2>4. importer \in Nat
    BY DEF FundInv, PanelTypeOK, TypeOK
  <2> QED  BY <2>1, <2>2, <2>3, <2>4 DEF ReadBalance
<1>2. UNCHANGED <<row, claimed, chain, txs, script, transfers, refunds, cooling, failures>>
  BY DEF ReadBalance, bounds
<1> QED  BY <1>1, <1>2, Remembered, TickFrame

\* Failures before anything is sent, a failed mirror, a restart, and time.
LEMMA FailureInv ==
    ASSUME FundInv, UNCHANGED panelVars,
           RequestFails \/ MirrorFails \/ Restart \/ CooldownEnds
    PROVE  FundInv'
<1>1. CASE RequestFails
  <2>1. job' \in Job /\ job'.pc \in {"idle", "approve"}
    <3>1. CASE At("readAllowance")
      BY <1>1, <3>1, JobSteps, Remembered DEF RequestFails, GoTo
    <3>2. CASE ~At("readAllowance")
      BY <1>1, <3>2, JobSteps, Remembered DEF RequestFails, EndTick
    <3> QED  BY <3>1, <3>2
  <2>2. /\ UNCHANGED <<row, claimed, chain, txs, script, transfers, refunds, cooling,
                       lastDenied>>
        /\ Fail
    BY <1>1 DEF RequestFails
  <2> QED  BY <2>1, <2>2, Remembered, TickFrame
<1>2. CASE MirrorFails \/ Restart
  <2>1. /\ job' \in Job /\ job'.pc = "idle"
        /\ lastDenied' \in Reasons \cup {NoReason} /\ cooling' \in BOOLEAN
    BY <1>2, JobSteps, Remembered DEF MirrorFails, Restart, EndTick
  <2>2. UNCHANGED <<row, claimed, chain, txs, script, transfers, refunds>> /\ Fail
    BY <1>2 DEF MirrorFails, Restart
  <2> QED  BY <2>1, <2>2, Remembered, TickFrame
<1>3. CASE CooldownEnds
  <2>1. /\ UNCHANGED <<job, row, claimed, chain, txs, script, bounds, lastDenied>>
        /\ cooling' \in BOOLEAN
    BY <1>3 DEF CooldownEnds
  <2>2. Grows
    BY <2>1, SameGrows, Fields
  <2>3. EscrowSound' /\ JobSound'
    BY <2>1, <2>2, EscrowStays, JobStays, Fields DEF FundInv, chain, bounds
  <2>4. TypeOK'
    BY <2>1 DEF FundInv, PanelTypeOK, TypeOK, chain, bounds
  <2>5. row' = "FUNDED" => claimed' \/ DepositMined'
    BY <2>1 DEF FundInv, RowSound, DepositMined
  <2> QED  BY <2>2, <2>3, <2>4, <2>5, FundingFrame
<1> QED  BY <1>1, <1>2, <1>3

\* A step that sends, mines or mirrors, the escrow left alone.
LEMMA SendFrame ==
    ASSUME FundInv, Grows, UNCHANGED panelVars,
           UNCHANGED <<row, claimed, chain, refunds>>,
           job' \in Job, lastDenied' \in Reasons \cup {NoReason}, cooling' \in BOOLEAN,
           transfers' \in 0 .. MaxTransfers, failures' \in 0 .. MaxFailures,
           script' \in 0 .. MaxSent,
           JobSound'
    PROVE  FundInv'
<1>1. TypeOK'
  BY DEF FundInv, PanelTypeOK, TypeOK, chain, Grows, Tx
<1>2. EscrowSound'
  BY EscrowStays, Fields DEF FundInv, chain
<1>3. row' = "FUNDED" => claimed' \/ DepositMined'
  BY DepositsStay, Fields DEF FundInv, RowSound
<1> QED  BY <1>1, <1>2, <1>3, FundingFrame

\* Types and bounds that SendFrame asks for, of what a step leaves alone.
LEMMA Bounded ==
    ASSUME FundInv
    PROVE  /\ transfers \in 0 .. MaxTransfers /\ failures \in 0 .. MaxFailures
           /\ refunds \in 0 .. MaxRefunds
           /\ script \in 0 .. MaxSent /\ script \in 0 .. Len(txs)
           /\ transfers < MaxTransfers => transfers + 1 \in 0 .. MaxTransfers
           /\ refunds < MaxRefunds => refunds + 1 \in 0 .. MaxRefunds
           /\ Len(txs) < MaxSent => Len(txs) + 1 \in 1 .. MaxSent
<1>1. /\ transfers \in 0 .. MaxTransfers /\ failures \in 0 .. MaxFailures
      /\ refunds \in 0 .. MaxRefunds
  BY DEF FundInv, PanelTypeOK, TypeOK
<1>2. {MaxTransfers, MaxRefunds, MaxFailures} \subseteq Nat
  BY AutoFundAssumption
<1>3. script \in 0 .. MaxSent /\ Len(txs) \in Nat /\ MaxSent \in Nat
  BY Fields
<1>4. script \in 0 .. Len(txs)
  BY DEF FundInv, JobSound
<1> QED  BY <1>1, <1>2, <1>3, <1>4

\* The approval of a funding attempt keeps the invariant: it moves no deposit.
LEMMA ApproveInv ==
    ASSUME FundInv, UNCHANGED panelVars, Approve
    PROVE  FundInv'
<1>1. Grows /\ Len(txs') = Len(txs) + 1
  BY SentGrows, Fields DEF Approve, Kinds
<1>2. Len(txs) + 1 \in 1 .. MaxSent
  BY Bounded DEF Approve
<1>3. job' \in Job /\ job'.pc = "waitApprove" /\ job'.tx = Len(txs) + 1
  BY <1>2, JobSteps, Remembered DEF Approve
<1>4. /\ UNCHANGED <<row, claimed, chain, script, lastDenied, cooling>>
      /\ UNCHANGED <<transfers, refunds, failures>>
  BY DEF Approve, bounds
<1>5. JobSound'
  BY <1>1, <1>3, <1>4, Fields, Bounded DEF JobSound
<1> QED  BY <1>1, <1>3, <1>4, <1>5, Remembered, Bounded, SendFrame

\* Sending the deposit keeps the invariant: the job now waits for its own transaction.
LEMMA FundStepInv ==
    ASSUME FundInv, UNCHANGED panelVars, Fund
    PROVE  FundInv'
<1>1. UNCHANGED <<row, claimed, chain, script, transfers, refunds, failures>>
  BY DEF Fund, bounds
<1>2. CASE FundSucceeds
  <2>1. Sent("fund") /\ UNCHANGED <<lastDenied, cooling>>
    BY <1>2 DEF Fund
  <2>2. Grows /\ Len(txs') = Len(txs) + 1 /\ txs'[Len(txs) + 1].kind = "fund"
    BY <2>1, SentGrows, Fields DEF Kinds
  <2>3. Len(txs) + 1 \in 1 .. MaxSent
    BY Bounded DEF Fund
  <2>4. job' \in Job /\ job'.pc = "waitFund" /\ job'.tx = Len(txs) + 1
    <3>1. job' = [job EXCEPT !.pc = "waitFund", !.tx = Len(txs) + 1]
      BY <1>2 DEF Fund
    <3> QED  BY <2>3, <3>1, JobSteps, Remembered
  <2>5. JobSound'
    BY <1>1, <2>2, <2>4, Fields, Bounded DEF JobSound, IsDeposit
  <2> QED  BY <1>1, <2>1, <2>2, <2>4, <2>5, Remembered, Bounded, SendFrame
<1>3. CASE ~FundSucceeds
  <2>1. WriteFailed /\ UNCHANGED txs
    BY <1>3 DEF Fund
  <2>2. /\ job' \in Job /\ job'.pc \in {"idle", "deny"}
        /\ lastDenied' \in Reasons /\ cooling' = TRUE
    BY <2>1, Denied, Remembered DEF WriteFailed, Reasons
  <2> QED  BY <1>1, <2>1, <2>2, Remembered, TickFrame
<1> QED  BY <1>2, <1>3

\* The receipt of a deposit, whatever it says, is one of a mined deposit.
LEMMA ReceiptInv ==
    ASSUME FundInv, UNCHANGED panelVars, Receipt
    PROVE  FundInv'
<1>1. /\ UNCHANGED <<row, claimed, chain, txs, script, transfers, refunds>>
      /\ UNCHANGED <<lastDenied, cooling, failures>>
  BY DEF Receipt, bounds
<1>2. CASE At("waitApprove")
  <2>1. job' \in Job /\ job'.pc = "fund"
    BY <1>2, JobSteps, Remembered DEF Receipt, GoTo
  <2> QED  BY <1>1, <2>1, Remembered, TickFrame
<1>3. CASE At("waitFund") /\ ~At("waitApprove")
  <2>1. job' \in Job /\ job'.pc = "mirror"
    BY <1>3, JobSteps, Remembered DEF Receipt, GoTo
  <2>2. DepositMined
    BY <1>3 DEF Receipt, At, FundInv, JobSound, IsDeposit, DepositMined
  <2> QED  BY <1>1, <2>1, <2>2, Remembered, TickFrame
<1> QED  BY <1>2, <1>3 DEF Receipt

\* Writing FUNDED after the mined deposit keeps the row's invariant.
LEMMA MirrorFundInv ==
    ASSUME FundInv, UNCHANGED panelVars, MirrorFund
    PROVE  FundInv'
<1>1. job' \in Job /\ job'.pc = "audit"
  BY JobSteps, Remembered DEF MirrorFund, GoTo
<1>2. /\ UNCHANGED <<claimed, chain, txs, script, bounds>>
      /\ row' = "FUNDED" /\ lastDenied' = NoReason /\ cooling' = FALSE
  BY DEF MirrorFund
<1>3. Grows
  BY <1>2, SameGrows, Fields
<1>4. TypeOK'
  BY <1>1, <1>2 DEF FundInv, PanelTypeOK, TypeOK, chain, bounds
<1>5. EscrowSound'
  BY <1>2, <1>3, EscrowStays, Fields DEF FundInv, chain, bounds
<1>6. JobSound'
  BY <1>1, <1>2, Bounded DEF JobSound
<1>7. DepositMined'
  BY <1>2 DEF MirrorFund, At, FundInv, JobSound, DepositMined
<1> QED  BY <1>3, <1>4, <1>5, <1>6, <1>7, FundingFrame

\* Whether or not the transaction went out, nobody waits for it any longer.
LEMMA WriteFailsInv ==
    ASSUME FundInv, UNCHANGED panelVars, WriteFails
    PROVE  FundInv'
<1>1. /\ UNCHANGED <<row, claimed, chain, script, transfers, refunds>>
      /\ Fail /\ WriteFailed
  BY DEF WriteFails
<1>2. /\ job' \in Job /\ job'.pc \in {"idle", "deny"}
      /\ lastDenied' \in Reasons /\ cooling' = TRUE
  BY <1>1, Denied, Remembered DEF WriteFailed, Reasons
<1>3. CASE UNCHANGED txs
  BY <1>1, <1>2, <1>3, Remembered, TickFrame
<1>4. CASE job.pc \in Kinds /\ Sent(job.pc)
  <2>1. Grows /\ Len(txs') = Len(txs) + 1
    BY <1>4, SentGrows, Fields
  <2>2. JobSound'
    BY <1>1, <1>2, <2>1, Fields, Bounded DEF JobSound
  <2> QED  BY <1>1, <1>2, <2>1, <2>2, Remembered, Bounded, SendFrame
<1> QED  BY <1>3, <1>4 DEF WriteFails

-----------------------------------------------------------------------------
(* The chain, and what else happens to the trade and its importer.         *)

\* Mining keeps the invariant: a deposit is counted when the escrow takes it.
LEMMA MineInv ==
    ASSUME FundInv, UNCHANGED panelVars, Mine
    PROVE  FundInv'
<1>0. PICK i \in DOMAIN txs :
        LET success == txs[i].kind = "approve" \/ FundSucceeds
            deposit == txs[i].kind = "fund" /\ success
        IN  /\ IsNext(i)
            /\ txs' = [txs EXCEPT ![i].status = IF success THEN "success" ELSE "reverted"]
            /\ allowed' = (IF txs[i].kind = "approve" THEN TRUE ELSE allowed /\ ~deposit)
            /\ escrowFunded' = (escrowFunded \/ deposit)
            /\ deposits' = IF deposit THEN deposits + 1 ELSE deposits
            /\ importer' = IF deposit THEN importer - 1 ELSE importer
            /\ UNCHANGED <<row, script, claimed, memory, barred, bounds>>
  BY Zenon DEF Mine
<1> DEFINE success == txs[i].kind = "approve" \/ FundSucceeds
           deposit == txs[i].kind = "fund" /\ success
           status  == IF success THEN "success" ELSE "reverted"
<1>1. /\ txs' = [txs EXCEPT ![i].status = status]
      /\ allowed' = (IF txs[i].kind = "approve" THEN TRUE ELSE allowed /\ ~deposit)
      /\ escrowFunded' = (escrowFunded \/ deposit)
      /\ deposits' = IF deposit THEN deposits + 1 ELSE deposits
      /\ importer' = IF deposit THEN importer - 1 ELSE importer
      /\ UNCHANGED <<row, script, claimed, job, lastDenied, cooling, barred,
                     transfers, refunds, failures>>
  BY <1>0 DEF memory, bounds
<1>2. Grows /\ Len(txs') = Len(txs) /\ i \in 1 .. Len(txs)
  BY MinedGrows, Fields, LenProperties
<1>3. /\ escrowFunded \in BOOLEAN /\ allowed \in BOOLEAN
      /\ deposits \in Nat /\ importer \in Nat /\ refunds \in Nat
  BY DEF FundInv, PanelTypeOK, TypeOK
<1>4. deposit \in BOOLEAN /\ (deposit => ~escrowFunded /\ importer >= 1)
  <2>1. txs[i].kind = "fund" => txs[i].kind # "approve"
    OBVIOUS
  <2> QED  BY <2>1 DEF FundSucceeds
<1>5. deposit => DepositMined'
  <2> SUFFICES ASSUME deposit PROVE DepositMined'
    OBVIOUS
  <2>1. txs[i] \in Tx
    BY <1>2, Fields, ElementOfSeq
  <2>2. txs'[i] = [txs[i] EXCEPT !.status = "success"]
    BY <1>1, <1>2, Fields, LenProperties
  <2>3. txs'[i].kind = "fund" /\ txs'[i].status = "success"
    BY <2>1, <2>2 DEF Tx
  <2> QED  BY <1>2, <2>3 DEF DepositMined
<1> HIDE DEF deposit, status
<1>6. TypeOK'
  <2>1. allowed' \in BOOLEAN
    BY <1>1, <1>3, <1>4
  <2>2. escrowFunded' \in BOOLEAN
    BY <1>1, <1>3, <1>4
  <2>3. deposits' \in Nat /\ importer' \in Nat
    BY <1>1, <1>3, <1>4
  <2> QED  BY <1>1, <1>2, <2>1, <2>2, <2>3 DEF FundInv, PanelTypeOK, TypeOK, Grows, Tx
<1>7. EscrowSound'
  <2>1. deposits' = refunds' + (IF escrowFunded' THEN 1 ELSE 0)
    BY <1>1, <1>3, <1>4 DEF FundInv, EscrowSound
  <2>2. escrowFunded' => DepositMined'
    BY <1>1, <1>2, <1>5, DepositsStay, Fields DEF FundInv, EscrowSound
  <2> QED  BY <2>1, <2>2 DEF EscrowSound
<1>8. JobSound'
  BY <1>1, <1>2, JobStays, Fields DEF FundInv
<1>9. row' = "FUNDED" => claimed' \/ DepositMined'
  BY <1>1, <1>2, DepositsStay, Fields DEF FundInv, RowSound
<1> QED  BY <1>2, <1>6, <1>7, <1>8, <1>9, FundingFrame

\* A new row of the trade, another transfer or standing of the importer, a refund.
LEMMA AroundInv ==
    ASSUME FundInv, UNCHANGED panelVars,
           CreateTrade \/ OtherTransfer \/ PolicyChanges \/ Refund
    PROVE  FundInv'
<1>1. UNCHANGED <<script, job, lastDenied, cooling, deposits, allowed, txs, failures>>
  BY DEF CreateTrade, OtherTransfer, PolicyChanges, Refund, memory, chain
<1>2. Grows /\ (DepositMined' <=> DepositMined)
  BY <1>1, SameGrows, Fields DEF DepositMined
<1>3. JobSound'
  BY <1>1, <1>2, JobStays, Fields DEF FundInv
<1>4. importer \in Nat /\ refunds \in Nat /\ deposits \in Nat
  BY DEF FundInv, PanelTypeOK, TypeOK
<1>5. CASE CreateTrade
  <2>1. /\ row' = "DRAFT" /\ claimed' = FALSE
        /\ UNCHANGED <<escrowFunded, importer, barred, refunds>>
        /\ transfers' \in 0 .. MaxTransfers
    BY <1>5, Bounded DEF CreateTrade, chain
  <2>2. TypeOK'
    BY <1>1, <2>1 DEF FundInv, PanelTypeOK, TypeOK
  <2>3. EscrowSound'
    BY <1>1, <1>2, <2>1, EscrowStays, Fields DEF FundInv
  <2> QED  BY <1>2, <1>3, <2>1, <2>2, <2>3, FundingFrame
<1>6. CASE OtherTransfer \/ PolicyChanges
  <2>1. /\ UNCHANGED <<row, claimed, escrowFunded, refunds>>
        /\ transfers' \in 0 .. MaxTransfers
        /\ importer' \in Nat /\ barred' \in BOOLEAN
    <3>1. CASE OtherTransfer
      BY <1>4, <3>1, Bounded DEF OtherTransfer, FundInv, PanelTypeOK, TypeOK
    <3>2. CASE PolicyChanges
      BY <1>4, <3>2, Bounded DEF PolicyChanges
    <3> QED  BY <1>6, <3>1, <3>2
  <2>2. TypeOK'
    BY <1>1, <2>1 DEF FundInv, PanelTypeOK, TypeOK
  <2>3. EscrowSound'
    BY <1>1, <1>2, <2>1, EscrowStays, Fields DEF FundInv
  <2>4. row' = "FUNDED" => claimed' \/ DepositMined'
    BY <1>2, <2>1 DEF FundInv, RowSound
  <2> QED  BY <1>2, <1>3, <2>1, <2>2, <2>3, <2>4, FundingFrame
<1>7. CASE Refund
  <2>1. /\ UNCHANGED <<row, claimed, barred, transfers>>
        /\ refunds' = refunds + 1 /\ refunds' \in 0 .. MaxRefunds
        /\ escrowFunded = TRUE /\ escrowFunded' = FALSE
        /\ importer' \in Nat
    BY <1>4, <1>7, Bounded DEF Refund, FundInv, PanelTypeOK, TypeOK
  <2>2. TypeOK'
    BY <1>1, <2>1 DEF FundInv, PanelTypeOK, TypeOK
  <2>3. EscrowSound'
    BY <1>1, <1>4, <2>1 DEF FundInv, EscrowSound
  <2>4. row' = "FUNDED" => claimed' \/ DepositMined'
    BY <1>2, <2>1 DEF FundInv, RowSound
  <2> QED  BY <1>2, <1>3, <2>1, <2>2, <2>3, <2>4, FundingFrame
<1> QED  BY <1>5, <1>6, <1>7

\* The manual script sends under the same key.
LEMMA ScriptInv ==
    ASSUME FundInv, UNCHANGED panelVars, ScriptApprove \/ ScriptFund
    PROVE  FundInv'
<1>1. UNCHANGED <<row, claimed, job, lastDenied, cooling, chain, refunds, failures>>
  BY DEF ScriptApprove, ScriptFund, memory, bounds
<1>2. CASE ScriptApprove
  <2>1. Grows /\ Len(txs') = Len(txs) + 1
    BY <1>2, SentGrows, Fields DEF ScriptApprove, Kinds
  <2>2. /\ script' = Len(txs) + 1 /\ script' \in 0 .. MaxSent
        /\ transfers' \in 0 .. MaxTransfers
    BY <1>2, Bounded, Fields DEF ScriptApprove
  <2>3. JobSound'
    <3>1. script' \in 0 .. Len(txs')
      BY <2>1, <2>2, Fields
    <3>2. /\ job.pc = "waitApprove" => job.tx \in 1 .. Len(txs')
          /\ job.pc = "waitFund" => IsDeposit(job.tx)'
          /\ job.pc = "mirror" => DepositMined'
      BY <1>1, <2>1, DepositsStay, Fields DEF FundInv, JobSound, IsDeposit
    <3> QED  BY <1>1, <3>1, <3>2 DEF JobSound
  <2> QED  BY <1>1, <2>1, <2>2, <2>3, Remembered, Bounded, SendFrame
<1>3. CASE ScriptFund
  <2>1. Grows /\ Len(txs) <= Len(txs')
    BY <1>3, SentGrows, SameGrows, Fields DEF ScriptFund, Kinds
  <2>2. script' = 0 /\ UNCHANGED transfers
    BY <1>3 DEF ScriptFund, bounds
  <2>3. JobSound'
    <3>1. /\ job.pc = "waitApprove" => job.tx \in 1 .. Len(txs')
          /\ job.pc = "waitFund" => IsDeposit(job.tx)'
          /\ job.pc = "mirror" => DepositMined'
      BY <1>1, <2>1, DepositsStay, Fields DEF FundInv, JobSound, IsDeposit
    <3>2. script' \in 0 .. Len(txs')
      BY <2>1, <2>2, DepositsStay, Fields
    <3> QED  BY <1>1, <3>1, <3>2 DEF JobSound
  <2>4. 0 \in 0 .. MaxSent
    BY Fields
  <2> QED  BY <1>1, <2>1, <2>2, <2>3, <2>4, Remembered, Bounded, SendFrame
<1> QED  BY <1>2, <1>3

-----------------------------------------------------------------------------
(* The page and the fund-intent handler.                                   *)

Intent == [pc : {"none", "save"}, by : {"panel", "operator"}]

\* A step of the page or the handler that writes no row.
LEMMA PanelFrame ==
    ASSUME FundInv, Grows,
           UNCHANGED <<row, claimed, memory, chain, script, transfers, refunds>>,
           failures' \in 0 .. MaxFailures,
           panel' \in Panel, intent' \in Intent,
           posted' \in Seq(1 .. MaxSent), signed' \in 0 .. MaxSigned,
           PanelSound', PostedSound',
           intent'.pc = "save" /\ intent'.by = "panel" => DepositMined'
    PROVE  FundInv'
<1>1. TypeOK'
  BY DEF FundInv, PanelTypeOK, TypeOK, memory, chain, Grows, Tx
<1>2. PanelTypeOK'
  BY <1>1 DEF PanelTypeOK, Intent
<1>3. EscrowSound' /\ JobSound'
  BY EscrowStays, JobStays, Fields DEF FundInv, memory, chain
<1>4. RowSound'
  BY DepositsStay, Fields DEF FundInv, RowSound
<1> QED  BY <1>2, <1>3, <1>4 DEF FundInv

\* Types of what the page and the handler keep.
LEMMA PanelFields ==
    ASSUME FundInv
    PROVE  /\ panel \in Panel /\ intent \in Intent
           /\ posted \in Seq(1 .. MaxSent) /\ signed \in 0 .. MaxSigned
           /\ row \in {"DRAFT", "FUNDED"} /\ MaxSigned \in Nat
           /\ \A i \in 1 .. Len(posted) : posted[i] \in 1 .. MaxSent
<1>1. /\ panel \in Panel /\ intent \in Intent
      /\ posted \in Seq(1 .. MaxSent) /\ signed \in 0 .. MaxSigned
      /\ row \in {"DRAFT", "FUNDED"}
  BY DEF FundInv, PanelTypeOK, TypeOK, Intent
<1> QED  BY <1>1, PanelAssumption, ElementOfSeq

\* A new page, before or after another one, knows of no deposit.
LEMMA NewPanelSound ==
    ASSUME FundInv, NEW p \in Panel, panel' = p,
           p.approve = 0, p.fund = 0, ~p.fundConfirmed,
           p.posting > 0 => panel.posting > 0,
           UNCHANGED <<posted, txs>>
    PROVE  PanelSound'
<1>1. \A i \in 1 .. Len(posted) : posted[i] # 0
  BY PanelFields
<1>2. p.posting > 0 => DepositMined'
  BY DEF FundInv, PanelSound, DepositMined
<1> QED  BY <1>1, <1>2, Fields DEF PanelSound

\* A freshly opened panel is well formed, whichever trade status it is given.
LEMMA NewPanelType ==
    ASSUME FundInv, NEW seated \in BOOLEAN, NEW shown \in {"DRAFT", "FUNDED"},
           NEW posting \in Nat
    PROVE  /\ NewPanel \in Panel
           /\ [NewPanel EXCEPT !.seated = seated, !.shown = shown,
                               !.posting = posting] \in Panel
<1>1. NewPanel \in Panel
  BY PanelFields, Fields DEF NewPanel, Panel
<1> QED  BY <1>1 DEF Panel

\* Switching the wallet keeps the invariant: only what is shown and told outlives it.
LEMMA ChooseWalletInv ==
    ASSUME FundInv, ChooseWallet
    PROVE  FundInv'
<1> DEFINE p == [NewPanel EXCEPT !.seated = ~panel.seated, !.shown = panel.shown,
                                 !.posting = panel.posting]
<1>1. panel' = p /\ UNCHANGED <<vars, intent, posted, signed>>
  BY DEF ChooseWallet
<1>2. /\ panel.seated \in BOOLEAN /\ panel.shown \in {"DRAFT", "FUNDED"}
      /\ panel.posting \in Nat
  BY PanelFields DEF Panel
<1>3. (~panel.seated) \in BOOLEAN
  OBVIOUS
<1>4. p \in Panel
  BY <1>2, <1>3, NewPanelType
<1>5. p.approve = 0 /\ p.fund = 0 /\ ~p.fundConfirmed /\ p.posting = panel.posting
  BY DEF NewPanel
<1> HIDE DEF p
<1>6. PanelSound'
  BY <1>1, <1>4, <1>5, NewPanelSound DEF vars
<1>7. Grows
  BY <1>1, SameGrows, Fields DEF vars
<1>8. PostedSound'
  BY <1>1, <1>7, PostedStays, Fields DEF FundInv
<1>9. intent'.pc = "save" /\ intent'.by = "panel" => DepositMined'
  BY <1>1 DEF FundInv, RowSound, DepositMined, vars
<1> QED  BY <1>1, <1>4, <1>6, <1>7, <1>8, <1>9, PanelFields, Bounded, PanelFrame
         DEF vars, bounds

\* A page reload forgets the panel's work and nothing that is stored or sent.
LEMMA ReloadInv ==
    ASSUME FundInv, Reload
    PROVE  FundInv'
<1>1. /\ panel' = NewPanel
      /\ UNCHANGED <<row, script, claimed, memory, chain, txs, transfers, refunds,
                     intent, posted, signed>>
      /\ failures' \in 0 .. MaxFailures
  BY Remembered DEF Reload
<1>2. NewPanel \in Panel
  BY NewPanelType, PanelFields
<1>3. /\ NewPanel.approve = 0 /\ NewPanel.fund = 0
      /\ ~NewPanel.fundConfirmed /\ NewPanel.posting = 0
  BY DEF NewPanel
<1>4. PanelSound'
  BY <1>1, <1>2, <1>3, NewPanelSound
<1>5. Grows
  BY <1>1, SameGrows, Fields
<1>6. PostedSound'
  BY <1>1, <1>5, PostedStays, Fields DEF FundInv
<1>7. intent'.pc = "save" /\ intent'.by = "panel" => DepositMined'
  BY <1>1 DEF FundInv, RowSound, DepositMined
<1> QED  BY <1>1, <1>2, <1>4, <1>5, <1>6, <1>7, PanelFields, PanelFrame

\* A step of the page that looks at the row, the allowance or a receipt.
LEMMA LookInv ==
    ASSUME FundInv, Refresh \/ RefetchAllowance \/ ApproveConfirmed \/ FundConfirmed
    PROVE  FundInv'
<1>1. UNCHANGED <<vars, intent, posted, signed>>
  BY DEF Refresh, RefetchAllowance, ApproveConfirmed, FundConfirmed
<1>2. /\ panel' \in Panel
      /\ panel'.approve = panel.approve /\ panel'.fund = panel.fund
      /\ panel'.mirrored = panel.mirrored /\ panel'.posting = panel.posting
      /\ panel'.fundConfirmed =>
            \/ panel.fundConfirmed
            \/ panel.fund # 0 /\ txs[panel.fund].status = "success"
  <2>1. CASE Refresh
    BY <2>1, PanelFields DEF Refresh, Panel
  <2>2. CASE RefetchAllowance
    BY <2>2, PanelFields DEF RefetchAllowance, Panel
  <2>3. CASE ApproveConfirmed
    BY <2>3, PanelFields DEF ApproveConfirmed, Panel
  <2>4. CASE FundConfirmed
    BY <2>4, PanelFields DEF FundConfirmed, FundReceipt, Panel
  <2> QED  BY <2>1, <2>2, <2>3, <2>4
<1>3. Grows /\ UNCHANGED txs
  BY <1>1, SameGrows, Fields DEF vars
<1>4. PanelSound'
  <2>1. panel'.fund # 0 => IsDeposit(panel.fund)'
    BY <1>2, <1>3 DEF FundInv, PanelSound, IsDeposit
  <2>2. panel'.fundConfirmed => panel'.fund # 0 /\ txs'[panel'.fund].status = "success"
    BY <1>2, <1>3 DEF FundInv, PanelSound
  <2>3. panel'.posting > 0 => DepositMined'
    BY <1>2, <1>3 DEF FundInv, PanelSound, DepositMined
  <2> QED  BY <1>1, <1>2, <1>3, <2>1, <2>2, <2>3 DEF FundInv, PanelSound
<1>5. PostedSound'
  BY <1>1, <1>3, PostedStays, Fields DEF FundInv
<1>6. intent'.pc = "save" /\ intent'.by = "panel" => DepositMined'
  BY <1>1 DEF FundInv, RowSound, DepositMined, vars
<1> QED  BY <1>1, <1>2, <1>3, <1>4, <1>5, <1>6, PanelFields, Bounded, PanelFrame
         DEF vars, bounds

\* The importer signs an approval or a deposit; a new deposit has not been told.
LEMMA SignsInv ==
    ASSUME FundInv, OnApprove \/ OnFund
    PROVE  FundInv'
<1>1. /\ UNCHANGED <<row, script, claimed, memory, chain, transfers, refunds, failures,
                     intent, posted>>
      /\ signed' \in 0 .. MaxSigned /\ Len(txs) + 1 \in 1 .. MaxSent
  <2>1. /\ UNCHANGED <<row, script, claimed, memory, chain, transfers, refunds, failures,
                       intent, posted>>
        /\ signed < MaxSigned /\ signed' = signed + 1 /\ Len(txs) < MaxSent
    BY DEF OnApprove, OnFund, Signs, bounds
  <2> QED  BY <2>1, PanelFields, Bounded
<1>2. /\ Grows /\ Len(txs') = Len(txs) + 1
      /\ OnFund => txs'[Len(txs) + 1].kind = "fund"
  <2>1. CASE OnApprove /\ ~OnFund
    BY <2>1, SentGrows, Fields DEF OnApprove, Kinds
  <2>2. CASE OnFund
    BY <2>2, SentGrows, Fields DEF OnFund, Kinds
  <2> QED  BY <2>1, <2>2
<1>3. Len(txs) + 1 \in 0 .. MaxSent /\ Len(txs) \in Nat
  BY <1>1, Fields
<1>4. panel' \in Panel /\ PanelSound'
  <2>1. CASE OnApprove
    <3>1. panel' = [panel EXCEPT !.approve = Len(txs) + 1]
      BY <2>1 DEF OnApprove
    <3>2. /\ panel' \in Panel
          /\ panel'.approve = Len(txs) + 1 /\ panel'.fund = panel.fund
          /\ panel'.fundConfirmed = panel.fundConfirmed
          /\ panel'.mirrored = panel.mirrored /\ panel'.posting = panel.posting
      BY <1>3, <3>1, PanelFields DEF Panel
    <3>3. panel'.fund # 0 => IsDeposit(panel.fund)'
      BY <1>2, <3>2, DepositsStay, Fields DEF FundInv, PanelSound, IsDeposit
    <3>4. panel'.fundConfirmed => panel'.fund # 0 /\ txs'[panel'.fund].status = "success"
      BY <1>2, <3>2, DepositsStay, Fields DEF FundInv, PanelSound
    <3>5. panel'.posting > 0 => DepositMined'
      BY <1>2, <3>2, DepositsStay, Fields DEF FundInv, PanelSound
    <3>6. panel'.approve \in 0 .. Len(txs')
      BY <1>2, <1>3, <3>2
    <3> QED  BY <1>1, <3>2, <3>3, <3>4, <3>5, <3>6 DEF FundInv, PanelSound, IsDeposit
  <2>2. CASE OnFund
    <3>1. /\ panel' = [panel EXCEPT !.fund = Len(txs) + 1]
          /\ ~panel.fundConfirmed
      BY <2>2 DEF OnFund, CanFund
    <3>2. /\ panel' \in Panel
          /\ panel'.approve = panel.approve /\ panel'.fund = Len(txs) + 1
          /\ ~panel'.fundConfirmed
          /\ panel'.mirrored = panel.mirrored /\ panel'.posting = panel.posting
      BY <1>3, <3>1, PanelFields DEF Panel
    <3>3. \A i \in 1 .. Len(posted) : posted[i] # Len(txs) + 1
      <4>1. \A i \in 1 .. Len(posted) : posted[i] \in 1 .. Len(txs)
        BY DEF FundInv, PostedSound, IsDeposit
      <4> QED  BY <1>3, <4>1
    <3>4. panel'.fund \in 1 .. Len(txs') /\ txs'[panel'.fund].kind = "fund"
      BY <1>2, <1>3, <2>2, <3>2
    <3>5. panel'.posting > 0 => DepositMined'
      BY <1>2, <3>2, DepositsStay, Fields DEF FundInv, PanelSound
    <3>6. panel'.approve \in 0 .. Len(txs')
      BY <1>2, <1>3, <3>2 DEF FundInv, PanelSound
    <3> QED  BY <1>1, <3>2, <3>3, <3>4, <3>5, <3>6 DEF PanelSound, IsDeposit
  <2> QED  BY <2>1, <2>2
<1>5. PostedSound'
  BY <1>1, <1>2, PostedStays, Fields DEF FundInv
<1>6. intent'.pc = "save" /\ intent'.by = "panel" => DepositMined'
  BY <1>1, <1>2, DepositsStay, Fields DEF FundInv, RowSound
<1> QED  BY <1>1, <1>2, <1>4, <1>5, <1>6, PanelFields, Bounded, PanelFrame

\* A confirmed deposit is told once.
LEMMA MirrorDepositInv ==
    ASSUME FundInv, MirrorDeposit
    PROVE  FundInv'
<1>1. /\ UNCHANGED <<vars, intent, signed>>
      /\ panel.fundConfirmed /\ panel.fund \notin panel.mirrored
      /\ panel' = [panel EXCEPT !.mirrored = panel.mirrored \cup {panel.fund},
                                !.posting = panel.posting + 1]
      /\ posted' = Append(posted, panel.fund)
  BY DEF MirrorDeposit, MirrorDue
<1>2. /\ IsDeposit(panel.fund) /\ txs[panel.fund].status = "success"
      /\ panel.fund \in 1 .. MaxSent
  BY <1>1, Fields DEF FundInv, PanelSound
<1> DEFINE mirrored == panel.mirrored \cup {panel.fund}
           posting == panel.posting + 1
<1>3. /\ panel' \in Panel
      /\ panel'.approve = panel.approve /\ panel'.fund = panel.fund
      /\ panel'.fundConfirmed = panel.fundConfirmed
      /\ panel.fund \in panel'.mirrored
  <2>1. panel.mirrored \in SUBSET (1 .. MaxSent) /\ panel.posting \in Nat
    BY PanelFields DEF Panel
  <2>2. mirrored \in SUBSET (1 .. MaxSent) /\ posting \in Nat /\ panel.fund \in mirrored
    BY <1>2, <2>1
  <2>3. panel' = [panel EXCEPT !.mirrored = mirrored, !.posting = posting]
    BY <1>1
  <2> HIDE DEF mirrored, posting
  <2> QED  BY <2>2, <2>3, PanelFields DEF Panel
<1>4. /\ posted' \in Seq(1 .. MaxSent)
      /\ Len(posted) \in Nat /\ Len(posted') = Len(posted) + 1
      /\ \A i \in 1 .. Len(posted) : posted'[i] = posted[i]
      /\ posted'[Len(posted) + 1] = panel.fund
  BY <1>1, <1>2, PanelFields, AppendProperties, LenProperties
<1>5. Grows /\ UNCHANGED txs
  BY <1>1, SameGrows, Fields DEF vars
<1>6. DepositMined'
  BY <1>2, <1>5 DEF IsDeposit, DepositMined
<1>7. PanelSound'
  <2>1. IsDeposit(panel.fund)'
    BY <1>2, <1>3, <1>5 DEF IsDeposit
  <2>2. panel'.approve \in 0 .. Len(txs')
    BY <1>3, <1>5 DEF FundInv, PanelSound
  <2> QED  BY <1>1, <1>2, <1>3, <1>5, <1>6, <2>1, <2>2 DEF FundInv, PanelSound
<1>8. PostedSound'
  <2> DEFINE Told == {posted[i] : i \in 1 .. Len(posted)}
  <2>1. /\ IsFiniteSet(Told) /\ Cardinality(Told) = Len(posted)
        /\ \A i \in 1 .. Len(posted) :
              IsDeposit(posted[i]) /\ txs[posted[i]].status = "success"
    BY DEF FundInv, PostedSound
  <2>2. panel.fund \notin Told
    BY <1>1 DEF FundInv, PanelSound
  <2>3. {posted'[i] : i \in 1 .. Len(posted')} = Told \cup {panel.fund}
    <3>1. 1 .. Len(posted') = (1 .. Len(posted)) \cup {Len(posted) + 1}
      BY <1>4
    <3> QED  BY <1>4, <3>1
  <2>4. /\ IsFiniteSet(Told \cup {panel.fund})
        /\ Cardinality(Told \cup {panel.fund}) = Len(posted) + 1
    BY <2>1, <2>2, FS_AddElement
  <2>5. ASSUME NEW i \in 1 .. Len(posted')
        PROVE  /\ posted'[i] \in 1 .. Len(txs') /\ txs'[posted'[i]].kind = "fund"
               /\ txs'[posted'[i]].status = "success"
    <3>1. CASE i \in 1 .. Len(posted)
      BY <1>4, <1>5, <2>1, <3>1 DEF IsDeposit
    <3>2. CASE i = Len(posted) + 1
      BY <1>2, <1>4, <1>5, <3>2 DEF IsDeposit
    <3> QED  BY <1>4, <3>1, <3>2
  <2> QED  BY <1>4, <2>3, <2>4, <2>5 DEF PostedSound, IsDeposit
<1>9. intent'.pc = "save" /\ intent'.by = "panel" => DepositMined'
  BY <1>6
<1> QED  BY <1>1, <1>3, <1>4, <1>5, <1>7, <1>8, <1>9, PanelFields, Bounded, PanelFrame
         DEF vars, bounds

\* The handler takes a request, or loses one.
LEMMA IntentInv ==
    ASSUME FundInv, NEW by \in {"panel", "operator"}, IntentArrives(by) \/ IntentFails
    PROVE  FundInv'
<1>1. /\ UNCHANGED <<row, script, claimed, memory, chain, txs, transfers, refunds,
                     posted, signed>>
      /\ failures' \in 0 .. MaxFailures
  BY Remembered, Bounded DEF IntentArrives, IntentFails, vars, bounds
<1>2. Grows /\ (DepositMined' <=> DepositMined)
  BY <1>1, SameGrows, Fields DEF DepositMined
<1>3. /\ intent' \in Intent
      /\ intent'.pc = "save" /\ intent'.by = "panel" => DepositMined'
  <2>1. CASE IntentArrives(by)
    BY <1>2, <2>1 DEF IntentArrives, Intent, FundInv, PanelSound
  <2>2. CASE IntentFails
    BY <1>2, <2>2, PanelFields DEF IntentFails, Intent, FundInv, RowSound
  <2> QED  BY <2>1, <2>2
<1>4. \/ panel' = panel
      \/ panel.posting > 0 /\ panel' = [panel EXCEPT !.posting = panel.posting - 1]
  BY DEF IntentArrives, IntentFails
<1>5. /\ panel' \in Panel
      /\ panel'.approve = panel.approve /\ panel'.fund = panel.fund
      /\ panel'.fundConfirmed = panel.fundConfirmed
      /\ panel'.mirrored = panel.mirrored
      /\ panel'.posting > 0 => panel.posting > 0
  BY <1>4, PanelFields DEF Panel
<1>6. PanelSound'
  <2>1. panel'.fund # 0 => IsDeposit(panel.fund)'
    BY <1>1, <1>5 DEF FundInv, PanelSound, IsDeposit
  <2>2. panel'.fundConfirmed => panel'.fund # 0 /\ txs'[panel'.fund].status = "success"
    BY <1>1, <1>5 DEF FundInv, PanelSound
  <2> QED  BY <1>1, <1>2, <1>5, <2>1, <2>2 DEF FundInv, PanelSound
<1>7. PostedSound'
  BY <1>1, <1>2, PostedStays, Fields DEF FundInv
<1> QED  BY <1>1, <1>2, <1>3, <1>5, <1>6, <1>7, PanelFields, PanelFrame

\* The handler saves: on an operator's word, or on the panel's.
LEMMA IntentSavesInv ==
    ASSUME FundInv, IntentSaves
    PROVE  FundInv'
<1>1. /\ UNCHANGED <<script, memory, chain, txs, bounds, panel, posted, signed>>
      /\ intent.pc = "save" /\ row' = "FUNDED"
      /\ claimed' = (claimed \/ intent.by = "operator")
      /\ intent' = [intent EXCEPT !.pc = "none"]
  BY DEF IntentSaves
<1>2. Grows /\ (DepositMined' <=> DepositMined)
  BY <1>1, SameGrows, Fields DEF DepositMined
<1>3. intent.by \in {"panel", "operator"} /\ intent' \in Intent /\ intent'.pc = "none"
  BY <1>1, PanelFields DEF Intent
<1>4. claimed \in BOOLEAN /\ claimed' \in BOOLEAN
  BY <1>1 DEF FundInv, PanelTypeOK, TypeOK
<1>5. TypeOK'
  BY <1>1, <1>4 DEF FundInv, PanelTypeOK, TypeOK, memory, chain, bounds
<1>6. PanelTypeOK'
  BY <1>1, <1>3, <1>5 DEF FundInv, PanelTypeOK, Intent
<1>7. EscrowSound' /\ JobSound'
  BY <1>1, <1>2, EscrowStays, JobStays, Fields DEF FundInv, memory, chain, bounds
<1>8. PanelSound' /\ PostedSound'
  BY <1>1, <1>2, PanelStays, PostedStays, Fields DEF FundInv
<1>9. RowSound'
  <2>1. claimed' \/ DepositMined'
    BY <1>1, <1>2, <1>3, <1>4 DEF FundInv, RowSound
  <2> QED  BY <1>3, <2>1 DEF RowSound
<1> QED  BY <1>6, <1>7, <1>8, <1>9 DEF FundInv

-----------------------------------------------------------------------------
(* The invariant.                                                          *)

\* The invariant holds before anything is sent.
LEMMA InitFundInv == PanelInit => FundInv
<1> SUFFICES ASSUME PanelInit PROVE FundInv
  OBVIOUS
<1>1. {ImporterFunds, MaxTransfers, MaxRefunds, MaxFailures, MaxSent} \subseteq Nat
  BY AutoFundAssumption
<1>2. TypeOK
  <2>1. /\ transfers \in 0 .. MaxTransfers /\ refunds \in 0 .. MaxRefunds
        /\ failures \in 0 .. MaxFailures /\ script \in 0 .. MaxSent
        /\ importer \in Nat /\ deposits \in Nat
    BY <1>1 DEF PanelInit, Init
  <2>2. job \in Job
    BY <1>1 DEF PanelInit, Init, Job, NoJob, NoReason
  <2>3. txs \in Seq([kind : Kinds, status : {"pending", "success", "reverted"}])
    BY DEF PanelInit, Init
  <2> QED  BY <2>1, <2>2, <2>3 DEF PanelInit, Init, TypeOK, NoReason
<1>3. NewPanel \in Panel
  BY <1>1 DEF PanelInit, Init, NewPanel, Panel
<1>4. PanelTypeOK
  BY <1>2, <1>3, PanelAssumption DEF PanelInit, PanelTypeOK
<1>5. Len(txs) = 0 /\ Len(posted) = 0
  BY DEF PanelInit, Init
<1>6. EscrowSound /\ JobSound /\ RowSound
  BY <1>5 DEF PanelInit, Init, EscrowSound, JobSound, RowSound, NoJob
<1>7. PanelSound
  BY <1>5 DEF PanelInit, PanelSound, NewPanel
<1>8. PostedSound
  <2>1. {posted[i] : i \in 1 .. Len(posted)} = {}
    BY <1>5
  <2> QED  BY <1>5, <2>1, FS_EmptySet DEF PostedSound
<1> QED  BY <1>4, <1>6, <1>7, <1>8 DEF FundInv

\* Every step of the scheduler, the panel, the chain or the server keeps the invariant.
LEMMA FundInvInductive == FundInv /\ [PanelNext]_allVars => FundInv'
<1> SUFFICES ASSUME FundInv, [PanelNext]_allVars PROVE FundInv'
  OBVIOUS
<1>1. CASE FundingStep /\ UNCHANGED panelVars
  <2>1. CASE Tick \/ ReadFunded \/ ReadAllowance \/ AuditFund \/ AuditDeny
    BY <1>1, <2>1, ReadInv
  <2>2. CASE ReadBalance
    BY <1>1, <2>2, ReadBalanceInv
  <2>3. CASE Approve
    BY <1>1, <2>3, ApproveInv
  <2>4. CASE Fund
    BY <1>1, <2>4, FundStepInv
  <2>5. CASE Receipt
    BY <1>1, <2>5, ReceiptInv
  <2>6. CASE MirrorFund
    BY <1>1, <2>6, MirrorFundInv
  <2>7. CASE RequestFails \/ MirrorFails \/ Restart \/ CooldownEnds
    BY <1>1, <2>7, FailureInv
  <2>8. CASE WriteFails
    BY <1>1, <2>8, WriteFailsInv
  <2>9. CASE Mine
    BY <1>1, <2>9, MineInv
  <2>10. CASE CreateTrade \/ OtherTransfer \/ PolicyChanges \/ Refund
    BY <1>1, <2>10, AroundInv
  <2>11. CASE ScriptApprove \/ ScriptFund
    BY <1>1, <2>11, ScriptInv
  <2> QED  BY <1>1, <2>1, <2>2, <2>3, <2>4, <2>5, <2>6, <2>7, <2>8, <2>9, <2>10, <2>11
           DEF FundingStep, JobStep
<1>2. CASE ChooseWallet
  BY <1>2, ChooseWalletInv
<1>3. CASE Refresh \/ RefetchAllowance \/ ApproveConfirmed \/ FundConfirmed
  BY <1>3, LookInv
<1>4. CASE OnApprove \/ OnFund
  BY <1>4, SignsInv
<1>5. CASE MirrorDeposit
  BY <1>5, MirrorDepositInv
<1>6. CASE Reload
  BY <1>6, ReloadInv
<1>7. ASSUME NEW by \in {"panel", "operator"}, IntentArrives(by)
      PROVE  FundInv'
  BY <1>7, IntentInv
<1>8. CASE IntentFails
  BY <1>8, IntentInv
<1>9. CASE IntentSaves
  BY <1>9, IntentSavesInv
<1>10. CASE UNCHANGED allVars
  <2>1. UNCHANGED vars /\ UNCHANGED panelVars
    BY <1>10 DEF allVars
  <2>2. UNCHANGED <<row, claimed, chain, job, lastDenied, cooling, txs, script, transfers,
                    refunds, failures>>
    BY <2>1 DEF vars, memory, bounds
  <2>3. Grows
    BY <2>2, SameGrows, Fields
  <2>4. JobSound'
    BY <2>2, <2>3, JobStays, Fields DEF FundInv
  <2> QED  BY <2>1, <2>2, <2>3, <2>4, Remembered, Bounded, SendFrame
<1> QED  BY <1>1, <1>2, <1>3, <1>4, <1>5, <1>6, <1>7, <1>8, <1>9, <1>10
         DEF PanelNext, PanelStep

\* What holds at every moment of the funder, the panel and the handler.
THEOREM FundInvariant == PanelSpec => []FundInv
<1>1. PanelInit => FundInv
  BY InitFundInv
<1>2. FundInv /\ [PanelNext]_allVars => FundInv'
  BY FundInvInductive
<1> QED  BY <1>1, <1>2, PTL DEF PanelSpec

\* Every variable of the funder and of the page has its type.
THEOREM FundingTypeCorrect == PanelSpec => []PanelTypeOK
<1>1. FundInv => PanelTypeOK
  BY DEF FundInv
<1> QED  BY <1>1, FundInvariant, PTL

\* One deposit, and one more only after a refund, however many hands send one
\* (the funded flag of fund).
THEOREM DepositsCounted == PanelSpec => []NoDoubleDeposit
<1>1. FundInv => NoDoubleDeposit
  <2> SUFFICES ASSUME FundInv PROVE NoDoubleDeposit
    OBVIOUS
  <2>1. refunds \in Nat
    BY DEF FundInv, PanelTypeOK, TypeOK
  <2> QED  BY <2>1 DEF FundInv, EscrowSound, NoDoubleDeposit
<1> QED  BY <1>1, FundInvariant, PTL

\* No trade is called funded but by an operator's word or after a deposit was
\* mined, whoever wrote the row (mirrorFund, fund-intent).
THEOREM FundedAfterMining == PanelSpec => []MirroredAfterMining
<1>1. FundInv => MirroredAfterMining
  <2>1. FundInv => DOMAIN txs = 1 .. Len(txs)
    BY Fields, LenProperties
  <2> QED  BY <2>1 DEF FundInv, RowSound, DepositMined, MirroredAfterMining
<1> QED  BY <1>1, FundInvariant, PTL

\* The panel tells of deposits that took effect, each of them once (the one-shot
\* guard mirroredFunds).
THEOREM DepositsToldOnce == PanelSpec => []MirrorsOwnDeposits
<1>1. FundInv => MirrorsOwnDeposits
  <2> SUFFICES ASSUME FundInv PROVE MirrorsOwnDeposits
    OBVIOUS
  <2>1. DOMAIN posted = 1 .. Len(posted) /\ txs \in Seq(Tx)
    BY Fields, LenProperties
  <2>2. ASSUME NEW i \in 1 .. Len(posted)
        PROVE  txs[posted[i]] = [kind |-> "fund", status |-> "success"]
    <3>1. /\ posted[i] \in 1 .. Len(txs)
          /\ txs[posted[i]].kind = "fund" /\ txs[posted[i]].status = "success"
      BY DEF FundInv, PostedSound, IsDeposit
    <3>2. txs[posted[i]] \in Tx
      BY <2>1, <3>1, ElementOfSeq
    <3> QED  BY <3>1, <3>2 DEF Tx
  <2>3. Cardinality({posted[i] : i \in 1 .. Len(posted)}) = Len(posted)
    BY DEF FundInv, PostedSound
  <2> QED  BY <2>1, <2>2, <2>3 DEF MirrorsOwnDeposits
<1> QED  BY <1>1, FundInvariant, PTL

=============================================================================
