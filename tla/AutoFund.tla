------------------------------ MODULE AutoFund ------------------------------
(***************************************************************************)
(* The automatic funding scheduler on its on-chain path                    *)
(* (apps/api/src/auto-fund.ts): while the registry has the configured trade*)
(* as DRAFT, each tick looks at the escrow and at the importer's tokens,   *)
(* approves and deposits if it can, and mirrors the deposit into the row.  *)
(*                                                                         *)
(* A read or write of the chain is a request that may fail, with or without*)
(* its effect; a transaction is mined later than it is sent, and reverts   *)
(* without effect if its conditions no longer hold by then.  Amounts are   *)
(* counted in deposits: the scheduler always moves the trade's total.      *)
(***************************************************************************)
EXTENDS Naturals, Sequences

CONSTANTS
    ImporterFunds,      \* deposits the importer can pay for at the start
    MaxTransfers,       \* bound on new rows and on what else the importer's account does
    MaxRefunds,         \* bound on refunds by the escrow's admin
    MaxFailures,        \* bound on failed requests and restarts
    MaxSent             \* bound on the transactions sent

ASSUME AutoFundAssumption ==
    {ImporterFunds, MaxTransfers, MaxRefunds, MaxFailures, MaxSent} \subseteq Nat

VARIABLES
    row,                \* the status in the trades table
    claimed,            \* not in the code: has an operator declared it funded?
    job,                \* the running tick
    lastDenied,         \* lastDeniedReason of the trade
    cooling,            \* is retryAfter of the trade in the future?
    escrowFunded,       \* funded, in the escrow
    deposits,           \* deposits the escrow has taken
    importer,           \* the importer's token balance
    allowed,            \* does the allowance cover a deposit?
    barred,             \* would the token's policy refuse the transfer?
    txs,                \* transactions in the order of their account nonces
    script,             \* the approval the funding script waits for, 0 without one
    transfers, refunds, failures

memory  == <<job, lastDenied, cooling>>
chain   == <<escrowFunded, deposits, importer, allowed, barred>>
bounds  == <<transfers, refunds, failures>>
vars    == <<row, claimed, memory, chain, txs, script, bounds>>

NoReason == "none"
Reasons  == {"balance below the total", "on-chain funding failed"}
Kinds    == {"approve", "fund"}

Job == [pc : {"idle", "readFunded", "readBalance", "readAllowance", "approve",
              "fund", "waitApprove", "waitFund", "deny", "mirror", "audit"},
        tx : 0 .. MaxSent, reason : Reasons \cup {NoReason}]

NoJob == [pc |-> "idle", tx |-> 0, reason |-> NoReason]

TypeOK ==
    /\ row \in {"DRAFT", "FUNDED"}
    /\ claimed \in BOOLEAN
    /\ job \in Job
    /\ lastDenied \in Reasons \cup {NoReason}
    /\ cooling \in BOOLEAN
    /\ escrowFunded \in BOOLEAN
    /\ deposits \in Nat /\ importer \in Nat
    /\ allowed \in BOOLEAN /\ barred \in BOOLEAN
    /\ txs \in Seq([kind : Kinds, status : {"pending", "success", "reverted"}])
    /\ script \in 0 .. MaxSent
    /\ transfers \in 0 .. MaxTransfers
    /\ refunds \in 0 .. MaxRefunds
    /\ failures \in 0 .. MaxFailures

Init ==
    /\ row = "DRAFT" /\ claimed = FALSE
    /\ job = NoJob /\ lastDenied = NoReason /\ cooling = FALSE
    /\ escrowFunded = FALSE /\ deposits = 0
    /\ importer = ImporterFunds /\ allowed = FALSE /\ barred \in BOOLEAN
    /\ txs = << >> /\ script = 0
    /\ transfers = 0 /\ refunds = 0 /\ failures = 0

-----------------------------------------------------------------------------
(* The tick, one action per await.                                         *)

At(pc)   == job.pc = pc
GoTo(pc) == job' = [job EXCEPT !.pc = pc]
EndTick  == job' = NoJob

Fail == failures < MaxFailures /\ failures' = failures + 1

Sent(kind) == txs' = Append(txs, [kind |-> kind, status |-> "pending"])

\* deny: the reason is noted before its audit record is written.
Deny(reason) ==
    /\ lastDenied' = reason
    /\ IF lastDenied = reason
       THEN EndTick
       ELSE job' = [NoJob EXCEPT !.pc = "deny", !.reason = reason]

\* The catch of the write path.
WriteFailed == cooling' = TRUE /\ Deny("on-chain funding failed")

Tick ==
    /\ At("idle") /\ row = "DRAFT"
    /\ GoTo("readFunded")
    /\ UNCHANGED <<row, script, claimed, lastDenied, cooling, chain, txs, bounds>>

ReadFunded ==
    /\ At("readFunded")
    /\ GoTo(IF escrowFunded THEN "mirror" ELSE "readBalance")
    /\ UNCHANGED <<row, script, claimed, lastDenied, cooling, chain, txs, bounds>>

\* Mutant: a balance of exactly the total is not enough.
ReadBalanceStrict ==
    /\ At("readBalance")
    /\ CASE importer <= 1 -> Deny("balance below the total")
         [] importer > 1 /\ cooling -> EndTick /\ UNCHANGED lastDenied
         [] OTHER -> GoTo("readAllowance") /\ UNCHANGED lastDenied
    /\ UNCHANGED <<row, script, claimed, cooling, chain, txs, bounds>>

ReadBalance ==
    /\ At("readBalance")
    /\ CASE importer < 1 -> Deny("balance below the total")
         [] importer >= 1 /\ cooling -> EndTick /\ UNCHANGED lastDenied
         [] OTHER -> GoTo("readAllowance") /\ UNCHANGED lastDenied
    /\ UNCHANGED <<row, script, claimed, cooling, chain, txs, bounds>>

ReadAllowance ==
    /\ At("readAllowance")
    /\ GoTo(IF allowed THEN "fund" ELSE "approve")
    /\ UNCHANGED <<row, script, claimed, lastDenied, cooling, chain, txs, bounds>>

Approve ==
    /\ At("approve") /\ Len(txs) < MaxSent
    /\ Sent("approve")
    /\ job' = [job EXCEPT !.pc = "waitApprove", !.tx = Len(txs) + 1]
    /\ UNCHANGED <<row, script, claimed, lastDenied, cooling, chain, bounds>>

\* Mutant: fund takes a deposit whether or not it has one.
FundAgain == importer >= 1 /\ allowed /\ ~barred

\* fund and its transferFrom, run on the chain as it is now.
FundSucceeds == ~escrowFunded /\ importer >= 1 /\ allowed /\ ~barred

\* Writing estimates the call first: one that would revert now is never sent.
Fund ==
    /\ At("fund") /\ Len(txs) < MaxSent
    /\ IF FundSucceeds
       THEN /\ Sent("fund")
            /\ job' = [job EXCEPT !.pc = "waitFund", !.tx = Len(txs) + 1]
            /\ UNCHANGED <<lastDenied, cooling>>
       ELSE WriteFailed /\ UNCHANGED txs
    /\ UNCHANGED <<row, script, claimed, chain, bounds>>

\* Mutant: a deposit is mirrored as soon as it is sent.
ReceiptAssumed ==
    /\ At("waitApprove") \/ At("waitFund")
    /\ GoTo(IF At("waitApprove") THEN "fund" ELSE "mirror")
    /\ UNCHANGED <<row, script, claimed, lastDenied, cooling, chain, txs, bounds>>

\* The receipt's status is not looked at.
Receipt ==
    /\ At("waitApprove") \/ At("waitFund")
    /\ txs[job.tx].status # "pending"
    /\ GoTo(IF At("waitApprove") THEN "fund" ELSE "mirror")
    /\ UNCHANGED <<row, script, claimed, lastDenied, cooling, chain, txs, bounds>>

\* mirrorFund: memory is cleared, then the listed row saved as FUNDED.
MirrorFund ==
    /\ At("mirror")
    /\ lastDenied' = NoReason /\ cooling' = FALSE
    /\ row' = "FUNDED"
    /\ GoTo("audit")
    /\ UNCHANGED <<script, claimed, chain, txs, bounds>>

AuditFund ==
    /\ At("audit")
    /\ EndTick
    /\ UNCHANGED <<row, script, claimed, lastDenied, cooling, chain, txs, bounds>>

AuditDeny ==
    /\ At("deny")
    /\ EndTick
    /\ UNCHANGED <<row, script, claimed, lastDenied, cooling, chain, txs, bounds>>

-----------------------------------------------------------------------------
(* What can go wrong at each await.                                        *)

\* A failed read, or a registry that rejects: the tick ends.  The allowance is
\* the exception, it is then taken to be zero.
RequestFails ==
    /\ job.pc \in {"readFunded", "readBalance", "readAllowance", "deny", "audit"}
    /\ IF At("readAllowance") THEN GoTo("approve") ELSE EndTick
    /\ Fail
    /\ UNCHANGED <<row, script, claimed, lastDenied, cooling, chain, txs,
                   transfers, refunds>>

\* saveTrade rejects after the memory was cleared.
MirrorFails ==
    /\ At("mirror")
    /\ lastDenied' = NoReason /\ cooling' = FALSE
    /\ EndTick
    /\ Fail
    /\ UNCHANGED <<row, script, claimed, chain, txs, transfers, refunds>>

\* Sending fails, though the transaction may be out, or its receipt times out.
WriteFails ==
    /\ job.pc \in {"approve", "fund", "waitApprove", "waitFund"}
    /\ WriteFailed
    /\ \/ UNCHANGED txs
       \/ /\ job.pc \in Kinds /\ Len(txs) < MaxSent
          /\ job.pc = "fund" => FundSucceeds
          /\ Sent(job.pc)
    /\ Fail
    /\ UNCHANGED <<row, script, claimed, chain, transfers, refunds>>

Restart ==
    /\ job' = NoJob
    /\ lastDenied' = NoReason /\ cooling' = FALSE
    /\ Fail
    /\ UNCHANGED <<row, script, claimed, chain, txs, transfers, refunds>>

-----------------------------------------------------------------------------
(* Around the scheduler: time, the chain, the operator, the importer.      *)

CooldownEnds ==
    /\ cooling
    /\ cooling' = FALSE
    /\ UNCHANGED <<row, script, claimed, job, lastDenied, chain, txs, bounds>>

IsNext(i) ==
    txs[i].status = "pending" /\ \A j \in 1 .. i - 1 : txs[j].status # "pending"

\* One account's transactions are mined in the order of their nonces.
Mine ==
    \E i \in DOMAIN txs :
        LET success == txs[i].kind = "approve" \/ FundSucceeds
            deposit == txs[i].kind = "fund" /\ success
        IN  /\ IsNext(i)
            /\ txs' = [txs EXCEPT ![i].status = IF success THEN "success" ELSE "reverted"]
            /\ allowed' = (IF txs[i].kind = "approve" THEN TRUE ELSE allowed /\ ~deposit)
            /\ escrowFunded' = (escrowFunded \/ deposit)
            /\ deposits' = IF deposit THEN deposits + 1 ELSE deposits
            /\ importer' = IF deposit THEN importer - 1 ELSE importer
            /\ UNCHANGED <<row, script, claimed, memory, barred, bounds>>

\* POST /trades with the label of this trade replaces its row.
CreateTrade ==
    /\ transfers < MaxTransfers
    /\ transfers' = transfers + 1
    /\ row' = "DRAFT" /\ claimed' = FALSE
    /\ UNCHANGED <<script, memory, chain, txs, refunds, failures>>

\* The manual funding script, under the same key: approve, await it, deposit.
ScriptApprove ==
    /\ script = 0 /\ ~escrowFunded /\ importer >= 1
    /\ transfers < MaxTransfers /\ Len(txs) < MaxSent
    /\ transfers' = transfers + 1
    /\ Sent("approve")
    /\ script' = Len(txs) + 1
    /\ UNCHANGED <<row, claimed, memory, chain, refunds, failures>>

ScriptFund ==
    /\ script # 0 /\ txs[script].status # "pending"
    /\ script' = 0
    /\ IF FundSucceeds /\ Len(txs) < MaxSent THEN Sent("fund") ELSE UNCHANGED txs
    /\ UNCHANGED <<row, claimed, memory, chain, bounds>>

\* The importer pays for something else, or receives tokens.
OtherTransfer ==
    /\ transfers < MaxTransfers
    /\ transfers' = transfers + 1
    /\ importer' \in {importer + 1} \cup (IF importer > 0 THEN {importer - 1} ELSE {})
    /\ UNCHANGED <<row, script, claimed, memory, escrowFunded, deposits, allowed, barred, txs,
                   refunds, failures>>

\* The importer or the escrow loses the standing the token asks for, or gets it.
PolicyChanges ==
    /\ transfers < MaxTransfers
    /\ transfers' = transfers + 1
    /\ barred' = ~barred
    /\ UNCHANGED <<row, script, claimed, memory, escrowFunded, deposits, importer, allowed, txs,
                   refunds, failures>>

Refund ==
    /\ escrowFunded /\ refunds < MaxRefunds
    /\ refunds' = refunds + 1
    /\ escrowFunded' = FALSE /\ importer' = importer + 1
    /\ UNCHANGED <<row, script, claimed, memory, deposits, allowed, barred, txs, transfers,
                   failures>>

JobStep ==
    \/ ReadFunded \/ ReadBalance \/ ReadAllowance \/ Approve \/ Fund
    \/ Receipt \/ MirrorFund \/ AuditFund \/ AuditDeny

\* Every step but those of the console and of the requests it makes.
FundingStep ==
    \/ Tick \/ JobStep
    \/ RequestFails \/ MirrorFails \/ WriteFails \/ Restart
    \/ CooldownEnds \/ Mine \/ CreateTrade \/ OtherTransfer \/ PolicyChanges \/ Refund
    \/ ScriptApprove \/ ScriptFund

\* The interval fires, every await settles, time passes and blocks are mined.
FundingFairness ==
    /\ WF_vars(Tick) /\ WF_vars(JobStep)
    /\ WF_vars(CooldownEnds) /\ WF_vars(Mine)

-----------------------------------------------------------------------------
\* However many ticks, retries after lost answers, restarts and manual deposits
\* there are, the escrow takes one deposit, and one more only after a refund
\* (the funded flag of fund, read again by fundOnChain).
NoDoubleDeposit == deposits <= 1 + refunds

\* The registry calls the trade funded only after an operator declared it so or
\* a deposit was mined, whatever became of it (fundOnChain, mirrorFund).
MirroredAfterMining ==
    row = "FUNDED" =>
        \/ claimed
        \/ \E i \in DOMAIN txs : txs[i].kind = "fund" /\ txs[i].status # "pending"

\* If the importer can pay for good and may, or the deposit is there, the registry calls
\* the trade funded in the end, whatever fails or restarts on the way, also
\* between the deposit and its mirror (tick, the reconciliation of fundOnChain).
FundedEventually ==
    <>[](escrowFunded \/ (importer >= 1 /\ ~barred)) => <>(row = "FUNDED")

=============================================================================
