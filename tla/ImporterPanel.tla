---------------------------- MODULE ImporterPanel ----------------------------
(***************************************************************************)
(* Funding by hand, beside the automatic funder: the importer's panel      *)
(* (apps/web/components/console/importer-panel.tsx) and the fund-intent    *)
(* handler (server.ts) the panel and the operator's console call.          *)
(*                                                                         *)
(* The browser wallet holds the importer's account, the one the server     *)
(* funds from, so all their transactions share one sequence of nonces.     *)
(* The panel looks at the row, the allowance and its receipts when its     *)
(* queries return, and decides by what it saw then.                        *)
(***************************************************************************)
EXTENDS AutoFund, FiniteSets

CONSTANTS
    MaxSigned,          \* bound on transactions signed in the browser
    MaxEvents           \* bound on transfers, refunds, failures and signatures together

ASSUME PanelAssumption == MaxSigned \in Nat /\ MaxEvents \in Nat

VARIABLES
    panel,              \* the panel's state, see Panel
    intent,             \* the fund-intent request the server works on
    posted,             \* not in the code: the deposits mirrored by the panel
    signed              \* transactions signed in the browser so far

panelVars == <<panel, intent, posted, signed>>
allVars   == <<vars, panelVars>>

\* `seated`: the page renders the panel for the importer's account only.
\* `shown` and `enough` are what the page last read of the row and of the
\* allowance.  `posting` counts the fund-intent requests under way.
Panel ==
    [seated : BOOLEAN, shown : {"DRAFT", "FUNDED"}, enough : BOOLEAN,
     approve : 0 .. MaxSent, approveConfirmed : BOOLEAN,
     fund : 0 .. MaxSent, fundConfirmed : BOOLEAN,
     mirrored : SUBSET (1 .. MaxSent), posting : Nat]

NewPanel ==
    [seated |-> FALSE, shown |-> row, enough |-> FALSE,
     approve |-> 0, approveConfirmed |-> FALSE, fund |-> 0, fundConfirmed |-> FALSE,
     mirrored |-> {}, posting |-> 0]

PanelTypeOK ==
    /\ TypeOK
    /\ panel \in Panel
    /\ intent \in [pc : {"none", "save"}, by : {"panel", "operator"}]
    /\ posted \in Seq(1 .. MaxSent)
    /\ signed \in 0 .. MaxSigned

PanelInit ==
    /\ Init
    /\ panel = NewPanel
    /\ intent = [pc |-> "none", by |-> "panel"]
    /\ posted = << >> /\ signed = 0

-----------------------------------------------------------------------------
(* What the page sees.                                                     *)

\* Another account, or none: the panel is gone and its state with it, though not
\* the requests it sent.
ChooseWallet ==
    /\ panel' = [NewPanel EXCEPT !.seated = ~panel.seated, !.shown = panel.shown,
                                 !.posting = panel.posting]
    /\ UNCHANGED <<vars, intent, posted, signed>>

\* refresh of the trade, by any event of the page or by its polling.
Refresh ==
    /\ panel.shown # row
    /\ panel' = [panel EXCEPT !.shown = row]
    /\ UNCHANGED <<vars, intent, posted, signed>>

\* The allowance query, refetched when an approval is confirmed and when the
\* page comes back into view.
RefetchAllowance ==
    /\ panel.seated /\ panel.enough # allowed
    /\ panel' = [panel EXCEPT !.enough = ~panel.enough]
    /\ UNCHANGED <<vars, intent, posted, signed>>

\* useWaitForTransactionReceipt: a reverted transaction is an error, never a
\* success.
ApproveConfirmed ==
    /\ panel.approve # 0 /\ ~panel.approveConfirmed
    /\ txs[panel.approve].status = "success"
    /\ panel' = [panel EXCEPT !.approveConfirmed = TRUE]
    /\ UNCHANGED <<vars, intent, posted, signed>>

\* Mutant: any receipt confirms the deposit.
FundReceiptAny(i) == txs[i].status # "pending"

FundReceipt(i) == txs[i].status = "success"

FundConfirmed ==
    /\ panel.fund # 0 /\ ~panel.fundConfirmed
    /\ FundReceipt(panel.fund)
    /\ panel' = [panel EXCEPT !.fundConfirmed = TRUE]
    /\ UNCHANGED <<vars, intent, posted, signed>>

-----------------------------------------------------------------------------
(* What the importer does.                                                 *)

CanApprove ==
    /\ panel.seated /\ panel.shown = "DRAFT"
    /\ ~panel.approveConfirmed /\ ~panel.enough

CanFund ==
    /\ panel.seated /\ panel.shown = "DRAFT"
    /\ ~panel.fundConfirmed /\ panel.enough

Signs ==
    /\ signed < MaxSigned /\ signed' = signed + 1
    /\ UNCHANGED <<row, script, claimed, memory, chain, bounds, intent, posted>>

\* onApprove and onFund.  The hash takes the place of the one before and its
\* receipt is waited for anew.  The wallet sends what would revert, too; what
\* the user declines to sign changes nothing.
OnApprove ==
    /\ CanApprove /\ Len(txs) < MaxSent
    /\ panel' = [panel EXCEPT !.approve = Len(txs) + 1]
    /\ Sent("approve")
    /\ Signs

OnFund ==
    /\ CanFund /\ Len(txs) < MaxSent
    /\ panel' = [panel EXCEPT !.fund = Len(txs) + 1]
    /\ Sent("fund")
    /\ Signs

\* The effect runs with every refresh of the trade: mirroredFunds tells the
\* deposits it has taken care of.
MirrorDue == panel.fundConfirmed /\ panel.fund \notin panel.mirrored

MirrorDeposit ==
    /\ MirrorDue
    /\ panel' = [panel EXCEPT !.mirrored = @ \cup {panel.fund}, !.posting = @ + 1]
    /\ posted' = Append(posted, panel.fund)
    /\ UNCHANGED <<vars, intent, signed>>

\* The page is reloaded and everything it knew is gone; so are requests that
\* had not left it.
Reload ==
    /\ Fail
    /\ panel' = NewPanel
    /\ UNCHANGED <<row, script, claimed, memory, chain, txs, transfers, refunds,
                   intent, posted, signed>>

-----------------------------------------------------------------------------
(* POST /trades/:id/fund-intent.                                           *)

\* An already funded trade is a no-op.
IntentArrives(by) ==
    /\ intent.pc = "none"
    /\ \/ by = "panel" /\ panel.posting > 0 /\ panel' = [panel EXCEPT !.posting = @ - 1]
       \/ by = "operator" /\ row = "DRAFT" /\ UNCHANGED panel
    /\ intent' = [pc |-> IF row = "DRAFT" THEN "save" ELSE "none", by |-> by]
    /\ UNCHANGED <<vars, posted, signed>>

\* The operator's word counts, whatever the chain says.  The audit record that
\* follows changes nothing here.
IntentSaves ==
    /\ intent.pc = "save"
    /\ row' = "FUNDED"
    /\ claimed' = (claimed \/ intent.by = "operator")
    /\ intent' = [intent EXCEPT !.pc = "none"]
    /\ UNCHANGED <<script, memory, chain, txs, bounds, panel, posted, signed>>

\* The request is lost, or the registry rejects at either await: the panel
\* says so and leaves the rest to the automatic funder.
IntentFails ==
    /\ Fail
    /\ \/ panel.posting > 0 /\ panel' = [panel EXCEPT !.posting = @ - 1] /\ UNCHANGED intent
       \/ intent.pc # "none" /\ intent' = [intent EXCEPT !.pc = "none"] /\ UNCHANGED panel
    /\ UNCHANGED <<row, script, claimed, memory, chain, txs, transfers, refunds,
                   posted, signed>>

-----------------------------------------------------------------------------
PanelStep ==
    \/ FundingStep /\ UNCHANGED panelVars
    \/ ChooseWallet \/ Refresh \/ RefetchAllowance \/ ApproveConfirmed \/ FundConfirmed
    \/ OnApprove \/ OnFund \/ MirrorDeposit \/ Reload
    \/ \E by \in {"panel", "operator"} : IntentArrives(by)
    \/ IntentSaves \/ IntentFails

PanelNext == PanelStep /\ (transfers + refunds + failures + signed)' <= MaxEvents

\* Nothing is assumed of the people at the browser.
PanelSpec == PanelInit /\ [][PanelNext]_allVars /\ FundingFairness

-----------------------------------------------------------------------------
\* The panel tells the registry of deposits only: each was mined and took
\* effect, and none is told twice, however often the trade is refreshed (the
\* one-shot guard of importer-panel.tsx).
MirrorsOwnDeposits ==
    /\ \A i \in DOMAIN posted : txs[posted[i]] = [kind |-> "fund", status |-> "success"]
    /\ Cardinality({posted[i] : i \in DOMAIN posted}) = Len(posted)

=============================================================================
