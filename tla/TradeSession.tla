---------------------------- MODULE TradeSession ----------------------------
(***************************************************************************)
(* One browser on the page of one trade (apps/web/components/trades/       *)
(* trade-detail.tsx): the proof of the connected wallet, the token it      *)
(* yields, and the refreshes that fetch the signed authorization with that *)
(* token, over the server of WalletAuth.                                   *)
(*                                                                         *)
(* The wallet is switched, connected and disconnected at any time.  A      *)
(* refresh and a proof are closures over the state of the render that      *)
(* started them; a refresh starts with every change of the token or the    *)
(* wallet and every twelve seconds.                                        *)
(***************************************************************************)
EXTENDS WalletAuth

CONSTANTS
    PageTrade,          \* the trade of the page
    NoWallet,
    Polls,              \* refreshes in flight at once
    MaxSwitches,        \* bound on changes of the connected wallet
    MaxFaults,          \* bound on lost and repeated requests, restarts and re-creations
    MaxSigned           \* bound on authorizations

ASSUME TradeSessionAssumption ==
    /\ PageTrade \in Trades
    /\ NoWallet \notin Wallets
    /\ "page" \in Requesters
    /\ MaxSwitches \in Nat /\ MaxFaults \in Nat /\ MaxSigned \in 0 .. 2

VARIABLES
    page,               \* what the component renders from
    proof,              \* the proof in flight, which provingRef admits one of
    polls,
    serving,            \* the authorization the server would serve
    signed,             \* authorizations signed so far
    switches,
    faults

pageVars == <<page, proof, polls, serving, signed, switches, faults>>

vars == <<authVars, pageVars>>

Authorizations == 1 .. 2
NoAuthorization == 0

NoProof == [phase |-> "none"]
NoPoll  == [phase |-> "none"]

Proof ==
    [phase : {"challenge", "verify"}, account : Wallets \cup {NoWallet}]
    \cup [phase : {"prompt"}, account : Wallets, challenge : Challenge]

\* `as` is the wallet of the render that started the refresh.
Poll ==
    [phase : {"asked", "refused"}, token : Token,
     as : Wallets \cup {NoWallet}]
    \cup [phase : {"listing"}]
    \cup [phase : {"gathering"}, found : Authorizations \cup {NoAuthorization}]

\* `deniedTo` and `overlooked` are not in the code: whose proof was denied, and
\* whether the connected wallet came while the proof of another was in flight.
Page == [wallet : Wallets \cup {NoWallet},
         authToken : Token \cup {NoToken},
         proofFail : {"null", "denied", "transient"},
         pendingAuth : Authorizations \cup {NoAuthorization},
         deniedTo : Wallets \cup {NoWallet},
         overlooked : BOOLEAN]

TypeOK ==
    /\ AuthTypeOK
    /\ page \in Page
    /\ proof \in Proof \cup {NoProof}
    /\ polls \in [Polls -> Poll \cup {NoPoll}]
    /\ serving \in Authorizations \cup {NoAuthorization}
    /\ signed \in Authorizations \cup {NoAuthorization}
    /\ switches \in 0 .. MaxSwitches
    /\ faults \in 0 .. MaxFaults

Init ==
    /\ AuthInit
    /\ page = [wallet |-> NoWallet, authToken |-> NoToken, proofFail |-> "null",
               pendingAuth |-> NoAuthorization, deniedTo |-> NoWallet,
               overlooked |-> FALSE]
    /\ proof = NoProof
    /\ polls = [p \in Polls |-> NoPoll]
    /\ serving = NoAuthorization /\ signed = NoAuthorization
    /\ switches = 0 /\ faults = 0

-----------------------------------------------------------------------------
(* Proving membership, one action per await.                               *)

Fault == faults < MaxFaults /\ faults' = faults + 1

\* proveMembership, as closed over a render with `wallet` connected.
ProofStarts(wallet) == wallet # NoWallet /\ proof = NoProof

Prove(wallet) ==
    proof' = IF ProofStarts(wallet)
             THEN [phase |-> "challenge", account |-> NoWallet] ELSE proof

EndProof(fail, token) ==
    /\ proof' = NoProof
    /\ page' = [page EXCEPT !.proofFail = fail, !.authToken = token,
                            !.deniedTo = IF fail = "denied" THEN proof.account ELSE @]

\* The challenge arrives and the wallet connected at that moment is prompted;
\* without one, signMessageAsync rejects.
ReceiveChallenge ==
    /\ proof.phase = "challenge"
    /\ CreateChallenge(PageTrade)
    /\ IF page.wallet = NoWallet
       THEN EndProof("transient", NoToken)
       ELSE /\ proof' = [phase |-> "prompt", account |-> page.wallet,
                         challenge |-> NewChallenge(PageTrade)]
            /\ UNCHANGED page
    /\ UNCHANGED <<tokens, requests, parties, now, signatures, minted, left, polls, serving, signed,
                   switches, faults>>

SignChallenge ==
    /\ proof.phase = "prompt"
    /\ LET signature == Signed(proof.challenge, proof.account)
       IN  /\ signatures' = signatures \cup {signature}
           /\ Present("page", signature, PageTrade)
    /\ proof' = [phase |-> "verify", account |-> proof.account]
    /\ UNCHANGED <<challenges, tokens, parties, now, issued, minted, left, page, polls, serving,
                   signed, switches, faults>>

\* isRejectedSignature: code 4001 is for good.
RefuseToSign ==
    /\ proof.phase = "prompt"
    /\ EndProof("denied", NoToken)
    /\ UNCHANGED <<authVars, polls, serving, signed, switches, faults>>

\* 403 is for good, everything else is transient.
FinishProof ==
    /\ proof.phase = "verify"
    /\ Verifying("page", "answered")
    /\ LET request == requests["page"]
       IN  CASE request.answer = "ok"     -> EndProof("null", request.token)
             [] request.answer = "denied" -> EndProof("denied", NoToken)
             [] request.answer = "failed" -> EndProof("transient", NoToken)
    /\ Conclude("page")
    /\ UNCHANGED <<challenges, tokens, parties, now, ghostAuthVars, polls, serving,
                   signed, switches, faults>>

\* The challenge, or the answer to the verification, does not arrive.
ProofFails ==
    /\ Fault
    /\ \/ proof.phase = "challenge" /\ UNCHANGED requests
       \/ proof.phase = "verify" /\ Verifying("page", "answered") /\ Conclude("page")
    /\ EndProof("transient", NoToken)
    /\ UNCHANGED <<challenges, tokens, parties, now, ghostAuthVars, polls, serving,
                   signed, switches>>

\* The effects of a render with another connection: prove, unless a proof is in
\* flight, and drop the token when nobody is connected.
WalletBecomes(wallet) ==
    /\ wallet # page.wallet
    /\ switches < MaxSwitches
    /\ switches' = switches + 1
    /\ Prove(wallet)
    /\ page' = [page EXCEPT !.wallet = wallet,
                            !.authToken = IF wallet = NoWallet THEN NoToken ELSE @,
                            !.overlooked = wallet # NoWallet /\ ~ProofStarts(wallet)]
    /\ UNCHANGED <<authVars, polls, serving, signed, faults>>

-----------------------------------------------------------------------------
(* refresh, one action per await.                                          *)

Polling(p, phase) == polls[p].phase = phase
PollGoes(p, next) == polls' = [polls EXCEPT ![p] = next]
Found(milestone)  == [phase |-> "gathering", found |-> milestone]

\* A transient failure is made up for here.
StartRefresh(p) ==
    /\ Polling(p, "none")
    /\ IF page.authToken = NoToken
       THEN /\ PollGoes(p, Found(NoAuthorization))
            /\ IF page.proofFail = "transient" THEN Prove(page.wallet) ELSE UNCHANGED proof
       ELSE /\ PollGoes(p, [phase |-> "asked", token |-> page.authToken,
                            as |-> page.wallet])
            /\ UNCHANGED proof
    /\ UNCHANGED <<authVars, page, serving, signed, switches, faults>>

\* GET authorization: the token is checked first.
CheckToken(p) ==
    /\ Polling(p, "asked")
    /\ PollGoes(p, IF Accepted(polls[p].token, PageTrade)
                   THEN [phase |-> "listing"]
                   ELSE [polls[p] EXCEPT !.phase = "refused"])
    /\ ForgetExpired(polls[p].token, PageTrade)
    /\ UNCHANGED <<challenges, requests, parties, now, ghostAuthVars, page, proof,
                   serving, signed, switches, faults>>

ListReleases(p) ==
    /\ Polling(p, "listing")
    /\ PollGoes(p, Found(serving))
    /\ UNCHANGED <<authVars, page, proof, serving, signed, switches, faults>>

\* Mutant: a refused token is dropped and nothing else.
DropRefused(p) ==
    /\ Polling(p, "refused")
    /\ page' = [page EXCEPT !.authToken = NoToken]
    /\ PollGoes(p, Found(NoAuthorization))
    /\ UNCHANGED <<authVars, proof, serving, signed, switches, faults>>

\* 401: the token, by now perhaps a newer one, is dropped and the wallet proves
\* again.
TokenRefused(p) ==
    /\ Polling(p, "refused")
    /\ page' = [page EXCEPT !.authToken = NoToken]
    /\ Prove(polls[p].as)
    /\ PollGoes(p, Found(NoAuthorization))
    /\ UNCHANGED <<authVars, serving, signed, switches, faults>>

\* Promise.all: what was found is shown only with the trade, its audit trail and
\* its disputes.
Gather(p) ==
    /\ Polling(p, "gathering")
    /\ page' = [page EXCEPT !.pendingAuth = polls[p].found]
    /\ PollGoes(p, NoPoll)
    /\ UNCHANGED <<authVars, proof, serving, signed, switches, faults>>

GatherFails(p) ==
    /\ Polling(p, "gathering")
    /\ Fault
    /\ PollGoes(p, NoPoll)
    /\ UNCHANGED <<authVars, page, proof, serving, signed, switches>>

-----------------------------------------------------------------------------
(* Around the page.                                                        *)

OperatorSigns ==
    /\ signed < MaxSigned
    /\ signed' = signed + 1 /\ serving' = signed + 1
    /\ UNCHANGED <<authVars, page, proof, polls, switches, faults>>

AuthorizationExpires ==
    /\ serving # NoAuthorization
    /\ serving' = NoAuthorization
    /\ UNCHANGED <<authVars, page, proof, polls, signed, switches, faults>>

\* A signature that was sent once arrives again, on any trade's route.
Repeat(r) ==
    /\ r # "page"
    /\ Fault
    /\ \E signature \in signatures, trade \in Trades : Present(r, signature, trade)
    /\ UNCHANGED <<challenges, tokens, parties, now, ghostAuthVars, page, proof,
                   polls, serving, signed, switches>>

ForgetAnswer(r) ==
    /\ r # "page"
    /\ Verifying(r, "answered")
    /\ Conclude(r)
    /\ UNCHANGED <<challenges, tokens, parties, now, ghostAuthVars, pageVars>>

Restart == Fault /\ RestartServer
           /\ UNCHANGED <<page, proof, polls, serving, signed, switches>>

CreateAgain ==
    /\ Fault
    /\ \E trade \in Trades, pair \in PartyPairs :
          pair # parties[trade] /\ Recreate(trade, pair)
    /\ UNCHANGED <<page, proof, polls, serving, signed, switches>>

Verify(r) == (Consume(r) \/ Mint(r)) /\ UNCHANGED pageVars

ProofStep == ReceiveChallenge \/ SignChallenge \/ RefuseToSign \/ FinishProof

PollStep(p) ==
    CheckToken(p) \/ ListReleases(p) \/ TokenRefused(p) \/ Gather(p)

Next ==
    \/ ProofStep \/ ProofFails
    \/ \E p \in Polls : StartRefresh(p) \/ PollStep(p) \/ GatherFails(p)
    \/ \E wallet \in Wallets \cup {NoWallet} : WalletBecomes(wallet)
    \/ OperatorSigns \/ AuthorizationExpires
    \/ \E r \in Requesters : Verify(r) \/ Repeat(r) \/ ForgetAnswer(r)
    \/ Restart \/ CreateAgain
    \/ ServerTick /\ UNCHANGED pageVars

\* The interval keeps firing, requests are answered or fail, and someone answers
\* the wallet's prompt.
Fairness ==
    /\ WF_vars(ProofStep)
    /\ \A p \in Polls : WF_vars(StartRefresh(p)) /\ WF_vars(PollStep(p))
    /\ WF_vars(Verify("page"))

Spec == Init /\ [][Next]_vars /\ Fairness

-----------------------------------------------------------------------------
Seat == CASE page.wallet = NoWallet                      -> "connect"
          [] page.wallet = parties[PageTrade].importer   -> "importer"
          [] page.wallet \in PartiesOf(PageTrade) \ {parties[PageTrade].importer} -> "exporter"
          [] OTHER                                       -> "observer"

\* An exporter who stays connected is in the end shown whatever authorization the
\* server has for the trade, through expired tokens, restarts and lost answers,
\* unless the exporter refused to sign, or connected while the proof of another
\* wallet was in flight and that one was denied ('it refreshes automatically').
ClaimOffered ==
    <>[](Seat = "exporter") =>
        \/ <>[](page.pendingAuth = serving)
        \/ <>[](/\ page.proofFail = "denied"
                /\ page.deniedTo = page.wallet \/ page.overlooked)

=============================================================================
