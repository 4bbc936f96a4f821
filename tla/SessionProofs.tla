---------------------------- MODULE SessionProofs ----------------------------
(***************************************************************************)
(* The wallet proofs of a page and of everybody who repeats its requests:  *)
(* for any number of trades, wallets, callers, challenges, refreshes,      *)
(* faults and lifetimes, a challenge buys at most one token and a token is *)
(* earned by a party of the trade it opens.                                *)
(*                                                                         *)
(* The page adds one fact to the invariant of the handlers: the challenge  *)
(* that the wallet is prompted with is one that the server issued, for the *)
(* trade that it names.                                                    *)
(***************************************************************************)
EXTENDS TradeSession, WalletAuthProofs

PromptGenuine == proof.phase = "prompt" => Genuine(proof.challenge)

IInv == TypeOK /\ AuthInv /\ PromptGenuine

PageTypeOK ==
    /\ page \in Page
    /\ proof \in Proof \cup {NoProof}
    /\ polls \in [Polls -> Poll \cup {NoPoll}]
    /\ serving \in Authorizations \cup {NoAuthorization}
    /\ signed \in Authorizations \cup {NoAuthorization}
    /\ switches \in 0 .. MaxSwitches
    /\ faults \in 0 .. MaxFaults

USE DEF ghostAuthVars

\* The invariant, part by part, and the same after a step.
LEMMA Inductive == IInv <=> PageTypeOK /\ AuthInv /\ PromptGenuine
BY DEF IInv, TypeOK, PageTypeOK, AuthInv

-----------------------------------------------------------------------------
\* At the start no wallet is connected.
LEMMA InitIInv == Init => IInv
<1> SUFFICES ASSUME Init PROVE IInv
  OBVIOUS
<1>1. AuthInv
  BY AuthInitInv DEF Init
<1>2. PageTypeOK
  BY TradeSessionAssumption
  DEF Init, PageTypeOK, Page, NoProof, Proof, NoPoll, Poll, Authorizations, NoAuthorization
<1>3. PromptGenuine
  BY DEF Init, PromptGenuine, NoProof
<1> QED  BY <1>1, <1>2, <1>3, Inductive

\* After a step the parts make the invariant again.
LEMMA InductiveNext == ASSUME PageTypeOK', AuthInv', PromptGenuine' PROVE IInv'
BY DEF IInv, TypeOK, PageTypeOK, AuthInv

\* The parts of the invariant, and the numbers that are compared.
LEMMA PageOf ==
    ASSUME IInv
    PROVE  /\ PageTypeOK /\ AuthInv /\ PromptGenuine
           /\ issued \in Nat
           /\ faults \in Nat /\ faults <= MaxFaults
           /\ switches \in Nat /\ switches <= MaxSwitches
BY Inductive, TradeSessionAssumption, WalletAuthAssumption DEF PageTypeOK, AuthInv, AuthTypeOK

\* A fault is counted and a refresh goes on; the page and the proof may be
\* anything of their types.
LEMMA FaultType ==
    ASSUME IInv, Fault
    PROVE  faults' \in 0 .. MaxFaults
BY PageOf, TradeSessionAssumption DEF Fault

\* The end of a proof leaves no prompt.
LEMMA EndProofType ==
    ASSUME IInv, NEW fail \in {"null", "denied", "transient"}, NEW token \in Token \cup {NoToken},
           EndProof(fail, token), proof # NoProof
    PROVE  page' \in Page /\ proof' \in Proof \cup {NoProof} /\ PromptGenuine'
<1>1. proof.account \in Wallets \cup {NoWallet}
  BY PageOf DEF PageTypeOK, Proof
<1>2. page' \in Page
  BY <1>1, PageOf DEF EndProof, PageTypeOK, Page
<1>3. proof' = NoProof
  BY DEF EndProof
<1> QED  BY <1>2, <1>3 DEF PromptGenuine, NoProof

\* The start of a proof leaves no prompt, or keeps the one there is.
LEMMA ProveType ==
    ASSUME IInv, NEW w, Prove(w), issued' = issued, challenges' \subseteq challenges
    PROVE  proof' \in Proof \cup {NoProof} /\ PromptGenuine'
<1>1. CASE ProofStarts(w)
  BY <1>1 DEF Prove, Proof, PromptGenuine
<1>2. CASE ~ProofStarts(w)
  <2>1. proof' = proof
    BY <1>2 DEF Prove
  <2>2. proof.phase = "prompt" => Genuine(proof.challenge)'
    BY PageOf, GenuineStays, <2>1 DEF PromptGenuine
  <2> QED  BY PageOf, <2>1, <2>2 DEF PageTypeOK, PromptGenuine, Genuine
<1> QED  BY <1>1, <1>2

\* The prompt keeps while the proof and the challenges do.
LEMMA PromptKept ==
    ASSUME IInv, proof' = proof, issued' = issued, challenges' \subseteq challenges
    PROVE  PromptGenuine'
<1> SUFFICES ASSUME proof.phase = "prompt" PROVE Genuine(proof.challenge)'
  BY DEF PromptGenuine
<1> QED  BY PageOf DEF PromptGenuine, Genuine

\* One refresh moves.
LEMMA PollsType ==
    ASSUME IInv, NEW p \in Polls, NEW next \in Poll \cup {NoPoll}, PollGoes(p, next)
    PROVE  polls' \in [Polls -> Poll \cup {NoPoll}]
BY PageOf DEF PageTypeOK, PollGoes

-----------------------------------------------------------------------------
\* The steps of a proof, each after an await.
LEMMA ProofStepInv ==
    ASSUME IInv, ProofStep
    PROVE  IInv'
<1>1. CASE ReceiveChallenge
  <2> USE <1>1
  <2>1. proof # NoProof /\ PageTrade \in Trades /\ CreateChallenge(PageTrade)
    BY TradeSessionAssumption DEF ReceiveChallenge, NoProof
  <2>2. PICK c : c = NewChallenge(PageTrade)
    OBVIOUS
  <2>3. AuthInv' /\ Genuine(c)'
    BY <2>1, <2>2, PageOf, CreateChallengeInv DEF ReceiveChallenge
  <2>4. CASE page.wallet = NoWallet
    <3>1. EndProof("transient", NoToken)
      BY <2>4 DEF ReceiveChallenge
    <3> QED
      BY <2>1, <2>3, <3>1, EndProofType, PageOf, InductiveNext DEF PageTypeOK, ReceiveChallenge
  <2>5. CASE page.wallet # NoWallet
    <3>1. /\ proof' = [phase |-> "prompt", account |-> page.wallet, challenge |-> c]
          /\ page' = page
      BY <2>2, <2>5 DEF ReceiveChallenge
    <3>2. page.wallet \in Wallets
      BY <2>5, PageOf DEF PageTypeOK, Page
    <3>3. proof' \in Proof
      BY <2>3, <3>1, <3>2 DEF Proof, Genuine
    <3>4. PromptGenuine'
      BY <2>3, <3>1 DEF PromptGenuine, Genuine
    <3> QED  BY <2>3, <3>1, <3>3, <3>4, PageOf, InductiveNext DEF PageTypeOK, ReceiveChallenge
  <2> QED  BY <2>4, <2>5
<1>2. CASE SignChallenge
  <2> USE <1>2
  <2> DEFINE signature == Signed(proof.challenge, proof.account)
  <2>1. /\ proof.challenge \in Challenge /\ proof.account \in Wallets
        /\ Genuine(proof.challenge)
    BY PageOf DEF SignChallenge, PageTypeOK, Proof, NoProof, PromptGenuine
  <2>2. signature \in Signature
    BY <2>1 DEF Signed, Signature, Challenge
  <2>3. AuthInv'
    BY <2>1, <2>2, PageOf, PresentInv, TradeSessionAssumption DEF SignChallenge
  <2>4. proof' \in Proof /\ PromptGenuine'
    BY <2>1 DEF SignChallenge, Proof, PromptGenuine
  <2> QED  BY <2>3, <2>4, PageOf, InductiveNext DEF PageTypeOK, SignChallenge
<1>3. CASE RefuseToSign
  <2> USE <1>3
  <2>1. proof # NoProof /\ EndProof("denied", NoToken)
    BY DEF RefuseToSign, NoProof
  <2>2. AuthInv'
    BY PageOf, AuthIdle DEF RefuseToSign
  <2> QED  BY <2>1, <2>2, EndProofType, PageOf, InductiveNext DEF PageTypeOK, RefuseToSign
<1>4. CASE FinishProof
  <2> USE <1>4
  <2>1. /\ proof # NoProof /\ "page" \in Requesters /\ Conclude("page")
        /\ UNCHANGED <<challenges, tokens, parties, now, issued, signatures, minted, left>>
        /\ UNCHANGED <<polls, serving, signed, switches, faults>>
    BY TradeSessionAssumption DEF FinishProof, NoProof
  <2>2. AuthInv'
    BY <2>1, PageOf, ConcludeInv
  <2>3. requests["page"] \in [pc : {"answered"}, answer : {"ok", "denied", "failed"},
                              token : Token \cup {NoToken}]
    BY <2>1, PageOf DEF FinishProof, AuthInv, AuthTypeOK, Verification, NoVerification, Verifying
  <2>4. \/ EndProof("null", requests["page"].token)
        \/ EndProof("denied", NoToken)
        \/ EndProof("transient", NoToken)
    BY <2>3 DEF FinishProof
  <2>5. page' \in Page /\ proof' \in Proof \cup {NoProof} /\ PromptGenuine'
    BY <2>1, <2>3, <2>4, EndProofType
  <2> QED  BY <2>1, <2>2, <2>5, PageOf, InductiveNext DEF PageTypeOK
<1> QED  BY <1>1, <1>2, <1>3, <1>4 DEF ProofStep

\* A lost challenge or answer.
LEMMA ProofFailsInv ==
    ASSUME IInv, ProofFails
    PROVE  IInv'
<1>1. proof # NoProof /\ EndProof("transient", NoToken) /\ Fault
  BY DEF ProofFails, NoProof
<1>2. AuthInv'
  <2>1. CASE UNCHANGED requests
    BY <2>1, PageOf, AuthIdle DEF ProofFails, authVars
  <2>2. CASE Conclude("page")
    BY <2>2, PageOf, ConcludeInv, TradeSessionAssumption DEF ProofFails
  <2> QED  BY <2>1, <2>2 DEF ProofFails
<1> QED
  BY <1>1, <1>2, EndProofType, FaultType, PageOf, InductiveNext DEF PageTypeOK, ProofFails

-----------------------------------------------------------------------------
\* The steps of a refresh.
LEMMA RefreshInv ==
    ASSUME IInv, NEW p \in Polls, StartRefresh(p) \/ PollStep(p) \/ GatherFails(p)
    PROVE  IInv'
<1> USE DEF Found
<1>0. page.wallet \in Wallets \cup {NoWallet} /\ polls[p] \in Poll \cup {NoPoll}
  BY PageOf DEF PageTypeOK, Page
<1>1. CASE StartRefresh(p)
  <2> USE <1>1
  <2>1. AuthInv'
    BY PageOf, AuthIdle DEF StartRefresh
  <2>2. polls' \in [Polls -> Poll \cup {NoPoll}]
    <3>1. Found(NoAuthorization) \in Poll
      BY DEF Poll
    <3>2. page.authToken # NoToken =>
             [phase |-> "asked", token |-> page.authToken, as |-> page.wallet] \in Poll
      BY PageOf DEF Poll, PageTypeOK, Page
    <3> QED  BY <3>1, <3>2, PollsType DEF StartRefresh
  <2>3. proof' \in Proof \cup {NoProof} /\ PromptGenuine'
    <3>1. UNCHANGED <<issued, challenges>>
      BY DEF StartRefresh, authVars
    <3>2. CASE Prove(page.wallet)
      BY <3>1, <3>2, ProveType
    <3>3. CASE UNCHANGED proof
      BY <3>1, <3>3, PromptKept, PageOf DEF PageTypeOK
    <3> QED  BY <3>2, <3>3 DEF StartRefresh
  <2> QED  BY <2>1, <2>2, <2>3, PageOf, InductiveNext DEF PageTypeOK, StartRefresh
<1>2. CASE CheckToken(p)
  <2> USE <1>2
  <2>1. AuthInv'
    BY PageOf, ForgetExpiredInv DEF CheckToken
  <2>2. /\ [phase |-> "listing"] \in Poll
        /\ [polls[p] EXCEPT !.phase = "refused"] \in Poll
    BY <1>0 DEF CheckToken, Polling, Poll, NoPoll
  <2>3. polls' \in [Polls -> Poll \cup {NoPoll}]
    BY <2>2, PollsType DEF CheckToken
  <2>4. PromptGenuine'
    BY PromptKept DEF CheckToken
  <2> QED  BY <2>1, <2>3, <2>4, PageOf, InductiveNext DEF PageTypeOK, CheckToken
<1>3. CASE ListReleases(p)
  <2> USE <1>3
  <2>1. AuthInv' /\ PromptGenuine'
    BY PageOf, AuthIdle, PromptKept DEF ListReleases, authVars
  <2>2. Found(serving) \in Poll
    BY PageOf DEF PageTypeOK, Poll
  <2>3. polls' \in [Polls -> Poll \cup {NoPoll}]
    BY <2>2, PollsType DEF ListReleases
  <2> QED  BY <2>1, <2>3, PageOf, InductiveNext DEF PageTypeOK, ListReleases
<1>4. CASE TokenRefused(p)
  <2> USE <1>4
  <2>1. AuthInv'
    BY PageOf, AuthIdle DEF TokenRefused
  <2>2. Found(NoAuthorization) \in Poll
    BY DEF Poll
  <2>3. polls' \in [Polls -> Poll \cup {NoPoll}]
    BY <2>2, PollsType DEF TokenRefused
  <2>4. proof' \in Proof \cup {NoProof} /\ PromptGenuine'
    BY ProveType DEF TokenRefused, authVars
  <2>5. page' \in Page
    BY PageOf DEF TokenRefused, PageTypeOK, Page
  <2> QED  BY <2>1, <2>3, <2>4, <2>5, PageOf, InductiveNext DEF PageTypeOK, TokenRefused
<1>5. CASE Gather(p)
  <2> USE <1>5
  <2>1. AuthInv' /\ PromptGenuine'
    BY PageOf, AuthIdle, PromptKept DEF Gather, authVars
  <2>2. polls' \in [Polls -> Poll \cup {NoPoll}]
    BY PollsType DEF Gather
  <2>3. polls[p].found \in Authorizations \cup {NoAuthorization}
    BY <1>0 DEF Gather, Polling, Poll, NoPoll
  <2>4. page' \in Page
    BY <2>3, PageOf DEF Gather, PageTypeOK, Page
  <2> QED  BY <2>1, <2>2, <2>4, PageOf, InductiveNext DEF PageTypeOK, Gather
<1>6. CASE GatherFails(p)
  <2> USE <1>6
  <2>1. AuthInv' /\ PromptGenuine'
    BY PageOf, AuthIdle, PromptKept DEF GatherFails, authVars
  <2>2. polls' \in [Polls -> Poll \cup {NoPoll}]
    BY PollsType DEF GatherFails
  <2> QED  BY <2>1, <2>2, FaultType, PageOf, InductiveNext DEF PageTypeOK, GatherFails
<1> QED  BY <1>1, <1>2, <1>3, <1>4, <1>5, <1>6 DEF PollStep

-----------------------------------------------------------------------------
\* Another wallet is connected.
LEMMA WalletBecomesInv ==
    ASSUME IInv, NEW w \in Wallets \cup {NoWallet}, WalletBecomes(w)
    PROVE  IInv'
<1>1. AuthInv'
  BY PageOf, AuthIdle DEF WalletBecomes
<1>2. proof' \in Proof \cup {NoProof} /\ PromptGenuine'
  BY ProveType DEF WalletBecomes, authVars
<1>3. page' \in Page
  <2>1. (w # NoWallet /\ ~ProofStarts(w)) \in BOOLEAN
    OBVIOUS
  <2> QED  BY <2>1, PageOf DEF WalletBecomes, PageTypeOK, Page
<1>4. switches' \in 0 .. MaxSwitches
  BY PageOf, TradeSessionAssumption DEF WalletBecomes
<1> QED  BY <1>1, <1>2, <1>3, <1>4, PageOf, InductiveNext DEF PageTypeOK, WalletBecomes

\* The server signs an authorization, or one expires.
LEMMA AuthorizationsInv ==
    ASSUME IInv, OperatorSigns \/ AuthorizationExpires
    PROVE  IInv'
<1>1. AuthInv' /\ PromptGenuine'
  BY PageOf, AuthIdle, PromptKept DEF OperatorSigns, AuthorizationExpires, authVars
<1>2. /\ serving' \in Authorizations \cup {NoAuthorization}
      /\ signed' \in Authorizations \cup {NoAuthorization}
  BY PageOf, TradeSessionAssumption
  DEF OperatorSigns, AuthorizationExpires, PageTypeOK, Authorizations, NoAuthorization
<1> QED
  BY <1>1, <1>2, PageOf, InductiveNext DEF PageTypeOK, OperatorSigns, AuthorizationExpires

\* Nothing of the page moves.
LEMMA ServerInv ==
    ASSUME IInv, AuthInv', UNCHANGED <<page, proof, polls, serving, signed, switches>>,
           faults' \in 0 .. MaxFaults, issued' = issued, challenges' \subseteq challenges
    PROVE  IInv'
BY PromptKept, PageOf, InductiveNext DEF PageTypeOK

\* The verifications of the page and of whoever repeats it.
LEMMA CallersInv ==
    ASSUME IInv, NEW r \in Requesters, Verify(r) \/ Repeat(r) \/ ForgetAnswer(r)
    PROVE  IInv'
<1>1. CASE Consume(r) /\ UNCHANGED pageVars
  BY <1>1, PageOf, ConsumeInv, ServerInv DEF pageVars
<1>2. CASE Mint(r) /\ UNCHANGED pageVars
  BY <1>2, PageOf, MintInv, ServerInv DEF pageVars
<1>3. CASE Repeat(r)
  <2>1. PICK signature \in signatures, trade \in Trades : Present(r, signature, trade)
    BY <1>3 DEF Repeat
  <2>2. signature \in Signature /\ signatures \cup {signature} = signatures
    BY <2>1, PageOf DEF AuthInv, AuthTypeOK
  <2>3. AuthInv'
    BY <1>3, <2>1, <2>2, PageOf, PresentInv DEF Repeat
  <2> QED  BY <1>3, <2>3, FaultType, ServerInv DEF Repeat
<1>4. CASE ForgetAnswer(r)
  <2>1. AuthInv'
    BY <1>4, PageOf, ConcludeInv DEF ForgetAnswer
  <2> QED  BY <1>4, <2>1, PageOf, ServerInv DEF ForgetAnswer, pageVars
<1> QED  BY <1>1, <1>2, <1>3, <1>4 DEF Verify

\* A restart, a trade created again and the clock.
LEMMA AroundInv ==
    ASSUME IInv, Restart \/ CreateAgain \/ (ServerTick /\ UNCHANGED pageVars)
    PROVE  IInv'
<1>1. CASE Restart
  BY <1>1, PageOf, RestartInv, FaultType, ServerInv DEF Restart
<1>2. CASE ServerTick /\ UNCHANGED pageVars
  BY <1>2, PageOf, TickInv, ServerInv DEF pageVars, ServerTick
<1>3. CASE CreateAgain
  BY <1>3, PageOf, RecreateInv, FaultType, ServerInv DEF CreateAgain
<1> QED  BY <1>1, <1>2, <1>3

-----------------------------------------------------------------------------
\* The invariant holds of every behaviour.
THEOREM Invariant == Spec => []IInv
<1>1. Init => IInv
  BY InitIInv
<1>2. IInv /\ [Next]_vars => IInv'
  <2> SUFFICES ASSUME IInv, [Next]_vars PROVE IInv'
    OBVIOUS
  <2>1. CASE ProofStep
    BY <2>1, ProofStepInv
  <2>2. CASE ProofFails
    BY <2>2, ProofFailsInv
  <2>3. CASE \E p \in Polls : StartRefresh(p) \/ PollStep(p) \/ GatherFails(p)
    BY <2>3, RefreshInv
  <2>4. CASE \E wallet \in Wallets \cup {NoWallet} : WalletBecomes(wallet)
    BY <2>4, WalletBecomesInv
  <2>5. CASE OperatorSigns \/ AuthorizationExpires
    BY <2>5, AuthorizationsInv
  <2>6. CASE \E r \in Requesters : Verify(r) \/ Repeat(r) \/ ForgetAnswer(r)
    BY <2>6, CallersInv
  <2>7. CASE Restart \/ CreateAgain \/ (ServerTick /\ UNCHANGED pageVars)
    BY <2>7, AroundInv
  <2>8. CASE UNCHANGED vars
    BY <2>8, PageOf, AuthIdle, ServerInv DEF vars, pageVars, authVars, PageTypeOK
  <2> QED  BY <2>1, <2>2, <2>3, <2>4, <2>5, <2>6, <2>7, <2>8 DEF Next
<1> QED  BY <1>1, <1>2, PTL DEF Spec

\* Types: the page, its proof and its refreshes, and the maps of the server.
THEOREM TypeCorrect == Spec => []TypeOK
<1>1. IInv => TypeOK
  BY DEF IInv
<1> QED  BY <1>1, Invariant, PTL

\* A challenge buys at most one token however many verifications present it, for
\* it is deleted before the await and what is past the await excludes it
\* (wallet-auth.ts, verify).
THEOREM OneToken == Spec => []OneTokenPerChallenge
<1>1. IInv => OneTokenPerChallenge
  BY DEF IInv, AuthInv
<1> QED  BY <1>1, Invariant, PTL

\* Whoever holds a token signed a challenge of the trade it opens and was a party of
\* it when its row was read or later, whatever wallet the page prompted, whoever
\* repeats its signatures on another trade's route and however often trades are
\* created again with other parties (wallet-auth.ts, trade-detail.tsx).
THEOREM Earned == Spec => []TokensEarned
<1>1. IInv => TokensEarned
  BY DEF IInv, AuthInv
<1> QED  BY <1>1, Invariant, PTL

=============================================================================
