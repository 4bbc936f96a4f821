-------------------------- MODULE WalletAuthProofs --------------------------
(***************************************************************************)
(* What the wallet-proof handlers keep true, whoever calls them: one lemma *)
(* per handler, for any number of trades, wallets, callers, challenges and *)
(* any lifetimes.  TradeSession and ResolutionCenter call the handlers;    *)
(* SessionProofs and ResolutionProofs cite the lemmas.                     *)
(***************************************************************************)
EXTENDS WalletAuth, FiniteSetTheorems, TLAPS

\* Challenges are numbered as they are issued, and a signature names the trade
\* its challenge was issued for.
SignedAsIssued ==
    /\ \A c \in challenges : c.id <= issued
    /\ \A s \in signatures : s.challenge <= issued
    /\ \A s \in signatures, c \in challenges : s.challenge = c.id => s.trade = c.trade

\* Nothing is verified that no wallet has signed.
PresentedSigned ==
    \A r \in Requesters :
        requests[r].pc \in {"presented", "recovering"} => requests[r].signature \in signatures

\* The challenge of a verification past its await is gone for everybody else.
RecoveringAlone ==
    \A r \in Requesters : Verifying(r, "recovering") =>
        /\ requests[r].signature.trade = requests[r].trade
        /\ \A c \in challenges : c.id # requests[r].signature.challenge
        /\ \A t \in minted : t.challenge # requests[r].signature.challenge
        /\ \A q \in Requesters \ {r} : Verifying(q, "recovering") =>
              requests[q].signature.challenge # requests[r].signature.challenge

\* So is the one a token was bought with.
MintedSpent ==
    /\ IsFiniteSet(minted)
    /\ \A t \in minted : /\ t.challenge <= issued
                         /\ \A c \in challenges : c.id # t.challenge

\* Those whom a verification takes for parties are or were parties since it read the
\* row, which is in the past, as it is for every token.
RowsRead ==
    /\ \A r \in Requesters :
          requests[r].pc \in {"presented", "recovering"} =>
              /\ requests[r].since <= now
              /\ \A w \in requests[r].parties :
                    PartySince(w, requests[r].trade, requests[r].since)
    /\ \A t \in minted : t.since <= now

\* A successful answer carries a token that was minted.
AnswersMinted ==
    \A r \in Requesters :
        Verifying(r, "answered") =>
            /\ requests[r].token = NoToken \/ requests[r].token \in minted
            /\ requests[r].answer = "ok" => requests[r].token \in minted

AuthInv ==
    /\ AuthTypeOK
    /\ SignedAsIssued /\ PresentedSigned
    /\ RecoveringAlone /\ MintedSpent /\ AnswersMinted /\ RowsRead
    /\ OneTokenPerChallenge /\ TokensEarned

\* A challenge some client holds to be signed: it was issued, and with this trade.
Genuine(c) ==
    /\ c \in Challenge
    /\ c.id <= issued
    /\ \A d \in challenges : d.id = c.id => d.trade = c.trade

-----------------------------------------------------------------------------
\* At the start nothing is issued.
LEMMA AuthInitInv == AuthInit => AuthInv
<1> SUFFICES ASSUME AuthInit PROVE AuthInv
  OBVIOUS
<1>1. AuthTypeOK
  BY WalletAuthAssumption DEF AuthInit, AuthTypeOK
<1>2. SignedAsIssued /\ PresentedSigned /\ RecoveringAlone /\ AnswersMinted /\ RowsRead
  BY DEF AuthInit, SignedAsIssued, PresentedSigned, RecoveringAlone, AnswersMinted,
     RowsRead, Verifying, NoVerification
<1>3. MintedSpent /\ OneTokenPerChallenge /\ TokensEarned
  BY FS_EmptySet DEF AuthInit, MintedSpent, OneTokenPerChallenge, TokensEarned
<1> QED  BY <1>1, <1>2, <1>3 DEF AuthInv

\* Nothing of the server moves.
LEMMA AuthIdle ==
    ASSUME AuthInv, UNCHANGED authVars
    PROVE  AuthInv'
BY DEF authVars, ghostAuthVars, AuthInv, AuthTypeOK, SignedAsIssued, PresentedSigned,
   RecoveringAlone, MintedSpent, AnswersMinted, RowsRead, OneTokenPerChallenge, TokensEarned,
   Verifying, PartySince, PartiesOf

\* The rows of the trades stay as they are, and so does who was a party since when.
LEMMA EarnedStays ==
    ASSUME AuthInv, UNCHANGED <<parties, left, minted>>, signatures \subseteq signatures'
    PROVE  TokensEarned'
BY DEF AuthInv, TokensEarned, PartySince, PartiesOf

\* A verification that reads no row and no token more leaves them read.
LEMMA RowsStay ==
    ASSUME AuthInv, UNCHANGED <<parties, left>>, now' \in Nat, now <= now',
           \A r \in Requesters :
               requests'[r].pc \in {"presented", "recovering"} =>
                   /\ requests[r].pc \in {"presented", "recovering"}
                   /\ requests'[r].since = requests[r].since
                   /\ requests'[r].trade = requests[r].trade
                   /\ requests'[r].parties = requests[r].parties,
           \A t \in minted' : t \in minted \/ (t.since \in Nat /\ t.since <= now)
    PROVE  RowsRead'
<1>1. now \in Nat
  BY WalletAuthAssumption DEF AuthInv, AuthTypeOK
<1>2. \A t \in minted : t.since \in Nat
  BY DEF AuthInv, AuthTypeOK, Token
<1>3. \A r \in Requesters :
         requests[r].pc \in {"presented", "recovering"} => requests[r].since \in Nat
  BY DEF AuthInv, AuthTypeOK, Verification, NoVerification
<1>4. \A w, t, s : PartySince(w, t, s)' <=> PartySince(w, t, s)
  BY DEF PartySince, PartiesOf
<1> QED  BY <1>1, <1>2, <1>3, <1>4 DEF AuthInv, RowsRead

\* A fresh challenge has a number that nothing refers to.
LEMMA CreateChallengeInv ==
    ASSUME AuthInv, NEW trade \in Trades, CreateChallenge(trade),
           UNCHANGED <<tokens, requests, parties, now, signatures, minted, left>>,
           NEW c, c = NewChallenge(trade)
    PROVE  AuthInv' /\ Genuine(c)'
<1>1. /\ issued' = issued + 1 /\ issued \in Nat /\ issued' \in 1 .. MaxChallenges
      /\ challenges' = challenges \cup {c}
  BY WalletAuthAssumption DEF CreateChallenge, AuthInv, AuthTypeOK
<1>2. c \in Challenge /\ c.id = issued' /\ c.trade = trade
  <2>1. now + ChallengeTtl \in Nat
    BY WalletAuthAssumption DEF AuthInv, AuthTypeOK
  <2> QED  BY <1>1, <2>1 DEF NewChallenge, Challenge
<1>3. AuthTypeOK'
  BY <1>1, <1>2, WalletAuthAssumption DEF AuthInv, AuthTypeOK
<1>4. /\ \A d \in challenges : d.id \in Nat /\ d.id # c.id /\ d.id <= issued'
      /\ \A s \in signatures : s.challenge \in Nat /\ s.challenge # c.id
                               /\ s.challenge <= issued'
      /\ \A t \in minted : t.challenge \in Nat /\ t.challenge # c.id
                           /\ t.challenge <= issued'
  <2>1. \A d \in challenges : d.id \in 1 .. MaxChallenges /\ d.id <= issued
    BY DEF AuthInv, AuthTypeOK, SignedAsIssued, Challenge
  <2>2. \A s \in signatures : s.challenge \in 1 .. MaxChallenges /\ s.challenge <= issued
    BY DEF AuthInv, AuthTypeOK, SignedAsIssued, Signature
  <2>3. \A t \in minted : t.challenge \in 1 .. MaxChallenges /\ t.challenge <= issued
    BY DEF AuthInv, AuthTypeOK, MintedSpent, Token
  <2> QED  BY <1>1, <1>2, <2>1, <2>2, <2>3, WalletAuthAssumption
<1>5. SignedAsIssued'
  BY <1>1, <1>2, <1>4 DEF AuthInv, SignedAsIssued
<1>6. PresentedSigned' /\ AnswersMinted' /\ OneTokenPerChallenge' /\ TokensEarned'
  BY EarnedStays DEF AuthInv, PresentedSigned, AnswersMinted, OneTokenPerChallenge, Verifying
<1>7. RecoveringAlone'
  BY <1>1, <1>4 DEF AuthInv, RecoveringAlone, PresentedSigned, Verifying
<1>8. MintedSpent'
  BY <1>1, <1>4 DEF AuthInv, MintedSpent
<1>9. Genuine(c)'
  BY <1>1, <1>2, <1>4 DEF Genuine
<1>10. RowsRead'
  BY RowsStay, WalletAuthAssumption DEF AuthInv, AuthTypeOK
<1> QED  BY <1>3, <1>5, <1>6, <1>7, <1>8, <1>9, <1>10 DEF AuthInv

\* What was genuine stays so when the numbers only grow.
LEMMA GenuineStays ==
    ASSUME AuthInv, NEW c, Genuine(c), issued' = issued, challenges' \subseteq challenges
    PROVE  Genuine(c)'
BY DEF Genuine

\* Nor does a new challenge take the number of an old one.
LEMMA GenuineSurvives ==
    ASSUME AuthInv, NEW c, Genuine(c), NEW trade \in Trades, CreateChallenge(trade)
    PROVE  Genuine(c)'
<1>1. /\ issued' = issued + 1 /\ issued \in Nat /\ c.id \in Nat
      /\ challenges' = challenges \cup {NewChallenge(trade)}
  BY WalletAuthAssumption DEF CreateChallenge, AuthInv, AuthTypeOK, Genuine, Challenge
<1>2. NewChallenge(trade).id = issued + 1
  BY DEF NewChallenge
<1>3. c.id <= issued' /\ NewChallenge(trade).id # c.id
  BY <1>1, <1>2 DEF Genuine
<1> QED  BY <1>1, <1>3 DEF Genuine

\* A signature, made just now of a genuine challenge or some time ago, is presented.
LEMMA PresentInv ==
    ASSUME AuthInv, NEW r \in Requesters, NEW signature \in Signature, NEW trade \in Trades,
           \/ signature \in signatures
           \/ \E c \in Challenge, w \in Wallets : Genuine(c) /\ signature = Signed(c, w),
           signatures' = signatures \cup {signature},
           Present(r, signature, trade),
           UNCHANGED <<challenges, tokens, parties, now, issued, minted, left>>
    PROVE  AuthInv'
<1> DEFINE request == [pc |-> "presented", signature |-> signature, trade |-> trade,
                       parties |-> PartiesOf(trade), since |-> now]
<1>1. \A q \in Requesters : requests'[q] = IF q = r THEN request ELSE requests[q]
  BY DEF Present, AuthInv, AuthTypeOK
<1>2. AuthTypeOK'
  <2>1. PartiesOf(trade) \in SUBSET Wallets /\ now \in Nat
    BY WalletAuthAssumption DEF AuthInv, AuthTypeOK, PartiesOf
  <2>2. request \in Verification
    BY <2>1 DEF Verification
  <2> QED  BY <2>2 DEF Present, AuthInv, AuthTypeOK
<1>3. /\ signature.challenge <= issued
      /\ \A c \in challenges : signature.challenge = c.id => signature.trade = c.trade
  BY DEF AuthInv, SignedAsIssued, Genuine, Signed
<1>4. SignedAsIssued'
  BY <1>3 DEF AuthInv, SignedAsIssued
<1>5. PresentedSigned' /\ AnswersMinted'
  BY <1>1 DEF AuthInv, PresentedSigned, AnswersMinted, Verifying
<1>6. RecoveringAlone'
  BY <1>1 DEF AuthInv, RecoveringAlone, Verifying
<1>7. MintedSpent' /\ OneTokenPerChallenge' /\ TokensEarned'
  BY EarnedStays DEF AuthInv, MintedSpent, OneTokenPerChallenge
<1>8. RowsRead'
  <2>1. now \in Nat
    BY WalletAuthAssumption DEF AuthInv, AuthTypeOK
  <2>2. \A w \in PartiesOf(trade) : PartySince(w, trade, now)'
    BY DEF PartySince, PartiesOf
  <2>3. \A w, t, s : PartySince(w, t, s)' <=> PartySince(w, t, s)
    BY DEF PartySince, PartiesOf
  <2> QED  BY <1>1, <2>1, <2>2, <2>3 DEF AuthInv, RowsRead
<1> QED  BY <1>2, <1>4, <1>5, <1>6, <1>7, <1>8 DEF AuthInv

\* The challenge is taken away before the await, so nothing else refers to it.
LEMMA ConsumeInv ==
    ASSUME AuthInv, NEW r \in Requesters, Consume(r)
    PROVE  AuthInv' /\ challenges' \subseteq challenges /\ issued' = issued
<1> DEFINE request == requests[r]
           known == {c \in challenges : c.id = request.signature.challenge}
           held == [pc |-> "recovering", signature |-> request.signature,
                    trade |-> request.trade, parties |-> request.parties,
                    since |-> request.since, at |-> now]
           failed == [pc |-> "answered", answer |-> "failed", token |-> NoToken]
<1>1. /\ request.pc = "presented"
      /\ challenges' = challenges \ known
      /\ \/ /\ \E c \in known : c.trade = request.trade
            /\ requests' = [requests EXCEPT ![r] = held]
         \/ requests' = [requests EXCEPT ![r] = failed]
      /\ UNCHANGED <<tokens, parties, now, issued, signatures, minted, left>>
  BY DEF Consume, Verifying, Answer, Recover, ghostAuthVars
<1>2. request \in [pc : {"presented"}, signature : Signature, trade : Trades,
                   parties : SUBSET Wallets, since : Nat]
  BY <1>1 DEF AuthInv, AuthTypeOK, Verification, NoVerification
<1>3. held \in Verification /\ failed \in Verification
  BY <1>2, WalletAuthAssumption DEF Verification, AuthInv, AuthTypeOK
<1>4. AuthTypeOK'
  BY <1>1, <1>3 DEF AuthInv, AuthTypeOK
<1>5. SignedAsIssued'
  BY <1>1 DEF AuthInv, SignedAsIssued
<1>6. request.signature \in signatures
  BY <1>1 DEF AuthInv, PresentedSigned
<1>7. \A q \in Requesters \ {r} : requests'[q] = requests[q]
  BY <1>1 DEF AuthInv, AuthTypeOK
<1>10. TokensEarned'
  BY <1>1, EarnedStays
<1>11. now \in Nat
  BY WalletAuthAssumption DEF AuthInv, AuthTypeOK
<1>8. CASE requests' = [requests EXCEPT ![r] = failed]
  <2>1. requests'[r] = failed
    BY <1>8 DEF AuthInv, AuthTypeOK
  <2>2. PresentedSigned' /\ AnswersMinted'
    BY <1>1, <1>7, <2>1 DEF AuthInv, PresentedSigned, AnswersMinted, Verifying
  <2>3. RecoveringAlone'
    BY <1>1, <1>7, <2>1 DEF AuthInv, RecoveringAlone, Verifying
  <2>4. RowsRead'
    BY <1>1, <1>7, <1>11, <2>1, RowsStay
  <2> QED
    BY <1>1, <1>4, <1>5, <1>10, <2>2, <2>3, <2>4 DEF AuthInv, MintedSpent, OneTokenPerChallenge
<1>9. CASE /\ \E c \in known : c.trade = request.trade
           /\ requests' = [requests EXCEPT ![r] = held]
  <2>1. requests'[r] = held
    BY <1>9 DEF AuthInv, AuthTypeOK
  <2>2. PresentedSigned' /\ AnswersMinted'
    BY <1>1, <1>6, <1>7, <2>1 DEF AuthInv, PresentedSigned, AnswersMinted, Verifying
  <2>3. PICK c \in challenges : /\ c.id = request.signature.challenge
                                /\ c.trade = request.trade
    BY <1>9
  <2>4. request.signature.trade = request.trade
    BY <1>6, <2>3 DEF AuthInv, SignedAsIssued
  <2>5. \A t \in minted : t.challenge # request.signature.challenge
    BY <2>3 DEF AuthInv, MintedSpent
  <2>6. \A q \in Requesters : Verifying(q, "recovering") =>
            requests[q].signature.challenge # request.signature.challenge
    BY <2>3 DEF AuthInv, RecoveringAlone
  <2>7. RecoveringAlone'
    BY <1>1, <1>7, <2>1, <2>4, <2>5, <2>6 DEF AuthInv, RecoveringAlone, Verifying
  <2>8. RowsRead'
    BY <1>1, <1>7, <1>11, <2>1, RowsStay
  <2> QED
    BY <1>1, <1>4, <1>5, <1>10, <2>2, <2>7, <2>8 DEF AuthInv, MintedSpent, OneTokenPerChallenge
<1> QED  BY <1>1, <1>8, <1>9

\* A token is minted after the await, for a challenge that is gone.
LEMMA MintInv ==
    ASSUME AuthInv, NEW r \in Requesters, Mint(r)
    PROVE  AuthInv' /\ UNCHANGED <<challenges, issued>> /\ minted \subseteq minted'
<1> DEFINE request == requests[r]
           token == [serial |-> Cardinality(minted) + 1, trade |-> request.trade,
                     address |-> request.signature.signer, since |-> request.since,
                     expiresAt |-> request.at + TokenTtl,
                     challenge |-> request.signature.challenge]
           ok == [pc |-> "answered", answer |-> "ok", token |-> token]
           denied == [pc |-> "answered", answer |-> "denied", token |-> NoToken]
<1>1. /\ request.pc = "recovering"
      /\ \/ /\ request.signature.signer \in request.parties
            /\ tokens' = tokens \cup {token} /\ minted' = minted \cup {token}
            /\ requests' = [requests EXCEPT ![r] = ok]
         \/ /\ requests' = [requests EXCEPT ![r] = denied]
            /\ UNCHANGED <<tokens, minted>>
      /\ UNCHANGED <<challenges, parties, now, issued, signatures, left>>
  BY DEF Mint, Verifying, Answer
<1>2. request \in [pc : {"recovering"}, signature : Signature, trade : Trades,
                   parties : SUBSET Wallets, since : Nat, at : Nat]
  BY <1>1 DEF AuthInv, AuthTypeOK, Verification, NoVerification
<1>3. token \in Token
  <2>1. Cardinality(minted) + 1 \in Nat
    BY FS_CardinalityType DEF AuthInv, MintedSpent
  <2>2. request.at + TokenTtl \in Nat
    BY <1>2, WalletAuthAssumption
  <2> QED  BY <1>2, <2>1, <2>2 DEF Token, Signature
<1>4. \A q \in Requesters \ {r} : requests'[q] = requests[q]
  BY <1>1 DEF AuthInv, AuthTypeOK
<1>5. /\ request.signature \in signatures
      /\ request.signature.trade = request.trade
      /\ \A c \in challenges : c.id # request.signature.challenge
      /\ \A t \in minted : t.challenge # request.signature.challenge
      /\ \A q \in Requesters \ {r} : Verifying(q, "recovering") =>
            requests[q].signature.challenge # request.signature.challenge
  BY <1>1 DEF AuthInv, PresentedSigned, RecoveringAlone, Verifying
<1>8. /\ now \in Nat /\ request.since <= now
      /\ \A w \in request.parties : PartySince(w, request.trade, request.since)
  BY <1>1, WalletAuthAssumption DEF AuthInv, AuthTypeOK, RowsRead
<1>6. CASE requests' = [requests EXCEPT ![r] = denied] /\ UNCHANGED <<tokens, minted>>
  <2>1. requests'[r] = denied
    BY <1>6 DEF AuthInv, AuthTypeOK
  <2>2. AuthTypeOK'
    BY <1>1, <1>6 DEF AuthInv, AuthTypeOK, Verification
  <2>3. PresentedSigned' /\ AnswersMinted'
    BY <1>1, <1>4, <1>6, <2>1 DEF AuthInv, PresentedSigned, AnswersMinted, Verifying
  <2>4. RecoveringAlone'
    BY <1>1, <1>4, <1>6, <2>1 DEF AuthInv, RecoveringAlone, Verifying
  <2>5. RowsRead' /\ TokensEarned'
    BY <1>1, <1>4, <1>6, <1>8, <2>1, RowsStay, EarnedStays
  <2> QED
    BY <1>1, <1>6, <2>2, <2>3, <2>4, <2>5 DEF AuthInv, SignedAsIssued, MintedSpent,
       OneTokenPerChallenge
<1>7. CASE /\ request.signature.signer \in request.parties
           /\ tokens' = tokens \cup {token} /\ minted' = minted \cup {token}
           /\ requests' = [requests EXCEPT ![r] = ok]
  <2>1. requests'[r] = ok
    BY <1>7 DEF AuthInv, AuthTypeOK
  <2>2. ok \in Verification
    BY <1>3 DEF Verification
  <2>3. AuthTypeOK'
    BY <1>1, <1>3, <1>7, <2>2 DEF AuthInv, AuthTypeOK
  <2>4. SignedAsIssued'
    BY <1>1 DEF AuthInv, SignedAsIssued
  <2>5. PresentedSigned' /\ AnswersMinted'
    BY <1>1, <1>4, <1>7, <2>1 DEF AuthInv, PresentedSigned, AnswersMinted, Verifying
  <2>6. RecoveringAlone'
    BY <1>1, <1>4, <1>5, <1>7, <2>1 DEF AuthInv, RecoveringAlone, Verifying
  <2>7. IsFiniteSet(minted')
    BY <1>7, FS_AddElement DEF AuthInv, MintedSpent
  <2>8. MintedSpent'
    BY <1>1, <1>5, <1>7, <2>7 DEF AuthInv, MintedSpent, SignedAsIssued
  <2>9. OneTokenPerChallenge'
    BY <1>5, <1>7 DEF AuthInv, OneTokenPerChallenge
  <2>10. TokensEarned'
    <3>1. /\ PartySince(token.address, token.trade, token.since)
          /\ token.challenge = request.signature.challenge
          /\ token.trade = request.signature.trade
          /\ token.address = request.signature.signer
      BY <1>5, <1>7, <1>8
    <3>2. [challenge |-> token.challenge, trade |-> token.trade, signer |-> token.address]
            \in signatures
      <4>1. request.signature = [challenge |-> request.signature.challenge,
                                 trade |-> request.signature.trade,
                                 signer |-> request.signature.signer]
        BY <1>2 DEF Signature
      <4> QED  BY <1>5, <3>1, <4>1
    <3>3. \A t \in minted : PartySince(t.address, t.trade, t.since) /\
              [challenge |-> t.challenge, trade |-> t.trade, signer |-> t.address]
                \in signatures
      BY DEF AuthInv, TokensEarned
    <3>4. \A w, t, s : PartySince(w, t, s)' <=> PartySince(w, t, s)
      BY <1>1 DEF PartySince, PartiesOf
    <3> HIDE DEF token
    <3> QED  BY <1>1, <1>7, <3>1, <3>2, <3>3, <3>4 DEF TokensEarned
  <2>11. RowsRead'
    <3>1. token.since = request.since /\ token.since \in Nat
      BY <1>2
    <3> QED  BY <1>1, <1>4, <1>7, <1>8, <2>1, <3>1, RowsStay
  <2> QED  BY <1>1, <1>7, <2>3, <2>4, <2>5, <2>6, <2>8, <2>9, <2>10, <2>11 DEF AuthInv
<1> QED  BY <1>1, <1>6, <1>7

\* An answer is read and forgotten.
LEMMA ConcludeInv ==
    ASSUME AuthInv, NEW r \in Requesters, Conclude(r),
           UNCHANGED <<challenges, tokens, parties, now, issued, signatures, minted, left>>
    PROVE  AuthInv'
<1>1. \A q \in Requesters : requests'[q] = IF q = r THEN NoVerification ELSE requests[q]
  BY DEF Conclude, AuthInv, AuthTypeOK
<1>2. AuthTypeOK'
  BY DEF Conclude, AuthInv, AuthTypeOK
<1>3. PresentedSigned' /\ AnswersMinted' /\ RecoveringAlone'
  BY <1>1 DEF AuthInv, PresentedSigned, AnswersMinted, RecoveringAlone, Verifying, NoVerification
<1>4. RowsRead' /\ TokensEarned'
  <2>1. now \in Nat
    BY WalletAuthAssumption DEF AuthInv, AuthTypeOK
  <2> QED  BY <1>1, <2>1, RowsStay, EarnedStays DEF NoVerification
<1> QED
  BY <1>2, <1>3, <1>4 DEF AuthInv, SignedAsIssued, MintedSpent, OneTokenPerChallenge

\* Tokens may be forgotten and time may pass.
LEMMA ForgetInv ==
    ASSUME AuthInv, tokens' \subseteq tokens, now' \in 0 .. MaxTime, now <= now',
           UNCHANGED <<challenges, requests, parties, issued, signatures, minted, left>>
    PROVE  AuthInv'
<1>1. RowsRead' /\ TokensEarned'
  BY RowsStay, EarnedStays, WalletAuthAssumption
<1> QED
  BY <1>1 DEF AuthInv, AuthTypeOK, SignedAsIssued, PresentedSigned, RecoveringAlone,
     MintedSpent, AnswersMinted, OneTokenPerChallenge, Verifying

\* An expired token is dropped.
LEMMA ForgetExpiredInv ==
    ASSUME AuthInv, NEW token, NEW trade, ForgetExpired(token, trade),
           UNCHANGED <<challenges, requests, parties, now, issued, signatures, minted, left>>
    PROVE  AuthInv'
<1>1. tokens' \subseteq tokens
  BY DEF ForgetExpired
<1>2. now' \in 0 .. MaxTime /\ now <= now'
  BY WalletAuthAssumption DEF AuthInv, AuthTypeOK
<1> QED  BY <1>1, <1>2, ForgetInv

\* The clock moves.
LEMMA TickInv ==
    ASSUME AuthInv, ServerTick
    PROVE  AuthInv'
<1>1. now' \in 0 .. MaxTime /\ now <= now'
  BY WalletAuthAssumption DEF ServerTick, AuthInv, AuthTypeOK
<1> QED  BY <1>1, ForgetInv DEF ServerTick, ghostAuthVars

\* The maps are empty after a restart; nothing in flight survives it.
LEMMA RestartInv ==
    ASSUME AuthInv, RestartServer
    PROVE  AuthInv' /\ challenges' = {} /\ issued' = issued
<1> DEFINE failed == [pc |-> "answered", answer |-> "failed", token |-> NoToken]
<1>1. /\ challenges' = {} /\ tokens' = {}
      /\ \A r \in Requesters :
            requests'[r] = IF requests[r].pc \in {"presented", "recovering"} THEN failed
                           ELSE requests[r]
      /\ UNCHANGED <<parties, now, issued, signatures, minted, left>>
  BY DEF RestartServer, ghostAuthVars
<1>2. failed \in Verification
  BY DEF Verification
<1>3. AuthTypeOK'
  BY <1>1, <1>2 DEF RestartServer, AuthInv, AuthTypeOK
<1>4. PresentedSigned' /\ RecoveringAlone' /\ AnswersMinted'
  BY <1>1 DEF AuthInv, PresentedSigned, RecoveringAlone, AnswersMinted, Verifying
<1>5. RowsRead' /\ TokensEarned'
  <2>1. now \in Nat
    BY WalletAuthAssumption DEF AuthInv, AuthTypeOK
  <2> QED  BY <1>1, <2>1, RowsStay, EarnedStays
<1> QED
  BY <1>1, <1>3, <1>4, <1>5 DEF AuthInv, SignedAsIssued, MintedSpent, OneTokenPerChallenge

\* Whoever ceases to be a party by a trade created again does so after every row
\* that was read.
LEMMA RecreateInv ==
    ASSUME AuthInv, NEW trade \in Trades, NEW pair \in PartyPairs, Recreate(trade, pair)
    PROVE  AuthInv' /\ UNCHANGED <<challenges, tokens, requests, now, issued, minted>>
<1>1. UNCHANGED <<challenges, tokens, requests, now, issued, signatures, minted>>
  BY DEF Recreate
<1>2. /\ now \in 0 .. MaxTime /\ now \in Nat /\ now # Never
      /\ pair \in [importer : Wallets, exporter : Wallets]
      /\ parties \in [Trades -> [importer : Wallets, exporter : Wallets]]
      /\ left \in [Trades -> [Wallets -> 0 .. MaxTime \cup {Never}]]
  BY WalletAuthAssumption DEF AuthInv, AuthTypeOK, Never
<1>3. /\ \A t \in Trades : /\ t # trade => parties'[t] = parties[t] /\ left'[t] = left[t]
                           /\ t = trade => parties'[t] = pair
      /\ \A w \in Wallets : left'[trade][w] =
            IF w \in PartiesOf(trade) \ {pair.importer, pair.exporter} THEN now
            ELSE left[trade][w]
  BY <1>2 DEF Recreate
<1>4. AuthTypeOK'
  <2>1. left' \in [Trades -> [Wallets -> 0 .. MaxTime \cup {Never}]]
    BY <1>2 DEF Recreate
  <2>2. parties' \in [Trades -> [importer : Wallets, exporter : Wallets]]
    BY <1>2 DEF Recreate
  <2> QED  BY <1>1, <2>1, <2>2 DEF AuthInv, AuthTypeOK
<1>5. ASSUME NEW w \in Wallets, NEW t \in Trades, NEW s \in Nat, s <= now, PartySince(w, t, s)
      PROVE  PartySince(w, t, s)'
  <2>1. CASE t # trade
    BY <1>3, <1>5, <2>1 DEF PartySince, PartiesOf
  <2>2. CASE t = trade /\ w \in PartiesOf(trade) \ {pair.importer, pair.exporter}
    BY <1>2, <1>3, <1>5, <2>2 DEF PartySince
  <2>3. CASE t = trade /\ w \in {pair.importer, pair.exporter}
    BY <1>3, <2>3 DEF PartySince, PartiesOf
  <2>4. CASE t = trade /\ w \notin PartiesOf(trade)
    BY <1>3, <1>5, <2>4 DEF PartySince
  <2> QED  BY <2>1, <2>2, <2>3, <2>4
<1>6. TokensEarned'
  <2>1. \A t \in minted :
           t.address \in Wallets /\ t.trade \in Trades /\ t.since \in Nat /\ t.since <= now
    BY DEF AuthInv, AuthTypeOK, Token, RowsRead
  <2> QED  BY <1>1, <1>5, <2>1 DEF AuthInv, TokensEarned
<1>7. RowsRead'
  <2>1. \A r \in Requesters : requests[r].pc \in {"presented", "recovering"} =>
           /\ requests[r].parties \subseteq Wallets
           /\ requests[r].trade \in Trades /\ requests[r].since \in Nat
    BY DEF AuthInv, AuthTypeOK, Verification, NoVerification
  <2> QED  BY <1>1, <1>5, <2>1 DEF AuthInv, RowsRead
<1> QED
  BY <1>1, <1>4, <1>6, <1>7 DEF AuthInv, SignedAsIssued, PresentedSigned, RecoveringAlone,
     MintedSpent, AnswersMinted, OneTokenPerChallenge, Verifying

\* A token comes with a fresh challenge, so it is none of the tokens minted so
\* far, and no other answer changes.
LEMMA MintFresh ==
    ASSUME AuthInv, NEW r \in Requesters, Mint(r)
    PROVE  /\ \A q \in Requesters \ {r} : requests'[q] = requests[q]
           /\ requests'[r].pc = "answered"
           /\ requests'[r].answer = "ok" => requests'[r].token \notin minted
<1>1. \A q \in Requesters \ {r} : requests'[q] = requests[q]
  BY DEF Mint, Answer, AuthInv, AuthTypeOK
<1>2. \A t \in minted : t.challenge # requests[r].signature.challenge
  BY DEF Mint, AuthInv, RecoveringAlone
<1>3. CASE requests[r].signature.signer \in requests[r].parties
  <2>1. /\ requests'[r].pc = "answered"
        /\ requests'[r].token.challenge = requests[r].signature.challenge
    BY <1>3 DEF Mint, Answer, AuthInv, AuthTypeOK
  <2> QED  BY <1>1, <1>2, <2>1
<1>4. CASE requests[r].signature.signer \notin requests[r].parties
  <2>1. requests'[r].pc = "answered" /\ requests'[r].answer = "denied"
    BY <1>4 DEF Mint, Answer, AuthInv, AuthTypeOK
  <2> QED  BY <1>1, <2>1
<1> QED  BY <1>3, <1>4

=============================================================================
