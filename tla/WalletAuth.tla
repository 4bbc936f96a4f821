----------------------------- MODULE WalletAuth -----------------------------
(***************************************************************************)
(* Wallet-proof authentication (apps/api/src/wallet-auth.ts and the        *)
(* /trades/:id/auth handlers of apps/api/src/server.ts): one-time          *)
(* challenges, bought back with a signature for a bearer token of one      *)
(* trade.  Both maps live in memory and die with the process.              *)
(*                                                                         *)
(* A verification reads the row of its trade, consumes its challenge,      *)
(* awaits the recovery of the signer, and only then mints the token, so    *)
(* verifications interleave.  Creating a trade again writes its parties    *)
(* over, and asks after none of the tokens that are about.                 *)
(***************************************************************************)
EXTENDS Integers, FiniteSets

CONSTANTS
    Trades,
    Wallets,
    FirstParties,       \* the importer and the exporter each trade begins with
    PartyPairs,         \* those a trade may be created again with
    Requesters,         \* who can have a verification in flight
    ChallengeTtl,
    TokenTtl,
    MaxChallenges,      \* bound on the challenges ever issued
    MaxTime             \* bound on the clock

ASSUME WalletAuthAssumption ==
    /\ FirstParties \in [Trades -> [importer : Wallets, exporter : Wallets]]
    /\ PartyPairs \subseteq [importer : Wallets, exporter : Wallets]
    /\ ChallengeTtl \in Nat /\ TokenTtl \in Nat
    /\ MaxChallenges \in Nat /\ MaxTime \in Nat

VARIABLES
    challenges,         \* those that can still be presented
    tokens,             \* those the server knows
    requests,           \* the verification of each requester
    parties,            \* importer and exporter in the row of each trade
    now,                \* seconds of the server's clock
    issued,             \* not in the code: number of challenges issued
    signatures,         \* not in the code: what wallets have signed
    minted,             \* not in the code: every token ever minted
    left                \* not in the code: when a wallet last ceased to be a party

ghostAuthVars == <<issued, signatures, minted, left>>

authVars == <<challenges, tokens, requests, parties, now, ghostAuthVars>>

Challenge == [id : 1 .. MaxChallenges, trade : Trades, expiresAt : Nat]

Signature == [challenge : 1 .. MaxChallenges, trade : Trades, signer : Wallets]

\* `challenge`, `since` and `serial` are not in the code: what the token was bought
\* with, when the row of its trade was read for it, and what tells it from every
\* other token (32 random bytes).
Token == [serial : Nat, trade : Trades, address : Wallets, since : Nat,
          expiresAt : Nat, challenge : 1 .. MaxChallenges]

NoToken == [serial |-> 0]
NoVerification == [pc |-> "idle"]
Never == -1

\* createTrade lets a trade have one wallet for both.
PartiesOf(trade) == {parties[trade].importer, parties[trade].exporter}

\* Is or was the wallet a party of the trade at some time since `time`?
PartySince(wallet, trade, time) ==
    \/ wallet \in PartiesOf(trade)
    \/ left[trade][wallet] # Never /\ left[trade][wallet] >= time

Verification ==
    [pc : {"presented"}, signature : Signature, trade : Trades,
     parties : SUBSET Wallets, since : Nat]
    \cup [pc : {"recovering"}, signature : Signature, trade : Trades,
          parties : SUBSET Wallets, since : Nat, at : Nat]
    \cup [pc : {"answered"}, answer : {"ok", "denied", "failed"},
          token : Token \cup {NoToken}]

AuthTypeOK ==
    /\ challenges \subseteq Challenge
    /\ tokens \subseteq minted
    /\ requests \in [Requesters -> Verification \cup {NoVerification}]
    /\ parties \in [Trades -> [importer : Wallets, exporter : Wallets]]
    /\ now \in 0 .. MaxTime
    /\ issued \in 0 .. MaxChallenges
    /\ signatures \subseteq Signature
    /\ minted \subseteq Token
    /\ left \in [Trades -> [Wallets -> 0 .. MaxTime \cup {Never}]]

AuthInit ==
    /\ challenges = {} /\ tokens = {} /\ minted = {} /\ signatures = {}
    /\ requests = [r \in Requesters |-> NoVerification]
    /\ parties = FirstParties
    /\ left = [trade \in Trades |-> [wallet \in Wallets |-> Never]]
    /\ now = 0 /\ issued = 0

-----------------------------------------------------------------------------
(* The handlers.                                                           *)

\* POST auth/challenge: anyone may have one.
NewChallenge(trade) ==
    [id |-> issued + 1, trade |-> trade, expiresAt |-> now + ChallengeTtl]

CreateChallenge(trade) ==
    /\ issued < MaxChallenges
    /\ issued' = issued + 1
    /\ challenges' = challenges \cup {NewChallenge(trade)}

\* A wallet signs the message of a challenge, which names its trade.
Signed(challenge, wallet) ==
    [challenge |-> challenge.id, trade |-> challenge.trade, signer |-> wallet]

\* POST auth/verify, on the route of `trade`, whose row is read first.
Present(r, signature, trade) ==
    /\ requests[r] = NoVerification
    /\ requests' = [requests EXCEPT ![r] =
           [pc |-> "presented", signature |-> signature, trade |-> trade,
            parties |-> PartiesOf(trade), since |-> now]]

Verifying(r, pc)  == requests[r].pc = pc
Answer(r, answer, token) ==
    requests' = [requests EXCEPT ![r] =
        [pc |-> "answered", answer |-> answer, token |-> token]]

Recover(r, request) ==
    requests' = [requests EXCEPT ![r] =
        [pc |-> "recovering", signature |-> request.signature, trade |-> request.trade,
         parties |-> request.parties, since |-> request.since, at |-> now]]

\* Mutant: the challenge stays until the token is minted.
ConsumeLate(r) ==
    /\ Verifying(r, "presented")
    /\ LET request == requests[r]
           known   == {c \in challenges : c.id = request.signature.challenge}
       IN  /\ IF \E c \in known : c.trade = request.trade /\ now <= c.expiresAt
              THEN Recover(r, request)
              ELSE Answer(r, "failed", NoToken)
           /\ UNCHANGED challenges
    /\ UNCHANGED <<tokens, parties, now, ghostAuthVars>>

\* Mutant: the trade of the challenge is not compared with the route's.
ConsumeForAnyTrade(r) ==
    /\ Verifying(r, "presented")
    /\ LET request == requests[r]
           known   == {c \in challenges : c.id = request.signature.challenge}
       IN  /\ challenges' = challenges \ known
           /\ IF \E c \in known : now <= c.expiresAt
              THEN Recover(r, request)
              ELSE Answer(r, "failed", NoToken)
    /\ UNCHANGED <<tokens, parties, now, ghostAuthVars>>

\* verify, up to its await: the challenge is gone whatever becomes of it.
Consume(r) ==
    /\ Verifying(r, "presented")
    /\ LET request == requests[r]
           known   == {c \in challenges : c.id = request.signature.challenge}
       IN  /\ challenges' = challenges \ known
           /\ IF \E c \in known : c.trade = request.trade /\ now <= c.expiresAt
              THEN Recover(r, request)
              ELSE Answer(r, "failed", NoToken)
    /\ UNCHANGED <<tokens, parties, now, ghostAuthVars>>

\* verify, after it: a token for a party of the row as it was read, 403 for anyone
\* else.
Mint(r) ==
    /\ Verifying(r, "recovering")
    /\ LET request == requests[r]
           token   == [serial |-> Cardinality(minted) + 1, trade |-> request.trade,
                       address |-> request.signature.signer, since |-> request.since,
                       expiresAt |-> request.at + TokenTtl,
                       challenge |-> request.signature.challenge]
       IN  IF request.signature.signer \in request.parties
           THEN /\ tokens' = tokens \cup {token}
                /\ minted' = minted \cup {token}
                /\ Answer(r, "ok", token)
           ELSE Answer(r, "denied", NoToken) /\ UNCHANGED <<tokens, minted>>
    /\ UNCHANGED <<challenges, parties, now, issued, signatures, left>>

\* The caller has read the answer.
Conclude(r) == requests' = [requests EXCEPT ![r] = NoVerification]

\* partyFor: known, of this trade and not expired; the row is not asked again.
Accepted(token, trade) ==
    token \in tokens /\ token.trade = trade /\ now <= token.expiresAt

\* partyFor drops the expired token of this trade it is shown.
ForgetExpired(token, trade) ==
    tokens' = IF token \in tokens /\ token.trade = trade /\ now > token.expiresAt
              THEN tokens \ {token} ELSE tokens

-----------------------------------------------------------------------------
(* Around the server.                                                      *)

\* Both maps are empty after a restart; what was in flight fails.
RestartServer ==
    /\ challenges' = {} /\ tokens' = {}
    /\ requests' = [r \in Requesters |->
           IF requests[r].pc \in {"presented", "recovering"}
           THEN [pc |-> "answered", answer |-> "failed", token |-> NoToken]
           ELSE requests[r]]
    /\ UNCHANGED <<parties, now, ghostAuthVars>>

\* POST trades with the label of a trade there is: its row gets other parties.
Recreate(trade, pair) ==
    /\ parties' = [parties EXCEPT ![trade] = pair]
    /\ left' = [left EXCEPT ![trade] = [wallet \in Wallets |->
           IF wallet \in PartiesOf(trade) \ {pair.importer, pair.exporter}
           THEN now ELSE @[wallet]]]
    /\ UNCHANGED <<challenges, tokens, requests, now, issued, signatures, minted>>

ServerTick ==
    /\ now < MaxTime
    /\ now' = now + 1
    /\ UNCHANGED <<challenges, tokens, requests, parties, ghostAuthVars>>

-----------------------------------------------------------------------------
\* A challenge buys at most one token, however many verifications present it at
\* the same time ('the challenge is consumed on every verify attempt').
OneTokenPerChallenge ==
    \A t1, t2 \in minted : t1.challenge = t2.challenge => t1 = t2

\* Whoever holds a token has signed a challenge issued for the very trade it opens,
\* and is a party of it or ceased to be one after its row was read (verify): what a
\* trade created again does to the parties is missed by the tokens and the
\* verifications of the moment, and by no later one.
TokensEarned ==
    \A t \in minted :
        /\ PartySince(t.address, t.trade, t.since)
        /\ [challenge |-> t.challenge, trade |-> t.trade, signer |-> t.address]
              \in signatures

=============================================================================
