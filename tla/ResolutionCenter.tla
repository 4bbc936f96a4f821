-------------------------- MODULE ResolutionCenter --------------------------
(***************************************************************************)
(* One browser on the resolution center (apps/web/components/disputes/     *)
(* resolution-center.tsx), and the party-gated dispute handlers of         *)
(* apps/api/src/server.ts behind it, over the wallet proofs of WalletAuth. *)
(*                                                                         *)
(* Flagging and anchoring evidence are two jobs that may run at the same   *)
(* time.  Each is a closure over the render it was clicked in, and takes   *)
(* the token of that render's wallet from a cache or has the wallet that   *)
(* is connected by then prove itself.  Other clients hold tokens, too.     *)
(***************************************************************************)
EXTENDS WalletAuth

CONSTANTS
    NoWallet,
    MaxSwitches,        \* bound on changes of the connected wallet
    MaxFaults,          \* bound on lost answers, restarts and re-creations
    MaxDisputes         \* bound on the disputes filed, and on the evidence

ASSUME ResolutionCenterAssumption ==
    /\ NoWallet \notin Wallets
    /\ Requesters = {"flag", "evidence"}
    /\ MaxSwitches \in Nat /\ MaxFaults \in Nat /\ MaxDisputes \in Nat

VARIABLES
    wallet,             \* the connected wallet
    cache,              \* partyTokens
    flagTrade,          \* flagTradeId
    digest,             \* has the evidence form a digest?
    active,             \* the dispute the address bar names
    listed,             \* the disputes the page has loaded
    known,              \* the parties of the trades it has loaded
    jobs,               \* flag and submitEvidence
    filed,              \* the disputes table
    anchored,           \* the evidence table
    refused,            \* not in the code: tokens a job was told are refused
    crossed,            \* not in the code: cache keys another wallet signed for
    switches, faults

pageVars  == <<wallet, cache, flagTrade, digest, active, listed, known, jobs>>
tableVars == <<filed, anchored>>
ghosts    == <<refused, crossed, switches, faults>>
vars      == <<authVars, pageVars, tableVars, ghosts>>

Jobs == Requesters
Seats == Wallets \cup {NoWallet}
NoTrade == "none"
NoJob == [phase |-> "none"]
NoDispute == 0
DisputeIds == 1 .. MaxDisputes

\* `seat` is the wallet of the render that was clicked, `dispute` what the
\* evidence is for.
Click == [seat : Wallets, trade : Trades, dispute : DisputeIds \cup {NoDispute}]

Job ==
    [phase : {"challenge", "loading"}, click : Click]
    \cup [phase : {"prompt"}, click : Click, challenge : Challenge, account : Wallets]
    \cup [phase : {"verify"}, click : Click, account : Wallets]
    \cup [phase : {"write", "written", "refused"}, click : Click, token : Token]

\* `seat` and `at` are not in the code: the wallet connected at the click, if it was
\* here, and when the record was made.
Filed    == [id : DisputeIds, trade : Trades, flaggedBy : Wallets, seat : Seats, at : Nat]
Anchored == [id : DisputeIds, dispute : DisputeIds, submittedBy : Wallets, seat : Seats,
             at : Nat]

TypeOK ==
    /\ AuthTypeOK
    /\ wallet \in Seats
    /\ cache \in [Seats \X Trades -> Token \cup {NoToken}]
    /\ flagTrade \in Trades \cup {NoTrade}
    /\ digest \in BOOLEAN
    /\ active \in DisputeIds \cup {NoDispute}
    /\ listed \subseteq filed
    /\ known \in [Trades -> [importer : Wallets, exporter : Wallets]]
    /\ jobs \in [Jobs -> Job \cup {NoJob}]
    /\ filed \subseteq Filed /\ anchored \subseteq Anchored
    /\ refused \subseteq minted
    /\ crossed \subseteq Seats \X Trades
    /\ switches \in 0 .. MaxSwitches /\ faults \in 0 .. MaxFaults

Init ==
    /\ AuthInit
    /\ wallet = NoWallet /\ cache = [key \in Seats \X Trades |-> NoToken]
    /\ flagTrade = NoTrade /\ digest = FALSE
    /\ active = NoDispute /\ listed = {} /\ known = parties
    /\ jobs = [j \in Jobs |-> NoJob]
    /\ filed = {} /\ anchored = {}
    /\ refused = {} /\ crossed = {}
    /\ switches = 0 /\ faults = 0

-----------------------------------------------------------------------------
(* The page between two jobs.                                              *)

TradesOf(w, pairs) == {t \in Trades : w \in {pairs[t].importer, pairs[t].exporter}}
PartyTrades(w) == TradesOf(w, known)

\* The effect that keeps the flag form on a trade of the connected wallet, or
\* on the old one if it has none.
FlagTarget(w, pairs) ==
    CASE w = NoWallet -> {NoTrade}
      [] w # NoWallet /\ (flagTrade \in TradesOf(w, pairs) \/ TradesOf(w, pairs) = {}) ->
            {flagTrade}
      [] OTHER -> TradesOf(w, pairs)

WalletBecomes(w) ==
    /\ w # wallet /\ switches < MaxSwitches
    /\ switches' = switches + 1
    /\ wallet' = w
    /\ flagTrade' \in FlagTarget(w, known)
    /\ UNCHANGED <<authVars, cache, digest, active, listed, known, jobs, tableVars, refused,
                   crossed, faults>>

ChooseTrade(t) ==
    /\ t \in PartyTrades(wallet) /\ t # flagTrade
    /\ flagTrade' = t
    /\ UNCHANGED <<authVars, wallet, cache, digest, active, listed, known, jobs, tableVars, ghosts>>

Select(d) ==
    /\ d \in listed /\ d.id # active
    /\ active' = d.id
    /\ UNCHANGED <<authVars, wallet, cache, flagTrade, digest, listed, known, jobs, tableVars,
                   ghosts>>

\* Evidence is for a listed dispute of a trade the wallet is a party of.
Selected == {d \in listed : d.id = active /\ d.trade \in PartyTrades(wallet)}

HashDocument ==
    /\ Selected # {} /\ ~digest
    /\ digest' = TRUE
    /\ UNCHANGED <<authVars, wallet, cache, flagTrade, active, listed, known, jobs, tableVars,
                   ghosts>>

-----------------------------------------------------------------------------
(* A job, from its click to the end of its busy flag.                      *)

In(j, phase)  == jobs[j].phase = phase
Goes(j, next) == jobs' = [jobs EXCEPT ![j] = next]
Ends(j)       == Goes(j, NoJob)
Of(j)         == jobs[j].click

Fault == faults < MaxFaults /\ faults' = faults + 1

\* Mutant: the cache is keyed by the trade alone.
KeyOfTrade(w, t) == <<NoWallet, t>>

\* partyCacheKey.
CacheKey(w, t) == <<w, t>>

\* proveFor: a cached token is used as it is.
Begins(j, click) ==
    /\ In(j, "none")
    /\ LET cached == cache[CacheKey(click.seat, click.trade)]
       IN  Goes(j, IF cached # NoToken
                   THEN [phase |-> "write", click |-> click, token |-> cached]
                   ELSE [phase |-> "challenge", click |-> click])
    /\ UNCHANGED <<authVars, wallet, cache, flagTrade, digest, active, listed, known, tableVars,
                   ghosts>>

ClickFlag ==
    /\ wallet # NoWallet /\ flagTrade # NoTrade
    /\ Begins("flag", [seat |-> wallet, trade |-> flagTrade, dispute |-> NoDispute])

ClickAnchor ==
    /\ digest
    /\ \E d \in Selected :
          Begins("evidence", [seat |-> wallet, trade |-> d.trade, dispute |-> d.id])

\* The wallet connected by now is prompted; without one the job fails.
ReceiveChallenge(j) ==
    /\ In(j, "challenge")
    /\ CreateChallenge(Of(j).trade)
    /\ IF wallet = NoWallet
       THEN Ends(j)
       ELSE Goes(j, [phase |-> "prompt", click |-> Of(j), account |-> wallet,
                     challenge |-> NewChallenge(Of(j).trade)])
    /\ UNCHANGED <<tokens, requests, parties, now, signatures, minted, left, wallet, cache, flagTrade,
                   digest, active, listed, known, tableVars, ghosts>>

SignChallenge(j) ==
    /\ In(j, "prompt")
    /\ LET signature == Signed(jobs[j].challenge, jobs[j].account)
       IN  /\ signatures' = signatures \cup {signature}
           /\ Present(j, signature, Of(j).trade)
    /\ Goes(j, [phase |-> "verify", click |-> Of(j), account |-> jobs[j].account])
    /\ UNCHANGED <<challenges, tokens, parties, now, issued, minted, left, wallet, cache, flagTrade,
                   digest, active, listed, known, tableVars, ghosts>>

RefuseToSign(j) ==
    /\ In(j, "prompt")
    /\ Ends(j)
    /\ UNCHANGED <<authVars, wallet, cache, flagTrade, digest, active, listed, known, tableVars,
                   ghosts>>

\* The token is cached under the wallet that was clicked with.
Proved(j) ==
    /\ In(j, "verify") /\ Verifying(j, "answered")
    /\ Conclude(j)
    /\ LET token == requests[j].token
           key   == CacheKey(Of(j).seat, Of(j).trade)
       IN  IF requests[j].answer = "ok"
           THEN /\ cache' = [cache EXCEPT ![key] = token]
                /\ crossed' = IF token.address = Of(j).seat THEN crossed
                              ELSE crossed \cup {key}
                /\ Goes(j, [phase |-> "write", click |-> Of(j), token |-> token])
           ELSE Ends(j) /\ UNCHANGED <<cache, crossed>>
    /\ UNCHANGED <<challenges, tokens, parties, now, ghostAuthVars, wallet, flagTrade,
                   digest, active, listed, known, tableVars, refused, switches, faults>>

-----------------------------------------------------------------------------
(* The handlers.                                                           *)

\* POST trades/:id/disputes, attributed to the token's address.
FileDispute(token, t, seat) ==
    /\ Cardinality(filed) < MaxDisputes
    /\ filed' = filed \cup {[id |-> Cardinality(filed) + 1, trade |-> t,
                             flaggedBy |-> token.address, seat |-> seat, at |-> now]}
    /\ UNCHANGED anchored

AnchorOn(token, d, seat) ==
    /\ Cardinality(anchored) < MaxDisputes
    /\ anchored' = anchored \cup {[id |-> Cardinality(anchored) + 1, dispute |-> d.id,
                                   submittedBy |-> token.address, seat |-> seat, at |-> now]}
    /\ UNCHANGED filed

\* Mutant: a token of any trade will do.
PartyOfAnyTrade(token, t) == token \in tokens /\ now <= token.expiresAt

\* partyFor, for the trade of the dispute.
PartyFor(token, t) == Accepted(token, t)

\* POST disputes/:id/evidence or trades/:id/disputes of a job: 201 or 401.  What is
\* inserted is settled with the check of the token, so the two are one step.
Write(j) ==
    /\ In(j, "write")
    /\ LET token == jobs[j].token
           click == Of(j)
       IN  IF PartyFor(token, click.trade)
           THEN /\ IF click.dispute = NoDispute
                   THEN FileDispute(token, click.trade, click.seat)
                   ELSE \E d \in filed : d.id = click.dispute /\ AnchorOn(token, d, click.seat)
                /\ Goes(j, [jobs[j] EXCEPT !.phase = "written"])
                /\ UNCHANGED tokens
           ELSE /\ Goes(j, [jobs[j] EXCEPT !.phase = "refused"])
                /\ ForgetExpired(token, click.trade)
                /\ UNCHANGED tableVars
    /\ UNCHANGED <<challenges, requests, parties, now, ghostAuthVars, wallet, cache,
                   flagTrade, digest, active, listed, known, ghosts>>

\* Another client anchors evidence with whatever token its wallet was given.
WriteElsewhere ==
    /\ \E token \in minted, d \in filed :
          PartyFor(token, d.trade) /\ AnchorOn(token, d, NoWallet)
    /\ UNCHANGED <<authVars, pageVars, ghosts>>

-----------------------------------------------------------------------------
(* The answer.                                                             *)

Written(j) ==
    /\ In(j, "written")
    /\ Goes(j, [phase |-> "loading", click |-> Of(j)])
    /\ IF j = "flag"
       THEN /\ active' \in {d.id : d \in {e \in filed : e.trade = Of(j).trade}}
            /\ UNCHANGED digest
       ELSE digest' = FALSE /\ UNCHANGED active
    /\ UNCHANGED <<authVars, wallet, cache, flagTrade, listed, known, tableVars, ghosts>>

\* Mutant: the token of the wallet connected by now is dropped.
RefusedNow(j) ==
    /\ In(j, "refused")
    /\ cache' = [cache EXCEPT ![CacheKey(wallet, Of(j).trade)] = NoToken]
    /\ refused' = refused \cup {jobs[j].token}
    /\ Ends(j)
    /\ UNCHANGED <<authVars, wallet, flagTrade, digest, active, listed, known, tableVars, crossed,
                   switches, faults>>

\* 401: dropPartyToken, of the wallet that was clicked with.
Refused(j) ==
    /\ In(j, "refused")
    /\ cache' = [cache EXCEPT ![CacheKey(Of(j).seat, Of(j).trade)] = NoToken]
    /\ refused' = refused \cup {jobs[j].token}
    /\ Ends(j)
    /\ UNCHANGED <<authVars, wallet, flagTrade, digest, active, listed, known, tableVars, crossed,
                   switches, faults>>

\* load, at the end of a job and whenever the user refreshes: trades and disputes.
Loads ==
    /\ listed' = filed /\ known' = parties
    /\ flagTrade' \in FlagTarget(wallet, parties)

Load ==
    /\ listed # filed \/ known # parties
    /\ Loads
    /\ UNCHANGED <<authVars, wallet, cache, digest, active, jobs, tableVars, ghosts>>

Loaded(j) ==
    /\ In(j, "loading")
    /\ Ends(j)
    /\ Loads \/ UNCHANGED <<listed, known, flagTrade>>
    /\ UNCHANGED <<authVars, wallet, cache, digest, active, tableVars, ghosts>>

\* A request or its answer is lost, wherever the job waits for one.
JobFails(j) ==
    /\ \/ In(j, "verify") /\ Verifying(j, "answered") /\ Conclude(j)
       \/ jobs[j].phase \in {"challenge", "write", "written", "refused"} /\ UNCHANGED requests
    /\ Fault
    /\ Ends(j)
    /\ UNCHANGED <<challenges, tokens, parties, now, ghostAuthVars, wallet, cache, flagTrade,
                   digest, active, listed, known, tableVars, refused, crossed, switches>>

Restart == Fault /\ RestartServer
           /\ UNCHANGED <<pageVars, tableVars, refused, crossed, switches>>

CreateAgain ==
    /\ Fault
    /\ \E t \in Trades, pair \in PartyPairs : pair # parties[t] /\ Recreate(t, pair)
    /\ UNCHANGED <<pageVars, tableVars, refused, crossed, switches>>

JobStep(j) ==
    \/ ReceiveChallenge(j) \/ SignChallenge(j) \/ RefuseToSign(j) \/ Proved(j)
    \/ Write(j) \/ Written(j) \/ Refused(j) \/ Loaded(j)

Next ==
    \/ \E w \in Seats : WalletBecomes(w)
    \/ \E t \in Trades : ChooseTrade(t)
    \/ \E d \in filed : Select(d)
    \/ HashDocument \/ ClickFlag \/ ClickAnchor \/ Load
    \/ \E j \in Jobs : JobStep(j) \/ JobFails(j)
    \/ WriteElsewhere
    \/ \E j \in Jobs : (Consume(j) \/ Mint(j)) /\ UNCHANGED <<pageVars, tableVars, ghosts>>
    \/ Restart \/ CreateAgain
    \/ ServerTick /\ UNCHANGED <<pageVars, tableVars, ghosts>>

Spec == Init /\ [][Next]_vars

-----------------------------------------------------------------------------
\* Has the wallet earned a token of the trade that is good at `time`?
Proven(w, t, time) ==
    \E token \in minted :
        /\ token.address = w /\ token.trade = t
        /\ time <= token.expiresAt
        /\ PartySince(w, t, token.since)

\* Whatever tokens are about, disputes and evidence are recorded for wallets that
\* have proven themselves a party of the dispute's own trade, not longer ago than
\* a token lives, and were one when the proof was checked (the party gate of the
\* two handlers).  They need be one no more: a trade created again with other
\* parties takes no token back.
RecordedForParties ==
    /\ \A d \in filed : Proven(d.flaggedBy, d.trade, d.at)
    /\ \A e \in anchored, d \in filed :
          d.id = e.dispute => Proven(e.submittedBy, d.trade, e.at)

\* What is done in one seat is recorded for the wallet of that seat, through
\* any number of switches ('switching seats never reuses the previous wallet's
\* token'), unless another wallet has signed a proof for that seat, connected
\* between the click and the prompt.
RecordedForSeat ==
    /\ \A d \in filed :
          d.seat = NoWallet \/ d.flaggedBy = d.seat \/ <<d.seat, d.trade>> \in crossed
    /\ \A e \in anchored, d \in filed :
          \/ d.id # e.dispute \/ e.seat = NoWallet
          \/ e.submittedBy = e.seat \/ <<e.seat, d.trade>> \in crossed

\* A token the API was seen to refuse is never taken from the cache again, so
\* the next attempt proves anew ('entries are dropped on a 401').
RefusedForgotten ==
    \A key \in DOMAIN cache : cache[key] \notin refused

=============================================================================
