-------------------------- MODULE ResolutionProofs --------------------------
(***************************************************************************)
(* What the resolution center records, for any number of trades, wallets,  *)
(* challenges, disputes, switches, faults and any lifetimes: disputes and  *)
(* evidence are recorded for wallets proven to be parties of their trade,  *)
(* and what is done in one seat for the wallet of that seat.               *)
(*                                                                         *)
(* The invariant follows a token from the proof through the cache and the  *)
(* jobs into the tables, and knows that disputes are numbered.             *)
(***************************************************************************)
EXTENDS ResolutionCenter, WalletAuthProofs

USE DEF ghostAuthVars

\* A token in the hands of a seat: minted, and signed for by the wallet of the
\* seat unless another one is known to have crossed over.
Held(token, key) ==
    token \in minted /\ (token.address = key[1] \/ key \in crossed)

CacheSound ==
    \A key \in Seats \X Trades : cache[key] = NoToken \/ Held(cache[key], key)

JobSound(job) ==
    /\ job.phase = "prompt" => Genuine(job.challenge)
    /\ job.phase \in {"write", "written", "refused"} =>
          Held(job.token, <<job.click.seat, job.click.trade>>)
    /\ job.phase # "none" /\ job.click.dispute # NoDispute =>
          \E d \in filed : d.id = job.click.dispute /\ d.trade = job.click.trade

JobsSound ==
    /\ jobs \in [Jobs -> Job \cup {NoJob}]
    /\ \A j \in Jobs : JobSound(jobs[j])

\* Disputes are numbered as they are filed, and evidence is for one of them.
Numbered ==
    /\ IsFiniteSet(filed) /\ IsFiniteSet(anchored)
    /\ \A d \in filed : d.id <= Cardinality(filed)
    /\ \A d, e \in filed : d.id = e.id => d = e
    /\ \A e \in anchored : e.dispute <= Cardinality(filed)

PageTypeOK ==
    /\ wallet \in Seats
    /\ cache \in [Seats \X Trades -> Token \cup {NoToken}]
    /\ flagTrade \in Trades \cup {NoTrade}
    /\ digest \in BOOLEAN
    /\ active \in DisputeIds \cup {NoDispute}
    /\ listed \subseteq filed
    /\ known \in [Trades -> [importer : Wallets, exporter : Wallets]]
    /\ filed \subseteq Filed /\ anchored \subseteq Anchored
    /\ refused \subseteq minted
    /\ crossed \subseteq Seats \X Trades
    /\ switches \in 0 .. MaxSwitches /\ faults \in 0 .. MaxFaults

Recorded == Numbered /\ RecordedForParties /\ RecordedForSeat

IInv == AuthInv /\ PageTypeOK /\ JobsSound /\ CacheSound /\ Recorded

\* The invariant contains the types.
LEMMA IInvTypes == IInv => TypeOK
BY DEF IInv, TypeOK, PageTypeOK, AuthInv, JobsSound

-----------------------------------------------------------------------------
\* At the start nobody is connected and nothing is filed.
LEMMA InitIInv == Init => IInv
<1> SUFFICES ASSUME Init PROVE IInv
  OBVIOUS
<1>1. AuthInv
  BY AuthInitInv DEF Init
<1>2. PageTypeOK
  <2>1. cache \in [Seats \X Trades -> Token \cup {NoToken}]
    BY DEF Init
  <2>2. 0 \in 0 .. MaxSwitches /\ 0 \in 0 .. MaxFaults
    BY ResolutionCenterAssumption
  <2>3. known \in [Trades -> [importer : Wallets, exporter : Wallets]]
    BY WalletAuthAssumption DEF Init, AuthInit
  <2> QED  BY <2>1, <2>2, <2>3 DEF Init, PageTypeOK, Seats
<1>3. JobsSound /\ CacheSound
  BY DEF Init, JobsSound, JobSound, CacheSound, NoJob
<1>4. Recorded
  BY FS_EmptySet DEF Init, Recorded, Numbered, RecordedForParties, RecordedForSeat
<1> QED  BY <1>1, <1>2, <1>3, <1>4 DEF IInv

\* What a job rests on is not taken away: tokens, crossings and disputes are
\* only added, and a new challenge has a new number.
Grows ==
    /\ minted \subseteq minted' /\ crossed \subseteq crossed' /\ filed \subseteq filed'
    /\ issued' \in Nat /\ issued <= issued'
    /\ \A c \in challenges' : c \in challenges \/ c.id > issued

\* The numbers that are compared are numbers.
LEMMA Numbers ==
    ASSUME IInv
    PROVE  /\ issued \in Nat /\ now \in Nat
           /\ faults \in Nat /\ switches \in Nat
           /\ \A c \in Challenge : c.id \in Nat
BY WalletAuthAssumption, ResolutionCenterAssumption
DEF IInv, AuthInv, AuthTypeOK, PageTypeOK, Challenge

\* What a job rests on stays under it.
LEMMA SoundStays ==
    ASSUME IInv, Grows, NEW k \in Jobs, jobs'[k] = jobs[k]
    PROVE  JobSound(jobs[k])'
<1>1. JobSound(jobs[k]) /\ jobs[k] \in Job \cup {NoJob}
  BY DEF IInv, JobsSound
<1>2. ASSUME jobs[k].phase = "prompt" PROVE Genuine(jobs[k].challenge)'
  <2>1. Genuine(jobs[k].challenge) /\ jobs[k].challenge.id \in Nat
    BY <1>1, <1>2, Numbers DEF JobSound, Genuine
  <2> QED  BY <2>1, Numbers DEF Grows, Genuine
<1>3. ASSUME jobs[k].phase \in {"write", "written", "refused"}
      PROVE  Held(jobs[k].token, <<jobs[k].click.seat, jobs[k].click.trade>>)'
  BY <1>1, <1>3 DEF JobSound, Held, Grows
<1>4. ASSUME jobs[k].phase # "none", jobs[k].click.dispute # NoDispute
      PROVE  \E d \in filed' : d.id = jobs[k].click.dispute /\ d.trade = jobs[k].click.trade
  BY <1>1, <1>4 DEF JobSound, Grows
<1> QED  BY <1>2, <1>3, <1>4 DEF JobSound

\* Jobs that do not move stay sound.
LEMMA JobsStay ==
    ASSUME IInv, Grows, UNCHANGED jobs
    PROVE  JobsSound'
BY SoundStays DEF IInv, JobsSound

\* A job that moves is sound if what it becomes is.
LEMMA JobGoes ==
    ASSUME IInv, Grows, NEW j \in Jobs, NEW next \in Job \cup {NoJob}, Goes(j, next),
           JobSound(jobs[j])'
    PROVE  JobsSound'
<1>1. /\ jobs' \in [Jobs -> Job \cup {NoJob}]
      /\ \A k \in Jobs \ {j} : jobs'[k] = jobs[k]
  BY DEF IInv, JobsSound, Goes
<1>2. \A k \in Jobs \ {j} : JobSound(jobs[k])'
  BY <1>1, SoundStays
<1> QED  BY <1>1, <1>2 DEF JobsSound

\* A job that ends rests on nothing.
LEMMA JobEnds ==
    ASSUME IInv, Grows, NEW j \in Jobs, Ends(j)
    PROVE  JobsSound'
<1>1. jobs'[j] = NoJob
  BY DEF Ends, Goes, IInv, JobsSound
<1>2. JobSound(jobs[j])'
  BY <1>1 DEF JobSound, NoJob
<1> QED  BY <1>2, JobGoes DEF Ends

\* A job that only moves on keeps what it had.
LEMMA JobMoves ==
    ASSUME IInv, Grows, NEW j \in Jobs, NEW next \in Job, Goes(j, next),
           ~In(j, "none"), next.phase # "prompt", next.click = Of(j),
           next.phase \in {"write", "written", "refused"} =>
              /\ jobs[j].phase \in {"write", "written", "refused"}
              /\ next.token = jobs[j].token
    PROVE  JobsSound'
<1>1. jobs'[j] = next
  BY DEF Goes, IInv, JobsSound
<1>2. JobSound(jobs[j])
  BY DEF IInv, JobsSound
<1>3. JobSound(jobs[j])'
  BY <1>1, <1>2 DEF JobSound, Held, Grows, In, Of
<1> QED  BY <1>3, JobGoes

\* The cache stays sound while nothing is written to it.
LEMMA CacheStays ==
    ASSUME IInv, Grows, UNCHANGED cache
    PROVE  CacheSound'
BY DEF IInv, CacheSound, Held, Grows

\* What has been proven stays proven, for every token is earned.
LEMMA ProvenStays ==
    ASSUME NEW w, NEW t, NEW time, Proven(w, t, time), AuthInv', minted \subseteq minted'
    PROVE  Proven(w, t, time)'
<1>1. PICK token \in minted :
         token.address = w /\ token.trade = t /\ time <= token.expiresAt
  BY DEF Proven
<1>2. token \in minted' /\ PartySince(token.address, token.trade, token.since)'
  BY <1>1 DEF AuthInv, TokensEarned
<1> QED  BY <1>1, <1>2 DEF Proven

\* So do the tables.
LEMMA RecordedStays ==
    ASSUME IInv, AuthInv', UNCHANGED tableVars, crossed \subseteq crossed',
           minted \subseteq minted'
    PROVE  Recorded'
<1>1. Numbered' /\ RecordedForSeat'
  BY DEF tableVars, IInv, Recorded, Numbered, RecordedForSeat
<1>2. RecordedForParties'
  BY ProvenStays DEF tableVars, IInv, Recorded, RecordedForParties
<1> QED  BY <1>1, <1>2 DEF Recorded

\* Without a new challenge it is enough that nothing is taken away.
LEMMA SameChallenges ==
    ASSUME IInv, issued' = issued, challenges' \subseteq challenges,
           minted \subseteq minted', crossed \subseteq crossed', filed \subseteq filed'
    PROVE  Grows
BY Numbers DEF Grows

\* A fault is counted within its bound.
LEMMA FaultType ==
    ASSUME IInv, Fault
    PROVE  faults' \in 0 .. MaxFaults
BY ResolutionCenterAssumption DEF Fault, IInv, PageTypeOK

-----------------------------------------------------------------------------
\* The page between two jobs: nothing that a job rests on is touched.
LEMMA PageInv ==
    ASSUME IInv,
           \/ \E w \in Seats : WalletBecomes(w)
           \/ \E t \in Trades : ChooseTrade(t)
           \/ \E d \in filed : Select(d)
           \/ HashDocument \/ Load
    PROVE  IInv'
<1> USE DEF ghosts, tableVars
<1>1. UNCHANGED <<authVars, cache, jobs, filed, anchored, refused, crossed, faults>>
  BY DEF WalletBecomes, ChooseTrade, Select, HashDocument, Load
<1>2. AuthInv'
  BY <1>1, AuthIdle DEF IInv
<1>3. Grows
  BY <1>1, SameChallenges DEF authVars
<1>4. JobsSound' /\ CacheSound' /\ Recorded'
  BY <1>1, <1>2, <1>3, JobsStay, CacheStays, RecordedStays DEF authVars
<1>5. wallet' \in Seats /\ digest' \in BOOLEAN /\ listed' \subseteq filed'
  BY <1>1 DEF IInv, PageTypeOK, WalletBecomes, ChooseTrade, Select, HashDocument, Load, Loads
<1>10. known' \in [Trades -> [importer : Wallets, exporter : Wallets]]
  BY DEF IInv, AuthInv, AuthTypeOK, PageTypeOK, WalletBecomes, ChooseTrade, Select,
     HashDocument, Load, Loads
<1>6. switches' \in 0 .. MaxSwitches
  <2>1. switches \in 0 .. MaxSwitches
    BY DEF IInv, PageTypeOK
  <2>2. switches' = switches \/ (switches < MaxSwitches /\ switches' = switches + 1)
    BY DEF WalletBecomes, ChooseTrade, Select, HashDocument, Load
  <2> QED  BY <2>1, <2>2, ResolutionCenterAssumption
<1>7. flagTrade' \in Trades \cup {NoTrade}
  BY DEF IInv, PageTypeOK, WalletBecomes, ChooseTrade, Select, HashDocument, Load, Loads,
     FlagTarget, TradesOf, PartyTrades
<1>8. active' \in DisputeIds \cup {NoDispute}
  <2>1. \A d \in filed : d.id \in DisputeIds
    BY DEF IInv, PageTypeOK, Filed
  <2>2. active' = active \/ \E d \in filed : active' = d.id
    BY DEF WalletBecomes, ChooseTrade, Select, HashDocument, Load
  <2> QED  BY <2>1, <2>2 DEF IInv, PageTypeOK
<1>9. PageTypeOK'
  BY <1>1, <1>5, <1>6, <1>7, <1>8, <1>10 DEF IInv, PageTypeOK, authVars
<1> QED  BY <1>2, <1>4, <1>9 DEF IInv

\* A click takes its token from the cache, where it is held for that seat.
LEMMA ClickInv ==
    ASSUME IInv, ClickFlag \/ ClickAnchor
    PROVE  IInv'
<1> USE DEF ghosts, tableVars
<1>1. PICK j \in Jobs, click \in Click :
         /\ Begins(j, click)
         /\ click.dispute # NoDispute =>
               \E d \in filed : d.id = click.dispute /\ d.trade = click.trade
  <2>1. CASE ClickFlag
    <3> DEFINE click == [seat |-> wallet, trade |-> flagTrade, dispute |-> NoDispute]
    <3>1. click \in Click /\ "flag" \in Jobs
      BY <2>1, ResolutionCenterAssumption DEF ClickFlag, IInv, PageTypeOK, Click, Seats, Jobs
    <3> QED  BY <2>1, <3>1 DEF ClickFlag
  <2>2. CASE ClickAnchor
    <3>1. PICK d \in Selected :
             Begins("evidence", [seat |-> wallet, trade |-> d.trade, dispute |-> d.id])
      BY <2>2 DEF ClickAnchor
    <3>2. d \in filed /\ d \in Filed /\ d.trade \in PartyTrades(wallet)
      BY <3>1 DEF Selected, IInv, PageTypeOK
    <3>3. wallet \in Wallets
      BY <3>2 DEF Filed, PartyTrades, TradesOf, IInv, PageTypeOK
    <3>4. /\ [seat |-> wallet, trade |-> d.trade, dispute |-> d.id] \in Click
          /\ "evidence" \in Jobs
      BY <3>2, <3>3, ResolutionCenterAssumption DEF Filed, Click, Jobs
    <3> QED  BY <3>1, <3>2, <3>4
  <2> QED  BY <2>1, <2>2
<1>2. UNCHANGED <<authVars, wallet, cache, flagTrade, digest, active, listed, known, tableVars,
                  ghosts>>
  BY <1>1 DEF Begins
<1>3. AuthInv' /\ Grows
  BY <1>2, AuthIdle, SameChallenges DEF IInv, authVars
<1>4. CacheSound' /\ Recorded' /\ PageTypeOK'
  BY <1>2, <1>3, CacheStays, RecordedStays DEF IInv, PageTypeOK, authVars
<1> DEFINE key == <<click.seat, click.trade>>
<1>5. key \in Seats \X Trades
  BY DEF Click, Seats
<1>6. JobsSound'
  <2>1. CASE cache[key] # NoToken
    <3> DEFINE next == [phase |-> "write", click |-> click, token |-> cache[key]]
    <3>1. cache[key] \in Token /\ Held(cache[key], key)
      BY <1>5, <2>1 DEF IInv, PageTypeOK, CacheSound
    <3>2. next \in Job /\ Goes(j, next)
      BY <1>1, <2>1, <3>1 DEF Begins, CacheKey, Job
    <3>3. jobs'[j] = next
      BY <3>2 DEF Goes, IInv, JobsSound
    <3>4. JobSound(jobs[j])'
      BY <1>1, <1>2, <3>1, <3>3 DEF JobSound, Held, authVars
    <3> QED  BY <1>3, <3>2, <3>4, JobGoes
  <2>2. CASE cache[key] = NoToken
    <3> DEFINE next == [phase |-> "challenge", click |-> click]
    <3>1. next \in Job /\ Goes(j, next)
      BY <1>1, <2>2 DEF Begins, CacheKey, Job
    <3>2. jobs'[j] = next
      BY <3>1 DEF Goes, IInv, JobsSound
    <3>3. JobSound(jobs[j])'
      BY <1>1, <1>2, <3>2 DEF JobSound
    <3> QED  BY <1>3, <3>1, <3>3, JobGoes
  <2> QED  BY <2>1, <2>2
<1> QED  BY <1>3, <1>4, <1>6 DEF IInv

-----------------------------------------------------------------------------
\* The type of a job in each phase.
LEMMA JobTypes ==
    ASSUME IInv, NEW j \in Jobs
    PROVE  /\ jobs[j] \in Job \cup {NoJob} /\ JobSound(jobs[j])
           /\ jobs[j].phase # "none" => Of(j) \in Click
           /\ In(j, "prompt") => /\ jobs[j].challenge \in Challenge
                                 /\ jobs[j].account \in Wallets
           /\ In(j, "verify") => jobs[j].account \in Wallets
           /\ jobs[j].phase \in {"write", "written", "refused"} => jobs[j].token \in Token
<1>1. jobs[j] \in Job \cup {NoJob} /\ JobSound(jobs[j])
  BY DEF IInv, JobsSound
<1> QED  BY <1>1 DEF Job, NoJob, Of, In

\* The wallet is prompted with the challenge just issued.
LEMMA ReceiveChallengeInv ==
    ASSUME IInv, NEW j \in Jobs, ReceiveChallenge(j)
    PROVE  IInv'
<1> USE DEF ghosts, tableVars
<1>1. Of(j) \in Click /\ Of(j).trade \in Trades
  BY JobTypes DEF ReceiveChallenge, In, Click
<1>2. PICK c : c = NewChallenge(Of(j).trade)
  OBVIOUS
<1>3. AuthInv' /\ Genuine(c)'
  BY <1>1, <1>2, CreateChallengeInv DEF ReceiveChallenge, IInv
<1>4. Grows
  <2>1. issued' = issued + 1 /\ challenges' = challenges \cup {c} /\ c.id = issued + 1
    BY <1>2 DEF ReceiveChallenge, CreateChallenge, NewChallenge
  <2> QED  BY <2>1, Numbers DEF ReceiveChallenge, Grows
<1>5. CacheSound' /\ Recorded' /\ PageTypeOK'
  BY <1>3, <1>4, CacheStays, RecordedStays DEF ReceiveChallenge, IInv, PageTypeOK
<1>6. JobsSound'
  <2>1. CASE wallet = NoWallet
    BY <1>4, <2>1, JobEnds DEF ReceiveChallenge
  <2>2. CASE wallet # NoWallet
    <3> DEFINE next == [phase |-> "prompt", click |-> Of(j), account |-> wallet,
                        challenge |-> c]
    <3>1. wallet \in Wallets /\ c \in Challenge
      BY <1>3, <2>2 DEF IInv, PageTypeOK, Seats, Genuine
    <3>2. next \in Job /\ Goes(j, next)
      BY <1>1, <1>2, <2>2, <3>1 DEF ReceiveChallenge, Job
    <3>3. jobs'[j] = next
      BY <3>2 DEF Goes, IInv, JobsSound
    <3>4. JobSound(jobs[j])
      BY DEF IInv, JobsSound
    <3>5. JobSound(jobs[j])'
      BY <1>3, <3>3, <3>4 DEF ReceiveChallenge, In, Of, JobSound, Genuine
    <3> QED  BY <1>4, <3>2, <3>5, JobGoes
  <2> QED  BY <2>1, <2>2
<1> QED  BY <1>3, <1>5, <1>6 DEF IInv

\* A signature is of a genuine challenge; a refusal ends the job.
LEMMA SignatureInv ==
    ASSUME IInv, NEW j \in Jobs, SignChallenge(j) \/ RefuseToSign(j)
    PROVE  IInv'
<1> USE DEF ghosts, tableVars
<1>1. In(j, "prompt")
  BY DEF SignChallenge, RefuseToSign
<1>2. /\ UNCHANGED <<challenges, issued, minted, wallet, cache, flagTrade, digest, active>>
      /\ UNCHANGED <<listed, known, filed, anchored, refused, crossed, switches, faults>>
  BY DEF SignChallenge, RefuseToSign, authVars
<1>3. Grows
  BY <1>2, SameChallenges
<1>4. CacheSound' /\ PageTypeOK' /\ (AuthInv' => Recorded')
  BY <1>2, <1>3, CacheStays, RecordedStays DEF IInv, PageTypeOK
<1>5. CASE SignChallenge(j)
  <2> DEFINE signature == Signed(jobs[j].challenge, jobs[j].account)
             next == [phase |-> "verify", click |-> Of(j), account |-> jobs[j].account]
  <2>1. /\ jobs[j].challenge \in Challenge /\ jobs[j].account \in Wallets
        /\ Genuine(jobs[j].challenge) /\ Of(j) \in Click
    BY <1>1, JobTypes DEF JobSound, In
  <2>2. signature \in Signature /\ Of(j).trade \in Trades
    BY <2>1 DEF Signed, Signature, Challenge, Click
  <2>3. AuthInv'
    BY <1>2, <1>5, <2>1, <2>2, PresentInv DEF SignChallenge, IInv, Jobs
  <2>4. next \in Job /\ Goes(j, next)
    BY <1>5, <2>1 DEF SignChallenge, Job
  <2>5. JobsSound'
    BY <1>1, <1>3, <2>4, JobMoves DEF In
  <2> QED  BY <1>4, <2>3, <2>5 DEF IInv
<1>6. CASE RefuseToSign(j)
  BY <1>3, <1>4, <1>6, AuthIdle, JobEnds DEF RefuseToSign, IInv
<1> QED  BY <1>5, <1>6

\* The token is cached for the seat of the click, or the crossing is noted.
LEMMA ProvedInv ==
    ASSUME IInv, NEW j \in Jobs, Proved(j)
    PROVE  IInv'
<1> USE DEF ghosts, tableVars
<1> DEFINE token == requests[j].token
           key == <<Of(j).seat, Of(j).trade>>
           next == [phase |-> "write", click |-> Of(j), token |-> token]
<1>1. /\ In(j, "verify") /\ Verifying(j, "answered") /\ Conclude(j) /\ j \in Requesters
      /\ UNCHANGED <<challenges, tokens, parties, now, issued, signatures, minted, left>>
      /\ UNCHANGED <<wallet, flagTrade, digest, active, listed, known, filed, anchored, refused, switches, faults>>
      /\ \/ /\ requests[j].answer = "ok"
            /\ cache' = [cache EXCEPT ![key] = token]
            /\ crossed' = IF token.address = Of(j).seat THEN crossed ELSE crossed \cup {key}
            /\ Goes(j, next)
         \/ Ends(j) /\ UNCHANGED <<cache, crossed>>
  BY DEF Proved, CacheKey, Jobs
<1>2. AuthInv'
  BY <1>1, ConcludeInv DEF IInv
<1>3. Of(j) \in Click /\ key \in Seats \X Trades /\ JobSound(jobs[j])
  <2>1. Of(j) \in Click /\ JobSound(jobs[j])
    BY <1>1, JobTypes DEF In
  <2> QED  BY <2>1 DEF Click, Seats
<1>4. crossed \subseteq crossed'
  BY <1>1
<1>5. Grows
  BY <1>1, <1>4, SameChallenges
<1>6. Recorded'
  BY <1>1, <1>2, <1>4, RecordedStays
<1>7. CASE Ends(j) /\ UNCHANGED <<cache, crossed>>
  <2>1. JobsSound' /\ CacheSound'
    BY <1>5, <1>7, JobEnds, CacheStays
  <2>2. PageTypeOK'
    BY <1>1, <1>7 DEF IInv, PageTypeOK
  <2> QED  BY <1>2, <1>6, <2>1, <2>2 DEF IInv
<1>8. CASE /\ requests[j].answer = "ok"
           /\ cache' = [cache EXCEPT ![key] = token]
           /\ crossed' = IF token.address = Of(j).seat THEN crossed ELSE crossed \cup {key}
           /\ Goes(j, next)
  <2>1. token \in minted /\ token \in Token
    BY <1>1, <1>8 DEF IInv, AuthInv, AnswersMinted, AuthTypeOK
  <2>2. token.address = key[1] \/ key \in crossed'
    BY <1>8
  <2>3. cache'[key] = token /\ \A k \in Seats \X Trades : k # key => cache'[k] = cache[k]
    BY <1>3, <1>8 DEF IInv, PageTypeOK
  <2>4. CacheSound'
    BY <1>1, <1>4, <2>1, <2>2, <2>3 DEF IInv, CacheSound, Held
  <2>5. PageTypeOK'
    BY <1>1, <1>3, <1>8, <2>1 DEF IInv, PageTypeOK
  <2>6. next \in Job
    BY <1>3, <2>1 DEF Job
  <2>7. jobs'[j] = next
    BY <1>8 DEF Goes, IInv, JobsSound
  <2>8. JobSound(jobs[j])'
    BY <1>1, <1>3, <2>1, <2>2, <2>7 DEF JobSound, Held, In, Of
  <2>9. JobsSound'
    BY <1>5, <1>8, <2>6, <2>8, JobGoes
  <2> QED  BY <1>2, <1>6, <2>4, <2>5, <2>9 DEF IInv
<1> QED  BY <1>1, <1>7, <1>8

-----------------------------------------------------------------------------
\* What a known token of this trade writes is recorded for a wallet proven to be a
\* party, and for the one that the seat stands for.
LEMMA PartyForInv ==
    ASSUME IInv, NEW token \in minted, NEW t, PartyFor(token, t)
    PROVE  token.trade = t /\ Proven(token.address, t, now) /\ token.address \in Wallets
<1>1. token \in Token /\ PartySince(token.address, token.trade, token.since)
  BY DEF IInv, AuthInv, AuthTypeOK, TokensEarned
<1>2. token.trade = t /\ now <= token.expiresAt
  BY DEF PartyFor, Accepted
<1> QED  BY <1>1, <1>2 DEF Proven, Token

\* A filed dispute is its party's, and has a number of its own.
LEMMA FileDisputeInv ==
    ASSUME IInv, NEW token \in minted, NEW t \in Trades, NEW seat \in Seats,
           PartyFor(token, t), FileDispute(token, t, seat), crossed' = crossed,
           AuthInv', minted' = minted,
           seat = NoWallet \/ token.address = seat \/ <<seat, t>> \in crossed
    PROVE  Recorded' /\ filed' \subseteq Filed /\ filed \subseteq filed' /\ anchored' = anchored
<1>0. PICK time \in Nat : time = now
  BY Numbers
<1> DEFINE n == Cardinality(filed)
           d == [id |-> n + 1, trade |-> t, flaggedBy |-> token.address, seat |-> seat,
                 at |-> time]
<1>1. n \in Nat /\ n < MaxDisputes /\ filed' = filed \cup {d} /\ anchored' = anchored
  BY <1>0, FS_CardinalityType DEF FileDispute, IInv, Recorded, Numbered
<1>2. Proven(token.address, t, time)' /\ token.address \in Wallets
  BY <1>0, PartyForInv, ProvenStays
<1>3. n + 1 \in DisputeIds
  BY <1>1, ResolutionCenterAssumption DEF DisputeIds
<1>4. d \in Filed
  BY <1>2, <1>3 DEF Filed
<1>5. /\ \A e \in filed : e.id \in Nat /\ e.id <= n /\ e.id # d.id
      /\ \A e \in anchored : e.dispute \in Nat /\ e.dispute <= n /\ e.dispute # d.id
  <2>1. /\ \A e \in filed : e.id \in DisputeIds /\ e.id <= n
        /\ \A e \in anchored : e.dispute \in DisputeIds /\ e.dispute <= n
    BY DEF IInv, PageTypeOK, Recorded, Numbered, Filed, Anchored
  <2> QED  BY <1>1, <2>1, ResolutionCenterAssumption DEF DisputeIds
<1>6. IsFiniteSet(filed') /\ Cardinality(filed') = n + 1
  <2>1. IsFiniteSet(filed) /\ d \notin filed
    BY <1>5 DEF IInv, Recorded, Numbered
  <2> QED  BY <1>1, <2>1, FS_AddElement
<1>7. Numbered'
  <2>1. IsFiniteSet(anchored) /\ \A e, f \in filed : e.id = f.id => e = f
    BY DEF IInv, Recorded, Numbered
  <2>2. /\ \A e \in filed' : e.id <= n + 1
        /\ \A e \in anchored' : e.dispute <= n + 1
    BY <1>1, <1>5
  <2>3. \A e, f \in filed' : e.id = f.id => e = f
    BY <1>1, <1>5, <2>1
  <2> QED  BY <1>1, <1>6, <2>1, <2>2, <2>3 DEF Numbered
<1>8. RecordedForParties'
  <2>1. \A f \in filed : Proven(f.flaggedBy, f.trade, f.at)'
    BY ProvenStays DEF IInv, Recorded, RecordedForParties
  <2>2. \A e \in anchored, f \in filed :
           f.id = e.dispute => Proven(e.submittedBy, f.trade, e.at)'
    BY ProvenStays DEF IInv, Recorded, RecordedForParties
  <2> QED  BY <1>1, <1>2, <1>5, <2>1, <2>2 DEF RecordedForParties
<1>9. RecordedForSeat'
  BY <1>1, <1>5 DEF IInv, Recorded, RecordedForSeat
<1> QED  BY <1>1, <1>4, <1>7, <1>8, <1>9 DEF IInv, PageTypeOK, Recorded

\* Evidence is a party's of the dispute it is for.
LEMMA AnchorOnInv ==
    ASSUME IInv, NEW token \in minted, NEW d \in filed, NEW seat \in Seats,
           PartyFor(token, d.trade), AnchorOn(token, d, seat), crossed' = crossed,
           AuthInv', minted' = minted,
           seat = NoWallet \/ token.address = seat \/ <<seat, d.trade>> \in crossed
    PROVE  Recorded' /\ anchored' \subseteq Anchored /\ filed' = filed
<1>0. PICK time \in Nat : time = now
  BY Numbers
<1> DEFINE n == Cardinality(anchored)
           e == [id |-> n + 1, dispute |-> d.id, submittedBy |-> token.address,
                 seat |-> seat, at |-> time]
<1>1. n \in Nat /\ n < MaxDisputes /\ anchored' = anchored \cup {e} /\ filed' = filed
  BY <1>0, FS_CardinalityType DEF AnchorOn, IInv, Recorded, Numbered
<1>2. Proven(token.address, d.trade, time)' /\ token.address \in Wallets
  BY <1>0, PartyForInv, ProvenStays
<1>3. e \in Anchored
  <2>1. n + 1 \in DisputeIds
    BY <1>1, ResolutionCenterAssumption DEF DisputeIds
  <2>2. d.id \in DisputeIds
    BY DEF IInv, PageTypeOK, Filed
  <2> QED  BY <1>2, <2>1, <2>2 DEF Anchored
<1>4. \A f \in filed : f.id = e.dispute => f = d
  BY DEF IInv, Recorded, Numbered
<1>5. IsFiniteSet(anchored')
  BY <1>1, FS_AddElement DEF IInv, Recorded, Numbered
<1>6. Numbered'
  BY <1>1, <1>5 DEF IInv, Recorded, Numbered
<1>7. RecordedForParties'
  <2>1. \A f \in filed : Proven(f.flaggedBy, f.trade, f.at)'
    BY ProvenStays DEF IInv, Recorded, RecordedForParties
  <2>2. \A a \in anchored, f \in filed :
           f.id = a.dispute => Proven(a.submittedBy, f.trade, a.at)'
    BY ProvenStays DEF IInv, Recorded, RecordedForParties
  <2> QED  BY <1>1, <1>2, <1>4, <2>1, <2>2 DEF RecordedForParties
<1>8. RecordedForSeat'
  BY <1>1, <1>4 DEF IInv, Recorded, RecordedForSeat
<1> QED  BY <1>1, <1>3, <1>6, <1>7, <1>8 DEF IInv, PageTypeOK, Recorded

\* The two handlers, for a job: recorded, or refused.
LEMMA WriteInv ==
    ASSUME IInv, NEW j \in Jobs, Write(j)
    PROVE  IInv'
<1> USE DEF ghosts, tableVars
<1> DEFINE token == jobs[j].token
           click == Of(j)
<1>1. /\ In(j, "write")
      /\ UNCHANGED <<challenges, requests, parties, now, issued, signatures, minted, left>>
      /\ UNCHANGED <<wallet, cache, flagTrade, digest, active, listed, known, refused, crossed, switches, faults>>
  BY DEF Write
<1>2. /\ click \in Click /\ token \in Token /\ token \in minted
      /\ token.address = click.seat \/ <<click.seat, click.trade>> \in crossed
      /\ click.dispute # NoDispute =>
            \E d \in filed : d.id = click.dispute /\ d.trade = click.trade
      /\ jobs[j] \in [phase : {"write", "written", "refused"}, click : Click, token : Token]
  BY <1>1, JobTypes DEF In, Of, JobSound, Held, Job, NoJob
<1>3. click.trade \in Trades /\ click.seat \in Seats
  BY <1>2 DEF Click, Seats
<1>4. CASE PartyFor(token, click.trade)
  <2>1. UNCHANGED tokens /\ Goes(j, [jobs[j] EXCEPT !.phase = "written"])
    BY <1>4 DEF Write
  <2>2. AuthInv'
    BY <1>1, <2>1, AuthIdle DEF authVars, IInv
  <2>3. /\ Recorded' /\ filed \subseteq filed'
        /\ filed' \subseteq Filed /\ anchored' \subseteq Anchored
    <3>1. CASE click.dispute = NoDispute
      <4>1. FileDispute(token, click.trade, click.seat)
        BY <1>4, <3>1 DEF Write
      <4>2. Recorded' /\ filed' \subseteq Filed /\ filed \subseteq filed' /\ anchored' = anchored
        BY <1>1, <1>2, <1>3, <1>4, <2>2, <4>1, FileDisputeInv
      <4> QED  BY <4>2 DEF IInv, PageTypeOK
    <3>2. CASE click.dispute # NoDispute
      <4>1. PICK d \in filed : d.id = click.dispute /\ AnchorOn(token, d, click.seat)
        BY <1>4, <3>2 DEF Write
      <4>2. d.trade = click.trade
        BY <1>2, <3>2, <4>1 DEF IInv, Recorded, Numbered
      <4>3. Recorded' /\ anchored' \subseteq Anchored /\ filed' = filed
        BY <1>1, <1>2, <1>3, <1>4, <2>2, <4>1, <4>2, AnchorOnInv
      <4> QED  BY <4>3 DEF IInv, PageTypeOK
    <3> QED  BY <3>1, <3>2
  <2>4. Grows
    BY <1>1, <2>3, SameChallenges
  <2>5. JobsSound'
    <3>1. [jobs[j] EXCEPT !.phase = "written"] \in Job
      BY <1>2 DEF Job
    <3> QED  BY <1>1, <1>2, <2>1, <2>4, <3>1, JobMoves DEF In, Of
  <2>6. CacheSound' /\ PageTypeOK'
    BY <1>1, <2>3, <2>4, CacheStays DEF IInv, PageTypeOK
  <2> QED  BY <2>2, <2>3, <2>5, <2>6 DEF IInv
<1>5. CASE ~PartyFor(token, click.trade)
  <2>1. /\ ForgetExpired(token, click.trade) /\ UNCHANGED <<filed, anchored>>
        /\ Goes(j, [jobs[j] EXCEPT !.phase = "refused"])
    BY <1>5 DEF Write
  <2>2. AuthInv'
    BY <1>1, <2>1, ForgetExpiredInv DEF IInv
  <2>3. Grows
    BY <1>1, <2>1, SameChallenges
  <2>4. JobsSound'
    <3>1. [jobs[j] EXCEPT !.phase = "refused"] \in Job
      BY <1>2 DEF Job
    <3> QED  BY <1>1, <1>2, <2>1, <2>3, <3>1, JobMoves DEF In, Of
  <2>5. CacheSound' /\ Recorded' /\ PageTypeOK'
    BY <1>1, <2>1, <2>2, <2>3, CacheStays, RecordedStays DEF IInv, PageTypeOK
  <2> QED  BY <2>2, <2>4, <2>5 DEF IInv
<1> QED  BY <1>4, <1>5

\* Another client records in no seat of this browser.
LEMMA WriteElsewhereInv ==
    ASSUME IInv, WriteElsewhere
    PROVE  IInv'
<1> USE DEF ghosts, tableVars
<1>1. UNCHANGED <<authVars, wallet, cache, flagTrade, digest, active, listed, known, jobs,
                  refused, crossed, switches, faults>>
  BY DEF WriteElsewhere, pageVars
<1>2. PICK token \in minted, d \in filed : PartyFor(token, d.trade) /\ AnchorOn(token, d, NoWallet)
  BY DEF WriteElsewhere
<1>6. AuthInv'
  BY <1>1, AuthIdle DEF IInv
<1>3. Recorded' /\ anchored' \subseteq Anchored /\ filed' = filed
  BY <1>1, <1>2, <1>6, AnchorOnInv DEF Seats, authVars
<1>4. AuthInv' /\ Grows
  BY <1>1, <1>3, <1>6, SameChallenges DEF authVars
<1>5. JobsSound' /\ CacheSound' /\ PageTypeOK'
  BY <1>1, <1>3, <1>4, JobsStay, CacheStays DEF IInv, PageTypeOK, authVars
<1> QED  BY <1>3, <1>4, <1>5 DEF IInv

-----------------------------------------------------------------------------
\* The answers, and what is lost of them.
LEMMA AnswerInv ==
    ASSUME IInv, NEW j \in Jobs, Written(j) \/ Refused(j) \/ Loaded(j) \/ JobFails(j)
    PROVE  IInv'
<1> USE DEF ghosts, tableVars
<1>1. /\ UNCHANGED <<wallet, filed, anchored, crossed, switches>>
      /\ UNCHANGED <<challenges, tokens, parties, now, issued, signatures, minted, left>>
  BY DEF Written, Refused, Loaded, JobFails, authVars
<1>7. UNCHANGED requests \/ Conclude(j)
  BY DEF Written, Refused, Loaded, JobFails, authVars
<1>8. AuthInv'
  BY <1>1, <1>7, AuthIdle, ConcludeInv DEF IInv, authVars, Jobs
<1>2. AuthInv' /\ Grows /\ Recorded'
  BY <1>1, <1>8, SameChallenges, RecordedStays DEF IInv
<1>3. CASE Written(j)
  <2>1. [phase |-> "loading", click |-> Of(j)] \in Job
    BY <1>3, JobTypes DEF Written, In, Job
  <2>2. JobsSound'
    BY <1>2, <1>3, <2>1, JobMoves DEF Written, In
  <2>3. active' \in DisputeIds \cup {NoDispute} /\ digest' \in BOOLEAN
    <3>1. \A d \in filed : d.id \in DisputeIds
      BY DEF IInv, PageTypeOK, Filed
    <3>2. active' = active \/ \E d \in filed : active' = d.id
      BY <1>3 DEF Written
    <3>3. digest' = digest \/ digest' = FALSE
      BY <1>3 DEF Written
    <3> QED  BY <3>1, <3>2, <3>3 DEF IInv, PageTypeOK
  <2>4. CacheSound' /\ PageTypeOK'
    BY <1>1, <1>2, <1>3, <2>3, CacheStays DEF Written, IInv, PageTypeOK
  <2> QED  BY <1>2, <2>2, <2>4 DEF IInv
<1>4. CASE Refused(j)
  <2>1. Of(j) \in Click /\ jobs[j].token \in minted
    BY <1>4, JobTypes DEF Refused, In, JobSound, Held
  <2>2. <<Of(j).seat, Of(j).trade>> \in Seats \X Trades
    BY <2>1 DEF Click, Seats
  <2>3. cache' = [cache EXCEPT ![<<Of(j).seat, Of(j).trade>>] = NoToken]
    BY <1>4 DEF Refused, CacheKey
  <2>4. CacheSound'
    BY <1>2, <2>2, <2>3 DEF IInv, CacheSound, PageTypeOK, Held, Grows
  <2>5. PageTypeOK'
    BY <1>1, <1>4, <2>1, <2>2, <2>3 DEF Refused, IInv, PageTypeOK, authVars
  <2>6. JobsSound'
    BY <1>2, <1>4, JobEnds DEF Refused
  <2> QED  BY <1>2, <2>4, <2>5, <2>6 DEF IInv
<1>5. CASE Loaded(j)
  <2>1. flagTrade' \in Trades \cup {NoTrade} /\ listed' \subseteq filed'
    BY <1>1, <1>5 DEF Loaded, Loads, FlagTarget, TradesOf, IInv, PageTypeOK
  <2>2. known' \in [Trades -> [importer : Wallets, exporter : Wallets]]
    BY <1>5 DEF Loaded, Loads, IInv, AuthInv, AuthTypeOK, PageTypeOK
  <2>3. PageTypeOK' /\ CacheSound'
    BY <1>1, <1>2, <1>5, <2>1, <2>2, CacheStays DEF Loaded, IInv, PageTypeOK
  <2> QED  BY <1>2, <1>5, <2>3, JobEnds DEF Loaded, IInv
<1>6. CASE JobFails(j)
  <2>1. PageTypeOK' /\ CacheSound'
    BY <1>1, <1>2, <1>6, FaultType, CacheStays DEF JobFails, IInv, PageTypeOK
  <2> QED  BY <1>2, <1>6, <2>1, JobEnds DEF JobFails, IInv
<1> QED  BY <1>3, <1>4, <1>5, <1>6

\* Nothing of the page moves.
LEMMA ServerInv ==
    ASSUME IInv, AuthInv', UNCHANGED <<pageVars, tableVars, refused, crossed, switches>>,
           faults' \in 0 .. MaxFaults, issued' = issued, challenges' \subseteq challenges,
           minted \subseteq minted'
    PROVE  IInv'
<1> USE DEF tableVars, pageVars
<1>1. Grows
  BY SameChallenges
<1>2. JobsSound' /\ CacheSound' /\ Recorded'
  BY <1>1, JobsStay, CacheStays, RecordedStays
<1>3. PageTypeOK'
  BY DEF IInv, PageTypeOK
<1> QED  BY <1>2, <1>3 DEF IInv

\* The verifications, a restart, a trade created again and the clock.
LEMMA AroundInv ==
    ASSUME IInv,
           \/ \E j \in Jobs : (Consume(j) \/ Mint(j)) /\ UNCHANGED <<pageVars, tableVars, ghosts>>
           \/ Restart \/ CreateAgain
           \/ ServerTick /\ UNCHANGED <<pageVars, tableVars, ghosts>>
    PROVE  IInv'
<1>0. faults \in 0 .. MaxFaults /\ AuthInv
  BY DEF IInv, PageTypeOK
<1>1. ASSUME NEW j \in Jobs, Consume(j), UNCHANGED <<pageVars, tableVars, ghosts>>
      PROVE  IInv'
  <2>1. AuthInv' /\ challenges' \subseteq challenges /\ issued' = issued
    BY <1>0, <1>1, ConsumeInv DEF Jobs
  <2>2. minted' = minted
    BY <1>1 DEF Consume
  <2> QED  BY <1>0, <1>1, <2>1, <2>2, ServerInv DEF ghosts
<1>2. ASSUME NEW j \in Jobs, Mint(j), UNCHANGED <<pageVars, tableVars, ghosts>>
      PROVE  IInv'
  <2>1. AuthInv' /\ UNCHANGED <<challenges, issued>> /\ minted \subseteq minted'
    BY <1>0, <1>2, MintInv DEF Jobs
  <2> QED  BY <1>0, <1>2, <2>1, ServerInv DEF ghosts
<1>3. CASE Restart
  <2>1. AuthInv' /\ challenges' = {} /\ issued' = issued /\ minted' = minted
    BY <1>0, <1>3, RestartInv DEF Restart, RestartServer
  <2> QED  BY <1>3, <2>1, FaultType, ServerInv DEF Restart
<1>4. CASE ServerTick /\ UNCHANGED <<pageVars, tableVars, ghosts>>
  <2>1. AuthInv' /\ UNCHANGED <<challenges, issued, minted>>
    BY <1>0, <1>4, TickInv DEF ServerTick
  <2> QED  BY <1>0, <1>4, <2>1, ServerInv DEF ghosts
<1>5. CASE CreateAgain
  <2>1. AuthInv' /\ UNCHANGED <<challenges, issued, minted>>
    BY <1>0, <1>5, RecreateInv DEF CreateAgain
  <2> QED  BY <1>5, <2>1, FaultType, ServerInv DEF CreateAgain
<1> QED  BY <1>1, <1>2, <1>3, <1>4, <1>5

-----------------------------------------------------------------------------
\* The invariant holds of every behaviour.
THEOREM Invariant == Spec => []IInv
<1>1. Init => IInv
  BY InitIInv
<1>2. IInv /\ [Next]_vars => IInv'
  <2> SUFFICES ASSUME IInv, [Next]_vars PROVE IInv'
    OBVIOUS
  <2>1. CASE \/ \E w \in Seats : WalletBecomes(w)
             \/ \E t \in Trades : ChooseTrade(t)
             \/ \E d \in filed : Select(d)
             \/ HashDocument \/ Load
    BY <2>1, PageInv
  <2>2. CASE ClickFlag \/ ClickAnchor
    BY <2>2, ClickInv
  <2>3. CASE \E j \in Jobs : JobStep(j) \/ JobFails(j)
    BY <2>3, ReceiveChallengeInv, SignatureInv, ProvedInv, WriteInv, AnswerInv DEF JobStep
  <2>4. CASE WriteElsewhere
    BY <2>4, WriteElsewhereInv
  <2>5. CASE \/ \E j \in Jobs : /\ Consume(j) \/ Mint(j)
                                /\ UNCHANGED <<pageVars, tableVars, ghosts>>
             \/ Restart \/ CreateAgain
             \/ ServerTick /\ UNCHANGED <<pageVars, tableVars, ghosts>>
    BY <2>5, AroundInv
  <2>6. CASE UNCHANGED vars
    <3>1. AuthInv'
      BY <2>6, AuthIdle DEF vars, IInv
    <3>2. faults \in 0 .. MaxFaults
      BY DEF IInv, PageTypeOK
    <3> QED  BY <2>6, <3>1, <3>2, ServerInv DEF vars, ghosts, authVars
  <2> QED  BY <2>1, <2>2, <2>3, <2>4, <2>5, <2>6 DEF Next
<1> QED  BY <1>1, <1>2, PTL DEF Spec

\* Types: the page, its cache and jobs, and the two tables.
THEOREM TypeCorrect == Spec => []TypeOK
BY Invariant, IInvTypes, PTL

\* Disputes and evidence are recorded for wallets that hold a good token of the
\* dispute's own trade and were a party when, or after, its row was read, whatever
\* tokens are about and however often trades are created again with other parties
\* (the party gate of server.ts).
THEOREM Parties == Spec => []RecordedForParties
<1>1. IInv => RecordedForParties
  BY DEF IInv, Recorded
<1> QED  BY <1>1, Invariant, PTL

\* What is done in a seat is recorded for its wallet through any number of
\* switches, unless another wallet signed for the seat between the click and the
\* prompt (resolution-center.tsx, proveFor and partyCacheKey).
THEOREM OwnSeat == Spec => []RecordedForSeat
<1>1. IInv => RecordedForSeat
  BY DEF IInv, Recorded
<1> QED  BY <1>1, Invariant, PTL


-----------------------------------------------------------------------------
(* That a refused token is forgotten takes more: a token is in one cell of  *)
(* the cache at most, a job that bears it would drop it from that cell, and *)
(* a token just minted is nowhere else.                                     *)

Bearing(j)  == jobs[j].phase \in {"write", "written", "refused"}
Answered(r) == Verifying(r, "answered") /\ requests[r].answer = "ok"

CachedOnce ==
    \A k1, k2 \in Seats \X Trades : cache[k1] = cache[k2] => k1 = k2 \/ cache[k1] = NoToken

\* A job that bears a cached token was clicked in the seat it is cached for.
BorneAsCached ==
    \A j \in Jobs : Bearing(j) =>
        \A k \in Seats \X Trades :
            cache[k] = jobs[j].token => k = <<jobs[j].click.seat, jobs[j].click.trade>>

\* A token that no job has read yet is nobody's.
AnswersFresh ==
    \A r \in Requesters : Answered(r) =>
        /\ requests[r].token \notin refused
        /\ \A k \in Seats \X Trades : cache[k] # requests[r].token
        /\ \A j \in Jobs : Bearing(j) => jobs[j].token # requests[r].token
        /\ \A q \in Requesters \ {r} : Answered(q) => requests[q].token # requests[r].token

Forgotten == RefusedForgotten /\ CachedOnce /\ BorneAsCached /\ AnswersFresh

FreshInv == IInv /\ Forgotten

\* The empty cell holds no token.
LEMMA NoTokenIsNone == NoToken \notin Token
BY DEF NoToken, Token

\* What is in the hands of the page has been minted.
LEMMA PossessionsMinted ==
    ASSUME IInv
    PROVE  /\ NoToken \notin minted /\ refused \subseteq minted
           /\ \A k \in Seats \X Trades : cache[k] # NoToken => cache[k] \in minted
           /\ \A j \in Jobs : Bearing(j) => jobs[j].token \in minted
           /\ \A r \in Requesters : Answered(r) => requests[r].token \in minted
<1>1. NoToken \notin minted /\ refused \subseteq minted
  BY NoTokenIsNone DEF IInv, AuthInv, AuthTypeOK, PageTypeOK
<1>2. \A k \in Seats \X Trades : cache[k] # NoToken => cache[k] \in minted
  BY DEF IInv, CacheSound, Held
<1>3. \A j \in Jobs : Bearing(j) => jobs[j].token \in minted
  BY DEF IInv, JobsSound, JobSound, Held, Bearing
<1>4. \A r \in Requesters : Answered(r) => requests[r].token \in minted
  BY DEF IInv, AuthInv, AnswersMinted, Answered
<1> QED  BY <1>1, <1>2, <1>3, <1>4

\* A step that neither fills a cell nor hands a token to a job or an answer.
LEMMA FreshFrame ==
    ASSUME Forgotten, UNCHANGED <<cache, refused>>,
           \A j \in Jobs : Bearing(j)' =>
               /\ Bearing(j)
               /\ jobs'[j].token = jobs[j].token /\ jobs'[j].click = jobs[j].click,
           \A r \in Requesters : Answered(r)' =>
               Answered(r) /\ requests'[r].token = requests[r].token
    PROVE  Forgotten'
<1>1. RefusedForgotten' /\ CachedOnce'
  BY DEF Forgotten, RefusedForgotten, CachedOnce
<1>2. BorneAsCached'
  BY DEF Forgotten, BorneAsCached
<1>3. AnswersFresh'
  BY DEF Forgotten, AnswersFresh
<1> QED  BY <1>1, <1>2, <1>3 DEF Forgotten

\* A job that goes on without a token, or with the one it had.
LEMMA BearingFrame ==
    ASSUME IInv, NEW j \in Jobs, NEW next \in Job \cup {NoJob}, Goes(j, next),
           next.phase \in {"write", "written", "refused"} =>
               Bearing(j) /\ next.token = jobs[j].token /\ next.click = jobs[j].click
    PROVE  \A k \in Jobs : Bearing(k)' =>
               /\ Bearing(k)
               /\ jobs'[k].token = jobs[k].token /\ jobs'[k].click = jobs[k].click
<1>1. jobs'[j] = next /\ \A k \in Jobs \ {j} : jobs'[k] = jobs[k]
  BY DEF Goes, IInv, JobsSound
<1> QED  BY <1>1 DEF Bearing

\* Requests that stay as they are, or are not answered with a token.
LEMMA AnsweredFrame ==
    ASSUME \A r \in Requesters : requests'[r] = requests[r] \/ ~Answered(r)'
    PROVE  \A r \in Requesters : Answered(r)' =>
               Answered(r) /\ requests'[r].token = requests[r].token
BY DEF Answered, Verifying

\* A click takes a token out of the one cell it is in.
LEMMA ClickFresh ==
    ASSUME FreshInv, ClickFlag \/ ClickAnchor
    PROVE  Forgotten'
<1>1. PICK j \in Jobs, click \in Click : Begins(j, click)
  <2>1. CASE ClickFlag
    <3> DEFINE click == [seat |-> wallet, trade |-> flagTrade, dispute |-> NoDispute]
    <3>1. "flag" \in Jobs /\ click \in Click
      BY <2>1, ResolutionCenterAssumption
      DEF ClickFlag, FreshInv, IInv, PageTypeOK, Seats, Jobs, Click
    <3> QED  BY <2>1, <3>1 DEF ClickFlag
  <2>2. CASE ClickAnchor
    <3>1. PICK d \in Selected :
             Begins("evidence", [seat |-> wallet, trade |-> d.trade, dispute |-> d.id])
      BY <2>2 DEF ClickAnchor
    <3>2. d \in Filed /\ d.trade \in PartyTrades(wallet)
      BY <3>1 DEF Selected, FreshInv, IInv, PageTypeOK
    <3>3. "evidence" \in Jobs /\ wallet \in Wallets /\ d.trade \in Trades
      BY <3>2, ResolutionCenterAssumption
      DEF Filed, Jobs, PartyTrades, TradesOf, FreshInv, IInv, PageTypeOK
    <3>4. [seat |-> wallet, trade |-> d.trade, dispute |-> d.id] \in Click
      BY <3>2, <3>3 DEF Filed, Click
    <3> QED  BY <3>1, <3>3, <3>4
  <2> QED  BY <2>1, <2>2
<1> DEFINE key == <<click.seat, click.trade>>
<1>2. key \in Seats \X Trades
  BY DEF Click, Seats
<1>3. /\ UNCHANGED <<requests, cache, refused>>
      /\ Goes(j, IF cache[key] # NoToken
                 THEN [phase |-> "write", click |-> click, token |-> cache[key]]
                 ELSE [phase |-> "challenge", click |-> click])
  BY <1>1 DEF Begins, CacheKey, authVars, tableVars, ghosts
<1>4. \A k \in Jobs \ {j} : jobs'[k] = jobs[k]
  BY <1>3 DEF Goes, FreshInv, IInv, JobsSound
<1>5. Bearing(j)' => /\ cache[key] # NoToken
                     /\ jobs'[j].token = cache[key] /\ jobs'[j].click = click
  BY <1>3 DEF Goes, Bearing, FreshInv, IInv, JobsSound
<1>6. RefusedForgotten' /\ CachedOnce'
  BY <1>3 DEF FreshInv, Forgotten, RefusedForgotten, CachedOnce
<1>7. BorneAsCached'
  <2>1. ASSUME Bearing(j)', NEW k \in Seats \X Trades, cache[k] = cache[key]
        PROVE  k = key
    BY <1>2, <1>5, <2>1 DEF FreshInv, Forgotten, CachedOnce
  <2> QED  BY <1>3, <1>4, <1>5, <2>1 DEF FreshInv, Forgotten, BorneAsCached, Bearing
<1>8. AnswersFresh'
  BY <1>2, <1>3, <1>4, <1>5 DEF FreshInv, Forgotten, AnswersFresh, Bearing, Answered, Verifying
<1> QED  BY <1>6, <1>7, <1>8 DEF Forgotten

\* The answer just read is nobody else's: it may fill the cell of the seat.
LEMMA ProvedFresh ==
    ASSUME FreshInv, NEW j \in Jobs, Proved(j)
    PROVE  Forgotten'
<1> DEFINE token == requests[j].token
           key == <<Of(j).seat, Of(j).trade>>
           next == [phase |-> "write", click |-> Of(j), token |-> token]
<1>1. /\ In(j, "verify") /\ Verifying(j, "answered") /\ Conclude(j) /\ j \in Requesters
      /\ UNCHANGED refused
      /\ \/ /\ requests[j].answer = "ok"
            /\ cache' = [cache EXCEPT ![key] = token]
            /\ Goes(j, next)
         \/ Ends(j) /\ UNCHANGED cache
  BY DEF Proved, CacheKey, Jobs
<1>2. IInv /\ Forgotten
  BY DEF FreshInv
<1>3. /\ \A r \in Requesters \ {j} : requests'[r] = requests[r]
      /\ requests'[j] = NoVerification
  BY <1>1, <1>2 DEF Conclude, IInv, AuthInv, AuthTypeOK
<1>4. \A r \in Requesters : requests'[r] = requests[r] \/ ~Answered(r)'
  BY <1>3 DEF Answered, Verifying, NoVerification
<1>5. CASE Ends(j) /\ UNCHANGED cache
  <2>1. \A k \in Jobs : Bearing(k)' =>
            /\ Bearing(k)
            /\ jobs'[k].token = jobs[k].token /\ jobs'[k].click = jobs[k].click
    BY <1>2, <1>5, BearingFrame DEF Ends, NoJob
  <2> QED  BY <1>1, <1>2, <1>4, <1>5, <2>1, AnsweredFrame, FreshFrame
<1>6. CASE /\ requests[j].answer = "ok"
           /\ cache' = [cache EXCEPT ![key] = token]
           /\ Goes(j, next)
  <2>1. Answered(j)
    BY <1>1, <1>6 DEF Answered
  <2>2. key \in Seats \X Trades
    <3>1. Of(j) \in Click
      BY <1>1, <1>2, JobTypes DEF In
    <3> QED  BY <3>1 DEF Click, Seats
  <2>3. cache'[key] = token /\ \A k \in Seats \X Trades : k # key => cache'[k] = cache[k]
    BY <1>2, <1>6, <2>2 DEF IInv, PageTypeOK
  <2>4. DOMAIN cache' = Seats \X Trades /\ DOMAIN cache = Seats \X Trades
    BY <1>2, <1>6 DEF IInv, PageTypeOK
  <2>5. /\ token \notin refused
        /\ \A k \in Seats \X Trades : cache[k] # token
        /\ \A k \in Jobs : Bearing(k) => jobs[k].token # token
        /\ \A q \in Requesters \ {j} : Answered(q) => requests[q].token # token
    BY <1>1, <1>2, <2>1 DEF Forgotten, AnswersFresh
  <2>6. jobs'[j] = next /\ \A k \in Jobs \ {j} : jobs'[k] = jobs[k]
    BY <1>2, <1>6 DEF Goes, IInv, JobsSound
  <2>7. RefusedForgotten'
    BY <1>1, <1>2, <2>3, <2>4, <2>5 DEF Forgotten, RefusedForgotten
  <2>8. CachedOnce'
    BY <1>2, <2>2, <2>3, <2>5 DEF Forgotten, CachedOnce
  <2>9. BorneAsCached'
    <3>1. ASSUME NEW k \in Seats \X Trades, cache'[k] = token PROVE k = key
      BY <2>3, <2>5, <3>1
    <3>2. ASSUME NEW i \in Jobs \ {j}, Bearing(i), NEW k \in Seats \X Trades,
                 cache'[k] = jobs[i].token
          PROVE  k = <<jobs[i].click.seat, jobs[i].click.trade>>
      <4>1. k # key /\ cache[k] = jobs[i].token
        BY <2>3, <2>5, <3>2
      <4> QED  BY <1>2, <3>2, <4>1 DEF Forgotten, BorneAsCached
    <3>3. jobs'[j].token = token /\ jobs'[j].click = Of(j)
      BY <2>6
    <3> QED  BY <2>6, <3>1, <3>2, <3>3 DEF BorneAsCached, Bearing
  <2>10. AnswersFresh'
    <3>1. ASSUME NEW r \in Requesters, Answered(r)'
          PROVE  r # j /\ Answered(r) /\ requests'[r] = requests[r]
      BY <1>3, <3>1 DEF Answered, Verifying, NoVerification
    <3>2. ASSUME NEW r \in Requesters, Answered(r)'
          PROVE  requests[r].token # token
      BY <2>5, <3>1, <3>2
    <3>3. jobs'[j].token = token
      BY <2>6
    <3>4. ASSUME NEW r \in Requesters, Answered(r)', NEW i \in Jobs, Bearing(i)'
          PROVE  jobs'[i].token # requests'[r].token
      <4>1. CASE i = j
        BY <3>1, <3>2, <3>3, <3>4, <4>1
      <4>2. CASE i # j
        BY <1>2, <2>6, <3>1, <3>4, <4>2 DEF Forgotten, AnswersFresh, Bearing
      <4> QED  BY <4>1, <4>2
    <3>5. ASSUME NEW r \in Requesters, Answered(r)', NEW k \in Seats \X Trades
          PROVE  cache'[k] # requests'[r].token
      BY <1>2, <2>3, <3>1, <3>2, <3>5 DEF Forgotten, AnswersFresh
    <3>6. ASSUME NEW r \in Requesters, Answered(r)', NEW q \in Requesters \ {r}, Answered(q)'
          PROVE  requests'[q].token # requests'[r].token
      BY <1>2, <3>1, <3>6 DEF Forgotten, AnswersFresh
    <3>7. ASSUME NEW r \in Requesters, Answered(r)'
          PROVE  requests'[r].token \notin refused'
      BY <1>1, <1>2, <3>1, <3>7 DEF Forgotten, AnswersFresh
    <3> QED  BY <3>4, <3>5, <3>6, <3>7 DEF AnswersFresh
  <2> QED  BY <2>7, <2>8, <2>9, <2>10 DEF Forgotten
<1> QED  BY <1>1, <1>5, <1>6

\* A refused token is dropped from the one cell it can be in.
LEMMA RefusedFresh ==
    ASSUME FreshInv, NEW j \in Jobs, Refused(j)
    PROVE  Forgotten'
<1> DEFINE token == jobs[j].token
           key == <<Of(j).seat, Of(j).trade>>
<1>1. /\ In(j, "refused") /\ Ends(j) /\ UNCHANGED requests
      /\ cache' = [cache EXCEPT ![key] = NoToken]
      /\ refused' = refused \cup {token}
  BY DEF Refused, CacheKey, authVars
<1>2. IInv /\ Forgotten
  BY DEF FreshInv
<1>3. Bearing(j) /\ token \in minted
  BY <1>1, <1>2, PossessionsMinted DEF Bearing, In
<1>4. key \in Seats \X Trades
  <2>1. Of(j) \in Click
    BY <1>1, <1>2, JobTypes DEF In
  <2> QED  BY <2>1 DEF Click, Seats
<1>5. /\ cache'[key] = NoToken /\ \A k \in Seats \X Trades : k # key => cache'[k] = cache[k]
      /\ DOMAIN cache' = Seats \X Trades /\ DOMAIN cache = Seats \X Trades
  BY <1>1, <1>2, <1>4 DEF IInv, PageTypeOK
<1>6. \A k \in Jobs : Bearing(k)' => Bearing(k) /\ jobs'[k] = jobs[k]
  <2>1. jobs'[j] = NoJob /\ \A k \in Jobs \ {j} : jobs'[k] = jobs[k]
    BY <1>1, <1>2 DEF Ends, Goes, IInv, JobsSound
  <2> QED  BY <2>1 DEF Bearing, NoJob
<1>7. \A k \in Seats \X Trades : cache[k] = token => k = key
  BY <1>2, <1>3 DEF Forgotten, BorneAsCached, Of
<1>8. RefusedForgotten'
  <2>1. NoToken \notin refused'
    BY <1>1, <1>2, <1>3, PossessionsMinted
  <2>2. ASSUME NEW k \in Seats \X Trades, k # key PROVE cache'[k] \notin refused'
    BY <1>1, <1>2, <1>5, <1>7, <2>2 DEF Forgotten, RefusedForgotten
  <2> QED  BY <1>5, <2>1, <2>2 DEF RefusedForgotten
<1>9. CachedOnce'
  BY <1>2, <1>4, <1>5 DEF Forgotten, CachedOnce
<1>10. BorneAsCached'
  <2>1. ASSUME NEW i \in Jobs, Bearing(i)', NEW k \in Seats \X Trades,
               cache'[k] = jobs'[i].token
        PROVE  k = <<jobs'[i].click.seat, jobs'[i].click.trade>>
    <3>1. Bearing(i) /\ jobs'[i] = jobs[i] /\ jobs[i].token # NoToken
      BY <1>2, <1>6, <2>1, PossessionsMinted
    <3>2. cache[k] = jobs[i].token
      BY <1>5, <2>1, <3>1
    <3> QED  BY <1>2, <3>1, <3>2 DEF Forgotten, BorneAsCached
  <2> QED  BY <2>1 DEF BorneAsCached
<1>11. AnswersFresh'
  <2>1. ASSUME NEW r \in Requesters, Answered(r)'
        PROVE  /\ Answered(r) /\ requests'[r] = requests[r]
               /\ requests[r].token \in minted /\ requests[r].token # token
    BY <1>1, <1>2, <1>3, <2>1, PossessionsMinted
    DEF Forgotten, AnswersFresh, Answered, Verifying
  <2>2. ASSUME NEW r \in Requesters, Answered(r)', NEW k \in Seats \X Trades
        PROVE  cache'[k] # requests'[r].token
    BY <1>2, <1>5, <2>1, <2>2, PossessionsMinted DEF Forgotten, AnswersFresh
  <2>3. ASSUME NEW r \in Requesters, Answered(r)', NEW i \in Jobs, Bearing(i)'
        PROVE  jobs'[i].token # requests'[r].token
    BY <1>2, <1>6, <2>1, <2>3 DEF Forgotten, AnswersFresh
  <2>4. ASSUME NEW r \in Requesters, Answered(r)'
        PROVE  requests'[r].token \notin refused'
    BY <1>1, <1>2, <2>1, <2>4 DEF Forgotten, AnswersFresh
  <2>5. ASSUME NEW r \in Requesters, Answered(r)', NEW q \in Requesters \ {r}, Answered(q)'
        PROVE  requests'[q].token # requests'[r].token
    BY <1>2, <2>1, <2>5 DEF Forgotten, AnswersFresh
  <2> QED  BY <2>2, <2>3, <2>4, <2>5 DEF AnswersFresh
<1> QED  BY <1>8, <1>9, <1>10, <1>11 DEF Forgotten

\* A token just minted is in nobody's hands.
LEMMA MintedFresh ==
    ASSUME FreshInv, NEW j \in Jobs, Mint(j), UNCHANGED <<pageVars, ghosts>>
    PROVE  Forgotten'
<1>1. IInv /\ Forgotten /\ AuthInv /\ j \in Requesters /\ UNCHANGED <<cache, jobs, refused>>
  BY DEF FreshInv, IInv, Jobs, pageVars, ghosts
<1>2. /\ \A q \in Requesters \ {j} : requests'[q] = requests[q]
      /\ requests'[j].answer = "ok" => requests'[j].token \notin minted
  BY <1>1, MintFresh
<1>3. RefusedForgotten' /\ CachedOnce' /\ BorneAsCached'
  BY <1>1 DEF Forgotten, RefusedForgotten, CachedOnce, BorneAsCached, Bearing
<1>4. ASSUME Answered(j)'
      PROVE  /\ requests'[j].token \notin refused
             /\ \A k \in Seats \X Trades : cache[k] # requests'[j].token
             /\ \A i \in Jobs : Bearing(i) => jobs[i].token # requests'[j].token
             /\ \A q \in Requesters \ {j} : Answered(q) => requests[q].token # requests'[j].token
  <2>1. requests'[j].token \notin minted
    BY <1>2, <1>4 DEF Answered
  <2>2. requests'[j].token \in Token
    BY <1>1, <1>4, MintInv DEF AuthInv, AuthTypeOK, AnswersMinted, Answered
  <2>3. requests'[j].token # NoToken
    BY <2>2, NoTokenIsNone
  <2> QED  BY <1>1, <2>1, <2>3, PossessionsMinted
<1>5. \A r \in Requesters \ {j} : Answered(r)' <=> Answered(r)
  BY <1>2 DEF Answered, Verifying
<1>6. AnswersFresh'
  BY <1>1, <1>2, <1>4, <1>5 DEF Forgotten, AnswersFresh, Bearing
<1> QED  BY <1>3, <1>6 DEF Forgotten


\* Every step keeps refused tokens forgotten.
LEMMA ForgottenStep == FreshInv /\ [Next]_vars => Forgotten'
<1> SUFFICES ASSUME FreshInv, [Next]_vars PROVE Forgotten'
  OBVIOUS
<1> USE DEF ghosts, tableVars
<1>1. IInv /\ Forgotten
  BY DEF FreshInv
<1>2. ASSUME UNCHANGED <<cache, jobs, refused, requests>>
      PROVE  Forgotten'
  BY <1>1, <1>2, FreshFrame DEF Bearing, Answered, Verifying
<1>3. CASE \/ \E w \in Seats : WalletBecomes(w)
           \/ \E t \in Trades : ChooseTrade(t)
           \/ \E d \in filed : Select(d)
           \/ HashDocument \/ Load
  <2>1. UNCHANGED <<cache, jobs, refused, requests>>
    BY <1>3 DEF WalletBecomes, ChooseTrade, Select, HashDocument, Load, Loads, authVars
  <2> QED  BY <1>2, <2>1
<1>4. CASE ClickFlag \/ ClickAnchor
  BY <1>4, ClickFresh
<1>5. ASSUME NEW j \in Jobs, NEW next \in Job \cup {NoJob}, Goes(j, next),
             UNCHANGED <<cache, refused>>,
             \A r \in Requesters : requests'[r] = requests[r] \/ ~Answered(r)',
             next.phase \in {"write", "written", "refused"} =>
                 Bearing(j) /\ next.token = jobs[j].token /\ next.click = jobs[j].click
      PROVE  Forgotten'
  <2>1. \A k \in Jobs : Bearing(k)' =>
            /\ Bearing(k)
            /\ jobs'[k].token = jobs[k].token /\ jobs'[k].click = jobs[k].click
    BY <1>1, <1>5, BearingFrame
  <2>2. \A r \in Requesters : Answered(r)' =>
            Answered(r) /\ requests'[r].token = requests[r].token
    BY <1>5, AnsweredFrame
  <2> QED  BY <1>1, <1>5, <2>1, <2>2, FreshFrame
<1>6. ASSUME NEW j \in Jobs, ReceiveChallenge(j)
      PROVE  Forgotten'
  <2>1. Of(j) \in Click
    BY <1>1, <1>6, JobTypes DEF ReceiveChallenge, In
  <2>2. NewChallenge(Of(j).trade) \in Challenge
    <3>1. Of(j).trade \in Trades
      BY <2>1 DEF Click
    <3>2. issued + 1 \in 1 .. MaxChallenges /\ now + ChallengeTtl \in Nat
      BY <1>1, <1>6, Numbers, WalletAuthAssumption DEF ReceiveChallenge, CreateChallenge
    <3> QED  BY <3>1, <3>2 DEF NewChallenge, Challenge
  <2>3. PICK next : /\ next \in Job \cup {NoJob} /\ Goes(j, next)
                    /\ next.phase \notin {"write", "written", "refused"}
    <3>1. CASE wallet = NoWallet
      BY <1>6, <3>1 DEF ReceiveChallenge, Ends, NoJob
    <3>2. CASE wallet # NoWallet
      <4> DEFINE next == [phase |-> "prompt", click |-> Of(j), account |-> wallet,
                          challenge |-> NewChallenge(Of(j).trade)]
      <4>1. wallet \in Wallets
        BY <1>1, <3>2 DEF IInv, PageTypeOK, Seats
      <4>2. next \in Job /\ Goes(j, next)
        BY <1>6, <2>1, <2>2, <3>2, <4>1 DEF ReceiveChallenge, Job
      <4> QED  BY <4>2
    <3> QED  BY <3>1, <3>2
  <2>4. UNCHANGED <<cache, refused, requests>>
    BY <1>6 DEF ReceiveChallenge
  <2> QED  BY <1>5, <2>3, <2>4
<1>7. ASSUME NEW j \in Jobs, SignChallenge(j)
      PROVE  Forgotten'
  <2> DEFINE next == [phase |-> "verify", click |-> Of(j), account |-> jobs[j].account]
  <2>1. Of(j) \in Click /\ jobs[j].account \in Wallets
    BY <1>1, <1>7, JobTypes DEF SignChallenge, In
  <2>2. next \in Job /\ Goes(j, next) /\ UNCHANGED <<cache, refused>>
    BY <1>7, <2>1 DEF SignChallenge, Job
  <2>3. /\ \A r \in Requesters \ {j} : requests'[r] = requests[r]
        /\ requests'[j].pc = "presented"
    BY <1>1, <1>7 DEF SignChallenge, Present, IInv, AuthInv, AuthTypeOK, Jobs
  <2>4. \A r \in Requesters : requests'[r] = requests[r] \/ ~Answered(r)'
    BY <2>3 DEF Answered, Verifying
  <2> QED  BY <1>5, <2>2, <2>4
<1>8. ASSUME NEW j \in Jobs, RefuseToSign(j) \/ Loaded(j) \/ JobFails(j)
      PROVE  Forgotten'
  <2>1. Ends(j) /\ UNCHANGED <<cache, refused>> /\ (UNCHANGED requests \/ Conclude(j))
    BY <1>8 DEF RefuseToSign, Loaded, JobFails, authVars
  <2>2. Conclude(j) => /\ \A r \in Requesters \ {j} : requests'[r] = requests[r]
                       /\ requests'[j] = NoVerification
    BY <1>1 DEF Conclude, IInv, AuthInv, AuthTypeOK, Jobs
  <2>3. \A r \in Requesters : requests'[r] = requests[r] \/ ~Answered(r)'
    BY <2>1, <2>2 DEF Answered, Verifying, NoVerification
  <2> QED  BY <1>5, <2>1, <2>3 DEF Ends, NoJob
<1>9. ASSUME NEW j \in Jobs, Write(j)
      PROVE  Forgotten'
  <2>1. /\ jobs[j] \in [phase : {"write", "written", "refused"}, click : Click, token : Token]
        /\ Bearing(j)
    BY <1>1, <1>9, JobTypes DEF Write, In, Job, NoJob, Bearing
  <2>2. PICK phase \in {"written", "refused"} : Goes(j, [jobs[j] EXCEPT !.phase = phase])
    BY <1>9 DEF Write
  <2> DEFINE next == [jobs[j] EXCEPT !.phase = phase]
  <2>3. next \in Job /\ next.token = jobs[j].token /\ next.click = jobs[j].click
    BY <2>1 DEF Job
  <2>4. UNCHANGED <<cache, refused, requests>>
    BY <1>9 DEF Write
  <2> HIDE DEF next
  <2> QED  BY <1>5, <2>1, <2>2, <2>3, <2>4 DEF next
<1>10. ASSUME NEW j \in Jobs, Written(j)
       PROVE  Forgotten'
  <2> DEFINE next == [phase |-> "loading", click |-> Of(j)]
  <2>1. next \in Job
    BY <1>1, <1>10, JobTypes DEF Written, In, Job
  <2>2. Goes(j, next) /\ UNCHANGED <<cache, refused, requests>>
    BY <1>10 DEF Written, authVars
  <2> QED  BY <1>5, <2>1, <2>2
<1>11. ASSUME NEW j \in Jobs, Consume(j), UNCHANGED <<pageVars, tableVars, ghosts>>
       PROVE  Forgotten'
  <2>1. /\ \A r \in Requesters \ {j} : requests'[r] = requests[r]
        /\ \/ requests'[j].pc = "recovering"
           \/ requests'[j].pc = "answered" /\ requests'[j].answer = "failed"
    <3>1. requests \in [Requesters -> Verification \cup {NoVerification}] /\ j \in Requesters
      BY <1>1 DEF IInv, AuthInv, AuthTypeOK, Jobs
    <3> QED  BY <1>11, <3>1 DEF Consume, Answer, Recover
  <2>2. \A r \in Requesters : requests'[r] = requests[r] \/ ~Answered(r)'
    BY <2>1 DEF Answered, Verifying
  <2> QED
    BY <1>1, <1>11, <2>2, AnsweredFrame, FreshFrame DEF pageVars, Bearing
<1>12. CASE Restart
  <2>1. \A r \in Requesters : requests'[r] = requests[r] \/ requests'[r].answer = "failed"
    BY <1>12 DEF Restart, RestartServer
  <2>2. \A r \in Requesters : requests'[r] = requests[r] \/ ~Answered(r)'
    BY <2>1 DEF Answered, Verifying
  <2>3. UNCHANGED <<cache, jobs, refused>>
    BY <1>12 DEF Restart, pageVars
  <2> QED
    BY <1>1, <2>2, <2>3, AnsweredFrame, FreshFrame DEF Bearing
<1>13. CASE \/ WriteElsewhere \/ CreateAgain
            \/ ServerTick /\ UNCHANGED <<pageVars, tableVars, ghosts>>
            \/ UNCHANGED vars
  <2>1. UNCHANGED <<cache, jobs, refused, requests>>
    BY <1>13 DEF WriteElsewhere, CreateAgain, Recreate, ServerTick, vars, authVars, pageVars
  <2> QED  BY <1>2, <2>1
<1>14. CASE \E j \in Jobs : JobStep(j) \/ JobFails(j)
  BY <1>6, <1>7, <1>8, <1>9, <1>10, <1>14, ProvedFresh, RefusedFresh DEF JobStep
<1>15. CASE \E j \in Jobs : (Consume(j) \/ Mint(j)) /\ UNCHANGED <<pageVars, tableVars, ghosts>>
  BY <1>11, <1>15, MintedFresh
<1> QED  BY <1>3, <1>4, <1>12, <1>13, <1>14, <1>15 DEF Next

\* A token the API was seen to refuse is in no cell of the cache any more, so the
\* next attempt proves anew (resolution-center.tsx, dropPartyToken).
THEOREM RefusedIsForgotten == Spec => []RefusedForgotten
<1>1. Init => Forgotten
  <2> SUFFICES ASSUME Init PROVE Forgotten
    OBVIOUS
  <2>1. RefusedForgotten /\ CachedOnce
    BY DEF Init, RefusedForgotten, CachedOnce
  <2>2. BorneAsCached /\ AnswersFresh
    BY DEF Init, AuthInit, BorneAsCached, AnswersFresh, Bearing, Answered, Verifying,
       NoJob, NoVerification
  <2> QED  BY <2>1, <2>2 DEF Forgotten
<1>2. IInv /\ IInv' /\ Forgotten /\ [Next]_vars => Forgotten'
  BY ForgottenStep DEF FreshInv
<1>3. Forgotten => RefusedForgotten
  BY DEF Forgotten
<1>4. Spec => []Forgotten
  BY <1>1, <1>2, Invariant, PTL DEF Spec
<1> QED  BY <1>3, <1>4, PTL

=============================================================================
