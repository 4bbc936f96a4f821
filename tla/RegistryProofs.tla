---------------------------- MODULE RegistryProofs ----------------------------
(***************************************************************************)
(* What the release path keeps, for any number of trades, keys, requests   *)
(* in flight, parties' standings, failures and any interleaving of them:   *)
(* under the handlers of the server and under the scheduler's ticks.       *)
(*                                                                         *)
(* The invariant follows one request: the key it has reserved is its own,  *)
(* the nonce it has consumed is its own, what its decision claims is in    *)
(* the tables before the outcome is, and the row it will write back marks  *)
(* nothing released that was not authorized.                               *)
(*                                                                         *)
(* The last part is about one trade from the request to the payment: what  *)
(* the escrow, the page and the evidence desk make of the rows and of the  *)
(* signatures of the server.                                               *)
(***************************************************************************)
EXTENDS AutoRelease, StoredRows, Settlement, FiniteSetTheorems, SequenceTheorems, TLAPS

-----------------------------------------------------------------------------
(* Rows.                                                                   *)

Released(trade, m) == trade.milestones[m].status = "RELEASED"

\* RowConsistent, of one row; and the digest of the checks is on released
\* milestones only.
Consistent(trade) ==
    /\ \A m \in Milestones :
          Released(trade, m) \/ trade.milestones[m].evidence \in Digests \cup {NoDigest}
    /\ Released(trade, 2) => Released(trade, 1)
    /\ Released(trade, 2) <=> trade.status = "COMPLETE"
    /\ Released(trade, 1) => trade.status \in {"ACTIVE", "COMPLETE", "HOLD"}
    /\ trade.status = "ACTIVE" => Released(trade, 1)

\* ReleasedMeansAuthorized, of one row.
Authorized(t, trade) ==
    \A m \in Milestones :
        Released(trade, m) => \E r \in releases : r.trade = t /\ r.milestone = m

SoundRow(t, trade) == Consistent(trade) /\ Authorized(t, trade)

RowsSound ==
    /\ \A t \in Trades : SoundRow(t, trades[t])
    /\ \A e \in Editors :
          editors[e] # NoEdit => SoundRow(editors[e].trade, editors[e].row)

-----------------------------------------------------------------------------
(* Requests in flight.                                                     *)

\* A request that holds the key it reserved.
Holding == {"check", "nonce", "consume", "record", "save", "audit", "store"}

\* ... and has recorded nothing under it.
Unrecorded == {"check", "nonce", "consume", "record"}

\* ... and works on an allowed decision.
Signing == {"nonce", "consume", "record", "save"}

NonceOf(att) == <<att.trade, att.milestone, att.nonce>>

ReleaseOf(att) ==
    [trade |-> att.trade, milestone |-> att.milestone, nonce |-> att.nonce, key |-> att.key]

OutcomeOf(att) ==
    [trade |-> att.trade, milestone |-> att.milestone, key |-> att.key,
     decision |-> att.decision, nonce |-> att.nonce]

KeySound(att) ==
    /\ att.pc \in Holding => att.key \in reserved /\ results[att.key] = {}
    /\ att.pc \in Unrecorded => \A r \in releases : r.key # att.key

DecisionSound(att) ==
    /\ att.pc \in {"lookup", "reserve", "check"} => att.decision = "denied"
    /\ att.pc \in Signing =>
          att.decision = "allowed" /\ DecideRelease(att.row, att.milestone, TRUE)
    /\ att.pc \in {"consume", "record", "save"} => att.nonce \in Nonces
    /\ att.pc = "record" =>
          /\ NonceOf(att) \in nonces
          /\ \A r \in releases : <<r.trade, r.milestone, r.nonce>> # NonceOf(att)
    /\ att.pc \in {"save", "audit", "store"} /\ att.decision = "allowed" =>
          ReleaseOf(att) \in releases
    /\ att.pc = "store" => OutcomeOf(att) \in audits

\* Nobody who was checked and passed is among those who never were eligible.
CheckSound(att) ==
    /\ att.barred \cap eligible = {}
    /\ att.pc \in {"lookup", "reserve"} => att.asked = 0
    /\ att.pc = "check" =>
          /\ att.asked < 4
          /\ att.clear => \A i \in 1 .. att.asked : Checked[i] \notin att.barred

AttemptSound(att) ==
    /\ KeySound(att) /\ DecisionSound(att) /\ CheckSound(att)
    /\ SoundRow(att.trade, att.row)

\* Two requests do not hold one key or one nonce.
Apart(x, y) ==
    /\ x.pc \in Holding /\ y.pc \in Holding => x.key # y.key
    /\ x.pc = "record" /\ y.pc = "record" => NonceOf(x) # NonceOf(y)

AttemptsSound ==
    /\ \A a \in Attempts : InFlight(a) => AttemptSound(attempts[a])
    /\ \A a, b \in Attempts : a # b => Apart(attempts[a], attempts[b])

-----------------------------------------------------------------------------
TablesSound ==
    /\ \A r \in releases :
          r.key \in reserved /\ <<r.trade, r.milestone, r.nonce>> \in nonces
    /\ \A k \in Keys : results[k] # {} => k \in reserved
    /\ OneReleasePerKey /\ NonceUsedOnce /\ OutcomeBacked

IInv == TypeOK /\ RowsSound /\ AttemptsSound /\ TablesSound

-----------------------------------------------------------------------------
\* The invariant contains what the registry promises of its rows.
LEMMA RowPromises == IInv => RowConsistent /\ ReleasedMeansAuthorized
BY DEF IInv, RowsSound, SoundRow, Consistent, Authorized, Released, RowConsistent,
       ReleasedMeansAuthorized, Milestones

-----------------------------------------------------------------------------
(* What the rules do to rows.                                              *)

\* A trade that is created is a row of the table, and consistent.
LEMMA CreatedRow ==
    ASSUME NEW bound \in BOOLEAN
    PROVE  /\ CreateTrade(bound) \in Trade
           /\ Consistent(CreateTrade(bound))
           /\ \A m \in Milestones : ~Released(CreateTrade(bound), m)
BY DEF CreateTrade, Trade, Milestone, TradeStatus, Milestones, Consistent, Released

\* Funding, anchoring and holding keep a row consistent, release nothing, and
\* leave a released milestone as it is.
LEMMA EditedRow ==
    ASSUME NEW trade \in Trade, NEW next,
           \/ next = MarkFunded(trade)
           \/ next = EnterHold(trade)
           \/ \E m \in Milestones, digest \in Digests :
                 next = AnchorMilestoneEvidence(trade, m, digest)
    PROVE  /\ next \in Trade
           /\ Consistent(trade) => Consistent(next)
           /\ \A m \in Milestones : Released(next, m) <=> Released(trade, m)
           /\ \A m \in Milestones :
                 Released(trade, m) => next.milestones[m] = trade.milestones[m]
<1>1. CASE next = MarkFunded(trade)
  BY <1>1 DEF MarkFunded, Trade, Milestone, TradeStatus, Milestones, Consistent, Released
<1>2. CASE next = EnterHold(trade)
  BY <1>2 DEF EnterHold, Trade, Milestone, TradeStatus, Milestones, Consistent, Released
<1>3. ASSUME NEW m \in Milestones, NEW digest \in Digests,
             next = AnchorMilestoneEvidence(trade, m, digest)
      PROVE  /\ next \in Trade
             /\ Consistent(trade) => Consistent(next)
             /\ \A n \in Milestones : Released(next, n) <=> Released(trade, n)
             /\ \A n \in Milestones :
                   Released(trade, n) => next.milestones[n] = trade.milestones[n]
  BY <1>3 DEF AnchorMilestoneEvidence, Trade, Milestone, TradeStatus, Milestones,
              Consistent, Released
<1> QED  BY <1>1, <1>2, <1>3

\* Releasing the milestone decideRelease allowed keeps a row consistent.
LEMMA ReleasedRow ==
    ASSUME NEW trade \in Trade, NEW m \in Milestones, Consistent(trade),
           DecideRelease(trade, m, TRUE)
    PROVE  LET next == MarkMilestoneReleased(trade, m)
           IN  /\ next \in Trade
               /\ Consistent(next)
               /\ \A n \in Milestones \ {m} : next.milestones[n] = trade.milestones[n]
BY DEF DecideRelease, MarkMilestoneReleased, Trade, Milestone, TradeStatus, Milestones,
       Consistent, Released

-----------------------------------------------------------------------------
\* At the start nothing is in flight and nothing was ever released.
LEMMA InitIInv == Init => IInv
<1> SUFFICES ASSUME Init PROVE IInv
  OBVIOUS
<1>1. TypeOK
  <2>1. trades \in [Trades -> Trade]
    BY CreatedRow DEF Init
  <2>2. failures \in 0 .. MaxFailures
    BY RegistryAssumption DEF Init
  <2>3. eligible \subseteq Parties
    BY RegistryAssumption DEF Init
  <2> QED  BY <2>1, <2>2, <2>3 DEF Init, TypeOK, Idle, NoEdit
<1>2. RowsSound
  BY CreatedRow DEF Init, RowsSound, SoundRow, Authorized
<1>3. AttemptsSound
  BY DEF Init, AttemptsSound, InFlight, Apart, Idle, Holding
<1>4. TablesSound
  BY DEF Init, TablesSound, OneReleasePerKey, NonceUsedOnce, OutcomeBacked
<1> QED  BY <1>1, <1>2, <1>3, <1>4 DEF IInv

\* So it is when the server starts on funded trades with the scheduler on.
LEMMA AutoInitIInv == AutoInit => IInv
<1> SUFFICES ASSUME AutoInit PROVE IInv
  OBVIOUS
<1>0. ASSUME NEW t \in Trades
      PROVE  /\ trades[t] \in Trade /\ Consistent(trades[t])
             /\ \A m \in Milestones : ~Released(trades[t], m)
  BY CreatedRow, EditedRow DEF AutoInit
<1>1. TypeOK
  <2>1. trades \in [Trades -> Trade]
    BY <1>0 DEF AutoInit
  <2>2. failures \in 0 .. MaxFailures
    BY RegistryAssumption DEF AutoInit
  <2>3. eligible \subseteq Parties
    BY RegistryAssumption DEF AutoInit
  <2>4. editAudits \subseteq [operation : Operations, trade : Trades]
    BY DEF AutoInit, Operations
  <2> QED  BY <2>1, <2>2, <2>3, <2>4 DEF AutoInit, TypeOK, Idle, NoEdit
<1>2. RowsSound
  BY <1>0 DEF AutoInit, RowsSound, SoundRow, Authorized
<1>3. AttemptsSound
  BY DEF AutoInit, AttemptsSound, InFlight, Apart, Idle, Holding
<1>4. TablesSound
  BY DEF AutoInit, TablesSound, OneReleasePerKey, NonceUsedOnce, OutcomeBacked
<1> QED  BY <1>1, <1>2, <1>3, <1>4 DEF IInv

-----------------------------------------------------------------------------
(* One request moves on: what it means for the others.                     *)

\* A step of a's: tables only grow, and only by what a records or stores.
StepOf(a) ==
    /\ reserved \subseteq reserved' /\ nonces \subseteq nonces'
    /\ audits \subseteq audits' /\ releases \subseteq releases'
    /\ \A r \in releases' :
          r \in releases \/ (attempts[a].pc = "record" /\ r = ReleaseOf(attempts[a]))
    /\ \A k \in Keys :
          results'[k] = results[k] \/ (attempts[a].pc = "store" /\ k = attempts[a].key)
    /\ UNCHANGED eligible

\* What the type invariant says of a request in flight.
LEMMA AttemptFields ==
    ASSUME TypeOK, NEW a \in Attempts, InFlight(a)
    PROVE  /\ attempts[a] \in Attempt
           /\ attempts[a].trade \in Trades /\ attempts[a].milestone \in Milestones
           /\ attempts[a].key \in Keys /\ attempts[a].row \in Trade
           /\ attempts[a].barred \subseteq Parties
BY DEF TypeOK, InFlight, Attempt

Places == Holding \cup {"lookup", "reserve"}

\* Moving on keeps everything but the place.
LEMMA PcFields ==
    ASSUME NEW att \in Attempt, NEW pc \in Places
    PROVE  LET next == [att EXCEPT !.pc = pc]
           IN  /\ next \in Attempt /\ next.pc = pc
               /\ next.trade = att.trade /\ next.milestone = att.milestone
               /\ next.key = att.key /\ next.row = att.row /\ next.asked = att.asked
               /\ next.clear = att.clear /\ next.decision = att.decision
               /\ next.nonce = att.nonce /\ next.barred = att.barred
BY DEF Attempt, Places, Holding

\* Whoever is at one of release's awaits is in flight.
LEMMA AtInFlight ==
    ASSUME NEW a \in Attempts, NEW pc \in Places, At(a, pc)
    PROVE  InFlight(a)
BY DEF At, InFlight, Idle, Places, Holding

\* A row stays sound: authorizations are only added.
LEMMA SoundRowStays ==
    ASSUME NEW t, NEW trade, t' = t, trade' = trade,
           SoundRow(t, trade), releases \subseteq releases'
    PROVE  SoundRow(t, trade)'
BY DEF SoundRow, Authorized, Consistent, Released

\* A request that does not move is as sound as before.
LEMMA OtherStays ==
    ASSUME IInv, NEW a \in Attempts, NEW b \in Attempts, a # b, InFlight(b), InFlight(a),
           StepOf(a), UNCHANGED attempts[b]
    PROVE  AttemptSound(attempts[b])'
<1>1. /\ AttemptSound(attempts[b]) /\ AttemptSound(attempts[a])
      /\ Apart(attempts[a], attempts[b])
      /\ attempts[b].key \in Keys
  BY AttemptFields DEF IInv, AttemptsSound
<1>2. KeySound(attempts[b])'
  BY <1>1 DEF AttemptSound, KeySound, Apart, StepOf, Holding, Unrecorded, ReleaseOf
<1>3. DecisionSound(attempts[b])'
  <2>1. ASSUME attempts[b].pc = "record"
        PROVE  \A r \in releases' :
                  <<r.trade, r.milestone, r.nonce>> # NonceOf(attempts[b])
    BY <1>1, <2>1 DEF AttemptSound, DecisionSound, Apart, StepOf, ReleaseOf, NonceOf
  <2> QED  BY <1>1, <2>1 DEF AttemptSound, DecisionSound, StepOf, NonceOf, ReleaseOf,
                             OutcomeOf
<1>4. CheckSound(attempts[b])'
  BY <1>1 DEF AttemptSound, CheckSound, StepOf, Checked
<1>5. SoundRow(attempts[b].trade, attempts[b].row)'
  BY <1>1, SoundRowStays DEF AttemptSound, StepOf
<1> QED  BY <1>2, <1>3, <1>4, <1>5 DEF AttemptSound

\* A request that ends leaves the others as they are.
LEMMA EndSound ==
    ASSUME IInv, NEW a \in Attempts, InFlight(a), End(a), StepOf(a)
    PROVE  /\ attempts' \in [Attempts -> Attempt \cup {Idle}]
           /\ AttemptsSound'
<1>1. attempts' = [attempts EXCEPT ![a] = Idle]
  BY DEF End, Continue
<1>2. attempts \in [Attempts -> Attempt \cup {Idle}]
  BY DEF IInv, TypeOK
<1>3. /\ attempts' \in [Attempts -> Attempt \cup {Idle}] /\ attempts'[a] = Idle
      /\ \A b \in Attempts \ {a} : attempts'[b] = attempts[b]
  BY <1>1, <1>2
<1>4. ASSUME NEW b \in Attempts, InFlight(b)' PROVE AttemptSound(attempts[b])'
  BY <1>3, <1>4, OtherStays DEF InFlight
<1>5. ASSUME NEW b \in Attempts, NEW c \in Attempts, b # c
      PROVE  Apart(attempts[b], attempts[c])'
  BY <1>3, <1>5 DEF IInv, AttemptsSound, Apart, Idle, Holding, NonceOf
<1> QED  BY <1>3, <1>4, <1>5 DEF AttemptsSound

\* A request that goes on is sound with the others if what it becomes is.
LEMMA GoesOn ==
    ASSUME IInv, NEW a \in Attempts, InFlight(a), NEW next \in Attempt, Continue(a, next),
           StepOf(a), AttemptSound(attempts[a])',
           \A b \in Attempts \ {a} : Apart(next, attempts[b])
    PROVE  /\ attempts' \in [Attempts -> Attempt \cup {Idle}]
           /\ AttemptsSound'
<1>1. attempts' = [attempts EXCEPT ![a] = next]
  BY DEF Continue
<1>2. attempts \in [Attempts -> Attempt \cup {Idle}]
  BY DEF IInv, TypeOK
<1>3. /\ attempts' \in [Attempts -> Attempt \cup {Idle}] /\ attempts'[a] = next
      /\ \A b \in Attempts \ {a} : attempts'[b] = attempts[b]
  BY <1>1, <1>2
<1>4. ASSUME NEW b \in Attempts, InFlight(b)' PROVE AttemptSound(attempts[b])'
  BY <1>3, <1>4, OtherStays DEF InFlight
<1>5. ASSUME NEW b \in Attempts, NEW c \in Attempts, b # c
      PROVE  Apart(attempts[b], attempts[c])'
  <2>1. CASE b # a /\ c # a
    BY <1>3, <1>5, <2>1 DEF IInv, AttemptsSound, Apart, NonceOf
  <2>2. CASE b = a
    BY <1>3, <1>5, <2>2 DEF Apart, NonceOf
  <2>3. CASE c = a
    BY <1>3, <1>5, <2>3 DEF Apart, NonceOf
  <2> QED  BY <2>1, <2>2, <2>3
<1> QED  BY <1>3, <1>4, <1>5 DEF AttemptsSound

\* Whoever takes no key and no nonce stays apart from the others.
LEMMA StaysApart ==
    ASSUME IInv, NEW a \in Attempts, NEW next,
           next.pc \in Holding => attempts[a].pc \in Holding /\ next.key = attempts[a].key,
           next.pc # "record"
    PROVE  \A b \in Attempts \ {a} : Apart(next, attempts[b])
BY DEF IInv, AttemptsSound, Apart

\* Rows outside the requests stay sound while nobody writes them.
LEMMA RowsStay ==
    ASSUME IInv, UNCHANGED <<trades, editors>>, releases \subseteq releases'
    PROVE  RowsSound'
<1>1. \A t \in Trades : SoundRow(t, trades[t])'
  BY SoundRowStays DEF IInv, RowsSound
<1>2. ASSUME NEW e \in Editors, editors'[e] # NoEdit
      PROVE  SoundRow(editors[e].trade, editors[e].row)'
  BY <1>2, SoundRowStays DEF IInv, RowsSound
<1> QED  BY <1>1, <1>2 DEF RowsSound

\* A step that records no authorization and stores no outcome leaves the
\* promises about the two.
LEMMA TablesStay ==
    ASSUME IInv, UNCHANGED <<releases, results>>,
           reserved \subseteq reserved', nonces \subseteq nonces', audits \subseteq audits'
    PROVE  TablesSound'
BY DEF IInv, TablesSound, OneReleasePerKey, NonceUsedOnce, OutcomeBacked

-----------------------------------------------------------------------------
(* The steps of a release.                                                 *)

\* A request that goes to another await takes along all it had.
LEMMA GoToFields ==
    ASSUME IInv, NEW a \in Attempts, InFlight(a), NEW pc \in Places, GoTo(a, pc),
           releases \subseteq releases'
    PROVE  /\ attempts'[a] \in Attempt /\ attempts'[a].pc = pc
           /\ attempts'[a].trade = attempts[a].trade
           /\ attempts'[a].milestone = attempts[a].milestone
           /\ attempts'[a].key = attempts[a].key
           /\ attempts'[a].row = attempts[a].row
           /\ attempts'[a].asked = attempts[a].asked
           /\ attempts'[a].clear = attempts[a].clear
           /\ attempts'[a].decision = attempts[a].decision
           /\ attempts'[a].nonce = attempts[a].nonce
           /\ attempts'[a].barred = attempts[a].barred
           /\ \A b \in Attempts \ {a} : attempts'[b] = attempts[b]
           /\ SoundRow(attempts[a].trade, attempts[a].row)'
           /\ AttemptSound(attempts[a])
<1>1. /\ attempts' = [attempts EXCEPT ![a] = [attempts[a] EXCEPT !.pc = pc]]
      /\ attempts \in [Attempts -> Attempt \cup {Idle}]
  BY DEF GoTo, Continue, IInv, TypeOK
<1>2. /\ attempts'[a] = [attempts[a] EXCEPT !.pc = pc]
      /\ \A b \in Attempts \ {a} : attempts'[b] = attempts[b]
  BY <1>1
<1>3. attempts[a] \in Attempt /\ AttemptSound(attempts[a])
  BY AttemptFields DEF IInv, AttemptsSound
<1>4. /\ attempts'[a].trade = attempts[a].trade
      /\ attempts'[a].row = attempts[a].row
  BY <1>2, <1>3, PcFields
<1>5. SoundRow(attempts[a].trade, attempts[a].row)'
  BY <1>3, <1>4 DEF AttemptSound, SoundRow, Authorized
<1> QED  BY <1>2, <1>3, <1>5, PcFields

\* It stays sound if it does so there, and takes no key and no nonce.
LEMMA GoToSound ==
    ASSUME IInv, NEW a \in Attempts, InFlight(a), NEW pc \in Places, GoTo(a, pc),
           StepOf(a),
           KeySound(attempts[a])', DecisionSound(attempts[a])', CheckSound(attempts[a])',
           pc \in Holding => attempts[a].pc \in Holding,
           pc # "record"
    PROVE  /\ attempts' \in [Attempts -> Attempt \cup {Idle}]
           /\ AttemptsSound'
<1> DEFINE next == [attempts[a] EXCEPT !.pc = pc]
<1>1. /\ next \in Attempt /\ next.pc = pc /\ next.key = attempts[a].key
      /\ Continue(a, next)
  BY AttemptFields, PcFields DEF IInv, GoTo
<1>2. AttemptSound(attempts[a])'
  BY GoToFields DEF AttemptSound, StepOf
<1> HIDE DEF next
<1>3. \A b \in Attempts \ {a} : Apart(next, attempts[b])
  BY <1>1, StaysApart
<1> QED  BY <1>1, <1>2, <1>3, GoesOn

\* A stored outcome ends the request, none sends it on.
LEMMA LookUpInv ==
    ASSUME IInv, NEW a \in Attempts, LookUp(a)
    PROVE  IInv'
<1> USE DEF LookUp, others
<1>0. InFlight(a) /\ attempts[a].pc = "lookup"
  BY AtInFlight DEF At, Places
<1>1. StepOf(a)
  BY DEF StepOf
<1>2. attempts' \in [Attempts -> Attempt \cup {Idle}] /\ AttemptsSound'
  <2>1. CASE End(a)
    BY <1>0, <1>1, <2>1, EndSound
  <2>2. CASE GoTo(a, "reserve")
    <3>0. "reserve" \in Places /\ "reserve" \notin Holding
      BY DEF Places, Holding
    <3>1. KeySound(attempts[a])'
      BY <1>0, <2>2, <3>0, GoToFields DEF KeySound, Holding, Unrecorded
    <3>2. DecisionSound(attempts[a])'
      BY <1>0, <2>2, <3>0, GoToFields DEF AttemptSound, DecisionSound, Signing
    <3>3. CheckSound(attempts[a])'
      BY <1>0, <2>2, <3>0, GoToFields DEF AttemptSound, CheckSound
    <3> QED  BY <1>0, <1>1, <2>2, <3>0, <3>1, <3>2, <3>3, GoToSound
  <2> QED  BY <2>1, <2>2
<1>3. RowsSound' /\ TablesSound'
  BY RowsStay, TablesStay
<1>4. TypeOK'
  BY <1>2 DEF IInv, TypeOK
<1> QED  BY <1>2, <1>3, <1>4 DEF IInv

\* A key that nobody holds is taken; one that is taken ends the request.
LEMMA ReserveInv ==
    ASSUME IInv, NEW a \in Attempts, Reserve(a)
    PROVE  IInv'
<1> USE DEF Reserve, others
<1>0. InFlight(a) /\ attempts[a].pc = "reserve" /\ attempts[a].key \in Keys
  BY AtInFlight, AttemptFields DEF At, Places, IInv
<1>1. StepOf(a)
  BY DEF StepOf
<1>2. attempts' \in [Attempts -> Attempt \cup {Idle}] /\ AttemptsSound'
  <2>1. CASE End(a)
    BY <1>0, <1>1, <2>1, EndSound
  <2>2. CASE /\ GoTo(a, "check") /\ attempts[a].key \notin reserved
             /\ reserved' = reserved \cup {attempts[a].key}
    <3> DEFINE next == [attempts[a] EXCEPT !.pc = "check"]
    <3>0. "check" \in Places /\ "check" \in Holding
      BY DEF Places, Holding
    <3>1. /\ next \in Attempt /\ next.pc = "check" /\ next.key = attempts[a].key
          /\ Continue(a, next)
      BY <1>0, <2>2, <3>0, AttemptFields, PcFields DEF IInv, GoTo
    <3>2. KeySound(attempts[a])'
      <4>1. attempts'[a].key = attempts[a].key
        BY <1>0, <2>2, <3>0, GoToFields
      <4>2. results[attempts[a].key] = {} /\ \A r \in releases : r.key # attempts[a].key
        BY <1>0, <2>2 DEF IInv, TablesSound
      <4> QED  BY <2>2, <4>1, <4>2 DEF KeySound
    <3>3. DecisionSound(attempts[a])'
      BY <1>0, <2>2, <3>0, GoToFields DEF AttemptSound, DecisionSound, Signing
    <3>4. CheckSound(attempts[a])'
      BY <1>0, <2>2, <3>0, GoToFields DEF AttemptSound, CheckSound
    <3>5. AttemptSound(attempts[a])'
      BY <1>0, <2>2, <3>0, <3>2, <3>3, <3>4, GoToFields DEF AttemptSound
    <3> HIDE DEF next
    <3>6. \A b \in Attempts \ {a} : Apart(next, attempts[b])
      <4> SUFFICES ASSUME NEW b \in Attempts \ {a}, attempts[b].pc \in Holding
                   PROVE  next.key # attempts[b].key
        BY <3>1 DEF Apart
      <4>1. InFlight(b)
        BY DEF InFlight, Idle, Holding
      <4> QED  BY <2>2, <3>1, <4>1 DEF IInv, AttemptsSound, AttemptSound, KeySound
    <3> QED  BY <1>0, <1>1, <3>1, <3>5, <3>6, GoesOn
  <2> QED  BY <2>1, <2>2
<1>3. RowsSound' /\ TablesSound'
  BY RowsStay, TablesStay
<1>4. reserved' \subseteq Keys
  BY <1>0, AttemptFields DEF IInv, TypeOK
<1>5. TypeOK'
  BY <1>2, <1>4 DEF IInv, TypeOK
<1> QED  BY <1>2, <1>3, <1>5 DEF IInv

\* The four checks, in order.
LEMMA FourChecks ==
    /\ Len(Checked) = 4
    /\ Checked[1] = "importer" /\ Checked[2] = "exporter"
    /\ Checked[3] = "importer" /\ Checked[4] = "exporter"
BY DEF Checked

\* What one check makes of a request.
CheckClear(a, available) ==
    attempts[a].clear /\ available /\ Checked[attempts[a].asked + 1] \in eligible

\* A check leaves a request as it was but for its count, its verdict and, after
\* the last one, its decision.
LEMMA CheckFields ==
    ASSUME IInv, NEW a \in Attempts, NEW available \in BOOLEAN, Check(a, available)
    PROVE  /\ InFlight(a) /\ attempts[a].pc = "check"
           /\ attempts[a].asked \in 0 .. 3
           /\ \E next \in Attempt :
                /\ Continue(a, next)
                /\ next.pc \in {"check", "nonce", "audit"}
                /\ next.trade = attempts[a].trade /\ next.milestone = attempts[a].milestone
                /\ next.key = attempts[a].key /\ next.row = attempts[a].row
                /\ next.nonce = attempts[a].nonce /\ next.barred = attempts[a].barred
                /\ next.asked = attempts[a].asked + 1
                /\ next.clear = CheckClear(a, available)
                /\ next.pc = "check" => next.asked < 4 /\ next.decision = "denied"
                /\ next.pc = "audit" => next.decision = "denied"
                /\ next.pc = "nonce" =>
                      /\ next.asked = 4 /\ next.decision = "allowed"
                      /\ DecideRelease(attempts[a].row, attempts[a].milestone,
                                       CheckClear(a, available))
<1> DEFINE att   == attempts[a]
           clear == CheckClear(a, available)
           asked == att.asked + 1
           allow == DecideRelease(att.row, att.milestone, clear)
           on    == [att EXCEPT !.asked = asked, !.clear = clear]
           next  == CASE asked < 4 -> on
                      [] asked = 4 /\ allow ->
                           [on EXCEPT !.pc = "nonce", !.decision = "allowed"]
                      [] OTHER -> [on EXCEPT !.pc = "audit"]
<1>1. Continue(a, next) /\ At(a, "check")
  BY FourChecks DEF Check, CheckClear
<1>2. InFlight(a) /\ att.pc = "check"
  BY <1>1, AtInFlight DEF At, Places, Holding
<1>3. att \in Attempt /\ AttemptSound(att)
  BY <1>2, AttemptFields DEF IInv, AttemptsSound
<1>4. att.asked \in 0 .. 3 /\ att.decision = "denied"
  BY <1>2, <1>3, FourChecks DEF AttemptSound, CheckSound, DecisionSound, Attempt
<1>5. asked \in 1 .. 4 /\ asked \in 0 .. Len(Checked) /\ clear \in BOOLEAN
  BY <1>3, <1>4, FourChecks DEF Attempt, CheckClear
<1> HIDE DEF clear, asked, allow
<1>6. /\ on \in Attempt /\ on.pc = att.pc /\ on.trade = att.trade
      /\ on.milestone = att.milestone /\ on.key = att.key /\ on.row = att.row
      /\ on.nonce = att.nonce /\ on.barred = att.barred /\ on.decision = att.decision
      /\ on.asked = asked /\ on.clear = clear
  BY <1>3, <1>5 DEF Attempt
<1> HIDE DEF on
<1>7. CASE asked < 4
  <2>1. next = on
    BY <1>7
  <2> QED  BY <1>1, <1>2, <1>4, <1>6, <1>7, <2>1 DEF clear, asked
<1>8. CASE asked = 4 /\ allow
  <2>1. next = [on EXCEPT !.pc = "nonce", !.decision = "allowed"]
    BY <1>8
  <2> HIDE DEF next
  <2>2. /\ next \in Attempt /\ next.pc = "nonce" /\ next.decision = "allowed"
        /\ next.trade = on.trade /\ next.milestone = on.milestone /\ next.key = on.key
        /\ next.row = on.row /\ next.nonce = on.nonce /\ next.barred = on.barred
        /\ next.asked = on.asked /\ next.clear = on.clear
    BY <1>6, <2>1 DEF Attempt
  <2> QED  BY <1>1, <1>2, <1>4, <1>6, <1>8, <2>2 DEF clear, asked, allow
<1>9. CASE asked = 4 /\ ~allow
  <2>1. next = [on EXCEPT !.pc = "audit"]
    BY <1>9
  <2> HIDE DEF next
  <2>2. /\ next \in Attempt /\ next.pc = "audit" /\ next.decision = on.decision
        /\ next.trade = on.trade /\ next.milestone = on.milestone /\ next.key = on.key
        /\ next.row = on.row /\ next.nonce = on.nonce /\ next.barred = on.barred
        /\ next.asked = on.asked /\ next.clear = on.clear
    BY <1>6, <2>1 DEF Attempt
  <2> QED  BY <1>1, <1>2, <1>4, <1>6, <1>9, <2>2 DEF clear, asked
<1> QED  BY <1>5, <1>7, <1>8, <1>9

\* A check that passed is of a party that is not among the barred.
LEMMA CheckInv ==
    ASSUME IInv, NEW a \in Attempts, NEW available \in BOOLEAN, Check(a, available)
    PROVE  IInv'
<1> USE DEF others
<1>0. InFlight(a) /\ attempts[a].pc = "check" /\ attempts[a].asked \in 0 .. 3
  BY CheckFields
<1>1. UNCHANGED <<trades, reserved, results, nonces, releases, audits, others>>
  BY DEF Check
<1>2. StepOf(a)
  BY <1>1 DEF StepOf
<1>3. attempts' \in [Attempts -> Attempt \cup {Idle}] /\ AttemptsSound'
  <2>1. PICK next \in Attempt :
                /\ Continue(a, next)
                /\ next.pc \in {"check", "nonce", "audit"}
                /\ next.trade = attempts[a].trade /\ next.milestone = attempts[a].milestone
                /\ next.key = attempts[a].key /\ next.row = attempts[a].row
                /\ next.nonce = attempts[a].nonce /\ next.barred = attempts[a].barred
                /\ next.asked = attempts[a].asked + 1
                /\ next.clear = CheckClear(a, available)
                /\ next.pc = "check" => next.asked < 4 /\ next.decision = "denied"
                /\ next.pc = "audit" => next.decision = "denied"
                /\ next.pc = "nonce" =>
                      /\ next.asked = 4 /\ next.decision = "allowed"
                      /\ DecideRelease(attempts[a].row, attempts[a].milestone,
                                       CheckClear(a, available))
    BY CheckFields
  <2>2. attempts'[a] = next
    BY <2>1 DEF Continue, IInv, TypeOK
  <2>3. AttemptSound(attempts[a])
    BY <1>0 DEF IInv, AttemptsSound
  <2>4. KeySound(attempts[a])'
    BY <1>0, <1>1, <2>1, <2>2, <2>3 DEF AttemptSound, KeySound, Holding, Unrecorded
  <2>5. DecisionSound(attempts[a])'
    BY <1>0, <1>1, <2>1, <2>2, <2>3 DEF AttemptSound, DecisionSound, Signing, DecideRelease
  <2>6. CheckSound(attempts[a])'
    <3>1. attempts[a].barred \cap eligible = {}
      BY <2>3 DEF AttemptSound, CheckSound
    <3>2. ASSUME next.pc = "check", next.clear, NEW i \in 1 .. next.asked
          PROVE  Checked[i] \notin next.barred
      <4>1. CASE i = attempts[a].asked + 1
        <5>1. Checked[i] \in eligible
          BY <2>1, <3>2, <4>1 DEF CheckClear
        <5> QED  BY <2>1, <3>1, <5>1
      <4>2. CASE i # attempts[a].asked + 1
        <5>1. i \in 1 .. attempts[a].asked
          <6>1. i \in 1 .. attempts[a].asked + 1
            BY <2>1, <3>2
          <6> QED  BY <1>0, <4>2, <6>1
        <5>2. attempts[a].clear
          BY <2>1, <3>2 DEF CheckClear
        <5> QED  BY <1>0, <2>1, <2>3, <5>1, <5>2 DEF AttemptSound, CheckSound
      <4> QED  BY <4>1, <4>2
    <3> QED  BY <1>1, <2>1, <2>2, <3>1, <3>2 DEF CheckSound, Checked
  <2>7. SoundRow(attempts[a].trade, attempts[a].row)'
    BY <1>1, <2>1, <2>2, <2>3 DEF AttemptSound, SoundRow, Authorized
  <2>8. AttemptSound(attempts[a])'
    BY <2>4, <2>5, <2>6, <2>7 DEF AttemptSound
  <2>9. \A b \in Attempts \ {a} : Apart(next, attempts[b])
    BY <1>0, <2>1, StaysApart DEF Holding
  <2> QED  BY <1>0, <1>2, <2>1, <2>8, <2>9, GoesOn
<1>4. RowsSound' /\ TablesSound'
  BY <1>1, RowsStay, TablesStay
<1>5. TypeOK'
  BY <1>1, <1>3 DEF IInv, TypeOK
<1> QED  BY <1>3, <1>4, <1>5 DEF IInv

\* The decision a request takes to its nonce names nobody who was barred.
LEMMA CheckFresh ==
    ASSUME IInv, NEW a \in Attempts, NEW available \in BOOLEAN, Check(a, available),
           attempts'[a].decision = "allowed"
    PROVE  attempts[a].barred = {}
<1>1. PICK next \in Attempt :
                /\ Continue(a, next)
                /\ next.pc \in {"check", "nonce", "audit"}
                /\ next.asked = attempts[a].asked + 1
                /\ next.pc = "check" => next.decision = "denied"
                /\ next.pc = "audit" => next.decision = "denied"
                /\ next.pc = "nonce" =>
                      /\ next.asked = 4
                      /\ DecideRelease(attempts[a].row, attempts[a].milestone,
                                       CheckClear(a, available))
  BY CheckFields
<1>2. attempts'[a] = next
  BY <1>1 DEF Continue, IInv, TypeOK
<1>3. attempts[a].asked = 3 /\ CheckClear(a, available)
  BY <1>1, <1>2, CheckFields DEF DecideRelease
<1>4. AttemptSound(attempts[a]) /\ attempts[a].pc = "check" /\ attempts[a].barred \subseteq Parties
  BY CheckFields, AttemptFields DEF IInv, AttemptsSound
<1>5. \A i \in 1 .. 3 : Checked[i] \notin attempts[a].barred
  BY <1>3, <1>4 DEF AttemptSound, CheckSound, CheckClear
<1>6. "importer" \notin attempts[a].barred /\ "exporter" \notin attempts[a].barred
  BY <1>5, FourChecks
<1> QED  BY <1>4, <1>6 DEF Parties

\* A free nonce is chosen; an authorization that would not bind is denied.
LEMMA AllocateNonceInv ==
    ASSUME IInv, NEW a \in Attempts, AllocateNonce(a)
    PROVE  IInv'
<1> USE DEF others
<1>0. InFlight(a) /\ attempts[a].pc = "nonce"
  BY AtInFlight DEF AllocateNonce, At, Places, Holding
<1>1. UNCHANGED <<trades, reserved, results, nonces, releases, audits, others>>
  BY DEF AllocateNonce
<1>2. StepOf(a)
  BY <1>1 DEF StepOf
<1>3. attempts' \in [Attempts -> Attempt \cup {Idle}] /\ AttemptsSound'
  <2>1. attempts[a] \in Attempt /\ AttemptSound(attempts[a])
    BY <1>0, AttemptFields DEF IInv, AttemptsSound
  <2>2. PICK n \in Nonces :
          Continue(a, IF AuthorizationBinds(attempts[a].row)
                      THEN [attempts[a] EXCEPT !.pc = "consume", !.nonce = n]
                      ELSE [attempts[a] EXCEPT !.pc = "audit", !.decision = "denied"])
    BY DEF AllocateNonce
  <2> DEFINE next == IF AuthorizationBinds(attempts[a].row)
                     THEN [attempts[a] EXCEPT !.pc = "consume", !.nonce = n]
                     ELSE [attempts[a] EXCEPT !.pc = "audit", !.decision = "denied"]
  <2>3. Continue(a, next)
    BY <2>2
  <2>4. /\ next \in Attempt
        /\ next.trade = attempts[a].trade /\ next.milestone = attempts[a].milestone
        /\ next.key = attempts[a].key /\ next.row = attempts[a].row
        /\ next.barred = attempts[a].barred
        /\ \/ next.pc = "consume" /\ next.nonce \in Nonces /\ next.decision = attempts[a].decision
           \/ next.pc = "audit" /\ next.decision = "denied"
    BY <2>1, <2>2 DEF Attempt
  <2> HIDE DEF next
  <2>5. attempts'[a] = next
    BY <2>3 DEF Continue, IInv, TypeOK
  <2>6. KeySound(attempts[a])'
    BY <1>0, <1>1, <2>1, <2>4, <2>5 DEF AttemptSound, KeySound, Holding, Unrecorded
  <2>7. DecisionSound(attempts[a])'
    BY <1>0, <1>1, <2>1, <2>4, <2>5 DEF AttemptSound, DecisionSound, Signing
  <2>8. CheckSound(attempts[a])'
    BY <1>1, <2>1, <2>4, <2>5 DEF AttemptSound, CheckSound
  <2>9. SoundRow(attempts[a].trade, attempts[a].row)'
    BY <1>1, <2>1, <2>4, <2>5 DEF AttemptSound, SoundRow, Authorized
  <2>10. AttemptSound(attempts[a])'
    BY <2>6, <2>7, <2>8, <2>9 DEF AttemptSound
  <2>11. \A b \in Attempts \ {a} : Apart(next, attempts[b])
    BY <1>0, <2>4, StaysApart DEF Holding
  <2> QED  BY <1>0, <1>2, <2>3, <2>4, <2>10, <2>11, GoesOn
<1>4. RowsSound' /\ TablesSound'
  BY <1>1, RowsStay, TablesStay
<1>5. TypeOK'
  BY <1>1, <1>3 DEF IInv, TypeOK
<1> QED  BY <1>3, <1>4, <1>5 DEF IInv

\* A nonce that is still free is taken; one that is not ends the request.
LEMMA ConsumeNonceInv ==
    ASSUME IInv, NEW a \in Attempts, ConsumeNonce(a)
    PROVE  IInv'
<1> USE DEF others
<1>0. InFlight(a) /\ attempts[a].pc = "consume"
  BY AtInFlight DEF ConsumeNonce, At, Places, Holding
<1>1. UNCHANGED <<trades, reserved, results, releases, audits, others>>
  BY DEF ConsumeNonce
<1>2. attempts[a] \in Attempt /\ AttemptSound(attempts[a])
  BY <1>0, AttemptFields DEF IInv, AttemptsSound
<1>3. \/ End(a) /\ UNCHANGED nonces
      \/ /\ AttemptNonce(a) \notin nonces /\ GoTo(a, "record")
         /\ nonces' = nonces \cup {AttemptNonce(a)}
  BY DEF ConsumeNonce
<1>4. StepOf(a)
  BY <1>1, <1>3 DEF StepOf
<1>5. attempts' \in [Attempts -> Attempt \cup {Idle}] /\ AttemptsSound'
  <2>1. CASE End(a)
    BY <1>0, <1>4, <2>1, EndSound
  <2>2. CASE /\ AttemptNonce(a) \notin nonces /\ GoTo(a, "record")
             /\ nonces' = nonces \cup {AttemptNonce(a)}
    <3> DEFINE next == [attempts[a] EXCEPT !.pc = "record"]
    <3>0. "record" \in Places
      BY DEF Places, Holding
    <3>1. /\ next \in Attempt /\ next.pc = "record" /\ Continue(a, next)
          /\ next.key = attempts[a].key /\ NonceOf(next) = AttemptNonce(a)
      BY <1>2, <2>2, <3>0, PcFields DEF GoTo, NonceOf, AttemptNonce
    <3>2. KeySound(attempts[a])'
      BY <1>0, <1>1, <1>2, <2>2, <3>0, GoToFields
      DEF AttemptSound, KeySound, Holding, Unrecorded
    <3>3. NonceOf(attempts[a])' = AttemptNonce(a)
      BY <1>0, <1>1, <2>2, <3>0, GoToFields DEF NonceOf, AttemptNonce
    <3>4. \A r \in releases : <<r.trade, r.milestone, r.nonce>> \in nonces
      BY DEF IInv, TablesSound
    <3>5. DecisionSound(attempts[a])'
      BY <1>0, <1>1, <1>2, <2>2, <3>0, <3>3, <3>4, GoToFields
      DEF AttemptSound, DecisionSound, Signing
    <3>6. CheckSound(attempts[a])'
      BY <1>0, <1>1, <1>2, <2>2, <3>0, GoToFields DEF AttemptSound, CheckSound
    <3>7. AttemptSound(attempts[a])'
      BY <1>0, <1>1, <2>2, <3>0, <3>2, <3>5, <3>6, GoToFields DEF AttemptSound
    <3> HIDE DEF next
    <3>8. \A b \in Attempts \ {a} : Apart(next, attempts[b])
      <4> SUFFICES ASSUME NEW b \in Attempts \ {a} PROVE Apart(next, attempts[b])
        OBVIOUS
      <4>1. attempts[b].pc \in Holding => next.key # attempts[b].key
        BY <1>0, <3>1 DEF IInv, AttemptsSound, Apart, Holding
      <4>2. ASSUME attempts[b].pc = "record" PROVE NonceOf(next) # NonceOf(attempts[b])
        <5>1. InFlight(b)
          BY <4>2 DEF InFlight, Idle
        <5>2. NonceOf(attempts[b]) \in nonces
          BY <4>2, <5>1 DEF IInv, AttemptsSound, AttemptSound, DecisionSound
        <5> QED  BY <2>2, <3>1, <5>2
      <4> QED  BY <4>1, <4>2 DEF Apart
    <3> QED  BY <1>0, <1>4, <3>1, <3>7, <3>8, GoesOn
  <2> QED  BY <1>3, <2>1, <2>2
<1>6. nonces \subseteq nonces' /\ nonces' \subseteq NonceKey
  <2>1. AttemptNonce(a) \in NonceKey
    BY <1>0, <1>2, AttemptFields
    DEF AttemptNonce, NonceKey, AttemptSound, DecisionSound, IInv
  <2> QED  BY <1>3, <2>1 DEF IInv, TypeOK
<1>7. RowsSound' /\ TablesSound'
  BY <1>1, <1>6, RowsStay, TablesStay
<1>8. TypeOK'
  BY <1>1, <1>5, <1>6 DEF IInv, TypeOK
<1> QED  BY <1>5, <1>7, <1>8 DEF IInv

\* The authorization recorded is the only one under its key and with its nonce.
LEMMA RecordReleaseInv ==
    ASSUME IInv, NEW a \in Attempts, RecordRelease(a)
    PROVE  IInv'
<1> USE DEF others
<1>0. InFlight(a) /\ attempts[a].pc = "record"
  BY AtInFlight DEF RecordRelease, At, Places, Holding
<1>1. /\ UNCHANGED <<trades, reserved, results, nonces, audits, others>>
      /\ releases' = releases \cup {ReleaseOf(attempts[a])}
      /\ GoTo(a, "save") /\ "save" \in Places
  BY DEF RecordRelease, ReleaseOf, Places, Holding
<1>2. /\ attempts[a] \in Attempt /\ AttemptSound(attempts[a])
      /\ attempts[a].key \in Keys /\ attempts[a].nonce \in Nonces
  BY <1>0, AttemptFields DEF IInv, AttemptsSound, AttemptSound, DecisionSound
<1>3. StepOf(a)
  BY <1>0, <1>1 DEF StepOf
<1>4. attempts' \in [Attempts -> Attempt \cup {Idle}] /\ AttemptsSound'
  <2>1. KeySound(attempts[a])'
    BY <1>0, <1>1, <1>2, GoToFields DEF AttemptSound, KeySound, Holding, Unrecorded
  <2>2. ReleaseOf(attempts[a])' = ReleaseOf(attempts[a])
    BY <1>0, <1>1, GoToFields DEF ReleaseOf
  <2>3. DecisionSound(attempts[a])'
    BY <1>0, <1>1, <1>2, <2>2, GoToFields DEF AttemptSound, DecisionSound, Signing
  <2>4. CheckSound(attempts[a])'
    BY <1>0, <1>1, <1>2, GoToFields DEF AttemptSound, CheckSound
  <2> QED  BY <1>0, <1>1, <1>3, <2>1, <2>3, <2>4, GoToSound DEF Holding
<1>5. releases' \subseteq Release
  BY <1>0, <1>1, <1>2, AttemptFields DEF IInv, TypeOK, Release, ReleaseOf
<1>6. TablesSound'
  <2> DEFINE new == ReleaseOf(attempts[a])
  <2>1. /\ new.key = attempts[a].key
        /\ <<new.trade, new.milestone, new.nonce>> = NonceOf(attempts[a])
    BY DEF ReleaseOf, NonceOf
  <2>2. /\ new.key \in reserved
        /\ \A r \in releases : r.key # new.key
        /\ <<new.trade, new.milestone, new.nonce>> \in nonces
        /\ \A r \in releases :
              <<r.trade, r.milestone, r.nonce>> # <<new.trade, new.milestone, new.nonce>>
    BY <1>0, <1>2, <2>1
    DEF AttemptSound, KeySound, DecisionSound, Holding, Unrecorded
  <2> HIDE DEF new
  <2>3. /\ \A r \in releases' :
              r.key \in reserved' /\ <<r.trade, r.milestone, r.nonce>> \in nonces'
        /\ \A k \in Keys : results'[k] # {} => k \in reserved'
    BY <1>1, <2>2 DEF IInv, TablesSound, new
  <2>4. OneReleasePerKey'
    BY <1>1, <2>2 DEF IInv, TablesSound, OneReleasePerKey, new
  <2>5. NonceUsedOnce'
    BY <1>1, <2>2 DEF IInv, TablesSound, NonceUsedOnce, new
  <2>6. OutcomeBacked'
    BY <1>1 DEF IInv, TablesSound, OutcomeBacked
  <2> QED  BY <2>3, <2>4, <2>5, <2>6 DEF TablesSound
<1>7. RowsSound'
  BY <1>1, RowsStay
<1>8. TypeOK'
  BY <1>1, <1>4, <1>5 DEF IInv, TypeOK
<1> QED  BY <1>4, <1>6, <1>7, <1>8 DEF IInv

\* The row written back marks one milestone more, and that one is authorized.
LEMMA SaveReleasedInv ==
    ASSUME IInv, NEW a \in Attempts, SaveReleased(a)
    PROVE  IInv'
<1> USE DEF others
<1> DEFINE new == MarkMilestoneReleased(attempts[a].row, attempts[a].milestone)
<1>0. InFlight(a) /\ attempts[a].pc = "save"
  BY AtInFlight DEF SaveReleased, At, Places, Holding
<1>1. /\ UNCHANGED <<reserved, results, nonces, releases, audits, others>>
      /\ trades' = [trades EXCEPT ![attempts[a].trade] = new]
      /\ GoTo(a, "audit") /\ "audit" \in Places
  BY DEF SaveReleased, Places, Holding
<1>2. /\ attempts[a] \in Attempt /\ AttemptSound(attempts[a])
      /\ attempts[a].trade \in Trades /\ attempts[a].milestone \in Milestones
      /\ attempts[a].row \in Trade
  BY <1>0, AttemptFields DEF IInv, AttemptsSound
<1>3. StepOf(a)
  BY <1>1 DEF StepOf
<1>4. attempts' \in [Attempts -> Attempt \cup {Idle}] /\ AttemptsSound'
  <2>1. KeySound(attempts[a])'
    BY <1>0, <1>1, <1>2, GoToFields DEF AttemptSound, KeySound, Holding, Unrecorded
  <2>2. ReleaseOf(attempts[a])' = ReleaseOf(attempts[a])
    BY <1>0, <1>1, GoToFields DEF ReleaseOf
  <2>3. DecisionSound(attempts[a])'
    BY <1>0, <1>1, <1>2, <2>2, GoToFields DEF AttemptSound, DecisionSound, Signing
  <2>4. CheckSound(attempts[a])'
    BY <1>0, <1>1, <1>2, GoToFields DEF AttemptSound, CheckSound
  <2> QED  BY <1>0, <1>1, <1>3, <2>1, <2>3, <2>4, GoToSound DEF Holding
<1>5. new \in Trade /\ SoundRow(attempts[a].trade, new)
  <2>1. /\ DecideRelease(attempts[a].row, attempts[a].milestone, TRUE)
        /\ ReleaseOf(attempts[a]) \in releases
    BY <1>0, <1>2 DEF AttemptSound, DecisionSound, Signing
  <2>2. SoundRow(attempts[a].trade, attempts[a].row)
    BY <1>2 DEF AttemptSound
  <2>3. /\ new \in Trade /\ Consistent(new)
        /\ \A n \in Milestones \ {attempts[a].milestone} :
              new.milestones[n] = attempts[a].row.milestones[n]
    BY <1>2, <2>1, <2>2, ReleasedRow DEF SoundRow
  <2> HIDE DEF new
  <2>4. Authorized(attempts[a].trade, new)
    BY <2>1, <2>2, <2>3 DEF SoundRow, Authorized, Released, ReleaseOf
  <2> QED  BY <2>3, <2>4 DEF SoundRow
<1> HIDE DEF new
<1>6. RowsSound'
  <2>1. ASSUME NEW t \in Trades PROVE SoundRow(t, trades[t])'
    <3>1. trades'[t] = IF t = attempts[a].trade THEN new ELSE trades[t]
      BY <1>1 DEF IInv, TypeOK
    <3>2. SoundRow(t, trades'[t])
      BY <1>5, <3>1 DEF IInv, RowsSound
    <3> QED  BY <1>1, <3>2 DEF SoundRow, Authorized
  <2>2. ASSUME NEW e \in Editors, editors'[e] # NoEdit
        PROVE  SoundRow(editors[e].trade, editors[e].row)'
    BY <1>1, <2>2, SoundRowStays DEF IInv, RowsSound
  <2> QED  BY <2>1, <2>2 DEF RowsSound
<1>7. TablesSound'
  BY <1>1, TablesStay
<1>8. TypeOK'
  BY <1>1, <1>4, <1>5 DEF IInv, TypeOK
<1> QED  BY <1>4, <1>6, <1>7, <1>8 DEF IInv

\* The audit record carries what the outcome will say.
LEMMA AppendAuditInv ==
    ASSUME IInv, NEW a \in Attempts, AppendAudit(a)
    PROVE  IInv'
<1> USE DEF others
<1>0. InFlight(a) /\ attempts[a].pc = "audit"
  BY AtInFlight DEF AppendAudit, At, Places, Holding
<1>1. /\ UNCHANGED <<trades, reserved, results, nonces, releases, others>>
      /\ audits' = audits \cup {OutcomeOf(attempts[a])}
      /\ GoTo(a, "store") /\ "store" \in Places
  BY DEF AppendAudit, AttemptOutcome, OutcomeOf, Places, Holding
<1>2. attempts[a] \in Attempt /\ AttemptSound(attempts[a])
  BY <1>0, AttemptFields DEF IInv, AttemptsSound
<1>3. StepOf(a)
  BY <1>1 DEF StepOf
<1>4. attempts' \in [Attempts -> Attempt \cup {Idle}] /\ AttemptsSound'
  <2>1. KeySound(attempts[a])'
    BY <1>0, <1>1, <1>2, GoToFields DEF AttemptSound, KeySound, Holding, Unrecorded
  <2>2. /\ ReleaseOf(attempts[a])' = ReleaseOf(attempts[a])
        /\ OutcomeOf(attempts[a])' = OutcomeOf(attempts[a])
    BY <1>0, <1>1, GoToFields DEF ReleaseOf, OutcomeOf
  <2>3. DecisionSound(attempts[a])'
    BY <1>0, <1>1, <1>2, <2>2, GoToFields DEF AttemptSound, DecisionSound, Signing
  <2>4. CheckSound(attempts[a])'
    BY <1>0, <1>1, <1>2, GoToFields DEF AttemptSound, CheckSound
  <2> QED  BY <1>0, <1>1, <1>3, <2>1, <2>3, <2>4, GoToSound DEF Holding
<1>5. audits' \subseteq Outcome
  BY <1>1, <1>2 DEF IInv, TypeOK, Attempt, Outcome, OutcomeOf
<1>6. RowsSound' /\ TablesSound'
  BY <1>1, RowsStay, TablesStay
<1>7. TypeOK'
  BY <1>1, <1>4, <1>5 DEF IInv, TypeOK
<1> QED  BY <1>4, <1>6, <1>7 DEF IInv

\* The outcome stored is audited, and backed by an authorization if it allows.
LEMMA StoreOutcomeInv ==
    ASSUME IInv, NEW a \in Attempts, StoreOutcome(a)
    PROVE  IInv'
<1> USE DEF others
<1>0. InFlight(a) /\ attempts[a].pc = "store"
  BY AtInFlight DEF StoreOutcome, At, Places, Holding
<1>1. /\ UNCHANGED <<trades, reserved, nonces, releases, audits, others>>
      /\ results' = [results EXCEPT ![attempts[a].key] = {OutcomeOf(attempts[a])}]
      /\ End(a)
  BY DEF StoreOutcome, AttemptOutcome, OutcomeOf
<1>2. /\ attempts[a] \in Attempt /\ AttemptSound(attempts[a]) /\ attempts[a].key \in Keys
      /\ results \in [Keys -> SUBSET Outcome]
  BY <1>0, AttemptFields DEF IInv, AttemptsSound, TypeOK
<1>3. \A k \in Keys :
          results'[k] = IF k = attempts[a].key THEN {OutcomeOf(attempts[a])} ELSE results[k]
  BY <1>1, <1>2
<1>4. StepOf(a)
  BY <1>0, <1>1, <1>3 DEF StepOf
<1>5. attempts' \in [Attempts -> Attempt \cup {Idle}] /\ AttemptsSound'
  BY <1>0, <1>1, <1>4, EndSound
<1>6. /\ OutcomeOf(attempts[a]) \in audits
      /\ attempts[a].decision = "allowed" => ReleaseOf(attempts[a]) \in releases
      /\ attempts[a].key \in reserved
  BY <1>0, <1>2 DEF AttemptSound, DecisionSound, KeySound, Holding
<1>7. TablesSound'
  <2>1. OutcomeBacked'
    <3> SUFFICES ASSUME NEW k \in Keys, NEW outcome \in results'[k]
                 PROVE  /\ outcome \in audits
                        /\ outcome.decision = "allowed" =>
                              [trade |-> outcome.trade, milestone |-> outcome.milestone,
                               nonce |-> outcome.nonce, key |-> k] \in releases
      BY <1>1 DEF OutcomeBacked
    <3>1. CASE k = attempts[a].key
      <4>1. outcome = OutcomeOf(attempts[a])
        BY <1>3, <3>1
      <4> QED  BY <1>6, <3>1, <4>1 DEF OutcomeOf, ReleaseOf
    <3>2. CASE k # attempts[a].key
      BY <1>3, <3>2 DEF IInv, TablesSound, OutcomeBacked
    <3> QED  BY <3>1, <3>2
  <2>2. \A k \in Keys : results'[k] # {} => k \in reserved'
    BY <1>1, <1>3, <1>6 DEF IInv, TablesSound
  <2> QED  BY <1>1, <2>1, <2>2 DEF IInv, TablesSound, OneReleasePerKey, NonceUsedOnce
<1>8. RowsSound'
  BY <1>1, RowsStay
<1>9. TypeOK'
  <2>1. OutcomeOf(attempts[a]) \in Outcome
    BY <1>6 DEF IInv, TypeOK
  <2>2. results' \in [Keys -> SUBSET Outcome]
    BY <1>1, <1>2, <2>1
  <2> QED  BY <1>1, <1>5, <2>2 DEF IInv, TypeOK
<1> QED  BY <1>5, <1>7, <1>8, <1>9 DEF IInv

\* Every step of a release.
LEMMA ReleaseStepInv ==
    ASSUME IInv, NEW a \in Attempts, ReleaseStep(a)
    PROVE  IInv'
BY LookUpInv, ReserveInv, CheckInv, AllocateNonceInv, ConsumeNonceInv, RecordReleaseInv,
   SaveReleasedInv, AppendAuditInv, StoreOutcomeInv
DEF ReleaseStep

-----------------------------------------------------------------------------
(* Requests that arrive or die, and the other handlers.                    *)

\* A request starts with the row as it is and with nothing checked.
LEMMA StartReleaseInv ==
    ASSUME IInv, NEW a \in Attempts, NEW t \in Trades, NEW m \in Milestones, NEW k \in Keys,
           StartRelease(a, t, m, k)
    PROVE  IInv'
<1> USE DEF others
<1> DEFINE next == [pc |-> "lookup", trade |-> t, milestone |-> m, key |-> k,
                    row |-> trades[t], asked |-> 0, clear |-> TRUE,
                    decision |-> "denied", nonce |-> NoNonce,
                    barred |-> Parties \ eligible]
<1>1. /\ UNCHANGED <<trades, reserved, results, nonces, releases, audits, others>>
      /\ Continue(a, next)
  BY DEF StartRelease
<1>2. next \in Attempt
  <2>1. 0 \in 0 .. Len(Checked)
    BY FourChecks
  <2>2. trades[t] \in Trade
    BY DEF IInv, TypeOK
  <2> QED  BY <2>1, <2>2 DEF Attempt
<1>3. /\ attempts' \in [Attempts -> Attempt \cup {Idle}] /\ attempts'[a] = next
      /\ \A b \in Attempts \ {a} : attempts'[b] = attempts[b]
  BY <1>1, <1>2 DEF Continue, IInv, TypeOK
<1>4. AttemptSound(attempts[a])'
  <2>1. SoundRow(attempts[a].trade, attempts[a].row)'
    BY <1>1, <1>3 DEF IInv, RowsSound, SoundRow, Authorized
  <2>2. KeySound(attempts[a])' /\ DecisionSound(attempts[a])'
    BY <1>3 DEF KeySound, DecisionSound, Holding, Unrecorded, Signing
  <2>3. CheckSound(attempts[a])'
    BY <1>1, <1>3 DEF CheckSound
  <2> QED  BY <2>1, <2>2, <2>3 DEF AttemptSound
<1>5. ASSUME NEW b \in Attempts \ {a}, InFlight(b)' PROVE AttemptSound(attempts[b])'
  <2>1. AttemptSound(attempts[b]) /\ attempts'[b] = attempts[b]
    BY <1>3, <1>5 DEF IInv, AttemptsSound, InFlight
  <2> QED  BY <1>1, <2>1 DEF AttemptSound, KeySound, DecisionSound, CheckSound, SoundRow,
                             Authorized, Checked
<1>6. next.pc \notin Holding /\ next.pc # "record"
  BY DEF Holding
<1> HIDE DEF next
<1>7. ASSUME NEW b \in Attempts, NEW c \in Attempts, b # c
      PROVE  Apart(attempts[b], attempts[c])'
  BY <1>3, <1>6, <1>7 DEF IInv, AttemptsSound, Apart, NonceOf
<1>8. AttemptsSound'
  BY <1>4, <1>5, <1>7 DEF AttemptsSound
<1>9. RowsSound' /\ TablesSound'
  BY <1>1, RowsStay, TablesStay
<1>10. TypeOK'
  BY <1>1, <1>3 DEF IInv, TypeOK
<1> QED  BY <1>8, <1>9, <1>10 DEF IInv

\* Requests that do not move stay sound while what they rest on stays.
LEMMA AttemptsStay ==
    ASSUME IInv, UNCHANGED <<attempts, reserved, results, nonces, releases, audits, eligible>>
    PROVE  AttemptsSound'
<1>1. ASSUME NEW a \in Attempts, InFlight(a)' PROVE AttemptSound(attempts[a])'
  <2>1. AttemptSound(attempts[a])
    BY <1>1 DEF IInv, AttemptsSound, InFlight
  <2>2. KeySound(attempts[a])' /\ SoundRow(attempts[a].trade, attempts[a].row)'
    BY <2>1 DEF AttemptSound, KeySound, SoundRow, Authorized
  <2>3. DecisionSound(attempts[a])'
    BY <2>1 DEF AttemptSound, DecisionSound, NonceOf, ReleaseOf, OutcomeOf
  <2>4. CheckSound(attempts[a])'
    BY <2>1 DEF AttemptSound, CheckSound, Checked
  <2> QED  BY <2>2, <2>3, <2>4 DEF AttemptSound
<1>2. ASSUME NEW a \in Attempts, NEW b \in Attempts, a # b
      PROVE  Apart(attempts[a], attempts[b])'
  BY <1>2 DEF IInv, AttemptsSound, Apart, NonceOf
<1> QED  BY <1>1, <1>2 DEF AttemptsSound

\* What a handler will write follows from a sound row.
LEMMA EditedSound ==
    ASSUME IInv, NEW t \in Trades, NEW operation \in Operations,
           NEW trade \in EditedRows(operation, trades[t])
    PROVE  trade \in Trade /\ SoundRow(t, trade)
<1>1. trades[t] \in Trade /\ SoundRow(t, trades[t])
  BY DEF IInv, TypeOK, RowsSound
<1>2. CASE operation = "create"
  <2>1. PICK bound \in BOOLEAN : trade = CreateTrade(bound)
    BY <1>2 DEF EditedRows
  <2> QED  BY <2>1, CreatedRow DEF SoundRow, Authorized
<1>3. CASE operation # "create"
  <2>1. \/ trade = MarkFunded(trades[t])
        \/ trade = EnterHold(trades[t])
        \/ \E m \in Milestones, digest \in Digests :
              trade = AnchorMilestoneEvidence(trades[t], m, digest)
    <3>1. operation = "fund" => trade = MarkFunded(trades[t])
      BY DEF EditedRows
    <3>2. operation = "anchor" => \E m \in Milestones, digest \in Digests :
                                     trade = AnchorMilestoneEvidence(trades[t], m, digest)
      BY DEF EditedRows
    <3>3. operation = "hold" => trade = EnterHold(trades[t])
      BY DEF EditedRows
    <3>4. operation # "freeze"
      BY DEF EditedRows
    <3> QED  BY <1>3, <3>1, <3>2, <3>3, <3>4 DEF Operations
  <2> QED  BY <1>1, <2>1, EditedRow DEF SoundRow, Authorized
<1> QED  BY <1>2, <1>3

\* A handler that has read a row holds a sound one.
LEMMA ReadForEditInv ==
    ASSUME IInv, NEW e \in Editors, NEW operation \in Handlers, NEW t \in Trades,
           ReadForEdit(e, operation, t)
    PROVE  IInv'
<1>1. UNCHANGED <<trades, reserved, results, nonces, releases, audits, editAudits,
                  eligible, attempts, failures>>
  BY DEF ReadForEdit
<1>2. operation \in Operations
  BY RegistryAssumption
<1>3. PICK trade \in EditedRows(operation, trades[t]) :
        editors' = [editors EXCEPT ![e] =
            [pc |-> "save", operation |-> operation, trade |-> t, row |-> trade]]
  BY DEF ReadForEdit
<1>4. trade \in Trade /\ SoundRow(t, trade)
  BY <1>2, EditedSound
<1>5. editors' \in [Editors -> Edit \cup {NoEdit}]
  BY <1>2, <1>3, <1>4 DEF IInv, TypeOK, Edit
<1>6. RowsSound'
  <2>1. ASSUME NEW f \in Editors, editors'[f] # NoEdit
        PROVE  SoundRow(editors[f].trade, editors[f].row)'
    <3>1. CASE f = e
      <4>1. editors'[f].trade = t /\ editors'[f].row = trade
        BY <1>3, <3>1 DEF IInv, TypeOK
      <4> QED  BY <1>1, <1>4, <4>1 DEF SoundRow, Authorized
    <3>2. CASE f # e
      <4>1. editors'[f] = editors[f]
        BY <1>3, <3>2 DEF IInv, TypeOK
      <4> QED  BY <1>1, <2>1, <4>1 DEF IInv, RowsSound, SoundRow, Authorized
    <3> QED  BY <3>1, <3>2
  <2> QED  BY <1>1, <2>1 DEF IInv, RowsSound, SoundRow, Authorized
<1>7. AttemptsSound' /\ TablesSound'
  BY <1>1, AttemptsStay, TablesStay
<1>8. TypeOK'
  BY <1>1, <1>5 DEF IInv, TypeOK
<1> QED  BY <1>6, <1>7, <1>8 DEF IInv

\* An editor that is cleared or goes on to its audit record keeps its row.
LEMMA EditorSteps ==
    ASSUME IInv, NEW e \in Editors, UNCHANGED releases,
           \/ editors' = [editors EXCEPT ![e] = NoEdit]
           \/ /\ editors[e] # NoEdit
              /\ editors' = [editors EXCEPT ![e] = [@ EXCEPT !.pc = "audit"]]
    PROVE  /\ editors' \in [Editors -> Edit \cup {NoEdit}]
           /\ \A f \in Editors :
                 editors'[f] # NoEdit =>
                    /\ editors[f] # NoEdit
                    /\ editors'[f].trade = editors[f].trade
                    /\ editors'[f].row = editors[f].row
                    /\ SoundRow(editors[f].trade, editors[f].row)'
<1>1. editors \in [Editors -> Edit \cup {NoEdit}]
  BY DEF IInv, TypeOK
<1>2. ASSUME editors[e] # NoEdit
      PROVE  LET next == [editors[e] EXCEPT !.pc = "audit"]
             IN  next \in Edit /\ next.trade = editors[e].trade /\ next.row = editors[e].row
  BY <1>1, <1>2 DEF Edit
<1>3. editors' \in [Editors -> Edit \cup {NoEdit}]
  BY <1>1, <1>2
<1>4. ASSUME NEW f \in Editors, editors'[f] # NoEdit
      PROVE  /\ editors[f] # NoEdit
             /\ editors'[f].trade = editors[f].trade
             /\ editors'[f].row = editors[f].row
  <2>1. CASE f = e
    BY <1>1, <1>2, <1>4, <2>1
  <2>2. CASE f # e
    BY <1>1, <1>4, <2>2
  <2> QED  BY <2>1, <2>2
<1>5. ASSUME NEW f \in Editors, editors'[f] # NoEdit
      PROVE  SoundRow(editors[f].trade, editors[f].row)'
  BY <1>4, <1>5 DEF IInv, RowsSound, SoundRow, Authorized
<1> QED  BY <1>3, <1>4, <1>5

\* A handler writes the sound row it holds.
LEMMA SaveEditInv ==
    ASSUME IInv, NEW e \in Editors, SaveEdit(e)
    PROVE  IInv'
<1>1. /\ UNCHANGED <<reserved, results, nonces, releases, audits, editAudits, eligible,
                     attempts, failures>>
      /\ editors[e] # NoEdit
      /\ trades' = [trades EXCEPT ![editors[e].trade] = editors[e].row]
      /\ \/ editors' = [editors EXCEPT ![e] = NoEdit]
         \/ editors' = [editors EXCEPT ![e] = [@ EXCEPT !.pc = "audit"]]
  BY DEF SaveEdit, Editing
<1>2. editors[e].trade \in Trades /\ editors[e].row \in Trade
  BY <1>1 DEF IInv, TypeOK, Edit
<1>3. SoundRow(editors[e].trade, editors[e].row)
  BY <1>1 DEF IInv, RowsSound
<1>4. /\ editors' \in [Editors -> Edit \cup {NoEdit}]
      /\ \A f \in Editors :
            editors'[f] # NoEdit => SoundRow(editors[f].trade, editors[f].row)'
  BY <1>1, EditorSteps
<1>5. ASSUME NEW t \in Trades PROVE SoundRow(t, trades[t])'
  <2>1. trades'[t] = IF t = editors[e].trade THEN editors[e].row ELSE trades[t]
    BY <1>1 DEF IInv, TypeOK
  <2>2. SoundRow(t, trades'[t])
    BY <1>3, <2>1 DEF IInv, RowsSound
  <2> QED  BY <1>1, <2>2 DEF SoundRow, Authorized
<1>6. RowsSound'
  BY <1>4, <1>5 DEF RowsSound
<1>7. AttemptsSound' /\ TablesSound'
  BY <1>1, AttemptsStay, TablesStay
<1>8. TypeOK'
  <2>1. trades' \in [Trades -> Trade]
    BY <1>1, <1>2 DEF IInv, TypeOK
  <2> QED  BY <1>1, <1>4, <2>1 DEF IInv, TypeOK
<1> QED  BY <1>6, <1>7, <1>8 DEF IInv

\* An audit record or a death ends a handler and touches no row.
LEMMA EditEndsInv ==
    ASSUME IInv, NEW e \in Editors, AuditEdit(e) \/ AbandonEdit(e)
    PROVE  IInv'
<1>1. /\ UNCHANGED <<trades, reserved, results, nonces, releases, audits, eligible,
                     attempts>>
      /\ editors[e] # NoEdit
      /\ editors' = [editors EXCEPT ![e] = NoEdit]
  BY DEF AuditEdit, Editing, AbandonEdit
<1>2. /\ editors' \in [Editors -> Edit \cup {NoEdit}]
      /\ \A f \in Editors :
            editors'[f] # NoEdit => SoundRow(editors[f].trade, editors[f].row)'
  BY <1>1, EditorSteps
<1>3. RowsSound'
  BY <1>1, <1>2 DEF IInv, RowsSound, SoundRow, Authorized
<1>4. AttemptsSound' /\ TablesSound'
  BY <1>1, AttemptsStay, TablesStay
<1>5. failures' \in 0 .. MaxFailures
  BY RegistryAssumption DEF AuditEdit, AbandonEdit, IInv, TypeOK
<1>6. editAudits' \subseteq [operation : Operations, trade : Trades]
  BY <1>1 DEF AuditEdit, AbandonEdit, IInv, TypeOK, Edit
<1>7. TypeOK'
  BY <1>1, <1>2, <1>5, <1>6 DEF IInv, TypeOK
<1> QED  BY <1>3, <1>4, <1>7 DEF IInv

\* Changing who is barred keeps everything else of a request.
LEMMA BarredFields ==
    ASSUME NEW att \in Attempt, NEW parties
    PROVE  LET next == [att EXCEPT !.barred = @ \ parties]
           IN  /\ next \in Attempt /\ next.pc = att.pc
               /\ next.trade = att.trade /\ next.milestone = att.milestone
               /\ next.key = att.key /\ next.row = att.row /\ next.asked = att.asked
               /\ next.clear = att.clear /\ next.decision = att.decision
               /\ next.nonce = att.nonce /\ next.barred = att.barred \ parties
BY DEF Attempt

\* A party that becomes eligible is barred from no request any more.
LEMMA StandingSound ==
    ASSUME IInv, NEW parties \in SUBSET Parties, StandingBecomes(parties),
           UNCHANGED <<reserved, results, nonces, releases, audits>>
    PROVE  attempts' \in [Attempts -> Attempt \cup {Idle}] /\ AttemptsSound'
<1>1. ASSUME NEW a \in Attempts
      PROVE  attempts'[a] = IF InFlight(a)
                            THEN [attempts[a] EXCEPT !.barred = @ \ parties]
                            ELSE Idle
  BY DEF StandingBecomes
<1>2. ASSUME NEW a \in Attempts, InFlight(a)
      PROVE  /\ attempts'[a] \in Attempt /\ attempts'[a].pc = attempts[a].pc
             /\ attempts'[a].trade = attempts[a].trade
             /\ attempts'[a].milestone = attempts[a].milestone
             /\ attempts'[a].key = attempts[a].key
             /\ attempts'[a].row = attempts[a].row
             /\ attempts'[a].asked = attempts[a].asked
             /\ attempts'[a].clear = attempts[a].clear
             /\ attempts'[a].decision = attempts[a].decision
             /\ attempts'[a].nonce = attempts[a].nonce
             /\ attempts'[a].barred = attempts[a].barred \ parties
  <2>1. attempts[a] \in Attempt
    BY <1>2, AttemptFields DEF IInv
  <2>2. attempts'[a] = [attempts[a] EXCEPT !.barred = @ \ parties]
    BY <1>1, <1>2
  <2> QED  BY <2>1, <2>2, BarredFields
<1>3. ASSUME NEW a \in Attempts, ~InFlight(a)
      PROVE  attempts'[a] = Idle /\ attempts[a] = Idle
  BY <1>1, <1>3 DEF InFlight
<1>4. attempts' \in [Attempts -> Attempt \cup {Idle}]
  BY <1>2, <1>3 DEF StandingBecomes
<1>5. ASSUME NEW a \in Attempts, InFlight(a)' PROVE AttemptSound(attempts[a])'
  <2>1. InFlight(a) /\ AttemptSound(attempts[a])
    BY <1>3, <1>5 DEF InFlight, IInv, AttemptsSound
  <2>2. KeySound(attempts[a])' /\ SoundRow(attempts[a].trade, attempts[a].row)'
    BY <1>2, <2>1 DEF AttemptSound, KeySound, SoundRow, Authorized
  <2>3. DecisionSound(attempts[a])'
    BY <1>2, <2>1 DEF AttemptSound, DecisionSound, NonceOf, ReleaseOf, OutcomeOf
  <2>4. CheckSound(attempts[a])'
    BY <1>2, <2>1 DEF AttemptSound, CheckSound, StandingBecomes
  <2> QED  BY <2>2, <2>3, <2>4 DEF AttemptSound
<1>6. ASSUME NEW a \in Attempts, NEW b \in Attempts, a # b
      PROVE  Apart(attempts[a], attempts[b])'
  <2>1. Apart(attempts[a], attempts[b])
    BY <1>6 DEF IInv, AttemptsSound
  <2>2. CASE InFlight(a) /\ InFlight(b)
    BY <1>2, <2>1, <2>2 DEF Apart, NonceOf
  <2>3. CASE ~InFlight(a) \/ ~InFlight(b)
    BY <1>3, <2>3 DEF Apart, Idle, Holding
  <2> QED  BY <2>2, <2>3
<1> QED  BY <1>4, <1>5, <1>6 DEF AttemptsSound

\* The parties' standings change.
LEMMA SetEligibleInv ==
    ASSUME IInv, NEW parties \in Standings, SetEligible(parties)
    PROVE  IInv'
<1>1. /\ UNCHANGED <<trades, reserved, results, nonces, releases, audits, editAudits,
                     editors, failures>>
      /\ StandingBecomes(parties) /\ parties \in SUBSET Parties /\ eligible' = parties
  BY RegistryAssumption DEF SetEligible, StandingBecomes
<1>2. attempts' \in [Attempts -> Attempt \cup {Idle}] /\ AttemptsSound'
  BY <1>1, StandingSound
<1>3. RowsSound' /\ TablesSound'
  BY <1>1, RowsStay, TablesStay
<1>4. TypeOK'
  BY <1>1, <1>2 DEF IInv, TypeOK
<1> QED  BY <1>2, <1>3, <1>4 DEF IInv

\* A freeze changes the exporter's standing and leaves a record to write.
LEMMA FreezeExporterInv ==
    ASSUME IInv, NEW e \in Editors, NEW t \in Trades, FreezeExporter(e, t)
    PROVE  IInv'
<1> DEFINE parties == eligible \ {"exporter"}
           edit == [pc |-> "audit", operation |-> "freeze", trade |-> t, row |-> trades[t]]
<1>1. /\ UNCHANGED <<trades, reserved, results, nonces, releases, audits, editAudits,
                     failures>>
      /\ StandingBecomes(parties) /\ parties \in SUBSET Parties /\ eligible' = parties
      /\ editors' = [editors EXCEPT ![e] = edit]
  BY DEF FreezeExporter, StandingBecomes, IInv, TypeOK
<1>2. attempts' \in [Attempts -> Attempt \cup {Idle}] /\ AttemptsSound'
  BY <1>1, StandingSound
<1>3. edit \in Edit
  BY DEF Edit, Operations, IInv, TypeOK
<1>4. /\ editors' \in [Editors -> Edit \cup {NoEdit}] /\ editors'[e] = edit
      /\ \A f \in Editors \ {e} : editors'[f] = editors[f]
  BY <1>1, <1>3 DEF IInv, TypeOK
<1>5. RowsSound'
  BY <1>1, <1>4 DEF IInv, RowsSound, SoundRow, Authorized
<1>6. TablesSound'
  BY <1>1, TablesStay
<1>7. TypeOK'
  BY <1>1, <1>2, <1>4 DEF IInv, TypeOK
<1> QED  BY <1>2, <1>5, <1>6, <1>7 DEF IInv

\* A request dies wherever it is.
LEMMA AbandonAttemptInv ==
    ASSUME IInv, NEW a \in Attempts, AbandonAttempt(a)
    PROVE  IInv'
<1>1. /\ UNCHANGED <<trades, reserved, results, nonces, releases, audits, editAudits,
                     eligible, editors>>
      /\ InFlight(a) /\ End(a)
  BY DEF AbandonAttempt
<1>2. attempts' \in [Attempts -> Attempt \cup {Idle}] /\ AttemptsSound'
  BY <1>1, EndSound DEF StepOf
<1>3. failures' \in 0 .. MaxFailures
  BY RegistryAssumption DEF AbandonAttempt, IInv, TypeOK
<1>4. RowsSound' /\ TablesSound'
  BY <1>1, RowsStay, TablesStay
<1>5. TypeOK'
  BY <1>1, <1>2, <1>3 DEF IInv, TypeOK
<1> QED  BY <1>2, <1>4, <1>5 DEF IInv

\* A step that changes nothing.
LEMMA StutterInv ==
    ASSUME IInv, UNCHANGED vars
    PROVE  IInv'
<1>1. AttemptsSound' /\ TablesSound' /\ RowsSound'
  BY AttemptsStay, TablesStay, RowsStay DEF vars
<1> QED  BY <1>1 DEF IInv, TypeOK, vars

\* Every step of the server and of what is around it.
LEMMA InductiveNext ==
    ASSUME IInv, [Next]_vars
    PROVE  IInv'
BY StartReleaseInv, ReleaseStepInv, ReadForEditInv, SaveEditInv, EditEndsInv,
   FreezeExporterInv, SetEligibleInv, AbandonAttemptInv, StutterInv
DEF Next

\* A restart ends every request and changes no table.
LEMMA RestartInv ==
    ASSUME IInv, Restart
    PROVE  IInv'
<1>1. /\ UNCHANGED <<trades, reserved, results, nonces, releases, audits, editAudits,
                     eligible>>
      /\ attempts' = [a \in Attempts |-> Idle] /\ editors' = [e \in Editors |-> NoEdit]
      /\ failures' \in 0 .. MaxFailures
  BY RegistryAssumption DEF Restart, IInv, TypeOK
<1>2. AttemptsSound'
  BY <1>1 DEF AttemptsSound, InFlight, Apart, Idle, Holding
<1>3. RowsSound'
  BY <1>1 DEF IInv, RowsSound, SoundRow, Authorized
<1>4. TablesSound'
  BY <1>1, TablesStay
<1>5. TypeOK'
  BY <1>1 DEF IInv, TypeOK
<1> QED  BY <1>2, <1>3, <1>4, <1>5 DEF IInv

-----------------------------------------------------------------------------
(* The scheduler.                                                          *)

\* A listed row, as a tick keeps it.
Listed == {entry \in [trade : Trades, row : Trade] : Consistent(entry.row)}

\* The scheduler's request holds a key and has not used a nonce for it.
Owed == IF attempts[Scheduled].pc \in {"check", "nonce", "consume"} THEN 1 ELSE 0

NoncesPaid ==
    /\ IsFiniteSet(nonces) /\ IsFiniteSet(reserved)
    /\ Cardinality(nonces) + Owed <= Cardinality(reserved)

AutoInv == IInv /\ pass \in Seq(Listed) /\ NoncesPaid

\* The scheduler is one of the callers.
LEMMA AutoIsAttempt == Scheduled \in Attempts
BY AutoReleaseAssumption

\* The invariant contains the types.
LEMMA AutoTypes == AutoInv => AutoTypeOK
<1> SUFFICES ASSUME AutoInv PROVE AutoTypeOK
  OBVIOUS
<1>1. Listed \subseteq [trade : Trades, row : Trade]
  BY DEF Listed
<1>2. pass \in Seq([trade : Trades, row : Trade])
  BY <1>1, SeqMonotonic DEF AutoInv
<1> QED  BY <1>2 DEF AutoInv, IInv, AutoTypeOK

\* The key a listed row asks for is one of the keys, of its trade.
LEMMA DueKeys ==
    ASSUME NEW entry \in Listed, NEW key \in Due(entry.trade, entry.row)
    PROVE  key \in Keys /\ key[1] \in Trades /\ key[2] \in Milestones
<1>1. PICK m \in Milestones :
         /\ key = AutoKey(entry.trade, m, entry.row.milestones[m].evidence)
         /\ entry.row.milestones[m].status = "PENDING"
         /\ entry.row.milestones[m].evidence # NoDigest
  BY DEF Due
<1>2. entry.trade \in Trades /\ entry.row.milestones[m].evidence \in Digests
  BY <1>1 DEF Listed, Consistent, Released
<1> QED  BY <1>1, <1>2, AutoReleaseAssumption DEF AutoKey

\* The invariant holds when the server starts.
LEMMA InitAutoInv == AutoInit => AutoInv
<1> SUFFICES ASSUME AutoInit PROVE AutoInv
  OBVIOUS
<1>1. IInv
  BY AutoInitIInv
<1>2. pass \in Seq(Listed)
  BY DEF AutoInit
<1>3. NoncesPaid
  BY AutoReleaseAssumption, FS_EmptySet DEF AutoInit, NoncesPaid, Owed, Idle
<1> QED  BY <1>1, <1>2, <1>3 DEF AutoInv

\* Nonces stay paid for while no key and no nonce is taken.
LEMMA PaidStays ==
    ASSUME AutoInv, UNCHANGED <<nonces, reserved>>,
           attempts'[Scheduled].pc \in {"check", "nonce", "consume"} =>
              attempts[Scheduled].pc \in {"check", "nonce", "consume"}
    PROVE  NoncesPaid'
<1>1. Owed \in {0, 1} /\ Owed' \in {0, 1} /\ Owed' <= Owed
  BY DEF Owed
<1>2. Cardinality(nonces) \in Nat /\ Cardinality(reserved) \in Nat
  BY FS_CardinalityType DEF AutoInv, NoncesPaid
<1> QED  BY <1>1, <1>2 DEF AutoInv, NoncesPaid

\* A step of the scheduler's release takes a nonce only for a key it has taken.
LEMMA PaidByStep ==
    ASSUME AutoInv, ReleaseStep(Scheduled)
    PROVE  NoncesPaid'
<1> USE DEF others
<1>0. Scheduled \in Attempts /\ IInv
  BY AutoIsAttempt DEF AutoInv
<1>1. attempts \in [Attempts -> Attempt \cup {Idle}]
  BY <1>0 DEF IInv, TypeOK
<1>2. CASE Reserve(Scheduled)
  <2>1. CASE UNCHANGED reserved /\ End(Scheduled)
    <3>1. attempts'[Scheduled] = Idle
      BY <1>0, <1>1, <2>1 DEF End, Continue
    <3> QED  BY <1>2, <2>1, <3>1, PaidStays DEF Reserve, Idle
  <2>2. CASE attempts[Scheduled].key \notin reserved /\ reserved' = reserved \cup {attempts[Scheduled].key}
    <3>1. attempts[Scheduled].pc = "reserve" /\ UNCHANGED nonces
      BY <1>2 DEF Reserve, At
    <3>2. IsFiniteSet(reserved') /\ Cardinality(reserved') = Cardinality(reserved) + 1
      BY <2>2, FS_AddElement DEF AutoInv, NoncesPaid
    <3>3. Owed = 0 /\ Owed' \in {0, 1}
      BY <3>1 DEF Owed
    <3> QED  BY <3>1, <3>2, <3>3, FS_CardinalityType DEF AutoInv, NoncesPaid
  <2> QED  BY <1>2, <2>1, <2>2 DEF Reserve
<1>3. CASE ConsumeNonce(Scheduled)
  <2>1. CASE UNCHANGED nonces /\ End(Scheduled)
    <3>1. attempts'[Scheduled] = Idle
      BY <1>0, <1>1, <2>1 DEF End, Continue
    <3> QED  BY <1>3, <2>1, <3>1, PaidStays DEF ConsumeNonce, Idle
  <2>2. CASE /\ AttemptNonce(Scheduled) \notin nonces /\ GoTo(Scheduled, "record")
             /\ nonces' = nonces \cup {AttemptNonce(Scheduled)}
    <3>1. attempts[Scheduled].pc = "consume" /\ UNCHANGED <<reserved, releases>> /\ InFlight(Scheduled)
      BY <1>0, <1>3, AtInFlight DEF ConsumeNonce, At, Places, Holding
    <3>2. IsFiniteSet(nonces') /\ Cardinality(nonces') = Cardinality(nonces) + 1
      BY <2>2, FS_AddElement DEF AutoInv, NoncesPaid
    <3>3. attempts'[Scheduled].pc = "record"
      BY <1>0, <2>2, <3>1, GoToFields DEF Places, Holding
    <3>4. Owed = 1 /\ Owed' = 0
      BY <3>1, <3>3 DEF Owed
    <3> QED  BY <3>1, <3>2, <3>4, FS_CardinalityType DEF AutoInv, NoncesPaid
  <2> QED  BY <1>3, <2>1, <2>2 DEF ConsumeNonce
<1>4. CASE \/ LookUp(Scheduled) \/ RecordRelease(Scheduled) \/ SaveReleased(Scheduled)
           \/ AppendAudit(Scheduled) \/ StoreOutcome(Scheduled)
  <2>1. UNCHANGED <<nonces, reserved>>
    BY <1>4 DEF LookUp, RecordRelease, SaveReleased, AppendAudit, StoreOutcome
  <2>2. InFlight(Scheduled)
    BY <1>0, <1>4, AtInFlight
    DEF LookUp, RecordRelease, SaveReleased, AppendAudit, StoreOutcome, Places, Holding
  <2>3. \/ End(Scheduled)
        \/ \E pc \in {"reserve", "save", "audit", "store"} : GoTo(Scheduled, pc)
    BY <1>4 DEF LookUp, RecordRelease, SaveReleased, AppendAudit, StoreOutcome
  <2>4. attempts'[Scheduled].pc \in {"idle", "reserve", "save", "audit", "store"}
    <3>1. CASE End(Scheduled)
      BY <1>0, <1>1, <3>1 DEF End, Continue, Idle
    <3>2. ASSUME NEW pc \in {"reserve", "save", "audit", "store"}, GoTo(Scheduled, pc)
          PROVE  attempts'[Scheduled].pc = pc
      <4>1. attempts'[Scheduled] = [attempts[Scheduled] EXCEPT !.pc = pc]
        BY <1>0, <1>1, <3>2 DEF GoTo, Continue
      <4>2. attempts[Scheduled] \in Attempt /\ pc \in Places
        BY <1>0, <2>2, AttemptFields DEF IInv, Places, Holding
      <4> QED  BY <4>1, <4>2, PcFields
    <3> QED  BY <2>3, <3>1, <3>2
  <2> QED  BY <2>1, <2>4, PaidStays
<1>5. CASE (\E available \in BOOLEAN : Check(Scheduled, available)) \/ AllocateNonce(Scheduled)
  <2>1. UNCHANGED <<nonces, reserved>> /\ attempts[Scheduled].pc \in {"check", "nonce"}
    BY <1>5 DEF Check, AllocateNonce, At
  <2> QED  BY <2>1, PaidStays
<1> QED  BY <1>2, <1>3, <1>4, <1>5 DEF ReleaseStep

\* A request of the scheduler that starts or ends takes no nonce.
LEMMA PaidByRest ==
    ASSUME AutoInv,
           \/ UNCHANGED vars
           \/ \E t \in Trades, m \in Milestones, k \in Keys : StartRelease(Scheduled, t, m, k)
           \/ AbandonAttempt(Scheduled) \/ Restart \/ Request
    PROVE  NoncesPaid'
<1>0. Scheduled \in Attempts /\ attempts \in [Attempts -> Attempt \cup {Idle}]
  BY AutoIsAttempt DEF AutoInv, IInv, TypeOK
<1>1. UNCHANGED <<nonces, reserved>>
  BY DEF vars, StartRelease, AbandonAttempt, Restart, Request, ReadForEdit, SaveEdit, AuditEdit,
         FreezeExporter, SetEligible
<1>2. attempts'[Scheduled].pc \in {attempts[Scheduled].pc, "idle", "lookup"}
  <2>1. ASSUME NEW t \in Trades, NEW m \in Milestones, NEW k \in Keys,
               StartRelease(Scheduled, t, m, k)
        PROVE  attempts'[Scheduled].pc = "lookup"
    BY <1>0, <2>1 DEF StartRelease, Continue
  <2>2. AbandonAttempt(Scheduled) \/ Restart => attempts'[Scheduled].pc = "idle"
    BY <1>0 DEF AbandonAttempt, End, Continue, Idle, Restart
  <2>3. ASSUME NEW parties, StandingBecomes(parties)
        PROVE  attempts'[Scheduled].pc \in {attempts[Scheduled].pc, "idle"}
    BY <1>0, <2>3 DEF StandingBecomes, Attempt, Idle
  <2>4. Request => UNCHANGED attempts \/ \E parties : StandingBecomes(parties)
    BY DEF Request, ReadForEdit, SaveEdit, AuditEdit, FreezeExporter, SetEligible
  <2>5. UNCHANGED vars => UNCHANGED attempts
    BY DEF vars
  <2> QED  BY <2>1, <2>2, <2>3, <2>4, <2>5
<1> QED  BY <1>1, <1>2, PaidStays

\* Every step of the scheduler, of the requests beside it and of a restart.
LEMMA AutoInductiveNext ==
    ASSUME AutoInv, [AutoNext]_autoVars
    PROVE  AutoInv'
<1>0. IInv /\ pass \in Seq(Listed) /\ Scheduled \in Attempts
  BY AutoIsAttempt DEF AutoInv
<1>1. CASE UNCHANGED autoVars
  BY <1>0, <1>1, StutterInv, PaidByRest DEF autoVars, AutoInv
<1>2. CASE Tick
  <2>1. ASSUME NEW i \in 1 .. Len(Listing)
        PROVE  [trade |-> Listing[i], row |-> trades[Listing[i]]] \in Listed
    BY <1>0, AutoReleaseAssumption DEF Listed, IInv, TypeOK, RowsSound, SoundRow
  <2>2. pass' \in Seq(Listed)
    BY <1>2, <2>1, AutoReleaseAssumption, IsASeq DEF Tick
  <2> QED  BY <1>0, <1>2, <2>2, StutterInv, PaidByRest DEF Tick, AutoInv
<1>3. CASE PassOver
  <2>1. pass' \in Seq(Listed)
    BY <1>0, <1>3, HeadTailProperties DEF PassOver
  <2> QED  BY <1>0, <1>3, <2>1, StutterInv, PaidByRest DEF PassOver, AutoInv
<1>4. CASE ReleaseListed
  <2>1. Head(pass) \in Listed /\ pass' \in Seq(Listed)
    BY <1>0, <1>4, HeadTailProperties DEF ReleaseListed
  <2>2. PICK key \in Due(Head(pass).trade, Head(pass).row) :
           StartRelease(Scheduled, key[1], key[2], key)
    BY <1>4 DEF ReleaseListed
  <2>3. key \in Keys /\ key[1] \in Trades /\ key[2] \in Milestones
    BY <2>1, <2>2, DueKeys
  <2> QED  BY <1>0, <2>1, <2>2, <2>3, StartReleaseInv, PaidByRest DEF AutoInv
<1>5. CASE AutoStep
  <2>1. pass' \in Seq(Listed)
    BY <1>0, <1>5 DEF AutoStep
  <2> QED  BY <1>0, <1>5, <2>1, ReleaseStepInv, PaidByStep DEF AutoStep, AutoInv
<1>6. CASE AutoFails
  BY <1>0, <1>6, AbandonAttemptInv, PaidByRest DEF AutoFails, AutoInv
<1>7. CASE Restart
  BY <1>0, <1>7, RestartInv, PaidByRest DEF Restart, AutoInv
<1>8. CASE Request
  <2>1. IInv'
    BY <1>0, <1>8, ReadForEditInv, SaveEditInv, EditEndsInv, FreezeExporterInv, SetEligibleInv
       DEF Request
  <2> QED  BY <1>0, <1>8, <2>1, PaidByRest DEF Request, AutoInv
<1> QED  BY <1>1, <1>2, <1>3, <1>4, <1>5, <1>6, <1>7, <1>8 DEF AutoNext

-----------------------------------------------------------------------------
(* The scheduler is a caller like any other.                               *)

\* What a restart is to the registry: every request ends, the tables stay.
Crash ==
    /\ attempts' = [a \in Attempts |-> Idle] /\ editors' = [e \in Editors |-> NoEdit]
    /\ UNCHANGED <<trades, reserved, results, nonces, releases, audits, editAudits,
                   eligible>>

\* Each step of the scheduler, of its failures and of the requests beside it.
LEMMA SchedulerStep ==
    ASSUME AutoInv, [AutoNext]_autoVars
    PROVE  [Next \/ Crash]_vars
<1>0. IInv /\ pass \in Seq(Listed) /\ Scheduled \in Attempts
  BY AutoIsAttempt DEF AutoInv
<1>1. CASE UNCHANGED autoVars
  BY <1>1 DEF autoVars, vars
<1>2. CASE Tick \/ PassOver
  BY <1>2 DEF Tick, PassOver
<1>3. CASE ReleaseListed
  <2>1. Head(pass) \in Listed
    BY <1>0, <1>3, HeadTailProperties DEF ReleaseListed
  <2>2. PICK key \in Due(Head(pass).trade, Head(pass).row) :
           StartRelease(Scheduled, key[1], key[2], key)
    BY <1>3 DEF ReleaseListed
  <2>3. key \in Keys /\ key[1] \in Trades /\ key[2] \in Milestones
    BY <2>1, <2>2, DueKeys
  <2> QED  BY <1>0, <2>2, <2>3 DEF Next
<1>4. CASE AutoStep \/ AutoFails
  BY <1>0, <1>4 DEF AutoStep, AutoFails, Next
<1>5. CASE Restart
  BY <1>5 DEF Restart, Crash
<1>6. CASE Request
  BY <1>6 DEF Request, Next
<1> QED  BY <1>1, <1>2, <1>3, <1>4, <1>5, <1>6 DEF AutoNext

-----------------------------------------------------------------------------
(* Requests served one at a time, none of them dying.                      *)

Serial ==
    /\ MaxInFlight = 1 /\ MaxFailures = 0
    /\ "create" \notin Handlers
    /\ IsFiniteSet(Attempts) /\ IsFiniteSet(Editors)

\* Before its row is written, a request works on the row as it is.
Current == {"lookup", "reserve", "check", "nonce", "consume", "record", "save"}

OneAtATime ==
    /\ \A a, b \in Attempts : InFlight(a) /\ InFlight(b) => a = b
    /\ \A e, f \in Editors : editors[e] # NoEdit /\ editors[f] # NoEdit => e = f
    /\ \A a \in Attempts, e \in Editors : ~InFlight(a) \/ editors[e] = NoEdit

RowsCurrent ==
    /\ \A a \in Attempts :
          attempts[a].pc \in Current => attempts[a].row = trades[attempts[a].trade]
    /\ \A e \in Editors : Editing(e, "save") =>
          \A m \in Milestones :
              Released(trades[editors[e].trade], m) =>
                  editors[e].row.milestones[m] = trades[editors[e].trade].milestones[m]

\* What is authorized is marked released, or about to be.
AuthorizedIsMarked ==
    \A r \in releases :
        \/ Released(trades[r.trade], r.milestone)
        \/ \E a \in Attempts : attempts[a].pc = "save" /\ ReleaseOf(attempts[a]) = r

SerialInv == IInv /\ OneAtATime /\ RowsCurrent /\ AuthorizedIsMarked /\ AuthorizedOnce

\* Room for one more means that nobody is there.
LEMMA RoomIsEmpty ==
    ASSUME Serial, Room
    PROVE  /\ \A a \in Attempts : ~InFlight(a)
           /\ \A e \in Editors : editors[e] = NoEdit
<1> DEFINE A == {a \in Attempts : InFlight(a)}
           E == {e \in Editors : editors[e] # NoEdit}
<1>1. IsFiniteSet(A) /\ IsFiniteSet(E)
  BY FS_Subset DEF Serial
<1>2. Cardinality(A) + Cardinality(E) < 1
  BY DEF Room, Serial
<1>3. Cardinality(A) \in Nat /\ Cardinality(E) \in Nat
  BY <1>1, FS_CardinalityType
<1>4. Cardinality(A) = 0 /\ Cardinality(E) = 0
  BY <1>2, <1>3
<1>5. A = {} /\ E = {}
  BY <1>1, <1>4, FS_EmptySet
<1> QED  BY <1>5

\* A step of a release moves that request only; while it still has its row to
\* write, no row has changed and its own is the one it had.
LEMMA ReleaseStepFrame ==
    ASSUME IInv, NEW a \in Attempts, ReleaseStep(a)
    PROVE  /\ InFlight(a) /\ UNCHANGED <<editors, eligible>>
           /\ \A b \in Attempts \ {a} : attempts'[b] = attempts[b]
           /\ attempts'[a].pc \in Current =>
                 /\ attempts[a].pc \in Current /\ UNCHANGED trades
                 /\ attempts'[a].row = attempts[a].row
                 /\ attempts'[a].trade = attempts[a].trade
<1> USE DEF others
<1>0. attempts \in [Attempts -> Attempt \cup {Idle}]
  BY DEF IInv, TypeOK
<1>1. ASSUME InFlight(a), UNCHANGED <<editors, eligible, releases>>, End(a)
      PROVE  /\ \A b \in Attempts \ {a} : attempts'[b] = attempts[b]
             /\ attempts'[a].pc \notin Current
  BY <1>0, <1>1 DEF End, Continue, Idle, Current
<1>2. CASE LookUp(a)
  <2>1. InFlight(a) /\ attempts[a].pc = "lookup" /\ "reserve" \in Places
    BY <1>2, AtInFlight DEF LookUp, At, Places
  <2> QED  BY <1>1, <1>2, <2>1, GoToFields DEF LookUp, Current
<1>3. CASE Reserve(a)
  <2>1. InFlight(a) /\ attempts[a].pc = "reserve" /\ "check" \in Places
    BY <1>3, AtInFlight DEF Reserve, At, Places, Holding
  <2> QED  BY <1>1, <1>3, <2>1, GoToFields DEF Reserve, Current
<1>4. ASSUME NEW available \in BOOLEAN, Check(a, available)
      PROVE  /\ InFlight(a) /\ UNCHANGED <<editors, eligible>>
             /\ \A b \in Attempts \ {a} : attempts'[b] = attempts[b]
             /\ attempts[a].pc \in Current /\ UNCHANGED trades
             /\ attempts'[a].row = attempts[a].row
             /\ attempts'[a].trade = attempts[a].trade
  <2>1. InFlight(a) /\ attempts[a].pc = "check"
    BY <1>4, CheckFields
  <2>2. PICK next \in Attempt :
            Continue(a, next) /\ next.row = attempts[a].row /\ next.trade = attempts[a].trade
    BY <1>4, CheckFields
  <2>3. attempts'[a] = next /\ \A b \in Attempts \ {a} : attempts'[b] = attempts[b]
    BY <1>0, <2>2 DEF Continue
  <2> QED  BY <1>4, <2>1, <2>2, <2>3 DEF Check, Current
<1>5. CASE AllocateNonce(a)
  <2>1. InFlight(a) /\ attempts[a].pc = "nonce"
    BY <1>5, AtInFlight DEF AllocateNonce, At, Places, Holding
  <2>2. PICK n \in Nonces :
          Continue(a, IF AuthorizationBinds(attempts[a].row)
                      THEN [attempts[a] EXCEPT !.pc = "consume", !.nonce = n]
                      ELSE [attempts[a] EXCEPT !.pc = "audit", !.decision = "denied"])
    BY <1>5 DEF AllocateNonce
  <2>3. attempts[a] \in Attempt
    BY <2>1, AttemptFields DEF IInv
  <2>4. /\ \A b \in Attempts \ {a} : attempts'[b] = attempts[b]
        /\ attempts'[a].row = attempts[a].row
        /\ attempts'[a].trade = attempts[a].trade
    BY <1>0, <2>2, <2>3 DEF Continue, Attempt
  <2> QED  BY <1>5, <2>1, <2>4 DEF AllocateNonce, Current
<1>6. CASE ConsumeNonce(a)
  <2>1. InFlight(a) /\ attempts[a].pc = "consume" /\ "record" \in Places
    BY <1>6, AtInFlight DEF ConsumeNonce, At, Places, Holding
  <2> QED  BY <1>1, <1>6, <2>1, GoToFields DEF ConsumeNonce, Current
<1>7. CASE RecordRelease(a)
  <2>1. InFlight(a) /\ attempts[a].pc = "record" /\ "save" \in Places
    BY <1>7, AtInFlight DEF RecordRelease, At, Places, Holding
  <2>2. releases \subseteq releases' /\ GoTo(a, "save") /\ UNCHANGED <<trades, editors, eligible>>
    BY <1>7 DEF RecordRelease
  <2> QED  BY <2>1, <2>2, GoToFields DEF Current
<1>8. CASE SaveReleased(a)
  <2>1. InFlight(a) /\ "audit" \in Places /\ "audit" \notin Current
    BY <1>8, AtInFlight DEF SaveReleased, Places, Holding, Current
  <2>2. UNCHANGED <<releases, editors, eligible>> /\ GoTo(a, "audit")
    BY <1>8 DEF SaveReleased
  <2> QED  BY <2>1, <2>2, GoToFields
<1>9. CASE AppendAudit(a)
  <2>1. InFlight(a) /\ "store" \in Places /\ "store" \notin Current
    BY <1>9, AtInFlight DEF AppendAudit, Places, Holding, Current
  <2>2. UNCHANGED <<releases, editors, eligible>> /\ GoTo(a, "store")
    BY <1>9 DEF AppendAudit
  <2> QED  BY <2>1, <2>2, GoToFields
<1>10. CASE StoreOutcome(a)
  <2>1. InFlight(a)
    BY <1>10, AtInFlight DEF StoreOutcome, Places, Holding
  <2> QED  BY <1>1, <1>10, <2>1 DEF StoreOutcome
<1> QED  BY <1>2, <1>3, <1>4, <1>5, <1>6, <1>7, <1>8, <1>9, <1>10 DEF ReleaseStep

\* The request that records found nothing authorized, and the one that writes
\* its row marks what it has recorded.
LEMMA SerialRelease ==
    ASSUME SerialInv, NEW a \in Attempts, ReleaseStep(a)
    PROVE  SerialInv'
<1>0. IInv /\ IInv'
  BY ReleaseStepInv DEF SerialInv
<1>1. /\ InFlight(a) /\ UNCHANGED editors
      /\ \A b \in Attempts \ {a} : attempts'[b] = attempts[b]
      /\ attempts'[a].pc \in Current =>
            /\ attempts[a].pc \in Current /\ UNCHANGED trades
            /\ attempts'[a].row = attempts[a].row
            /\ attempts'[a].trade = attempts[a].trade
  BY <1>0, ReleaseStepFrame
<1>2. /\ \A b \in Attempts \ {a} : attempts[b] = Idle /\ attempts'[b] = Idle
      /\ \A e \in Editors : editors[e] = NoEdit /\ editors'[e] = NoEdit
  BY <1>1 DEF SerialInv, OneAtATime, InFlight
<1>3. OneAtATime'
  BY <1>2 DEF OneAtATime, InFlight
<1>4. RowsCurrent'
  <2>1. attempts'[a].pc \in Current => attempts'[a].row = trades'[attempts'[a].trade]
    BY <1>1 DEF SerialInv, RowsCurrent
  <2>2. "idle" \notin Current
    BY DEF Current
  <2> QED  BY <1>2, <2>1, <2>2 DEF RowsCurrent, Editing, Idle
<1>5. attempts[a] \in Attempt /\ AttemptSound(attempts[a])
  BY <1>0, <1>1, AttemptFields DEF IInv, AttemptsSound
<1>6. \A r \in releases : \/ Released(trades[r.trade], r.milestone)
                          \/ attempts[a].pc = "save" /\ ReleaseOf(attempts[a]) = r
  BY <1>2 DEF SerialInv, AuthorizedIsMarked, Idle
<1>7. CASE RecordRelease(a)
  <2>1. /\ attempts[a].pc = "record" /\ "save" \in Places
        /\ releases' = releases \cup {ReleaseOf(attempts[a])}
        /\ GoTo(a, "save") /\ UNCHANGED trades
    BY <1>7 DEF RecordRelease, At, ReleaseOf, Places, Holding
  <2>2. \A r \in releases : Released(trades[r.trade], r.milestone)
    BY <1>6, <2>1
  <2>3. attempts'[a].pc = "save" /\ ReleaseOf(attempts[a])' = ReleaseOf(attempts[a])
    BY <1>0, <1>1, <2>1, GoToFields DEF ReleaseOf
  <2>4. AuthorizedIsMarked'
    BY <2>1, <2>2, <2>3 DEF AuthorizedIsMarked, Released
  <2>5. ~Released(trades[attempts[a].trade], attempts[a].milestone)
    BY <1>5, <2>1 DEF AttemptSound, DecisionSound, Signing, DecideRelease, Released,
                      SerialInv, RowsCurrent, Current
  <2>6. \A r \in releases :
           r.trade # attempts[a].trade \/ r.milestone # attempts[a].milestone
    BY <2>2, <2>5
  <2>7. AuthorizedOnce'
    BY <2>1, <2>6 DEF SerialInv, AuthorizedOnce, ReleaseOf
  <2> QED  BY <1>0, <1>3, <1>4, <2>4, <2>7 DEF SerialInv
<1>8. CASE SaveReleased(a)
  <2> DEFINE new == MarkMilestoneReleased(attempts[a].row, attempts[a].milestone)
  <2>1. /\ attempts[a].pc = "save" /\ UNCHANGED releases
        /\ trades' = [trades EXCEPT ![attempts[a].trade] = new]
    BY <1>8 DEF SaveReleased, At
  <2>2. /\ attempts[a].row = trades[attempts[a].trade]
        /\ attempts[a].trade \in Trades /\ attempts[a].row \in Trade
        /\ attempts[a].milestone \in Milestones
    BY <1>0, <1>1, <2>1, AttemptFields DEF SerialInv, RowsCurrent, Current, IInv
  <2>3. /\ Released(new, attempts[a].milestone)
        /\ \A n \in Milestones : Released(attempts[a].row, n) => Released(new, n)
    BY <2>2 DEF MarkMilestoneReleased, Released, Trade, Milestone
  <2> HIDE DEF new
  <2>4. ASSUME NEW r \in releases
        PROVE  Released(trades'[r.trade], r.milestone)
    <3>0. r.trade \in Trades /\ r.milestone \in Milestones
      BY <1>0 DEF IInv, TypeOK, Release
    <3>1. trades'[r.trade] = IF r.trade = attempts[a].trade THEN new ELSE trades[r.trade]
      BY <1>0, <2>1, <3>0 DEF IInv, TypeOK
    <3>2. CASE ReleaseOf(attempts[a]) = r
      BY <2>3, <3>1, <3>2 DEF ReleaseOf
    <3>3. CASE Released(trades[r.trade], r.milestone)
      BY <2>2, <2>3, <3>0, <3>1, <3>3
    <3> QED  BY <1>6, <3>2, <3>3
  <2>5. AuthorizedIsMarked'
    BY <2>1, <2>4 DEF AuthorizedIsMarked, Released
  <2>6. AuthorizedOnce'
    BY <2>1 DEF SerialInv, AuthorizedOnce
  <2> QED  BY <1>0, <1>3, <1>4, <2>5, <2>6 DEF SerialInv
<1>9. CASE ~RecordRelease(a) /\ ~SaveReleased(a)
  <2>1. UNCHANGED <<trades, releases>> /\ attempts[a].pc # "save"
    BY <1>9 DEF ReleaseStep, LookUp, Reserve, Check, AllocateNonce, ConsumeNonce,
                AppendAudit, StoreOutcome, At
  <2>2. AuthorizedIsMarked' /\ AuthorizedOnce'
    BY <1>6, <2>1 DEF SerialInv, AuthorizedIsMarked, AuthorizedOnce, Released
  <2> QED  BY <1>0, <1>3, <1>4, <2>2 DEF SerialInv
<1> QED  BY <1>7, <1>8, <1>9

\* A request that starts is alone and has the row as it is.
LEMMA SerialStart ==
    ASSUME Serial, SerialInv, NEW a \in Attempts, NEW t \in Trades, NEW m \in Milestones,
           NEW k \in Keys, StartRelease(a, t, m, k)
    PROVE  SerialInv'
<1>0. IInv /\ IInv'
  BY StartReleaseInv DEF SerialInv
<1>1. /\ \A b \in Attempts : attempts[b] = Idle
      /\ \A e \in Editors : editors[e] = NoEdit
  BY RoomIsEmpty DEF StartRelease, InFlight
<1>2. /\ UNCHANGED <<trades, releases, editors>>
      /\ attempts'[a].row = trades[attempts'[a].trade]
      /\ \A b \in Attempts \ {a} : attempts'[b] = attempts[b]
  BY <1>0 DEF StartRelease, Continue, others, IInv, TypeOK
<1>3. OneAtATime'
  BY <1>1, <1>2 DEF OneAtATime, InFlight
<1>4. RowsCurrent'
  BY <1>1, <1>2 DEF RowsCurrent, Editing, Idle, Current
<1>5. AuthorizedIsMarked' /\ AuthorizedOnce'
  BY <1>1, <1>2 DEF SerialInv, AuthorizedIsMarked, AuthorizedOnce, Released, Idle
<1> QED  BY <1>0, <1>3, <1>4, <1>5 DEF SerialInv

\* A handler that starts is alone, and its row keeps what is released.
LEMMA SerialRead ==
    ASSUME Serial, SerialInv, NEW e \in Editors, NEW operation \in Handlers, NEW t \in Trades,
           ReadForEdit(e, operation, t)
    PROVE  SerialInv'
<1>0. IInv /\ IInv'
  BY ReadForEditInv DEF SerialInv
<1>1. /\ \A b \in Attempts : attempts[b] = Idle
      /\ \A f \in Editors : editors[f] = NoEdit
  BY RoomIsEmpty DEF ReadForEdit, InFlight
<1>2. UNCHANGED <<trades, releases, attempts>>
  BY DEF ReadForEdit
<1>3. PICK trade \in EditedRows(operation, trades[t]) :
        editors' = [editors EXCEPT ![e] =
            [pc |-> "save", operation |-> operation, trade |-> t, row |-> trade]]
  BY DEF ReadForEdit
<1>4. /\ editors'[e].trade = t /\ editors'[e].row = trade
      /\ \A f \in Editors \ {e} : editors'[f] = NoEdit
  BY <1>0, <1>1, <1>3 DEF IInv, TypeOK
<1>5. \A m \in Milestones :
         Released(trades[t], m) => trade.milestones[m] = trades[t].milestones[m]
  <2>1. trades[t] \in Trade
    BY <1>0 DEF IInv, TypeOK
  <2>2. \/ trade = MarkFunded(trades[t])
        \/ trade = EnterHold(trades[t])
        \/ \E m \in Milestones, digest \in Digests :
              trade = AnchorMilestoneEvidence(trades[t], m, digest)
    <3>1. operation = "fund" => trade = MarkFunded(trades[t])
      BY DEF EditedRows
    <3>2. operation = "anchor" => \E m \in Milestones, digest \in Digests :
                                     trade = AnchorMilestoneEvidence(trades[t], m, digest)
      BY DEF EditedRows
    <3>3. operation = "hold" => trade = EnterHold(trades[t])
      BY DEF EditedRows
    <3>4. operation # "freeze"
      BY DEF EditedRows
    <3>5. operation \in Operations \ {"create"}
      BY RegistryAssumption DEF Serial
    <3> QED  BY <3>1, <3>2, <3>3, <3>4, <3>5 DEF Operations
  <2> QED  BY <2>1, <2>2, EditedRow
<1>6. OneAtATime'
  BY <1>1, <1>2, <1>4 DEF OneAtATime, InFlight
<1>7. RowsCurrent'
  BY <1>1, <1>2, <1>4, <1>5 DEF RowsCurrent, Editing, Idle, Current, Released
<1>8. AuthorizedIsMarked' /\ AuthorizedOnce'
  BY <1>1, <1>2 DEF SerialInv, AuthorizedIsMarked, AuthorizedOnce, Released, Idle
<1> QED  BY <1>0, <1>6, <1>7, <1>8 DEF SerialInv

\* What a handler writes keeps every released milestone.
LEMMA SerialSave ==
    ASSUME SerialInv, NEW e \in Editors, SaveEdit(e)
    PROVE  /\ SerialInv'
           /\ \A t \in Trades, m \in Milestones :
                 Released(trades[t], m) => trades'[t].milestones[m] = trades[t].milestones[m]
<1>0. IInv /\ IInv'
  BY SaveEditInv DEF SerialInv
<1>1. /\ editors[e] # NoEdit /\ Editing(e, "save")
      /\ UNCHANGED <<releases, attempts>>
      /\ trades' = [trades EXCEPT ![editors[e].trade] = editors[e].row]
      /\ \/ editors' = [editors EXCEPT ![e] = NoEdit]
         \/ editors' = [editors EXCEPT ![e] = [@ EXCEPT !.pc = "audit"]]
  BY DEF SaveEdit, Editing
<1>2. /\ \A b \in Attempts : attempts[b] = Idle
      /\ \A f \in Editors \ {e} : editors[f] = NoEdit
      /\ editors[e] \in Edit /\ editors[e].trade \in Trades
  BY <1>0, <1>1 DEF SerialInv, OneAtATime, InFlight, IInv, TypeOK, Edit
<1>3. ASSUME NEW t \in Trades, NEW m \in Milestones, Released(trades[t], m)
      PROVE  trades'[t].milestones[m] = trades[t].milestones[m]
  <2>1. trades'[t] = IF t = editors[e].trade THEN editors[e].row ELSE trades[t]
    BY <1>0, <1>1 DEF IInv, TypeOK
  <2> QED  BY <1>1, <1>3, <2>1 DEF SerialInv, RowsCurrent
<1>4. /\ \A f \in Editors \ {e} : editors'[f] = NoEdit
      /\ editors'[e] = NoEdit \/ editors'[e].pc = "audit"
  BY <1>0, <1>1, <1>2 DEF IInv, TypeOK, Edit
<1>5. OneAtATime'
  BY <1>1, <1>2, <1>4 DEF OneAtATime, InFlight
<1>6. RowsCurrent'
  BY <1>1, <1>2, <1>4 DEF RowsCurrent, Editing, Idle, Current
<1>7. AuthorizedIsMarked'
  <2>1. \A r \in releases : Released(trades[r.trade], r.milestone)
    BY <1>2 DEF SerialInv, AuthorizedIsMarked, Idle
  <2>2. \A r \in releases : r.trade \in Trades /\ r.milestone \in Milestones
    BY <1>0 DEF IInv, TypeOK, Release
  <2> QED  BY <1>1, <1>3, <2>1, <2>2 DEF AuthorizedIsMarked, Released
<1>8. AuthorizedOnce'
  BY <1>1 DEF SerialInv, AuthorizedOnce
<1> QED  BY <1>0, <1>3, <1>5, <1>6, <1>7, <1>8 DEF SerialInv

\* The standings change: no row, no authorization and no request moves.
LEMMA SerialStanding ==
    ASSUME SerialInv, NEW parties, StandingBecomes(parties), IInv',
           UNCHANGED <<trades, releases>>,
           \/ UNCHANGED editors
           \/ \E e \in Editors :
                 /\ \A a \in Attempts : ~InFlight(a)
                 /\ \A f \in Editors : editors[f] = NoEdit
                 /\ editors'[e].pc = "audit"
                 /\ \A f \in Editors \ {e} : editors'[f] = editors[f]
    PROVE  SerialInv'
<1>1. ASSUME NEW a \in Attempts
      PROVE  /\ InFlight(a)' <=> InFlight(a)
             /\ attempts'[a].pc = attempts[a].pc
             /\ InFlight(a) => /\ attempts'[a].row = attempts[a].row
                               /\ attempts'[a].trade = attempts[a].trade
                               /\ ReleaseOf(attempts[a])' = ReleaseOf(attempts[a])
  <2>1. CASE InFlight(a)
    <3>1. attempts[a] \in Attempt
      BY <2>1, AttemptFields DEF SerialInv, IInv
    <3>2. attempts'[a] = [attempts[a] EXCEPT !.barred = @ \ parties]
      BY <2>1 DEF StandingBecomes
    <3>3. attempts'[a] \in Attempt /\ attempts'[a] # Idle
      BY <3>1, <3>2, BarredFields DEF Attempt, Idle
    <3> QED  BY <2>1, <3>1, <3>2, <3>3, BarredFields DEF InFlight, ReleaseOf
  <2>2. CASE ~InFlight(a)
    BY <2>2 DEF StandingBecomes, InFlight
  <2> QED  BY <2>1, <2>2
<1>2. OneAtATime'
  BY <1>1 DEF SerialInv, OneAtATime
<1>3. RowsCurrent'
  <2>1. \A a \in Attempts : attempts[a].pc \in Current => InFlight(a)
    BY DEF InFlight, Idle, Current
  <2>2. \A a \in Attempts :
           attempts'[a].pc \in Current => attempts'[a].row = trades'[attempts'[a].trade]
    BY <1>1, <2>1 DEF SerialInv, RowsCurrent
  <2>3. \A e \in Editors : Editing(e, "save")' => Editing(e, "save") /\ editors'[e] = editors[e]
    BY DEF Editing
  <2> QED  BY <2>2, <2>3 DEF SerialInv, RowsCurrent, Released
<1>4. AuthorizedIsMarked'
  <2>1. \A a \in Attempts : attempts[a].pc = "save" => InFlight(a)
    BY DEF InFlight, Idle
  <2> QED  BY <1>1, <2>1 DEF SerialInv, AuthorizedIsMarked, Released
<1>5. AuthorizedOnce'
  BY DEF SerialInv, AuthorizedOnce
<1> QED  BY <1>2, <1>3, <1>4, <1>5 DEF SerialInv

\* Every step of a server that takes one request at a time.
LEMMA SerialNext ==
    ASSUME Serial, SerialInv, [Next]_vars
    PROVE  SerialInv'
<1>0. IInv /\ IInv'
  BY InductiveNext DEF SerialInv
<1>1. CASE UNCHANGED vars
  BY <1>0, <1>1 DEF vars, SerialInv, OneAtATime, InFlight, RowsCurrent, Editing, Released,
                    AuthorizedIsMarked, ReleaseOf, AuthorizedOnce
<1>2. ASSUME NEW e \in Editors, AuditEdit(e)
      PROVE  SerialInv'
  <2>1. /\ UNCHANGED <<trades, releases, attempts>>
        /\ editors'[e] = NoEdit /\ \A f \in Editors \ {e} : editors'[f] = editors[f]
    BY <1>0, <1>2 DEF AuditEdit, IInv, TypeOK
  <2> QED  BY <1>0, <2>1 DEF SerialInv, OneAtATime, InFlight, RowsCurrent, Editing, Released,
                    AuthorizedIsMarked, ReleaseOf, AuthorizedOnce
<1>3. ASSUME NEW e \in Editors, NEW t \in Trades, FreezeExporter(e, t)
      PROVE  SerialInv'
  <2>1. /\ \A a \in Attempts : ~InFlight(a)
        /\ \A f \in Editors : editors[f] = NoEdit
    BY <1>3, RoomIsEmpty DEF FreezeExporter
  <2>2. /\ editors'[e].pc = "audit"
        /\ \A f \in Editors \ {e} : editors'[f] = editors[f]
        /\ UNCHANGED <<trades, releases>>
        /\ StandingBecomes(eligible \ {"exporter"})
    BY <1>0, <1>3 DEF FreezeExporter, IInv, TypeOK
  <2> QED  BY <1>0, <2>1, <2>2, SerialStanding
<1>4. ASSUME NEW parties \in Standings, SetEligible(parties)
      PROVE  SerialInv'
  BY <1>0, <1>4, SerialStanding DEF SetEligible
<1>5. ~(failures < MaxFailures)
  BY <1>0 DEF Serial, IInv, TypeOK
<1> QED  BY <1>1, <1>2, <1>3, <1>4, <1>5, SerialStart, SerialRelease, SerialRead, SerialSave
         DEF Next, AbandonAttempt, AbandonEdit

-----------------------------------------------------------------------------
(* What a step may not do.                                                 *)

\* Only the request that holds a key stores an outcome under it, and there was
\* none before.
LEMMA StepOutcomeFinal ==
    ASSUME IInv, [Next]_vars
    PROVE  \A k \in Keys : results[k] # {} => results'[k] = results[k]
<1>1. ASSUME NEW a \in Attempts, StoreOutcome(a)
      PROVE  \A k \in Keys : results[k] # {} => results'[k] = results[k]
  <2>1. InFlight(a) /\ attempts[a].pc = "store"
    BY <1>1, AtInFlight DEF StoreOutcome, At, Places, Holding
  <2>2. results[attempts[a].key] = {}
    BY <2>1 DEF IInv, AttemptsSound, AttemptSound, KeySound, Holding
  <2> QED  BY <1>1, <2>2 DEF StoreOutcome, IInv, TypeOK
<1>2. CASE \A a \in Attempts : ~StoreOutcome(a)
  <2>1. UNCHANGED results
    BY <1>2 DEF Next, vars, ReleaseStep, StartRelease, LookUp, Reserve, Check, AllocateNonce,
       ConsumeNonce, RecordRelease, SaveReleased, AppendAudit, ReadForEdit, SaveEdit,
       AuditEdit, FreezeExporter, SetEligible, AbandonAttempt, AbandonEdit
  <2> QED  BY <2>1
<1> QED  BY <1>1, <1>2

\* A step that moves the request neither through a check nor to its nonce leaves
\* its decision, or ends it.
LEMMA DecisionKept ==
    ASSUME IInv, NEW a \in Attempts, InFlight(a), attempts'[a] # Idle, [Next]_vars,
           \A available \in BOOLEAN : ~Check(a, available),
           ~AllocateNonce(a)
    PROVE  attempts'[a].decision = attempts[a].decision
<1> USE DEF others
<1>0. attempts \in [Attempts -> Attempt \cup {Idle}] /\ attempts[a] \in Attempt
  BY AttemptFields DEF IInv, TypeOK
<1>1. ASSUME NEW b \in Attempts, NEW t \in Trades, NEW m \in Milestones, NEW k \in Keys,
             StartRelease(b, t, m, k)
      PROVE  attempts'[a] = attempts[a]
  BY <1>0, <1>1 DEF StartRelease, Continue
<1>2. ASSUME NEW b \in Attempts, ReleaseStep(b), b # a
      PROVE  attempts'[a] = attempts[a]
  BY <1>2, ReleaseStepFrame
<1>3. CASE ReleaseStep(a)
  <2>1. CASE End(a)
    BY <1>0, <2>1 DEF End, Continue
  <2>2. ASSUME NEW pc \in Places, GoTo(a, pc)
        PROVE  attempts'[a].decision = attempts[a].decision
    <3>1. attempts'[a] = [attempts[a] EXCEPT !.pc = pc]
      BY <1>0, <2>2 DEF GoTo, Continue
    <3> QED  BY <1>0, <3>1, PcFields
  <2>3. \/ End(a)
        \/ GoTo(a, "reserve") \/ GoTo(a, "check") \/ GoTo(a, "record")
        \/ GoTo(a, "save") \/ GoTo(a, "audit") \/ GoTo(a, "store")
    BY <1>3 DEF ReleaseStep, LookUp, Reserve, ConsumeNonce, RecordRelease, SaveReleased,
                AppendAudit, StoreOutcome
  <2> QED  BY <2>1, <2>2, <2>3 DEF Places, Holding
<1>4. ASSUME NEW parties, StandingBecomes(parties)
      PROVE  attempts'[a].decision = attempts[a].decision
  <2>1. attempts'[a] = [attempts[a] EXCEPT !.barred = @ \ parties]
    BY <1>4 DEF StandingBecomes
  <2> QED  BY <1>0, <2>1, BarredFields
<1>5. ASSUME NEW b \in Attempts, AbandonAttempt(b)
      PROVE  attempts'[a] = attempts[a]
  BY <1>0, <1>5 DEF AbandonAttempt, End, Continue
<1>6. ASSUME NEW e \in Editors,
             \/ \E operation \in Handlers, t \in Trades : ReadForEdit(e, operation, t)
             \/ SaveEdit(e) \/ AuditEdit(e) \/ AbandonEdit(e)
      PROVE  attempts'[a] = attempts[a]
  BY <1>6 DEF ReadForEdit, SaveEdit, AuditEdit, AbandonEdit
<1>7. CASE UNCHANGED vars
  BY <1>7 DEF vars
<1> QED  BY <1>1, <1>2, <1>3, <1>4, <1>5, <1>6, <1>7 DEF Next, FreezeExporter, SetEligible

\* A denial becomes an allowance at the last check only, when all four passed.
LEMMA StepFresh ==
    ASSUME IInv, [Next]_vars, NEW a \in Attempts, InFlight(a),
           attempts[a].decision = "denied", attempts'[a] # Idle,
           attempts'[a].decision = "allowed"
    PROVE  attempts[a].barred = {}
<1>1. CASE AllocateNonce(a)
  <2>1. attempts[a].pc = "nonce" /\ AttemptSound(attempts[a])
    BY <1>1 DEF AllocateNonce, At, IInv, AttemptsSound
  <2> QED  BY <2>1 DEF AttemptSound, DecisionSound, Signing
<1>2. ASSUME NEW available \in BOOLEAN, Check(a, available)
      PROVE  attempts[a].barred = {}
  BY <1>2, CheckFresh
<1> QED  BY <1>1, <1>2, DecisionKept

\* While requests are served one at a time, no step touches what is released.
LEMMA StepReleasedFinal ==
    ASSUME Serial, SerialInv, [Next]_vars, NEW t \in Trades, NEW m \in Milestones,
           Released(trades[t], m)
    PROVE  trades'[t].milestones[m] = trades[t].milestones[m]
<1>0. IInv
  BY DEF SerialInv
<1>1. ASSUME NEW a \in Attempts, SaveReleased(a)
      PROVE  trades'[t].milestones[m] = trades[t].milestones[m]
  <2> DEFINE new == MarkMilestoneReleased(attempts[a].row, attempts[a].milestone)
  <2>1. InFlight(a) /\ attempts[a].pc = "save"
    BY <1>1, AtInFlight DEF SaveReleased, At, Places, Holding
  <2>2. /\ attempts[a].row = trades[attempts[a].trade] /\ attempts[a].row \in Trade
        /\ attempts[a].milestone \in Milestones
        /\ AttemptSound(attempts[a])
    BY <1>0, <2>1, AttemptFields
    DEF SerialInv, RowsCurrent, Current, IInv, AttemptsSound
  <2>3. ~Released(attempts[a].row, attempts[a].milestone)
    BY <2>1, <2>2 DEF AttemptSound, DecisionSound, Signing, DecideRelease, Released
  <2>4. \A n \in Milestones \ {attempts[a].milestone} :
           new.milestones[n] = attempts[a].row.milestones[n]
    BY <2>1, <2>2, ReleasedRow DEF AttemptSound, DecisionSound, Signing, SoundRow
  <2>5. trades'[t] = IF t = attempts[a].trade THEN new ELSE trades[t]
    BY <1>0, <1>1 DEF SaveReleased, IInv, TypeOK
  <2> HIDE DEF new
  <2> QED  BY <2>2, <2>3, <2>4, <2>5
<1>2. ASSUME NEW e \in Editors, SaveEdit(e)
      PROVE  trades'[t].milestones[m] = trades[t].milestones[m]
  BY <1>2, SerialSave
<1>3. CASE /\ \A a \in Attempts : ~SaveReleased(a)
           /\ \A e \in Editors : ~SaveEdit(e)
  <2>1. UNCHANGED trades
    BY <1>3 DEF Next, vars, ReleaseStep, StartRelease, LookUp, Reserve, Check, AllocateNonce,
       ConsumeNonce, RecordRelease, AppendAudit, StoreOutcome, ReadForEdit,
       AuditEdit, FreezeExporter, SetEligible, AbandonAttempt, AbandonEdit
  <2> QED  BY <2>1
<1> QED  BY <1>1, <1>2, <1>3

-----------------------------------------------------------------------------
(* What the tables give back (StoredRows).                                 *)

AuditFields ==
    {"auditId", "traceId", "cleanverseRequestIds", "actorRole", "operation", "decision",
     "reasonCode", "tradeId", "milestoneId", "evidenceAgeSeconds", "apassCode",
     "validatorValid", "validatorAvailable", "token", "amount", "txHash", "observedAt",
     "redactedContext"}

\* The values a column of the audit table takes and its guard lets through.
FieldOK(field, value) ==
    /\ field \in {"auditId", "traceId", "actorRole", "operation", "tradeId", "token",
                  "amount", "observedAt"} => IsString(value)
    /\ field = "decision" => value \in Texts({"allowed", "denied"})
    /\ field = "reasonCode" => value = Null \/ value \in ReasonCode
    /\ field = "milestoneId" => value \in {Null, Number(1), Number(2)}
    /\ field \in {"evidenceAgeSeconds", "apassCode"} => value = Null \/ Has(value, "number")
    /\ field \in {"validatorValid", "validatorAvailable"} =>
          value \in {Null, Bool(TRUE), Bool(FALSE)}
    /\ field = "txHash" => value = Null \/ IsString(value)
    /\ field = "cleanverseRequestIds" => value = Array({})

WellMade(record) ==
    /\ record = [field \in AuditFields |-> record[field]]
    /\ \A field \in AuditFields : FieldOK(field, record[field])

\* What comes first wins.
LEMMA FirstWins ==
    ASSUME NEW f, NEW g
    PROVE  /\ OrElse(f, g) = [x \in DOMAIN f \cup DOMAIN g |-> OrElse(f, g)[x]]
           /\ \A x \in DOMAIN f : OrElse(f, g)[x] = f[x]
           /\ \A x \in DOMAIN g \ DOMAIN f : OrElse(f, g)[x] = g[x]
BY DEF OrElse

\* What the caller does not say is filled in.
LEMMA RecordsWellMade ==
    ASSUME NEW input,
           {"operation", "decision", "tradeId"} \subseteq DOMAIN input,
           DOMAIN input \subseteq AuditFields,
           \A field \in DOMAIN input : FieldOK(field, input[field])
    PROVE  WellMade(MakeAuditRecord(input))
<1> DEFINE given ==
        [auditId |-> Text("uuid"), traceId |-> Text("trace"), actorRole |-> Text("role"),
         cleanverseRequestIds |-> Array({}), reasonCode |-> Null, milestoneId |-> Null,
         evidenceAgeSeconds |-> Null, apassCode |-> Null, validatorValid |-> Null,
         validatorAvailable |-> Null, token |-> Text("token"), amount |-> Digits(1),
         txHash |-> Null, observedAt |-> Text("date"), redactedContext |-> Null]
<1>1. MakeAuditRecord(input) = OrElse(input, given)
  BY DEF MakeAuditRecord
<1>2. DOMAIN given = AuditFields \ {"operation", "decision", "tradeId"}
  BY DEF AuditFields
<1>3. ASSUME NEW field \in DOMAIN given PROVE FieldOK(field, given[field])
  <2>1. \A f \in {"auditId", "traceId", "actorRole", "token", "amount", "observedAt"} :
            IsString(given[f])
    BY DEF IsString, Text, Digits
  <2>2. \A f \in {"reasonCode", "milestoneId", "evidenceAgeSeconds", "apassCode",
                  "validatorValid", "validatorAvailable", "txHash", "redactedContext"} :
            given[f] = Null
    OBVIOUS
  <2>3. given.cleanverseRequestIds = Array({})
    OBVIOUS
  <2> HIDE DEF given
  <2> QED  BY <1>2, <2>1, <2>2, <2>3 DEF FieldOK, AuditFields
<1> HIDE DEF given
<1>4. DOMAIN input \cup DOMAIN given = AuditFields
  BY <1>2
<1>5. ASSUME NEW field \in AuditFields PROVE FieldOK(field, OrElse(input, given)[field])
  <2>1. CASE field \in DOMAIN input
    <3>1. OrElse(input, given)[field] = input[field]
      BY <2>1, FirstWins
    <3> QED  BY <2>1, <3>1
  <2>2. CASE field \in DOMAIN given \ DOMAIN input
    <3>1. OrElse(input, given)[field] = given[field]
      BY <2>2 DEF OrElse
    <3> QED  BY <1>3, <2>2, <3>1
  <2> QED  BY <1>4, <2>1, <2>2
<1>6. OrElse(input, given) = [field \in AuditFields |-> OrElse(input, given)[field]]
  BY <1>4, FirstWins
<1> QED  BY <1>1, <1>5, <1>6 DEF WellMade

\* A record like that is stored, read and comes back as it was.
LEMMA AuditTrip ==
    ASSUME NEW record, WellMade(record)
    PROVE  AuditReadsBack(record)
<1> DEFINE written == AuditToRow(record)
           read == RowToAudit(written)
<1>1. \A field \in AuditFields : FieldOK(field, record[field])
  BY DEF WellMade
<1>2. Storable(written)
  BY <1>1 DEF AuditToRow, Storable, FieldOK, AuditFields, NullableColumns, IntegerColumns,
              Has, IsString, BoolToInt, Number, Json, Null, Texts, Text, ReasonCode, Bool
<1>3. AuditReadable(written)
  <2>1. /\ record.decision \in Texts({"allowed", "denied"})
        /\ record.reasonCode = Null \/ record.reasonCode \in ReasonCode
        /\ record.milestoneId \in {Null, Number(1), Number(2)}
        /\ record.cleanverseRequestIds = Array({})
    BY <1>1 DEF FieldOK, AuditFields
  <2>2. IsStringArray(written.cleanverse_request_ids)
    BY <2>1 DEF AuditToRow, IsStringArray, Has, Json, Array
  <2> QED  BY <2>1, <2>2 DEF AuditToRow, AuditReadable, IsMilestoneId, ReasonCode, ReasonCodes
<1>4. ASSUME NEW value \in {Null, Bool(TRUE), Bool(FALSE)}
      PROVE  IntToBool(BoolToInt(value)) = value
  <2>1. CASE value = Null
    BY <2>1 DEF IntToBool, BoolToInt
  <2>2. CASE value = Bool(TRUE)
    <3>1. value # Null /\ value[2] = TRUE
      BY <2>2 DEF Bool, Null
    <3>2. BoolToInt(value) = Number(1)
      BY <3>1 DEF BoolToInt
    <3>3. Number(1) # Null /\ Number(1)[2] = 1
      BY DEF Number, Null
    <3> QED  BY <2>2, <3>2, <3>3 DEF IntToBool
  <2>3. CASE value = Bool(FALSE)
    <3>1. value # Null /\ value[2] = FALSE
      BY <2>3 DEF Bool, Null
    <3>2. BoolToInt(value) = Number(0)
      BY <3>1 DEF BoolToInt
    <3>3. Number(0) # Null /\ Number(0)[2] # 1
      BY DEF Number, Null
    <3> QED  BY <2>3, <3>2, <3>3 DEF IntToBool
  <2> QED  BY <1>4, <2>1, <2>2, <2>3
<1>5. ASSUME NEW field \in AuditFields PROVE read[field] = record[field]
  <2>1. /\ record.validatorValid \in {Null, Bool(TRUE), Bool(FALSE)}
        /\ record.validatorAvailable \in {Null, Bool(TRUE), Bool(FALSE)}
    BY <1>1 DEF FieldOK, AuditFields
  <2>2. /\ IntToBool(written.validator_valid) = record.validatorValid
        /\ IntToBool(written.validator_available) = record.validatorAvailable
    BY <1>4, <2>1 DEF AuditToRow
  <2> QED  BY <2>2 DEF AuditFields, AuditToRow, RowToAudit, ParseJson, Json
<1>6. read = [field \in AuditFields |-> read[field]]
  BY DEF RowToAudit, AuditFields
<1>7. read = record
  BY <1>5, <1>6 DEF WellMade
<1> QED  BY <1>2, <1>3, <1>7 DEF AuditReadsBack

\* The records of a decision, whatever its reason and its checks.
LEMMA ReleaseAuditsReadBack ==
    ASSUME NEW outcome \in Outcome, NEW record \in ReleaseAudits(outcome)
    PROVE  AuditReadsBack(record)
<1>1. PICK reason \in Reasons(outcome), checks \in CheckResults :
          record = MakeAuditRecord(OrElse(Decided(outcome, reason), checks))
  BY DEF ReleaseAudits
<1> DEFINE said == Decided(outcome, reason)
<1>2. /\ outcome.decision \in {"allowed", "denied"} /\ outcome.milestone \in {1, 2}
      /\ reason = Null \/ reason \in ReasonCode
  BY DEF Outcome, Milestones, Reasons
<1>3. /\ DOMAIN said = {"operation", "decision", "reasonCode", "tradeId", "milestoneId",
                        "evidenceAgeSeconds"}
      /\ \A field \in DOMAIN said : FieldOK(field, said[field])
  <2>1. /\ DOMAIN said = {"operation", "decision", "reasonCode", "tradeId", "milestoneId",
                          "evidenceAgeSeconds"}
        /\ said.operation = Text("release") /\ said.decision = Text(outcome.decision)
        /\ said.reasonCode = reason /\ said.tradeId = Text(outcome.trade)
        /\ said.milestoneId = Number(outcome.milestone)
        /\ said.evidenceAgeSeconds = Number(0)
    BY DEF Decided
  <2>2. /\ IsString(said.operation) /\ IsString(said.tradeId)
        /\ said.decision \in Texts({"allowed", "denied"})
        /\ said.milestoneId \in {Number(1), Number(2)}
        /\ Has(said.evidenceAgeSeconds, "number")
    BY <1>2, <2>1 DEF IsString, Has, Text, Texts, Number
  <2> HIDE DEF said
  <2> QED  BY <1>2, <2>1, <2>2 DEF FieldOK
<1>4. /\ DOMAIN checks \subseteq {"apassCode", "validatorValid", "validatorAvailable",
                                  "redactedContext"}
      /\ \A field \in DOMAIN checks : FieldOK(field, checks[field])
  <2>1. CASE checks = [redactedContext |-> Null]
    BY <2>1 DEF FieldOK
  <2>2. ASSUME NEW valid \in BOOLEAN, NEW available \in BOOLEAN,
               checks = [apassCode |-> Number(1), validatorValid |-> Bool(valid),
                         validatorAvailable |-> Bool(available)]
        PROVE  /\ DOMAIN checks \subseteq {"apassCode", "validatorValid",
                                          "validatorAvailable", "redactedContext"}
               /\ \A field \in DOMAIN checks : FieldOK(field, checks[field])
    <3>1. /\ DOMAIN checks = {"apassCode", "validatorValid", "validatorAvailable"}
          /\ checks.apassCode = Number(1) /\ checks.validatorValid = Bool(valid)
          /\ checks.validatorAvailable = Bool(available)
      BY <2>2
    <3>2. Bool(valid) \in {Null, Bool(TRUE), Bool(FALSE)}
      BY Zenon
    <3>3. Bool(available) \in {Null, Bool(TRUE), Bool(FALSE)}
      BY Zenon
    <3>4. Has(Number(1), "number")
      BY DEF Has, Number
    <3> QED  BY <3>1, <3>2, <3>3, <3>4 DEF FieldOK
  <2> QED  BY <2>1, <2>2 DEF CheckResults
<1> HIDE DEF said
<1>5. /\ DOMAIN OrElse(said, checks) = DOMAIN said \cup DOMAIN checks
      /\ \A field \in DOMAIN said : OrElse(said, checks)[field] = said[field]
      /\ \A field \in DOMAIN checks \ DOMAIN said :
            OrElse(said, checks)[field] = checks[field]
  BY FirstWins DEF OrElse
<1>6. ASSUME NEW field \in DOMAIN OrElse(said, checks)
      PROVE  FieldOK(field, OrElse(said, checks)[field])
  BY <1>3, <1>4, <1>5
<1>7. /\ {"operation", "decision", "tradeId"} \subseteq DOMAIN OrElse(said, checks)
      /\ DOMAIN OrElse(said, checks) \subseteq AuditFields
  BY <1>3, <1>4, <1>5 DEF AuditFields
<1>8. record = MakeAuditRecord(OrElse(said, checks))
  BY <1>1 DEF said
<1> QED  BY <1>6, <1>7, <1>8, RecordsWellMade, AuditTrip

\* The records of the other operations.
LEMMA EditedReadsBack ==
    ASSUME NEW edit \in [operation : Operations, trade : Trades], NEW rest,
           DOMAIN rest \subseteq {"milestoneId", "txHash", "redactedContext"},
           \A field \in DOMAIN rest : FieldOK(field, rest[field])
    PROVE  AuditReadsBack(MakeAuditRecord(Edited(edit, rest)))
<1> DEFINE said == [operation |-> Text(edit.operation), decision |-> Text("allowed"),
                    tradeId |-> Text(edit.trade)]
<1>1. /\ DOMAIN said = {"operation", "decision", "tradeId"}
      /\ said.operation = Text(edit.operation) /\ said.decision = Text("allowed")
      /\ said.tradeId = Text(edit.trade)
  OBVIOUS
<1>2. /\ IsString(said.operation) /\ IsString(said.tradeId)
      /\ said.decision \in Texts({"allowed", "denied"})
  BY DEF IsString, Text, Texts
<1>3. Edited(edit, rest) = OrElse(said, rest)
  BY DEF Edited
<1> HIDE DEF said
<1>4. \A field \in DOMAIN said : FieldOK(field, said[field])
  BY <1>1, <1>2 DEF FieldOK
<1>5. /\ DOMAIN OrElse(said, rest) = DOMAIN said \cup DOMAIN rest
      /\ \A field \in DOMAIN said : OrElse(said, rest)[field] = said[field]
      /\ \A field \in DOMAIN rest \ DOMAIN said : OrElse(said, rest)[field] = rest[field]
  BY FirstWins DEF OrElse
<1>6. ASSUME NEW field \in DOMAIN OrElse(said, rest)
      PROVE  FieldOK(field, OrElse(said, rest)[field])
  BY <1>4, <1>5
<1>7. /\ {"operation", "decision", "tradeId"} \subseteq DOMAIN OrElse(said, rest)
      /\ DOMAIN OrElse(said, rest) \subseteq AuditFields
  BY <1>1, <1>5 DEF AuditFields
<1> QED  BY <1>3, <1>6, <1>7, RecordsWellMade, AuditTrip

\* The record of each operation, with what it adds to the common fields.
LEMMA EditAuditsReadBack ==
    ASSUME NEW edit \in [operation : Operations, trade : Trades],
           NEW record \in EditAudits(edit)
    PROVE  AuditReadsBack(record)
<1>1. CASE edit.operation = "anchor"
  <2>1. PICK m \in Milestones, digest \in Digests :
            record = MakeAuditRecord(Edited(edit,
                         [milestoneId |-> Number(m),
                          redactedContext |-> Object([evidenceDigest |-> Text(digest)])]))
    BY <1>1 DEF EditAudits
  <2> DEFINE rest == [milestoneId |-> Number(m),
                      redactedContext |-> Object([evidenceDigest |-> Text(digest)])]
  <2>2. /\ DOMAIN rest \subseteq {"milestoneId", "txHash", "redactedContext"}
        /\ \A field \in DOMAIN rest : FieldOK(field, rest[field])
    <3>1. /\ DOMAIN rest = {"milestoneId", "redactedContext"}
          /\ rest.milestoneId \in {Number(1), Number(2)}
      BY DEF Milestones
    <3> HIDE DEF rest
    <3> QED  BY <3>1 DEF FieldOK
  <2> QED  BY <2>1, <2>2, EditedReadsBack
<1>2. CASE edit.operation = "hold"
  <2> DEFINE rest == [redactedContext |-> Object([reasonHash |-> Text("hash")])]
  <2>1. record = MakeAuditRecord(Edited(edit, rest))
    BY <1>2 DEF EditAudits
  <2>2. /\ DOMAIN rest \subseteq {"milestoneId", "txHash", "redactedContext"}
        /\ \A field \in DOMAIN rest : FieldOK(field, rest[field])
    BY DEF FieldOK
  <2> QED  BY <2>1, <2>2, EditedReadsBack
<1>3. CASE edit.operation = "freeze"
  <2> DEFINE rest == [txHash |-> Text("hash")]
  <2>1. record = MakeAuditRecord(Edited(edit, rest))
    BY <1>3 DEF EditAudits
  <2>2. /\ DOMAIN rest \subseteq {"milestoneId", "txHash", "redactedContext"}
        /\ \A field \in DOMAIN rest : FieldOK(field, rest[field])
    <3>1. DOMAIN rest = {"txHash"} /\ IsString(rest.txHash)
      BY DEF IsString, Text
    <3> HIDE DEF rest
    <3> QED  BY <3>1 DEF FieldOK
  <2> QED  BY <2>1, <2>2, EditedReadsBack
<1>4. CASE edit.operation \notin {"anchor", "hold", "freeze"}
  <2> DEFINE rest == [redactedContext |-> Null]
  <2>1. record = MakeAuditRecord(Edited(edit, rest))
    BY <1>4 DEF EditAudits
  <2>2. /\ DOMAIN rest \subseteq {"milestoneId", "txHash", "redactedContext"}
        /\ \A field \in DOMAIN rest : FieldOK(field, rest[field])
    BY DEF FieldOK
  <2> QED  BY <2>1, <2>2, EditedReadsBack
<1> QED  BY <1>1, <1>2, <1>3, <1>4

\* A trade's row, whatever its status, its milestones' and their evidence.
LEMMA TradeTrip ==
    ASSUME NEW t, NEW trade \in Trade
    PROVE  TradeReadsBack(TradeRecord(t, trade))
<1> DEFINE record == TradeRecord(t, trade)
           written == TradeToRow(record)
<1>1. /\ trade.status \in TradeStatus
      /\ \A m \in {1, 2} : trade.milestones[m].status \in {"PENDING", "RELEASED"}
  BY DEF Trade, Milestone, Milestones
<1>2. ASSUME NEW m \in {1, 2}
      PROVE  LET evidence == IF trade.milestones[m].evidence = NoDigest THEN Null
                             ELSE Text(trade.milestones[m].evidence)
             IN  evidence = Null \/ IsString(evidence)
  BY DEF IsString, Text
<1>3. /\ record.id = Text(t) /\ record.chainId = Bigint(1)
      /\ IsString(record.escrow) /\ record.importer = Text("importer")
      /\ record.exporter = Text("exporter") /\ record.token = Text("token")
      /\ record.totalAmount = Bigint(2) /\ record.status = Text(trade.status)
      /\ record.createdAt = Text("date") /\ record.updatedAt = Text("date")
  BY DEF TradeRecord, IsString, Text
<1>4. ASSUME NEW m \in {1, 2}
      PROVE  record.milestones[m] =
                 [id |-> Number(m), amount |-> Bigint(1),
                  status |-> Text(trade.milestones[m].status),
                  evidenceHash |-> IF trade.milestones[m].evidence = NoDigest THEN Null
                                   ELSE Text(trade.milestones[m].evidence)]
  BY DEF TradeRecord
<1>5. record = [id |-> record.id, chainId |-> record.chainId, escrow |-> record.escrow,
                importer |-> record.importer, exporter |-> record.exporter,
                token |-> record.token, totalAmount |-> record.totalAmount,
                status |-> record.status,
                milestones |-> <<record.milestones[1], record.milestones[2]>>,
                createdAt |-> record.createdAt, updatedAt |-> record.updatedAt]
  BY DEF TradeRecord
<1> HIDE DEF record
<1>6. /\ written.milestone_one_amount = Digits(1) /\ written.milestone_two_amount = Digits(1)
      /\ written.milestone_one_status = Text(trade.milestones[1].status)
      /\ written.milestone_two_status = Text(trade.milestones[2].status)
      /\ written.milestone_one_evidence = record.milestones[1].evidenceHash
      /\ written.milestone_two_evidence = record.milestones[2].evidenceHash
      /\ written.total_amount = Digits(2) /\ written.chain_id = Number(1)
  BY <1>3, <1>4 DEF TradeToRow, Bigint
<1>7. \A m \in {1, 2} : LET evidence == record.milestones[m].evidenceHash
                        IN  evidence = Null \/ IsString(evidence)
  BY <1>2, <1>4
<1>8. Storable(written)
  <2>1. /\ IsString(written.id) /\ Has(written.chain_id, "number") /\ IsString(written.escrow)
        /\ IsString(written.importer) /\ IsString(written.exporter) /\ IsString(written.token)
        /\ IsString(written.total_amount) /\ IsString(written.status)
        /\ IsString(written.milestone_one_amount) /\ IsString(written.milestone_two_amount)
        /\ IsString(written.milestone_one_status) /\ IsString(written.milestone_two_status)
        /\ IsString(written.created_at) /\ IsString(written.updated_at)
    BY <1>3, <1>6 DEF TradeToRow, IsString, Has, Text, Digits, Number
  <2>2. /\ written.milestone_one_evidence = Null \/ IsString(written.milestone_one_evidence)
        /\ written.milestone_two_evidence = Null \/ IsString(written.milestone_two_evidence)
    BY <1>6, <1>7
  <2>3. DOMAIN written = {"id", "chain_id", "escrow", "importer", "exporter", "token",
                      "total_amount", "status", "milestone_one_amount",
                      "milestone_one_status", "milestone_one_evidence",
                      "milestone_two_amount", "milestone_two_status",
                      "milestone_two_evidence", "created_at", "updated_at"}
    BY DEF TradeToRow
  <2> HIDE DEF written
  <2> QED  BY <2>1, <2>2, <2>3 DEF Storable, NullableColumns, IntegerColumns
<1>9. TradeReadable(written)
  BY <1>1, <1>3, <1>6 DEF TradeReadable, TradeStatuses, MilestoneStatuses, Texts,
                          TradeStatus, TradeToRow
<1>10. RowToTrade(written) = record
  <2>1. /\ MilestoneRow(1, written.milestone_one_amount, written.milestone_one_status,
                        written.milestone_one_evidence) = record.milestones[1]
        /\ MilestoneRow(2, written.milestone_two_amount, written.milestone_two_status,
                        written.milestone_two_evidence) = record.milestones[2]
    BY <1>4, <1>6 DEF MilestoneRow, Digits
  <2>2. /\ Bigint(written.chain_id[2]) = record.chainId
        /\ Bigint(written.total_amount[2]) = record.totalAmount
    BY <1>3, <1>6 DEF Digits, Number
  <2>3. /\ written.id = record.id /\ written.escrow = record.escrow
        /\ written.importer = record.importer /\ written.exporter = record.exporter
        /\ written.token = record.token /\ written.status = record.status
        /\ written.created_at = record.createdAt /\ written.updated_at = record.updatedAt
    BY DEF TradeToRow
  <2> HIDE DEF written
  <2> QED  BY <1>5, <2>1, <2>2, <2>3 DEF RowToTrade
<1> QED  BY <1>8, <1>9, <1>10 DEF TradeReadsBack, record

\* Every bigint of an authorization is one again, and nothing else is.
LEMMA AuthFields ==
    ASSUME NEW r, r.milestone \in Milestones, NEW field \in DOMAIN Auth(r)
    PROVE  LET value == Auth(r)[field]
           IN  /\ Revived(field, Stringified(value)) = value
               /\ field \in {"chainId", "amount", "nonce"} => Has(value, "bigint")
               /\ field \in {"escrow", "tradeId", "importer", "exporter", "token",
                             "evidenceDigest", "signer"} => IsString(value)
               /\ field = "milestoneId" => value \in {Number(1), Number(2)}
               /\ field = "expiry" => Has(value, "number")
<1> DEFINE value == Auth(r)[field]
<1>1. CASE field \in {"chainId", "amount", "nonce"}
  <2>1. PICK n : value = Bigint(n)
    BY <1>1 DEF Auth
  <2> HIDE DEF value
  <2> QED  BY <1>1, <2>1 DEF value, Revived, Stringified, Has, Bigint, Digits
<1>2. CASE field \in {"escrow", "tradeId", "importer", "exporter", "token",
                     "evidenceDigest", "signer"}
  <2>1. PICK string : value = Text(string)
    BY <1>2 DEF Auth
  <2> HIDE DEF value
  <2> QED  BY <1>2, <2>1 DEF value, Revived, Stringified, Has, IsString, Text
<1>3. CASE field \in {"milestoneId", "expiry"}
  <2>1. /\ field = "milestoneId" => value \in {Number(1), Number(2)}
        /\ field = "expiry" => value = Number(1)
    BY <1>3 DEF Auth, Milestones
  <2> HIDE DEF value
  <2> QED  BY <1>3, <2>1 DEF value, Revived, Stringified, Has, Number
<1>4. field \in {"chainId", "amount", "nonce"} \cup
               {"escrow", "tradeId", "importer", "exporter", "token",
                "evidenceDigest", "signer"} \cup {"milestoneId", "expiry"}
  BY DEF Auth
<1> QED  BY <1>1, <1>2, <1>3, <1>4

\* What the exporter is served is what was signed.
LEMMA AuthTrip ==
    ASSUME NEW r, r.milestone \in Milestones
    PROVE  AuthReadsBack(Auth(r))
<1> DEFINE auth   == Auth(r)
           stored == [key \in DOMAIN auth |-> Stringified(auth[key])]
           read   == JsonToAuth(AuthToJson(auth))
<1>1. /\ DOMAIN auth = {"chainId", "escrow", "tradeId", "milestoneId", "importer",
                        "exporter", "token", "amount", "nonce", "expiry",
                        "evidenceDigest", "signer"}
      /\ auth = [key \in DOMAIN auth |-> auth[key]]
  BY DEF Auth
<1>2. \A key \in DOMAIN auth : Revived(key, Stringified(auth[key])) = auth[key]
  BY AuthFields
<1>3. IsReleaseAuthorization(auth)
  <2>1. /\ \A field \in {"chainId", "amount", "nonce"} : Has(auth[field], "bigint")
        /\ \A field \in {"escrow", "tradeId", "importer", "exporter", "token",
                         "evidenceDigest", "signer"} : IsString(auth[field])
        /\ auth["milestoneId"] \in {Number(1), Number(2)}
        /\ Has(auth["expiry"], "number")
    BY <1>1, AuthFields
  <2> HIDE DEF auth
  <2> QED  BY <2>1 DEF IsReleaseAuthorization
<1> HIDE DEF auth
<1>4. read = [key \in DOMAIN stored |-> Revived(key, stored[key])]
  BY DEF JsonToAuth, AuthToJson, Json, Object
<1>5. read = auth
  BY <1>1, <1>2, <1>4
<1> HIDE DEF read
<1>6. IsReleaseAuthorization(read) /\ read = auth
  BY <1>3, <1>5
<1> QED  BY <1>6 DEF AuthReadsBack, auth, read

\* A denial comes back with its reason.
LEMMA DeniedTrip ==
    ASSUME NEW reason \in ReasonCode
    PROVE  OutcomeReadsBack([decision |-> Text("denied"), reasonCode |-> reason,
                             auditId |-> Text("uuid")])
<1> DEFINE outcome == [decision |-> Text("denied"), reasonCode |-> reason,
                       auditId |-> Text("uuid")]
           stored  == [key \in DOMAIN outcome |->
                          IF key = "auth" THEN AuthToJson(outcome.auth[2])[2]
                          ELSE Stringified(outcome[key])]
           read    == JsonToOutcome(OutcomeToJson(outcome))
<1>1. /\ DOMAIN outcome = {"decision", "reasonCode", "auditId"}
      /\ outcome.decision = Text("denied") /\ outcome.reasonCode = reason
      /\ outcome.auditId = Text("uuid")
      /\ outcome = [key \in DOMAIN outcome |-> outcome[key]]
  OBVIOUS
<1> HIDE DEF outcome
<1>2. \A key \in DOMAIN outcome : Stringified(outcome[key]) = outcome[key]
  BY <1>1 DEF Stringified, Has, ReasonCode, Texts, Text
<1>3. \A key \in DOMAIN outcome :
          Revived(key, outcome[key]) = outcome[key] /\ key # "auth"
  BY <1>1 DEF Revived
<1>4. read = [key \in DOMAIN stored |->
                 IF key = "auth" THEN Object(JsonToAuth(Json(stored.auth)))
                 ELSE Revived(key, stored[key])]
  BY DEF JsonToOutcome, OutcomeToJson, Json, Object
<1>5. stored = outcome
  BY <1>1, <1>2, <1>3
<1>6. read = [key \in DOMAIN outcome |-> Revived(key, outcome[key])]
  BY <1>3, <1>4, <1>5
<1>7. read = outcome
  BY <1>1, <1>3, <1>6
<1>8. IsReleaseOutcome(outcome)
  BY <1>1 DEF IsReleaseOutcome, ReasonCode, ReasonCodes, IsString, Text
<1> HIDE DEF read
<1>9. IsReleaseOutcome(read) /\ read = outcome
  BY <1>7, <1>8
<1> QED  BY <1>9 DEF OutcomeReadsBack, outcome, read

\* An allowance comes back with its authorization.
LEMMA AllowedTrip ==
    ASSUME NEW r, r.milestone \in Milestones
    PROVE  OutcomeReadsBack(
               [decision |-> Text("allowed"), reasonCode |-> Null,
                auth |-> Object(Auth(r)), signature |-> Text("signature"),
                evidenceDigest |-> Text("digest"), nonce |-> Bigint(r.nonce),
                auditId |-> Text("uuid")])
<1> DEFINE outcome == [decision |-> Text("allowed"), reasonCode |-> Null,
                       auth |-> Object(Auth(r)), signature |-> Text("signature"),
                       evidenceDigest |-> Text("digest"), nonce |-> Bigint(r.nonce),
                       auditId |-> Text("uuid")]
           stored  == [key \in DOMAIN outcome |->
                          IF key = "auth" THEN AuthToJson(outcome.auth[2])[2]
                          ELSE Stringified(outcome[key])]
           read    == JsonToOutcome(OutcomeToJson(outcome))
<1>1. /\ DOMAIN outcome = {"decision", "reasonCode", "auth", "signature",
                           "evidenceDigest", "nonce", "auditId"}
      /\ outcome.decision = Text("allowed") /\ outcome.reasonCode = Null
      /\ outcome.auth = Object(Auth(r)) /\ outcome.signature = Text("signature")
      /\ outcome.evidenceDigest = Text("digest") /\ outcome.nonce = Bigint(r.nonce)
      /\ outcome.auditId = Text("uuid")
      /\ outcome = [key \in DOMAIN outcome |-> outcome[key]]
  OBVIOUS
<1> HIDE DEF outcome
<1>2. outcome.auth[2] = Auth(r)
  BY <1>1 DEF Object
<1>3. IsReleaseAuthorization(Auth(r)) /\ JsonToAuth(AuthToJson(Auth(r))) = Auth(r)
  BY AuthTrip DEF AuthReadsBack
<1>4. Json(AuthToJson(Auth(r))[2]) = AuthToJson(Auth(r))
  BY DEF AuthToJson, Json
<1>5. ASSUME NEW key \in DOMAIN outcome, key # "auth"
      PROVE  Revived(key, Stringified(outcome[key])) = outcome[key]
  <2>1. CASE key = "nonce"
    BY <1>1, <2>1 DEF Revived, Stringified, Has, Bigint, Digits
  <2>2. CASE key # "nonce"
    <3>1. outcome[key] = Null \/ \E string : outcome[key] = Text(string)
      BY <1>1, <1>5, <2>2
    <3> QED  BY <3>1 DEF Revived, Stringified, Has, Text, Null
  <2> QED  BY <2>1, <2>2
<1>6. read = [key \in DOMAIN stored |->
                 IF key = "auth" THEN Object(JsonToAuth(Json(stored.auth)))
                 ELSE Revived(key, stored[key])]
  BY DEF JsonToOutcome, OutcomeToJson, Json, Object
<1>7. /\ DOMAIN stored = DOMAIN outcome
      /\ stored.auth = AuthToJson(Auth(r))[2]
      /\ \A key \in DOMAIN outcome : key # "auth" => stored[key] = Stringified(outcome[key])
  BY <1>1, <1>2
<1> HIDE DEF stored
<1>8. Object(JsonToAuth(Json(stored.auth))) = outcome.auth
  BY <1>1, <1>3, <1>4, <1>7
<1> HIDE DEF read
<1>9. \A key \in DOMAIN outcome : read[key] = outcome[key]
  BY <1>5, <1>6, <1>7, <1>8
<1>10. read = [key \in DOMAIN outcome |-> read[key]]
  BY <1>6, <1>7
<1>11. read = outcome
  BY <1>1, <1>9, <1>10
<1>12. IsReleaseOutcome(outcome)
  <2>1. /\ IsString(outcome["signature"]) /\ IsString(outcome["evidenceDigest"])
        /\ IsString(outcome["auditId"]) /\ Has(outcome.nonce, "bigint")
    BY <1>1 DEF IsString, Has, Text, Bigint
  <2>2. outcome.decision = Text("allowed") /\ outcome.decision # Text("denied")
    BY <1>1 DEF Text
  <2> QED  BY <1>1, <1>2, <1>3, <2>1, <2>2 DEF IsReleaseOutcome
<1>13. IsReleaseOutcome(read) /\ read = outcome
  BY <1>11, <1>12
<1> QED  BY <1>13 DEF OutcomeReadsBack, outcome, read

\* What a step adds to the tables reads back.
LEMMA StepStoresReadable ==
    ASSUME TypeOK'
    PROVE  ListingsReadBack /\ AnswersReadBack
<1>1. ASSUME NEW t \in Trades PROVE TradeReadsBack(TradeRecord(t, trades'[t]))
  <2>1. trades'[t] \in Trade
    BY DEF TypeOK
  <2> QED  BY <2>1, TradeTrip
<1>2. ASSUME NEW outcome \in audits', NEW record \in ReleaseAudits(outcome)
      PROVE  AuditReadsBack(record)
  <2>1. outcome \in Outcome
    BY DEF TypeOK
  <2> QED  BY <1>2, <2>1, ReleaseAuditsReadBack
<1>3. ASSUME NEW edit \in editAudits', NEW record \in EditAudits(edit)
      PROVE  AuditReadsBack(record)
  <2>1. edit \in [operation : Operations, trade : Trades]
    BY DEF TypeOK
  <2> QED  BY <1>3, <2>1, EditAuditsReadBack
<1>4. ASSUME NEW k \in Keys, NEW outcome \in results'[k],
             NEW record \in OutcomeRecords(outcome)
      PROVE  OutcomeReadsBack(record)
  <2>1. outcome.milestone \in Milestones
    BY DEF TypeOK, Outcome
  <2>2. CASE outcome.decision = "allowed"
    BY <1>4, <2>1, <2>2, AllowedTrip DEF OutcomeRecords
  <2>3. CASE outcome.decision # "allowed"
    BY <1>4, <2>3, DeniedTrip DEF OutcomeRecords
  <2> QED  BY <2>2, <2>3
<1>5. ASSUME NEW r \in releases' PROVE AuthReadsBack(Auth(r))
  <2>1. r.milestone \in Milestones
    BY DEF TypeOK, Release
  <2> QED  BY <2>1, AuthTrip
<1>6. ListingsReadBack
  BY <1>1, <1>2, <1>3 DEF ListingsReadBack
<1>7. AnswersReadBack
  BY <1>4, <1>5 DEF AnswersReadBack
<1> QED  BY <1>6, <1>7

-----------------------------------------------------------------------------
(* The theorems.                                                           *)

\* The invariant holds throughout, whatever arrives, interleaves and dies.
THEOREM RegistryInvariant == Spec => []IInv
<1>1. Init => IInv
  BY InitIInv
<1>2. IInv /\ [Next]_vars => IInv'
  BY InductiveNext
<1> QED  BY <1>1, <1>2, PTL DEF Spec

\* It holds as well with the scheduler on, across restarts.
THEOREM AutoInvariant == AutoSpec => []AutoInv
<1>1. AutoInit => AutoInv
  BY InitAutoInv
<1>2. AutoInv /\ [AutoNext]_autoVars => AutoInv'
  BY AutoInductiveNext
<1> QED  BY <1>1, <1>2, PTL DEF AutoSpec

\* Every table and every request in flight has its type.
THEOREM RegistryTypeCorrect == Spec => []TypeOK
<1>1. IInv => TypeOK
  BY DEF IInv
<1> QED  BY <1>1, RegistryInvariant, PTL

\* One key buys one authorization, whatever is retried, raced or abandoned
\* (reserveIdempotencyKey).
THEOREM KeyBuysOnce == Spec => []OneReleasePerKey
<1>1. IInv => OneReleasePerKey
  BY DEF IInv, TablesSound
<1> QED  BY <1>1, RegistryInvariant, PTL

\* No two authorizations of a milestone carry one nonce (nextNonce, consumeNonce).
THEOREM NoncesDiffer == Spec => []NonceUsedOnce
<1>1. IInv => NonceUsedOnce
  BY DEF IInv, TablesSound
<1> QED  BY <1>1, RegistryInvariant, PTL

\* What a retry is told is in the trail and backed by an authorization
\* (setIdempotencyResult).
THEOREM OutcomesBacked == Spec => []OutcomeBacked
<1>1. IInv => OutcomeBacked
  BY DEF IInv, TablesSound
<1> QED  BY <1>1, RegistryInvariant, PTL

\* Stale writes leave rows that a serial history could have left (saveTrade).
THEOREM RowsConsistent == Spec => []RowConsistent
<1>1. IInv => RowConsistent
  BY RowPromises
<1> QED  BY <1>1, RegistryInvariant, PTL

\* A milestone is marked released only after an authorization for it was recorded
\* (recordRelease before saveTrade).
THEOREM ReleasedIsAuthorized == Spec => []ReleasedMeansAuthorized
<1>1. IInv => ReleasedMeansAuthorized
  BY RowPromises
<1> QED  BY <1>1, RegistryInvariant, PTL

\* No attempt replaces what another one's retry was told.
THEOREM OutcomesFinal == Spec => OutcomeFinal
<1>1. IInv /\ [Next]_vars
      => [\A k \in Keys : results[k] # {} => results'[k] = results[k]]_vars
  BY StepOutcomeFinal
<1> QED  BY <1>1, RegistryInvariant, PTL DEF Spec, OutcomeFinal

\* Nobody who has been ineligible since the request arrived is allowed
\* (verifyApass, verifyValidator, decideRelease).
THEOREM ChecksFresh == Spec => FreshlyChecked
<1>1. IInv /\ [Next]_vars
      => [\A a \in Attempts :
            InFlight(a) /\ attempts[a].decision = "denied"
            /\ attempts'[a] # Idle /\ attempts'[a].decision = "allowed"
            => attempts[a].barred = {}]_vars
  BY StepFresh
<1> QED  BY <1>1, RegistryInvariant, PTL DEF Spec, FreshlyChecked

\* Whatever a handler writes is stored, and read back as it was written.
THEOREM TablesReadBack == Spec => StoredReadsBack
<1>1. IInv /\ [Next]_vars => [ListingsReadBack /\ AnswersReadBack]_vars
  <2> SUFFICES ASSUME IInv, [Next]_vars PROVE ListingsReadBack /\ AnswersReadBack
    OBVIOUS
  <2>1. TypeOK'
    BY InductiveNext DEF IInv
  <2> QED  BY <2>1, StepStoresReadable
<1> QED  BY <1>1, RegistryInvariant, PTL DEF Spec, StoredReadsBack

\* At the start nothing is in flight and nothing is authorized.
LEMMA InitSerial == Init => SerialInv
<1> SUFFICES ASSUME Init PROVE SerialInv
  OBVIOUS
<1>1. /\ \A a \in Attempts : ~InFlight(a)
      /\ \A a \in Attempts : attempts[a].pc = "idle"
      /\ \A e \in Editors : editors[e] = NoEdit
  BY DEF Init, InFlight, Idle
<1>2. OneAtATime
  BY <1>1 DEF OneAtATime
<1>3. RowsCurrent
  BY <1>1 DEF RowsCurrent, Current, Editing
<1>4. AuthorizedIsMarked /\ AuthorizedOnce
  BY DEF Init, AuthorizedIsMarked, AuthorizedOnce
<1> QED  BY InitIInv, <1>2, <1>3, <1>4 DEF SerialInv

\* While requests are served one at a time, none of them dies and no trade is
\* created again, a milestone is authorized at most once.  (A request that dies
\* between the authorization and the row lets the next key authorize again.)
THEOREM SeriallyAuthorizedOnce ==
    ASSUME Serial
    PROVE  Spec => []AuthorizedOnce
<1>1. Init => SerialInv
  BY InitSerial
<1>2. SerialInv /\ [Next]_vars => SerialInv'
  BY SerialNext
<1>3. SerialInv => AuthorizedOnce
  BY DEF SerialInv
<1> QED  BY <1>1, <1>2, <1>3, PTL DEF Spec

\* ... and what is released stays as it is.
THEOREM SeriallyReleasedIsFinal ==
    ASSUME Serial
    PROVE  Spec => ReleasedIsFinal
<1>1. Init => SerialInv
  BY InitSerial
<1>2. SerialInv /\ [Next]_vars => SerialInv'
  BY SerialNext
<1>3. SerialInv /\ [Next]_vars
      => [\A t \in Trades, m \in Milestones :
            trades[t].milestones[m].status = "RELEASED"
            => trades'[t].milestones[m] = trades[t].milestones[m]]_vars
  BY StepReleasedFinal DEF Released
<1> QED  BY <1>1, <1>2, <1>3, PTL DEF Spec, ReleasedIsFinal

\* With the scheduler on, the promises of the release path hold across its
\* failures and restarts.
THEOREM AutoKeepsPromises ==
    AutoSpec => [](/\ AutoTypeOK /\ OneReleasePerKey /\ NonceUsedOnce /\ OutcomeBacked
                   /\ RowConsistent /\ ReleasedMeansAuthorized)
<1>1. AutoInv => /\ AutoTypeOK /\ OneReleasePerKey /\ NonceUsedOnce /\ OutcomeBacked
                 /\ RowConsistent /\ ReleasedMeansAuthorized
  BY AutoTypes, RowPromises DEF AutoInv, IInv, TablesSound
<1> QED  BY <1>1, AutoInvariant, PTL

\* The scheduler uses no more nonces than it has taken keys, one per evidence.
THEOREM OneNoncePerEvidence == AutoSpec => []NoncePerEvidence
<1>1. AutoInv => NoncePerEvidence
  <2>1. AutoInv => /\ Cardinality(nonces) \in Nat /\ Cardinality(reserved) \in Nat
                   /\ Owed \in {0, 1}
    BY FS_CardinalityType DEF AutoInv, NoncesPaid, Owed
  <2> QED  BY <2>1 DEF AutoInv, NoncesPaid, NoncePerEvidence
<1> QED  BY <1>1, AutoInvariant, PTL

\* Ticks, failures and restarts of the scheduler are steps of the release path
\* that some caller could have taken, or a crash that leaves the tables alone.
THEOREM SchedulerIsACaller == AutoSpec => [][Next \/ Crash]_vars
<1>1. AutoInv /\ [AutoNext]_autoVars => [Next \/ Crash]_vars
  BY SchedulerStep
<1> QED  BY <1>1, AutoInvariant, PTL DEF AutoSpec

\* So with the scheduler on, and across its restarts, what a retry is told stays
\* what it was,
THEOREM AutoOutcomesFinal == AutoSpec => OutcomeFinal
<1>1. AutoInv /\ [Next \/ Crash]_vars
      => [\A k \in Keys : results[k] # {} => results'[k] = results[k]]_vars
  BY StepOutcomeFinal DEF AutoInv, Crash
<1> QED  BY <1>1, AutoInvariant, SchedulerIsACaller, PTL DEF OutcomeFinal

\* nobody who was ineligible all along is allowed,
THEOREM AutoChecksFresh == AutoSpec => FreshlyChecked
<1>1. AutoInv /\ [Next \/ Crash]_vars
      => [\A a \in Attempts :
            InFlight(a) /\ attempts[a].decision = "denied"
            /\ attempts'[a] # Idle /\ attempts'[a].decision = "allowed"
            => attempts[a].barred = {}]_vars
  BY StepFresh DEF AutoInv, Crash
<1> QED  BY <1>1, AutoInvariant, SchedulerIsACaller, PTL DEF FreshlyChecked

\* and what is stored reads back.
THEOREM AutoTablesReadBack == AutoSpec => StoredReadsBack
<1>1. AutoInv /\ [AutoNext]_autoVars => [ListingsReadBack /\ AnswersReadBack]_vars
  <2> SUFFICES ASSUME AutoInv, [AutoNext]_autoVars
               PROVE  ListingsReadBack /\ AnswersReadBack
    OBVIOUS
  <2>1. TypeOK'
    BY AutoInductiveNext DEF AutoInv, IInv
  <2> QED  BY <2>1, StepStoresReadable
<1> QED  BY <1>1, AutoInvariant, PTL DEF AutoSpec, StoredReadsBack

-----------------------------------------------------------------------------
(* From the signature to the money (Settlement).                           *)

\* What is displayed for a digest of m: m itself, or nothing, where m had been
\* released before.
FineFor(m, shown) == shown = m \/ (shown = None /\ Signed(m))

\* A row, be it the stored one or one that a release read earlier.
SettlementRow(t) ==
    /\ t.milestones[2].status = "RELEASED" => t.milestones[1].status = "RELEASED"
    /\ \A m \in Milestones :
          /\ t.milestones[m].status = "RELEASED" =>
                Signed(m) /\ t.milestones[m].evidence = Compliance
          /\ t.milestones[m].evidence \in Digests => FineFor(m, shownFor[m])

SettlementRows ==
    /\ SettlementRow(row)
    /\ \A r \in Releasers : requests[r] # NoRequest => SettlementRow(requests[r].row)

\* What the page does not list was released once, and the first milestone is
\* never pending again.
PageSound ==
    /\ \A m \in Milestones \ page.pending : Signed(m)
    /\ 1 \in page.pending => 2 \in page.pending
    /\ row.milestones[1].status = "PENDING" => 1 \in page.pending

\* So the value that is posted and what was displayed part only where the row
\* does not take the digest, or has reopened the milestone.
PostSound ==
    \A post \in desk.posts :
        /\ post.m = 1 /\ row.milestones[1].status = "PENDING" => post.shown = 1
        /\ post.m = 2 => FineFor(2, post.shown)

\* The claim that succeeded was paid.
ClaimPaid == Submitted => authorizations[panel.tx.auth].milestone \in paid

\* Whatever number the browser holds was signed, and a claim that succeeded paid.
ClaimSound ==
    /\ page.auth <= Len(authorizations)
    /\ panel.prompt <= Len(authorizations)
    /\ panel.tx # NoTx => panel.tx.auth <= Len(authorizations)
    /\ ClaimPaid

SettlementInv ==
    /\ SettlementTypeOK
    /\ SettlementRows /\ PageSound /\ PostSound /\ ClaimSound
-----------------------------------------------------------------------------
\* What was signed stays signed when another authorization is.
LEMMA SignedStays ==
    ASSUME SettlementTypeOK, NEW auth,
           \/ UNCHANGED authorizations
           \/ authorizations' = Append(authorizations, auth)
    PROVE  /\ \A m : Signed(m) => Signed(m)'
           /\ \A m, shown : FineFor(m, shown) => FineFor(m, shown)'
           /\ Len(authorizations) <= Len(authorizations)'
           /\ \A i \in 1 .. Len(authorizations) : authorizations'[i] = authorizations[i]
<1>1. authorizations \in Seq([milestone : Milestones, expiry : 0 .. MaxTime + Window])
  BY DEF SettlementTypeOK
<1>2. /\ Len(authorizations) <= Len(authorizations)'
      /\ \A i \in 1 .. Len(authorizations) : authorizations'[i] = authorizations[i]
  BY <1>1
<1>3. ASSUME NEW m, Signed(m) PROVE Signed(m)'
  <2>1. PICK i \in 1 .. Len(authorizations) : authorizations[i].milestone = m
    BY <1>1, <1>3 DEF Signed
  <2>2. i \in DOMAIN authorizations' /\ authorizations'[i].milestone = m
    BY <1>1, <1>2, <2>1
  <2> QED  BY <2>2 DEF Signed
<1> QED  BY <1>2, <1>3 DEF FineFor

\* A row stays sound, wherever it is kept: signatures are only added.
LEMMA SettlementRowStays ==
    ASSUME NEW t, SettlementRow(t), UNCHANGED shownFor,
           \A m : Signed(m) => Signed(m)'
    PROVE  /\ row' = t => SettlementRow(row)'
           /\ \A r : requests'[r].row = t => SettlementRow(requests[r].row)'
BY DEF SettlementRow, FineFor

\* A release that ends leaves the rows of the others.
LEMMA RequestsStay ==
    ASSUME SettlementTypeOK, SettlementRows, NEW r \in Releasers, UNCHANGED shownFor,
           requests' = [requests EXCEPT ![r] = NoRequest],
           \A m : Signed(m) => Signed(m)',
           UNCHANGED row \/ SettlementRow(row)'
    PROVE  SettlementRows'
<1>1. ASSUME NEW q \in Releasers, requests'[q] # NoRequest
      PROVE  SettlementRow(requests[q].row)'
  <2>1. requests'[q] = requests[q] /\ SettlementRow(requests[q].row)
    BY <1>1 DEF SettlementTypeOK, SettlementRows
  <2> QED  BY <2>1, SettlementRowStays
<1>2. SettlementRow(row)'
  BY SettlementRowStays DEF SettlementRows
<1> QED  BY <1>1, <1>2 DEF SettlementRows

\* Steps that leave registry and posts alone.
LEMMA SettlementRowsStay ==
    ASSUME SettlementRows, UNCHANGED <<row, requests, authorizations, shownFor>>
    PROVE  SettlementRows'
BY DEF SettlementRows, SettlementRow, FineFor, Signed

\* What the page rests on does not change under it.
LEMMA PageStays ==
    ASSUME PageSound, UNCHANGED <<row, authorizations, page>>
    PROVE  PageSound'
BY DEF PageSound, Signed

\* Nor does what the evidence desk has posted.
LEMMA PostStays ==
    ASSUME PostSound, UNCHANGED <<row, authorizations, desk>>
    PROVE  PostSound'
BY DEF PostSound, FineFor, Signed

\* A claim stays sound: what is paid stays paid.
LEMMA ClaimStays ==
    ASSUME ClaimSound, UNCHANGED <<authorizations, page, panel>>, paid \subseteq paid'
    PROVE  ClaimSound'
BY DEF ClaimSound, ClaimPaid, Submitted

\* The rules of the domain keep rows rows, and a row that is read is one.
LEMMA SettlementRules ==
    ASSUME NEW t \in Trade, NEW m \in Milestones
    PROVE  /\ MarkMilestoneReleased(t, m) \in Trade
           /\ \A digest \in Digests : AnchorMilestoneEvidence(t, m, digest) \in Trade
BY DEF MarkMilestoneReleased, AnchorMilestoneEvidence, Trade, Milestone, TradeStatus,
       Milestones

-----------------------------------------------------------------------------
(* The server.                                                             *)

\* A release that reads the row holds a sound one.
LEMMA ReadInv ==
    ASSUME SettlementInv, NEW r \in Releasers, NEW m \in Milestones, Read(r, m),
           UNCHANGED <<row, authorizations, passing, paid, now, web, faults>>,
           decided' \subseteq Milestones \X (Digests \cup {Compliance})
    PROVE  SettlementInv'
<1> USE DEF web
<1>1. SettlementTypeOK'
  BY DEF SettlementInv, SettlementTypeOK, Read
<1>2. SettlementRows'
  <2>1. /\ SettlementRow(row)
        /\ \A k : Signed(k) => Signed(k)'
    BY DEF SettlementInv, SettlementRows, Signed
  <2>2. ASSUME NEW q \in Releasers, requests'[q] # NoRequest
        PROVE  SettlementRow(requests[q].row)'
    <3>1. CASE q = r
      BY <2>1, <3>1, SettlementRowStays DEF SettlementInv, SettlementTypeOK, Read
    <3>2. CASE q # r
      BY <2>1, <2>2, <3>2, SettlementRowStays
      DEF SettlementInv, SettlementTypeOK, SettlementRows, Read
    <3> QED  BY <3>1, <3>2
  <2> QED  BY <2>1, <2>2, SettlementRowStays DEF SettlementRows
<1>3. PageSound' /\ PostSound' /\ ClaimSound'
  BY PageStays, PostStays, ClaimStays DEF SettlementInv
<1> QED  BY <1>1, <1>2, <1>3 DEF SettlementInv

\* The operator's request reads the row as it is, and that one is sound.
LEMMA OperatorReadsInv ==
    ASSUME SettlementInv, OperatorReads
    PROVE  SettlementInv'
<1>1. PICK m \in Milestones : Read("operator", m)
  BY DEF OperatorReads
<1>2. decided' \subseteq Milestones \X (Digests \cup {Compliance})
  BY DEF OperatorReads, SettlementInv, SettlementTypeOK
<1> QED  BY <1>1, <1>2, ReadInv DEF OperatorReads, Releasers

\* The first of some milestones is one of them.
LEMMA FirstIs ==
    ASSUME NEW ms \in SUBSET Milestones, ms # {}
    PROVE  /\ First(ms) \in ms
           /\ 1 \in ms => First(ms) = 1
<1>1. \E m \in ms : \A n \in ms : m <= n
  <2>1. CASE 1 \in ms
    <3>1. \A n \in ms : 1 <= n
      BY DEF Milestones
    <3> QED  BY <2>1, <3>1
  <2>2. CASE 1 \notin ms
    <3>1. 2 \in ms /\ \A n \in ms : n = 2
      BY <2>2 DEF Milestones
    <3> QED  BY <3>1
  <2> QED  BY <2>1, <2>2
<1>2. First(ms) \in ms /\ \A n \in ms : First(ms) <= n
  BY <1>1 DEF First
<1>3. First(ms) \in {1, 2}
  BY <1>2 DEF Milestones
<1> QED  BY <1>2, <1>3

\* So does the scheduler's.
LEMMA AutoReadsInv ==
    ASSUME SettlementInv, AutoReads
    PROVE  SettlementInv'
<1> DEFINE next == First(Pending(row))
           digest == row.milestones[next].evidence
<1>1. next \in Milestones
  BY FirstIs DEF AutoReads, Pending
<1>2. digest \in Digests \cup {Compliance}
  BY <1>1 DEF AutoReads, SettlementInv, SettlementTypeOK, Trade, Milestone
<1>3. decided' \subseteq Milestones \X (Digests \cup {Compliance})
  BY <1>1, <1>2 DEF AutoReads, SettlementInv, SettlementTypeOK
<1>4. Read("auto", next)
  BY DEF AutoReads
<1> QED  BY <1>1, <1>3, <1>4, ReadInv DEF AutoReads, Releasers

\* What was decided on a row read earlier: the milestone is signed and released
\* in what replaces the row, whatever has happened to the row since.
LEMMA SignInv ==
    ASSUME SettlementInv, NEW r \in Releasers, Sign(r)
    PROVE  SettlementInv'
<1> USE DEF web
<1>1. PICK m \in Milestones, t \in Trade :
         /\ requests[r] # NoRequest /\ requests[r].m = m /\ requests[r].row = t
         /\ SettlementRow(t)
  <2>1. requests[r] \in {NoRequest} \cup [m : Milestones, row : Trade]
    BY DEF SettlementInv, SettlementTypeOK
  <2> QED  BY <2>1 DEF Sign, SettlementInv, SettlementRows
<1> DEFINE auth == [milestone |-> m, expiry |-> now + Window]
           next == MarkMilestoneReleased(t, m)
<1>2. /\ requests' = [requests EXCEPT ![r] = NoRequest]
      /\ UNCHANGED <<decided, passing, paid, now, web, faults>>
  BY DEF Sign
<1>3. requests' \in [Releasers -> {NoRequest} \cup [m : Milestones, row : Trade]]
  BY <1>2 DEF SettlementInv, SettlementTypeOK
<1>4. CASE UNCHANGED <<authorizations, row>>
  <2>1. SettlementTypeOK'
    BY <1>2, <1>3, <1>4 DEF SettlementInv, SettlementTypeOK
  <2>2. SettlementRows'
    <3>1. \A k : Signed(k) => Signed(k)'
      BY <1>4 DEF Signed
    <3> QED  BY <1>2, <1>4, <3>1, RequestsStay DEF SettlementInv
  <2>3. PageSound' /\ PostSound' /\ ClaimSound'
    BY <1>2, <1>4, PageStays, PostStays, ClaimStays DEF SettlementInv
  <2> QED  BY <2>1, <2>2, <2>3 DEF SettlementInv
<1>5. CASE /\ \E clear \in BOOLEAN : DecideRelease(t, m, clear)
           /\ Len(authorizations) < MaxAuthorizations
           /\ authorizations' = Append(authorizations, auth)
           /\ row' = next
  <2>1. /\ authorizations' \in Seq([milestone : Milestones, expiry : 0 .. MaxTime + Window])
        /\ Len(authorizations') = Len(authorizations) + 1
        /\ Signed(m)'
    <3>1. auth \in [milestone : Milestones, expiry : 0 .. MaxTime + Window]
      BY <1>1, SettlementAssumption DEF SettlementInv, SettlementTypeOK
    <3>2. /\ authorizations' \in Seq([milestone : Milestones, expiry : 0 .. MaxTime + Window])
          /\ Len(authorizations') = Len(authorizations) + 1
          /\ authorizations'[Len(authorizations) + 1] = auth
          /\ Len(authorizations) + 1 \in DOMAIN authorizations'
      BY <1>5, <3>1 DEF SettlementInv, SettlementTypeOK
    <3> QED  BY <3>2 DEF Signed
  <2>2. /\ \A k : Signed(k) => Signed(k)'
        /\ \A k, shown : FineFor(k, shown) => FineFor(k, shown)'
        /\ Len(authorizations) <= Len(authorizations)'
        /\ \A i \in 1 .. Len(authorizations) : authorizations'[i] = authorizations[i]
    BY <1>5, SignedStays DEF SettlementInv
  <2>3. SettlementTypeOK'
    <3>1. Len(authorizations') <= MaxAuthorizations
      BY <1>5, <2>1, SettlementAssumption DEF SettlementInv, SettlementTypeOK
    <3>2. row' \in Trade
      BY <1>1, <1>5, SettlementRules
    <3> QED  BY <1>2, <1>3, <2>1, <3>1, <3>2 DEF SettlementInv, SettlementTypeOK
  <2>4. SettlementRow(next)'
    <3>1. /\ next.milestones[m] = [status |-> "RELEASED", evidence |-> Compliance]
          /\ \A n \in Milestones \ {m} : next.milestones[n] = t.milestones[n]
          /\ m = 2 => t.milestones[1].status = "RELEASED"
      BY <1>1, <1>5 DEF MarkMilestoneReleased, Trade, DecideRelease, Milestones
    <3>2. Compliance \notin Digests
      BY DigestsAssumption
    <3> QED  BY <1>1, <1>2, <2>1, <2>2, <3>1, <3>2 DEF SettlementRow, Milestones
  <2>5. SettlementRow(row)'
    BY <1>5, <2>4 DEF SettlementRow
  <2>6. SettlementRows'
    BY <1>2, <2>2, <2>5, RequestsStay DEF SettlementInv
  <2>7. row'.milestones[1].status = "RELEASED"
    BY <1>1, <1>5 DEF MarkMilestoneReleased, Trade, DecideRelease, Milestones
  <2>8. PageSound' /\ PostSound'
    BY <1>2, <2>2, <2>7 DEF SettlementInv, PageSound, PostSound
  <2>9. ClaimSound'
    <3>1. SettlementTypeOK /\ ClaimSound
      BY DEF SettlementInv
    <3>2. Submitted => panel.tx \in [status : {"pending", "success", "reverted"},
                                     auth : 1 .. MaxAuthorizations]
      BY <3>1 DEF Submitted, SettlementTypeOK, Panel, NoTx
    <3>3. Submitted => panel.tx.auth \in 1 .. Len(authorizations)
      BY <3>1, <3>2 DEF ClaimSound, Submitted, NoTx
    <3>4. Len(authorizations) \in Nat
      BY <3>1 DEF SettlementTypeOK
    <3>5. page.auth \in Nat /\ panel.prompt \in Nat
          /\ (panel.tx # NoTx => panel.tx.auth \in Nat)
      BY <3>1, SettlementAssumption DEF SettlementTypeOK, Numbers, Panel, NoTx
    <3> QED  BY <1>2, <2>1, <2>2, <3>1, <3>3, <3>4, <3>5
             DEF ClaimSound, ClaimPaid, Submitted
  <2> QED  BY <2>3, <2>6, <2>8, <2>9 DEF SettlementInv
<1>6. \/ UNCHANGED <<authorizations, row>>
      \/ /\ \E clear \in BOOLEAN : DecideRelease(t, m, clear)
         /\ Len(authorizations) < MaxAuthorizations
         /\ authorizations' = Append(authorizations, auth)
         /\ row' = next
  BY <1>1 DEF Sign, SettlementInv, SettlementTypeOK
<1> QED  BY <1>4, <1>5, <1>6
-----------------------------------------------------------------------------
(* The chain.                                                              *)

\* What was signed is for a milestone.
LEMMA SignedMilestone ==
    ASSUME SettlementTypeOK, NEW i \in DOMAIN authorizations
    PROVE  authorizations[i].milestone \in Milestones
<1>1. authorizations \in Seq([milestone : Milestones, expiry : 0 .. MaxTime + Window])
  BY DEF SettlementTypeOK
<1>2. i \in 1 .. Len(authorizations)
  BY <1>1, LenProperties
<1>3. authorizations[i] \in [milestone : Milestones, expiry : 0 .. MaxTime + Window]
  BY <1>1, <1>2, ElementOfSeq
<1> QED  BY <1>3

\* What the escrow pays is in order and stays paid.
LEMMA PaidGrows ==
    ASSUME SettlementTypeOK, NEW i \in DOMAIN authorizations, Execute(authorizations[i])
    PROVE  /\ paid \subseteq paid' /\ paid' \subseteq Milestones
           /\ 2 \in paid' => 1 \in paid'
           /\ Pays(authorizations[i]) => authorizations[i].milestone \in paid'
<1> DEFINE auth == authorizations[i]
<1>1. auth.milestone \in {1, 2} /\ paid \subseteq {1, 2} /\ (2 \in paid => 1 \in paid)
  BY SignedMilestone DEF SettlementTypeOK, Milestones
<1> HIDE DEF auth
<1>2. Execute(auth)
  BY DEF auth
<1>3. /\ paid \subseteq paid' /\ paid' \subseteq Milestones
      /\ 2 \in paid' => 1 \in paid'
      /\ Pays(auth) => auth.milestone \in paid'
  BY <1>1, <1>2 DEF Execute, Pays, Milestones
<1> QED  BY <1>3 DEF auth

\* Steps that only move time, the standings or what is paid.
LEMMA ChainInv ==
    ASSUME SettlementInv, SettlementTypeOK', UNCHANGED <<server, web>>, paid \subseteq paid'
    PROVE  SettlementInv'
BY SettlementRowsStay, PageStays, PostStays, ClaimStays DEF SettlementInv, server, web

\* Somebody else's transaction pays, and moves nothing else.
LEMMA SubmitReleaseInv ==
    ASSUME SettlementInv, SubmitRelease
    PROVE  SettlementInv'
<1>1. PICK i \in DOMAIN authorizations : Execute(authorizations[i])
  BY DEF SubmitRelease
<1>2. /\ paid \subseteq paid' /\ paid' \subseteq Milestones /\ (2 \in paid' => 1 \in paid')
  BY <1>1, PaidGrows DEF SettlementInv
<1>3. SettlementTypeOK'
  BY <1>2 DEF SubmitRelease, SettlementInv, SettlementTypeOK, server, web
<1> QED  BY <1>2, <1>3, ChainInv DEF SubmitRelease

\* The standings and the clock bear on no promise.
LEMMA WorldInv ==
    ASSUME SettlementInv, StandingsChange \/ TimePasses
    PROVE  SettlementInv'
<1>1. SettlementTypeOK'
  <2>1. CASE StandingsChange
    <3>1. faults' \in 0 .. MaxFaults /\ passing' \in BOOLEAN
      BY <2>1, SettlementAssumption
      DEF StandingsChange, Fault, SettlementInv, SettlementTypeOK
    <3> QED  BY <2>1, <3>1
             DEF StandingsChange, SettlementInv, SettlementTypeOK, server, web
  <2>2. CASE TimePasses
    <3>1. now' \in 0 .. MaxTime
      BY <2>2, SettlementAssumption DEF TimePasses, SettlementInv, SettlementTypeOK
    <3> QED  BY <2>2, <3>1 DEF TimePasses, SettlementInv, SettlementTypeOK, server, web
  <2> QED  BY <2>1, <2>2
<1> QED  BY <1>1, ChainInv DEF StandingsChange, TimePasses

\* A transaction of the panel carries something that was signed.
LEMMA ClaimedAuth ==
    ASSUME SettlementInv, MineClaim
    PROVE  /\ panel.tx \in [status : {"pending", "success", "reverted"},
                            auth : 1 .. MaxAuthorizations]
           /\ panel.tx.auth \in DOMAIN authorizations
<1>1. SettlementTypeOK /\ ClaimSound /\ panel \in Panel
  BY DEF SettlementInv, SettlementTypeOK
<1>2. panel.tx \in [status : {"pending", "success", "reverted"},
                    auth : 1 .. MaxAuthorizations]
  BY <1>1 DEF MineClaim, Panel, NoTx
<1> QED  BY <1>1, <1>2 DEF ClaimSound, MineClaim, NoTx, SettlementTypeOK

\* The panel's transaction succeeds by paying.
LEMMA MineClaimInv ==
    ASSUME SettlementInv, MineClaim
    PROVE  SettlementInv'
<1> USE DEF server
<1>1. /\ SettlementTypeOK /\ ClaimSound
      /\ panel \in Panel
  BY DEF SettlementInv, SettlementTypeOK
<1>2. /\ panel.prompt \in Numbers
      /\ panel.tx \in [status : {"pending", "success", "reverted"},
                       auth : 1 .. MaxAuthorizations]
  BY <1>1, ClaimedAuth DEF Panel
<1> DEFINE i == panel.tx.auth
           status == IF Pays(authorizations[i]) THEN "success" ELSE "reverted"
<1>3. i \in DOMAIN authorizations
  BY ClaimedAuth
<1>4. /\ Execute(authorizations[i])
      /\ panel' = [panel EXCEPT !.tx.status = status]
      /\ UNCHANGED <<server, passing, now, page, desk, shownFor, faults>>
  BY DEF MineClaim
<1>5. /\ paid \subseteq paid' /\ paid' \subseteq Milestones /\ (2 \in paid' => 1 \in paid')
      /\ Pays(authorizations[i]) => authorizations[i].milestone \in paid'
  BY <1>1, <1>3, <1>4, PaidGrows
<1>6. /\ panel' \in Panel
      /\ panel'.prompt = panel.prompt /\ panel'.tx.auth = i /\ panel'.tx.status = status
  BY <1>1, <1>2, <1>4 DEF Panel
<1>7. SettlementTypeOK'
  BY <1>1, <1>4, <1>5, <1>6 DEF SettlementTypeOK
<1>8. ClaimSound'
  BY <1>1, <1>2, <1>3, <1>4, <1>5, <1>6
  DEF ClaimSound, ClaimPaid, Submitted, MineClaim, NoTx
<1>9. SettlementRows' /\ PageSound' /\ PostSound'
  BY <1>4, SettlementRowsStay, PageStays, PostStays DEF SettlementInv
<1> QED  BY <1>7, <1>8, <1>9 DEF SettlementInv

-----------------------------------------------------------------------------
(* The page and the panel.                                                 *)

\* What is served was signed.
LEMMA ServedIs ==
    ASSUME SettlementTypeOK
    PROVE  Served \in Numbers /\ Served <= Len(authorizations)
BY SettlementAssumption DEF SettlementTypeOK, Served, Numbers, None

\* A page that shows the row of now, and an authorization that was signed.
LEMMA PageFollows ==
    ASSUME SettlementInv, UNCHANGED <<row, authorizations>>, page'.pending = Pending(row)
    PROVE  PageSound'
<1>1. SettlementRow(row) /\ row \in Trade
  BY DEF SettlementInv, SettlementRows, SettlementTypeOK
<1>2. \A m \in Milestones : row.milestones[m].status \in {"PENDING", "RELEASED"}
  BY <1>1 DEF Trade, Milestone
<1> QED  BY <1>1, <1>2 DEF SettlementRow, PageSound, Pending, Signed, Milestones

\* A refresh lists what the row says.
LEMMA RefreshInv ==
    ASSUME SettlementInv, Refresh
    PROVE  SettlementInv'
<1> USE DEF server
<1>1. /\ page' = [pending |-> Pending(row), auth |-> Served]
      /\ UNCHANGED <<server, passing, paid, now, panel, desk, shownFor, faults>>
  BY DEF Refresh
<1>2. SettlementTypeOK'
  BY <1>1, ServedIs DEF SettlementInv, SettlementTypeOK, Pending
<1>3. ClaimSound'
  BY <1>1, ServedIs DEF SettlementInv, ClaimSound, ClaimPaid, Submitted
<1>4. SettlementRows' /\ PageSound' /\ PostSound'
  BY <1>1, SettlementRowsStay, PageFollows, PostStays DEF SettlementInv
<1> QED  BY <1>2, <1>3, <1>4 DEF SettlementInv

\* A reload forgets the claim, and keeps the posts that were sent.
LEMMA ReloadInv ==
    ASSUME SettlementInv, Reload
    PROVE  SettlementInv'
<1> USE DEF server
<1>1. /\ page' = [pending |-> Pending(row), auth |-> None]
      /\ panel' = NewPanel
      /\ desk' = [NewDesk EXCEPT !.posts = {[post EXCEPT !.age = @ + 1] : post \in desk.posts}]
      /\ UNCHANGED <<server, passing, paid, now, shownFor>>
      /\ faults' \in 0 .. MaxFaults
  BY SettlementAssumption DEF Reload, Fault, SettlementInv, SettlementTypeOK
<1> DEFINE Aged(post) == [post EXCEPT !.age = post.age + 1]
<1>2. /\ desk'.posts = {Aged(post) : post \in desk.posts} /\ desk' \in Desk
      /\ \A post \in desk.posts : Aged(post).m = post.m /\ Aged(post).shown = post.shown
  <2>1. desk.posts \in SUBSET Post
    BY DEF SettlementInv, SettlementTypeOK, Desk
  <2>2. ASSUME NEW post \in Post
        PROVE  Aged(post) \in Post /\ Aged(post).m = post.m /\ Aged(post).shown = post.shown
    BY DEF Post
  <2>3. desk'.posts = {Aged(post) : post \in desk.posts}
    BY <1>1 DEF NewDesk
  <2>4. desk'.posts \in SUBSET Post
    BY <2>1, <2>2, <2>3
  <2>5. desk' \in Desk
    BY <1>1, <2>3, <2>4 DEF NewDesk, Desk, Milestones
  <2> QED  BY <2>1, <2>2, <2>3, <2>5
<1>3. panel' \in Panel /\ panel'.prompt = None /\ panel'.tx = NoTx
  BY <1>1, SettlementAssumption DEF NewPanel, Panel, Numbers, None
<1>4. SettlementTypeOK'
  BY <1>1, <1>2, <1>3, SettlementAssumption
  DEF SettlementInv, SettlementTypeOK, Pending, Numbers, None
<1>5. ClaimSound'
  BY <1>1, <1>3 DEF SettlementInv, SettlementTypeOK, ClaimSound, ClaimPaid,
                    Submitted, None, NoTx
<1>6. PostSound'
  <2> SUFFICES ASSUME NEW post \in desk'.posts
               PROVE  /\ post.m = 1 /\ row.milestones[1].status = "PENDING" => post.shown = 1
                      /\ post.m = 2 => FineFor(2, post.shown)
    BY <1>1 DEF PostSound, FineFor, Signed
  <2>1. PICK sent \in desk.posts : post.m = sent.m /\ post.shown = sent.shown
    BY <1>2
  <2> QED  BY <2>1 DEF SettlementInv, PostSound
<1>7. SettlementRows' /\ PageSound'
  BY <1>1, SettlementRowsStay, PageFollows DEF SettlementInv
<1> QED  BY <1>4, <1>5, <1>6, <1>7 DEF SettlementInv

\* A claim, its confirmation and its refusal: the panel holds what the page
\* showed, and nothing that succeeded is replaced.
LEMMA PanelInv ==
    ASSUME SettlementInv, Claim \/ Confirm \/ Refuse
    PROVE  SettlementInv'
<1> USE DEF server
<1>1. /\ UNCHANGED <<server, passing, paid, now, page, desk, shownFor>>
      /\ faults' \in 0 .. MaxFaults
  BY SettlementAssumption
  DEF Claim, Confirm, Refuse, Fault, SettlementInv, SettlementTypeOK
<1>2. /\ panel \in Panel /\ page.auth \in Numbers /\ ClaimSound
      /\ Len(authorizations) \in Nat /\ SettlementTypeOK
  BY DEF SettlementInv, SettlementTypeOK
<1>3. panel' \in Panel /\ ClaimSound'
  <2>1. CASE Claim
    BY <1>1, <1>2, <2>1 DEF Claim, Panel, ClaimSound, ClaimPaid, Submitted
  <2>2. CASE Confirm
    <3>1. panel.prompt \in 1 .. MaxAuthorizations /\ panel.prompt <= Len(authorizations)
      BY <1>2, <2>2, SettlementAssumption DEF Confirm, Panel, Numbers, None, ClaimSound
    <3>2. panel' = [prompt |-> None, tx |-> [status |-> "pending", auth |-> panel.prompt]]
      BY <2>2 DEF Confirm
    <3> QED  BY <1>1, <1>2, <3>1, <3>2, SettlementAssumption
             DEF Panel, Numbers, None, ClaimSound, ClaimPaid, Submitted
  <2>3. CASE Refuse
    BY <1>1, <1>2, <2>3, SettlementAssumption
    DEF Refuse, Panel, Numbers, None, ClaimSound, ClaimPaid, Submitted
  <2> QED  BY <2>1, <2>2, <2>3
<1>4. SettlementTypeOK'
  BY <1>1, <1>2, <1>3 DEF SettlementTypeOK
<1>5. SettlementRows' /\ PageSound' /\ PostSound'
  BY <1>1, SettlementRowsStay, PageStays, PostStays DEF SettlementInv
<1> QED  BY <1>3, <1>4, <1>5 DEF SettlementInv

-----------------------------------------------------------------------------
(* The document evidence section.                                          *)

\* Steps of the section that post nothing new.
LEMMA DeskInv ==
    ASSUME SettlementInv, Elsewhere, UNCHANGED shownFor, desk' \in Desk,
           faults' \in 0 .. MaxFaults, PostSound'
    PROVE  SettlementInv'
<1> USE DEF server, Elsewhere
<1>1. SettlementTypeOK'
  BY DEF SettlementInv, SettlementTypeOK
<1>2. SettlementRows' /\ PageSound' /\ ClaimSound'
  BY SettlementRowsStay, PageStays, ClaimStays DEF SettlementInv
<1> QED  BY <1>1, <1>2 DEF SettlementInv

\* Hashing, clearing, choosing and a lost request post nothing new.
LEMMA SectionInv ==
    ASSUME SettlementInv,
           \/ \E digest \in Digests : Hashed(digest)
           \/ Clear \/ AnchorLost
           \/ \E m \in Milestones : Choose(m)
    PROVE  SettlementInv'
<1>1. /\ Elsewhere /\ UNCHANGED shownFor
      /\ faults' \in 0 .. MaxFaults
  BY SettlementAssumption
  DEF Hashed, Clear, AnchorLost, Choose, Fault, SettlementInv, SettlementTypeOK
<1>2. desk' \in Desk /\ desk'.posts \subseteq desk.posts
  BY DEF Hashed, Clear, AnchorLost, Posted, Choose, SettlementInv, SettlementTypeOK, Desk
<1>3. PostSound'
  BY <1>1, <1>2 DEF SettlementInv, PostSound, FineFor, Signed, Elsewhere, server
<1> QED  BY <1>1, <1>2, <1>3, DeskInv

\* What is posted is what is displayed, unless the row will not take it or the
\* list was empty.
LEMMA AnchorInv ==
    ASSUME SettlementInv, Anchor
    PROVE  SettlementInv'
<1> DEFINE post == [m |-> desk.choice, digest |-> desk.digest, shown |-> Displayed, age |-> 0]
<1>1. /\ desk' = [desk EXCEPT !.posts = desk.posts \cup {post}] /\ desk.digest # NoDigest
      /\ UNCHANGED <<shownFor, faults>> /\ Elsewhere
  BY DEF Anchor
<1>2. /\ desk \in Desk /\ page.pending \in SUBSET Milestones
      /\ desk.choice \in Milestones /\ desk.digest \in Digests
  BY <1>1 DEF SettlementInv, SettlementTypeOK, Desk
<1>3. Displayed \in Milestones \cup {None}
  BY <1>2, FirstIs DEF Displayed
<1>4. desk' \in Desk /\ desk'.posts = desk.posts \cup {post}
  <2>1. post \in Post
    BY <1>2, <1>3 DEF Post
  <2> HIDE DEF post
  <2> QED  BY <1>1, <1>2, <2>1 DEF Desk
<1>5. PostSound'
  <2>1. PageSound /\ UNCHANGED <<row, authorizations>>
    BY <1>1 DEF SettlementInv, Elsewhere, server
  <2>2. desk.choice = 1 /\ row.milestones[1].status = "PENDING" => Displayed = 1
    BY <2>1 DEF PageSound, Displayed
  <2>3. desk.choice = 2 => FineFor(2, Displayed)
    <3>1. CASE 2 \in page.pending
      BY <3>1 DEF Displayed, FineFor
    <3>2. CASE 2 \notin page.pending
      <4>1. page.pending = {} /\ Signed(2)
        BY <1>2, <2>1, <3>2 DEF PageSound, Milestones
      <4> QED  BY <4>1 DEF Displayed, FineFor
    <3> QED  BY <3>1, <3>2
  <2>4. \A sent \in desk.posts \cup {post} :
            /\ sent.m = 1 /\ row.milestones[1].status = "PENDING" => sent.shown = 1
            /\ sent.m = 2 => FineFor(2, sent.shown)
    BY <2>2, <2>3 DEF SettlementInv, PostSound
  <2> HIDE DEF post
  <2> QED  BY <1>4, <2>1, <2>4 DEF PostSound, FineFor, Signed
<1>6. faults' \in 0 .. MaxFaults
  BY <1>1 DEF SettlementInv, SettlementTypeOK
<1> QED  BY <1>1, <1>4, <1>5, <1>6, DeskInv

\* The row takes a digest of what is pending, and what was displayed for it is
\* noted.
LEMMA AnchorArrivesInv ==
    ASSUME SettlementInv, AnchorArrives
    PROVE  SettlementInv'
<1>0. PICK post \in desk.posts :
        /\ row' = AnchorMilestoneEvidence(row, post.m, post.digest)
        /\ shownFor' = IF row' # row THEN [shownFor EXCEPT ![post.m] = post.shown] ELSE shownFor
        /\ Posted(post)
  BY DEF AnchorArrives
<1> DEFINE m == post.m
           shown == post.shown
<1>1. /\ m \in Milestones /\ shown \in Milestones \cup {None}
      /\ post.digest \in Digests /\ desk \in Desk
  BY DEF SettlementInv, SettlementTypeOK, Desk, Post
<1>2. /\ row' = AnchorMilestoneEvidence(row, m, post.digest)
      /\ shownFor' = IF row' # row THEN [shownFor EXCEPT ![m] = shown] ELSE shownFor
      /\ desk' = [desk EXCEPT !.posts = desk.posts \ {post}]
      /\ UNCHANGED <<requests, decided, authorizations, passing, paid, now, page,
                     panel, faults>>
  BY <1>0 DEF AnchorArrives, Posted
<1>3. desk' \in Desk /\ desk'.posts \subseteq desk.posts
  BY <1>1, <1>2 DEF Desk
<1>4. row \in Trade /\ row' \in Trade /\ shownFor' \in [Milestones -> Milestones \cup {None}]
  BY <1>1, <1>2, SettlementRules DEF SettlementInv, SettlementTypeOK
<1>5. SettlementTypeOK'
  BY <1>2, <1>3, <1>4 DEF SettlementInv, SettlementTypeOK
<1>6. row' # row => row.milestones[m].status = "PENDING"
  BY <1>2 DEF AnchorMilestoneEvidence
<1>7. row' # row => FineFor(m, shown)
  BY <1>1, <1>6 DEF SettlementInv, PostSound, FineFor, Milestones
<1>8. ASSUME NEW n \in Milestones
      PROVE  FineFor(n, shownFor[n]) => FineFor(n, shownFor'[n])
  BY <1>2, <1>7 DEF SettlementInv, SettlementTypeOK
<1>9. \A k \in Milestones : row'.milestones[k].status = row.milestones[k].status
  BY <1>1, <1>2, <1>4 DEF AnchorMilestoneEvidence, Trade, Milestone
<1>10. SettlementRow(row)'
  <2>1. SettlementRow(row)
    BY DEF SettlementInv, SettlementRows
  <2>2. ASSUME NEW n \in Milestones, row'.milestones[n].evidence \in Digests
        PROVE  FineFor(n, shownFor'[n])
    <3>1. CASE row'.milestones[n].evidence = row.milestones[n].evidence
      BY <1>8, <2>1, <2>2, <3>1 DEF SettlementRow
    <3>2. CASE row'.milestones[n].evidence # row.milestones[n].evidence
      <4>1. n = m /\ row' # row
        BY <1>1, <1>2, <1>4, <3>2 DEF AnchorMilestoneEvidence, Trade, Milestone
      <4> QED  BY <1>2, <1>7, <4>1 DEF SettlementInv, SettlementTypeOK
    <3> QED  BY <3>1, <3>2
  <2>3. ASSUME NEW n \in Milestones, row'.milestones[n].status = "RELEASED"
        PROVE  Signed(n) /\ row'.milestones[n].evidence = Compliance
    <3>1. row.milestones[n].status = "RELEASED"
      BY <1>9, <2>3
    <3>2. row'.milestones[n] = row.milestones[n]
      BY <1>1, <1>2, <1>4, <3>1 DEF AnchorMilestoneEvidence, Trade, Milestone
    <3> QED  BY <2>1, <3>1, <3>2 DEF SettlementRow
  <2> QED  BY <1>2, <1>9, <2>1, <2>2, <2>3
           DEF SettlementRow, FineFor, Signed, Milestones
<1>11. SettlementRows'
  <2>1. ASSUME NEW r \in Releasers, requests'[r] # NoRequest
        PROVE  SettlementRow(requests[r].row)'
    <3>1. SettlementRow(requests[r].row)
      BY <1>2, <2>1 DEF SettlementInv, SettlementRows
    <3> QED  BY <1>2, <1>8, <3>1 DEF SettlementRow, FineFor, Signed
  <2> QED  BY <1>10, <2>1 DEF SettlementRows
<1>12. PageSound' /\ PostSound' /\ ClaimSound'
  <2>1. PageSound'
    BY <1>2, <1>9 DEF SettlementInv, PageSound, Signed, Milestones
  <2>2. ClaimSound'
    BY <1>2, ClaimStays DEF SettlementInv
  <2>3. PostSound'
    BY <1>2, <1>3, <1>9 DEF SettlementInv, PostSound, FineFor, Signed, Milestones
  <2> QED  BY <2>1, <2>2, <2>3
<1> QED  BY <1>5, <1>11, <1>12 DEF SettlementInv

-----------------------------------------------------------------------------
\* At the start nothing is signed, posted or claimed.
LEMMA SettlementInitInv == SettlementInit => SettlementInv
<1> SUFFICES ASSUME SettlementInit PROVE SettlementInv
  OBVIOUS
<1>1. /\ row \in Trade
      /\ \A m \in Milestones : /\ row.milestones[m].status = "PENDING"
                               /\ row.milestones[m].evidence = NoDigest
  BY DEF SettlementInit, MarkFunded, CreateTrade, Trade, Milestone, TradeStatus, Milestones
<1>2. SettlementTypeOK
  <2>1. authorizations \in Seq([milestone : Milestones, expiry : 0 .. MaxTime + Window])
        /\ Len(authorizations) <= MaxAuthorizations
    BY SettlementAssumption DEF SettlementInit
  <2>2. now \in 0 .. MaxTime /\ faults \in 0 .. MaxFaults
    BY SettlementAssumption DEF SettlementInit
  <2>3. panel \in Panel
    BY SettlementAssumption DEF SettlementInit, NewPanel, Panel, Numbers, None
  <2>4. desk \in Desk
    BY DEF SettlementInit, NewDesk, Desk, Milestones
  <2>5. page \in [pending : SUBSET Milestones, auth : Numbers]
    BY SettlementAssumption DEF SettlementInit, Numbers, None
  <2> QED  BY <1>1, <2>1, <2>2, <2>3, <2>4, <2>5 DEF SettlementInit, SettlementTypeOK
<1>3. SettlementRows
  BY <1>1, DigestsAssumption
  DEF SettlementInit, SettlementRows, SettlementRow, Milestones, Compliance, NoDigest
<1>4. PageSound /\ PostSound
  BY <1>1 DEF SettlementInit, PageSound, PostSound, NewDesk, Milestones
<1>5. ClaimSound
  BY <1>2 DEF SettlementInit, SettlementTypeOK, ClaimSound, ClaimPaid, Submitted,
              NewPanel, NoTx, None
<1> QED  BY <1>2, <1>3, <1>4, <1>5 DEF SettlementInv

\* Every step keeps it, those of the exporter and those of anyone else.
LEMMA SettlementNextInv == SettlementInv /\ [SettlementNext]_allVars => SettlementInv'
<1> SUFFICES ASSUME SettlementInv, [SettlementNext]_allVars PROVE SettlementInv'
  OBVIOUS
<1>1. CASE UNCHANGED allVars
  <2>1. SettlementTypeOK'
    BY <1>1 DEF allVars, server, web, SettlementInv, SettlementTypeOK
  <2> QED  BY <1>1, <2>1, ChainInv DEF allVars
<1>2. CASE OperatorReads \/ AutoReads \/ \E r \in Releasers : Sign(r)
  BY <1>2, OperatorReadsInv, AutoReadsInv, SignInv
<1>3. CASE SubmitRelease \/ MineClaim \/ StandingsChange \/ TimePasses
  BY <1>3, SubmitReleaseInv, MineClaimInv, WorldInv
<1>4. CASE Refresh \/ Reload \/ Claim \/ Confirm \/ Refuse
  BY <1>4, RefreshInv, ReloadInv, PanelInv
<1>5. CASE \/ \E digest \in Digests : Hashed(digest)
           \/ Clear \/ Anchor \/ AnchorArrives \/ AnchorLost
           \/ \E m \in Milestones : Choose(m)
  BY <1>5, SectionInv, AnchorInv, AnchorArrivesInv
<1> QED  BY <1>1, <1>2, <1>3, <1>4, <1>5 DEF SettlementNext

-----------------------------------------------------------------------------
(* The chain that Settlement assumes is the one the contract implements:   *)
(* a pot of two payments, of which paid have been made.                    *)

PaidSoFar == IF 2 \in paid THEN 2 ELSE IF 1 \in paid THEN 1 ELSE 0

Payout == INSTANCE MilestonePayout
              WITH M1 <- 1, M2 <- 1, pot <- 2 - PaidSoFar, paid <- PaidSoFar,
                   gate <- passing, spent <- paid

\* A transaction that pays makes the next payment and spends what it paid.
LEMMA PayingPays ==
    ASSUME SettlementTypeOK, NEW auth, auth.milestone \in Milestones, Pays(auth),
           Execute(auth), UNCHANGED passing
    PROVE  Payout!Pay
<1> DEFINE m == auth.milestone
<1>1. /\ m \in {1, 2} /\ paid \subseteq {1, 2} /\ (2 \in paid => 1 \in paid)
      /\ m \notin paid /\ (m = 2 => 1 \in paid) /\ passing
      /\ paid' = paid \cup {m} /\ passing' = passing
  BY DEF SettlementTypeOK, Milestones, Pays, Execute
<1> HIDE DEF m
<1>2. PaidSoFar \in {0, 1} /\ PaidSoFar' = PaidSoFar + 1
  BY <1>1 DEF PaidSoFar
<1>3. Payout!Spend
  BY <1>1 DEF Payout!Spend
<1> QED  BY <1>1, <1>2, <1>3 DEF Payout!Pay, Payout!Due

\* Everything else leaves the escrow as it is, or moves the gate.
LEMMA ChainStep ==
    ASSUME SettlementInv, [SettlementNext]_allVars
    PROVE  [Payout!Next]_(Payout!vars)
<1> USE DEF SettlementInv
<1>1. CASE UNCHANGED <<paid, passing>>
  BY <1>1 DEF Payout!vars, PaidSoFar
<1>2. CASE SubmitRelease
  <2>1. PICK i \in DOMAIN authorizations : Pays(authorizations[i]) /\ Execute(authorizations[i])
    BY <1>2 DEF SubmitRelease
  <2>2. authorizations[i].milestone \in Milestones
    BY <2>1, SignedMilestone
  <2> QED  BY <1>2, <2>1, <2>2, PayingPays DEF SubmitRelease, Payout!Next
<1>3. CASE MineClaim
  <2> DEFINE auth == authorizations[panel.tx.auth]
  <2>1. Execute(auth) /\ UNCHANGED passing
    BY <1>3 DEF MineClaim
  <2>2. CASE Pays(auth)
    <3>1. auth.milestone \in Milestones
      BY <1>3, ClaimedAuth, SignedMilestone
    <3> QED  BY <2>1, <2>2, <3>1, PayingPays DEF Payout!Next
  <2>3. CASE ~Pays(auth)
    BY <1>1, <2>1, <2>3 DEF Execute
  <2> QED  BY <2>2, <2>3
<1>4. CASE StandingsChange
  <2>1. passing' \in BOOLEAN /\ UNCHANGED paid
    BY <1>4 DEF StandingsChange, SettlementTypeOK
  <2>2. UNCHANGED <<2 - PaidSoFar, PaidSoFar>>
    BY <2>1 DEF PaidSoFar
  <2>3. Payout!GateMoves
    BY <2>1, <2>2 DEF Payout!GateMoves
  <2> QED  BY <2>3 DEF Payout!Next
<1>5. CASE \/ OperatorReads \/ AutoReads \/ TimePasses
           \/ \E r \in Releasers : Sign(r)
           \/ UNCHANGED allVars
  <2>1. UNCHANGED <<paid, passing>>
    BY <1>5 DEF OperatorReads, AutoReads, TimePasses, Sign, allVars
  <2> QED  BY <1>1, <2>1
<1>6. CASE \/ Refresh \/ Reload \/ Claim \/ Confirm \/ Refuse
           \/ \E digest \in Digests : Hashed(digest)
           \/ Clear \/ Anchor \/ AnchorArrives \/ AnchorLost
           \/ \E m \in Milestones : Choose(m)
  <2>1. UNCHANGED <<paid, passing>>
    BY <1>6 DEF Refresh, Reload, Claim, Confirm, Refuse, Hashed, Clear, Anchor,
                AnchorArrives, AnchorLost, Choose, Elsewhere
  <2> QED  BY <1>1, <2>1
<1> QED  BY <1>2, <1>3, <1>4, <1>5, <1>6 DEF SettlementNext

-----------------------------------------------------------------------------
\* Settlement's inductive invariant.
THEOREM SettlementInvariant == SettlementSpec => []SettlementInv
BY SettlementInitInv, SettlementNextInv, PTL DEF SettlementSpec

\* A digest is evidence of a milestone only if that milestone was displayed when
\* it was anchored, or nothing was, and the milestone had been released before
\* (trade-detail.tsx, anchorMilestoneEvidence).
THEOREM EvidenceIsWhereShown == SettlementSpec => []EvidenceWhereShown
<1>1. SettlementInv => EvidenceWhereShown
  BY DEF SettlementInv, SettlementRows, SettlementRow, EvidenceWhereShown, FineFor
<1> QED  BY <1>1, SettlementInvariant, PTL

\* Where the panel says 'Released on-chain' its claim was paid, and so was the
\* milestone displayed, unless that is the second and the claim the first's: the
\* escrow pays in order, whoever else submits (exporter-panel.tsx).
THEOREM ClaimsPaid == SettlementSpec => []SuccessShownIsPaid
<1>1. ASSUME SettlementInv, Submitted, page.auth # None
      PROVE  LET claimed   == authorizations[panel.tx.auth].milestone
                 displayed == authorizations[page.auth].milestone
             IN  displayed \in paid \/ (claimed = 1 /\ displayed = 2)
  <2>1. /\ page.auth \in 1 .. Len(authorizations)
        /\ panel.tx.auth \in 1 .. Len(authorizations)
        /\ authorizations \in Seq([milestone : Milestones, expiry : 0 .. MaxTime + Window])
        /\ authorizations[panel.tx.auth].milestone \in paid
        /\ 2 \in paid => 1 \in paid
    BY <1>1, SettlementAssumption
    DEF SettlementInv, SettlementTypeOK, ClaimSound, ClaimPaid, Submitted, Panel, NoTx,
        Numbers, None
  <2>2. /\ authorizations[page.auth].milestone \in Milestones
        /\ authorizations[panel.tx.auth].milestone \in Milestones
    <3>1. DOMAIN authorizations = 1 .. Len(authorizations)
      BY <2>1, LenProperties
    <3> QED  BY <1>1, <2>1, <3>1, SignedMilestone DEF SettlementInv
  <2> QED  BY <2>1, <2>2 DEF Milestones
<1>2. SettlementInv => SuccessShownIsPaid
  BY <1>1 DEF SettlementInv, ClaimSound, ClaimPaid, SuccessShownIsPaid
<1> QED  BY <1>2, SettlementInvariant, PTL

\* From the deposit on, what the page, the server and the other clients do with
\* the chain is a behaviour of MilestonePayout, as what the contract does is.
THEOREM ChainImplements == SettlementSpec => [][Payout!Next]_(Payout!vars)
<1>1. SettlementInv /\ [SettlementNext]_allVars => [Payout!Next]_(Payout!vars)
  BY ChainStep
<1> QED  BY <1>1, SettlementInvariant, PTL DEF SettlementSpec

=============================================================================
