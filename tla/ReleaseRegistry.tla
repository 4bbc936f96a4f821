--------------------------- MODULE ReleaseRegistry ---------------------------
(***************************************************************************)
(* The API server's release path (apps/api/src/orchestrator.ts) and the    *)
(* handlers that write trade rows (apps/api/src/server.ts, auto-fund.ts),  *)
(* over the trade registry (apps/api/src/db).                              *)
(*                                                                         *)
(* Every `await` hands control back to the event loop, so every registry   *)
(* call and every Cleanverse call is a step of its own, and steps of other *)
(* requests run in between.  A handler works on the row it read first and  *)
(* writes the whole row back; nothing compares versions.  A call that      *)
(* rejects, or the death of the process, ends a request at whatever step   *)
(* it had reached (Abandon; a crash abandons all of them in turn).         *)
(*                                                                         *)
(* A check-then-insert on a primary key is one step: whoever loses the     *)
(* race is refused by the check or by the key, and throws either way.      *)
(***************************************************************************)
EXTENDS TradeDomain, FiniteSets, Sequences

CONSTANTS
    Trades,
    Keys,               \* idempotency keys
    Attempts,           \* release requests that can be in flight at once
    Editors,            \* other trade-writing requests that can be in flight
    Standings,          \* bound: the sets of eligible parties that occur
    Handlers,           \* what Editors do, a subset of Operations
    MaxInFlight,        \* bound on requests in flight: 1 serves them serially
    MaxNonce,           \* bound on the nonces allocated
    MaxFailures         \* bound on abandoned requests

Parties == {"importer", "exporter"}

\* The requests besides release, by the operation they perform.
Operations == {"create", "fund", "anchor", "hold", "freeze"}

\* The checks of one attempt, in order: A-Pass of each, then validator of each.
Checked == <<"importer", "exporter", "importer", "exporter">>

ASSUME RegistryAssumption ==
    /\ Standings \subseteq SUBSET Parties
    /\ Handlers \subseteq Operations
    /\ MaxInFlight \in Nat /\ MaxNonce \in Nat /\ MaxFailures \in Nat

VARIABLES
    trades,             \* the trades table
    reserved,           \* keys present in the idempotency table
    results,            \* result_json of a key: {} is '', otherwise {outcome}
    nonces,             \* the nonces table
    releases,           \* the releases table
    audits,             \* audit records of release attempts
    editAudits,         \* audit records of the other operations
    eligible,           \* parties the Cleanverse checks pass right now
    attempts,           \* release requests in flight
    editors,            \* other requests in flight
    failures

\* What no step of a release changes.
others == <<eligible, editors, editAudits, failures>>

vars == <<trades, reserved, results, nonces, releases, audits, editAudits, eligible,
          attempts, editors, failures>>

Nonces   == 1 .. MaxNonce
NoNonce  == 0
NonceKey == Trades \X Milestones \X Nonces

Outcome == [trade : Trades, milestone : Milestones, key : Keys,
            decision : {"allowed", "denied"}, nonce : Nonces \cup {NoNonce}]

Release == [trade : Trades, milestone : Milestones, nonce : Nonces, key : Keys]

Idle   == [pc |-> "idle"]
NoEdit == [pc |-> "idle"]

\* `barred` is not in the code: the parties that have been ineligible ever
\* since the request arrived.
Attempt ==
    [pc : {"lookup", "reserve", "check", "nonce", "consume", "record", "save",
           "audit", "store"},
     trade : Trades, milestone : Milestones, key : Keys, row : Trade,
     asked : 0 .. Len(Checked), clear : BOOLEAN, decision : {"allowed", "denied"},
     nonce : Nonces \cup {NoNonce}, barred : SUBSET Parties]

\* A request with a row to write or an audit record to append.
Edit == [pc : {"save", "audit"}, operation : Operations, trade : Trades, row : Trade]

TypeOK ==
    /\ trades \in [Trades -> Trade]
    /\ reserved \subseteq Keys
    /\ results \in [Keys -> SUBSET Outcome]
    /\ nonces \subseteq NonceKey
    /\ releases \subseteq Release
    /\ audits \subseteq Outcome
    /\ editAudits \subseteq [operation : Operations, trade : Trades]
    /\ eligible \subseteq Parties
    /\ attempts \in [Attempts -> Attempt \cup {Idle}]
    /\ editors \in [Editors -> Edit \cup {NoEdit}]
    /\ failures \in 0 .. MaxFailures

\* seedRegistry has created the trades.
Init ==
    /\ trades = [t \in Trades |-> CreateTrade(TRUE)]
    /\ reserved = {}
    /\ results = [k \in Keys |-> {}]
    /\ nonces = {} /\ releases = {} /\ audits = {} /\ editAudits = {}
    /\ eligible \in Standings
    /\ attempts = [a \in Attempts |-> Idle]
    /\ editors = [e \in Editors |-> NoEdit]
    /\ failures = 0

-----------------------------------------------------------------------------
(* Requests in flight.                                                     *)

InFlight(a) == attempts[a] # Idle

Room ==
    Cardinality({a \in Attempts : InFlight(a)})
        + Cardinality({e \in Editors : editors[e] # NoEdit}) < MaxInFlight

At(a, pc) == attempts[a].pc = pc

\* The attempt goes on as `next`, or ends.
Continue(a, next) == attempts' = [attempts EXCEPT ![a] = next]
GoTo(a, pc)       == Continue(a, [attempts[a] EXCEPT !.pc = pc])
End(a)            == Continue(a, Idle)

-----------------------------------------------------------------------------
(* ReleaseOrchestrator.release, one action per await.                      *)

StartRelease(a, t, m, k) ==
    /\ ~InFlight(a) /\ Room
    /\ Continue(a, [pc |-> "lookup", trade |-> t, milestone |-> m, key |-> k,
                    row |-> trades[t], asked |-> 0, clear |-> TRUE,
                    decision |-> "denied", nonce |-> NoNonce,
                    barred |-> Parties \ eligible])
    /\ UNCHANGED <<trades, reserved, results, nonces, releases, audits,
                   others>>

\* A stored outcome is the answer; otherwise the attempt is a new one.
LookUp(a) ==
    /\ At(a, "lookup")
    /\ IF results[attempts[a].key] # {} THEN End(a) ELSE GoTo(a, "reserve")
    /\ UNCHANGED <<trades, reserved, results, nonces, releases, audits,
                   others>>

\* Mutant: a key already reserved is no conflict.
ReserveAlways(a) ==
    /\ At(a, "reserve")
    /\ GoTo(a, "check")
    /\ reserved' = reserved \cup {attempts[a].key}
    /\ UNCHANGED <<trades, results, nonces, releases, audits, others>>

\* Mutant: only a key with a stored outcome is a conflict.
ReserveUntilStored(a) ==
    /\ At(a, "reserve")
    /\ IF results[attempts[a].key] # {} THEN End(a) ELSE GoTo(a, "check")
    /\ reserved' = reserved \cup {attempts[a].key}
    /\ UNCHANGED <<trades, results, nonces, releases, audits, others>>

\* The operation id is fresh, so a key that is present is a conflict.
Reserve(a) ==
    /\ At(a, "reserve")
    /\ IF attempts[a].key \in reserved
       THEN End(a) /\ UNCHANGED reserved
       ELSE GoTo(a, "check") /\ reserved' = reserved \cup {attempts[a].key}
    /\ UNCHANGED <<trades, results, nonces, releases, audits, others>>

\* Mutant: only the answer of the last check counts.
CheckLastOnly(a, available) ==
    LET att   == attempts[a]
        clear == available /\ Checked[att.asked + 1] \in eligible
        asked == att.asked + 1
        allow == DecideRelease(att.row, att.milestone, clear)
        next  == [att EXCEPT !.asked = asked, !.clear = clear]
    IN  /\ At(a, "check")
        /\ Continue(a, CASE asked < Len(Checked) -> next
                         [] asked = Len(Checked) /\ allow ->
                              [next EXCEPT !.pc = "nonce", !.decision = "allowed"]
                         [] OTHER -> [next EXCEPT !.pc = "audit"])
        /\ UNCHANGED <<trades, reserved, results, nonces, releases, audits,
                       others>>

\* One of the four Cleanverse checks, its retries included: it passes, fails,
\* or stays unavailable.  After the last one decideRelease rules on the row the
\* attempt read at its start.
Check(a, available) ==
    LET att   == attempts[a]
        clear == /\ att.clear
                 /\ available
                 /\ Checked[att.asked + 1] \in eligible
        asked == att.asked + 1
        allow == DecideRelease(att.row, att.milestone, clear)
        next  == [att EXCEPT !.asked = asked, !.clear = clear]
    IN  /\ At(a, "check")
        /\ Continue(a, CASE asked < Len(Checked) -> next
                         [] asked = Len(Checked) /\ allow ->
                              [next EXCEPT !.pc = "nonce", !.decision = "allowed"]
                         [] OTHER -> [next EXCEPT !.pc = "audit"])
        /\ UNCHANGED <<trades, reserved, results, nonces, releases, audits,
                       others>>

\* nextNonce: unused for both milestones of the trade.
NonceFree(t, n) == \A m \in Milestones : <<t, m, n>> \notin nonces

\* The first free nonce.  Nonces are only ever added, so the reads of nextNonce's
\* loop amount to one: that of the nonce it returns.  The authorization must bind
\* before its nonce is consumed.
AllocateNonce(a) ==
    /\ At(a, "nonce")
    /\ \E n \in Nonces :
        /\ NonceFree(attempts[a].trade, n)
        /\ \A smaller \in 1 .. n - 1 : ~NonceFree(attempts[a].trade, smaller)
        /\ Continue(a, IF AuthorizationBinds(attempts[a].row)
                       THEN [attempts[a] EXCEPT !.pc = "consume", !.nonce = n]
                       ELSE [attempts[a] EXCEPT !.pc = "audit", !.decision = "denied"])
    /\ UNCHANGED <<trades, reserved, results, nonces, releases, audits,
                   others>>

AttemptNonce(a) == <<attempts[a].trade, attempts[a].milestone, attempts[a].nonce>>

\* Mutant: the nonce is consumed without looking whether it was.
ConsumeNonceAgain(a) ==
    /\ At(a, "consume")
    /\ GoTo(a, "record")
    /\ nonces' = nonces \cup {AttemptNonce(a)}
    /\ UNCHANGED <<trades, reserved, results, releases, audits, others>>

\* Mutant: the signed authorization is not recorded.
ConsumeAndSave(a) ==
    /\ At(a, "consume")
    /\ IF AttemptNonce(a) \in nonces
       THEN End(a) /\ UNCHANGED nonces
       ELSE GoTo(a, "save") /\ nonces' = nonces \cup {AttemptNonce(a)}
    /\ UNCHANGED <<trades, reserved, results, releases, audits, others>>

\* 'nonce allocation failed' when another attempt consumed it first.
ConsumeNonce(a) ==
    /\ At(a, "consume")
    /\ IF AttemptNonce(a) \in nonces
       THEN End(a) /\ UNCHANGED nonces
       ELSE GoTo(a, "record") /\ nonces' = nonces \cup {AttemptNonce(a)}
    /\ UNCHANGED <<trades, reserved, results, releases, audits, others>>

RecordRelease(a) ==
    /\ At(a, "record")
    /\ releases' = releases \cup
           {[trade |-> attempts[a].trade, milestone |-> attempts[a].milestone,
             nonce |-> attempts[a].nonce, key |-> attempts[a].key]}
    /\ GoTo(a, "save")
    /\ UNCHANGED <<trades, reserved, results, nonces, audits, others>>

\* Mutant: the milestone is marked on the row as it is now.
SaveOntoCurrent(a) ==
    /\ At(a, "save")
    /\ trades' = [trades EXCEPT ![attempts[a].trade] =
                      MarkMilestoneReleased(@, attempts[a].milestone)]
    /\ GoTo(a, "audit")
    /\ UNCHANGED <<reserved, results, nonces, releases, audits, others>>

\* Mutant: an allowed release is not audited.
SaveUnaudited(a) ==
    /\ At(a, "save")
    /\ trades' = [trades EXCEPT ![attempts[a].trade] =
                      MarkMilestoneReleased(attempts[a].row, attempts[a].milestone)]
    /\ GoTo(a, "store")
    /\ UNCHANGED <<reserved, results, nonces, releases, audits, others>>

\* The row written is the one read at the start, with the milestone released.
SaveReleased(a) ==
    /\ At(a, "save")
    /\ trades' = [trades EXCEPT ![attempts[a].trade] =
                      MarkMilestoneReleased(attempts[a].row, attempts[a].milestone)]
    /\ GoTo(a, "audit")
    /\ UNCHANGED <<reserved, results, nonces, releases, audits, others>>

AttemptOutcome(a) ==
    [trade |-> attempts[a].trade, milestone |-> attempts[a].milestone,
     key |-> attempts[a].key, decision |-> attempts[a].decision,
     nonce |-> attempts[a].nonce]

AppendAudit(a) ==
    /\ At(a, "audit")
    /\ audits' = audits \cup {AttemptOutcome(a)}
    /\ GoTo(a, "store")
    /\ UNCHANGED <<trades, reserved, results, nonces, releases, others>>

StoreOutcome(a) ==
    /\ At(a, "store")
    /\ results' = [results EXCEPT ![attempts[a].key] = {AttemptOutcome(a)}]
    /\ End(a)
    /\ UNCHANGED <<trades, reserved, nonces, releases, audits, others>>

-----------------------------------------------------------------------------
(* The other requests: POST /trades, fund-intent and the auto-fund job, the*)
(* evidence anchor, hold, freeze-exporter.  Those that write a trade       *)
(* compute the row from the one they read, write it back later, and append *)
(* their audit record, if they have one, later still.                      *)

EditedRows(operation, row) ==
    CASE operation = "create" -> {CreateTrade(bound) : bound \in BOOLEAN}
      [] operation = "fund"   -> IF row.status = "DRAFT" THEN {MarkFunded(row)} ELSE {}
      [] operation = "anchor" ->
            {AnchorMilestoneEvidence(row, m, digest) : m \in Milestones, digest \in Digests}
      [] operation = "hold"   -> {EnterHold(row)}
      [] OTHER                -> {}

Editing(e, pc) == editors[e] # NoEdit /\ editors[e].pc = pc

ReadForEdit(e, operation, t) ==
    /\ editors[e] = NoEdit /\ Room
    /\ \E row \in EditedRows(operation, trades[t]) :
          editors' = [editors EXCEPT ![e] =
              [pc |-> "save", operation |-> operation, trade |-> t, row |-> row]]
    /\ UNCHANGED <<trades, reserved, results, nonces, releases, audits, editAudits,
                   eligible, attempts, failures>>

\* Creating a trade is the one edit without an audit record.
SaveEdit(e) ==
    /\ Editing(e, "save")
    /\ trades' = [trades EXCEPT ![editors[e].trade] = editors[e].row]
    /\ editors' = [editors EXCEPT ![e] =
           IF @.operation = "create" THEN NoEdit ELSE [@ EXCEPT !.pc = "audit"]]
    /\ UNCHANGED <<reserved, results, nonces, releases, audits, editAudits, eligible,
                   attempts, failures>>

AuditEdit(e) ==
    /\ Editing(e, "audit")
    /\ editAudits' = editAudits \cup
           {[operation |-> editors[e].operation, trade |-> editors[e].trade]}
    /\ editors' = [editors EXCEPT ![e] = NoEdit]
    /\ UNCHANGED <<trades, reserved, results, nonces, releases, audits, eligible,
                   attempts, failures>>

\* The parties that pass the checks change; an attempt remembers who never did.
StandingBecomes(parties) ==
    /\ eligible' = parties
    /\ attempts' = [a \in Attempts |->
           IF InFlight(a)
           THEN [attempts[a] EXCEPT !.barred = @ \ parties]
           ELSE Idle]

\* update_status takes effect at Cleanverse; the audit record comes later.
FreezeExporter(e, t) ==
    /\ "freeze" \in Handlers
    /\ editors[e] = NoEdit /\ Room
    /\ eligible \ {"exporter"} \in Standings
    /\ StandingBecomes(eligible \ {"exporter"})
    /\ editors' = [editors EXCEPT ![e] =
           [pc |-> "audit", operation |-> "freeze", trade |-> t, row |-> trades[t]]]
    /\ UNCHANGED <<trades, reserved, results, nonces, releases, audits, editAudits,
                   failures>>

-----------------------------------------------------------------------------
(* Around the server: compliance status changes, requests die.             *)

SetEligible(parties) ==
    /\ StandingBecomes(parties)
    /\ UNCHANGED <<trades, reserved, results, nonces, releases, audits, editAudits,
                   editors, failures>>

AbandonAttempt(a) ==
    /\ InFlight(a)
    /\ failures < MaxFailures
    /\ failures' = failures + 1
    /\ End(a)
    /\ UNCHANGED <<trades, reserved, results, nonces, releases, audits, editAudits,
                   eligible, editors>>

AbandonEdit(e) ==
    /\ editors[e] # NoEdit
    /\ failures < MaxFailures
    /\ failures' = failures + 1
    /\ editors' = [editors EXCEPT ![e] = NoEdit]
    /\ UNCHANGED <<trades, reserved, results, nonces, releases, audits, editAudits,
                   eligible, attempts>>

ReleaseStep(a) ==
    \/ LookUp(a) \/ Reserve(a)
    \/ \E available \in BOOLEAN : Check(a, available)
    \/ AllocateNonce(a) \/ ConsumeNonce(a) \/ RecordRelease(a)
    \/ SaveReleased(a) \/ AppendAudit(a) \/ StoreOutcome(a)

Next ==
    \/ \E a \in Attempts, t \in Trades, m \in Milestones, k \in Keys :
          StartRelease(a, t, m, k)
    \/ \E a \in Attempts : ReleaseStep(a)
    \/ \E e \in Editors, operation \in Handlers, t \in Trades :
          ReadForEdit(e, operation, t)
    \/ \E e \in Editors : SaveEdit(e) \/ AuditEdit(e)
    \/ \E e \in Editors, t \in Trades : FreezeExporter(e, t)
    \/ \E parties \in Standings : SetEligible(parties)
    \/ \E a \in Attempts : AbandonAttempt(a)
    \/ \E e \in Editors : AbandonEdit(e)

Spec == Init /\ [][Next]_vars

-----------------------------------------------------------------------------
(* Properties that hold however the requests interleave and fail.          *)

\* An idempotency key buys at most one signed authorization, whatever is
\* retried, raced or abandoned (reserveIdempotencyKey before any effect).
OneReleasePerKey ==
    \A r1, r2 \in releases : r1.key = r2.key => r1 = r2

\* No two authorizations of one milestone carry the same nonce, although it is
\* chosen several awaits before it is used (nextNonce, consumeNonce).
NonceUsedOnce ==
    \A r1, r2 \in releases :
        /\ r1.trade = r2.trade
        /\ r1.milestone = r2.milestone
        /\ r1.nonce = r2.nonce
        => r1 = r2

\* The outcome stored under a key is final: no later or slower attempt
\* replaces what a retry was told (setIdempotencyResult).
OutcomeFinal ==
    [][\A k \in Keys : results[k] # {} => results'[k] = results[k]]_vars

\* A stored outcome is already in the audit trail, and an allowed one is backed
\* by a recorded authorization with its nonce (the order of release's writes).
OutcomeBacked ==
    \A k \in Keys : \A outcome \in results[k] :
        /\ outcome \in audits
        /\ outcome.decision = "allowed" =>
              [trade |-> outcome.trade, milestone |-> outcome.milestone,
               nonce |-> outcome.nonce, key |-> k] \in releases

\* A party that has been ineligible ever since the request arrived stops the
\* release: nothing older than the attempt can allow it (verifyApass,
\* verifyValidator, decideRelease).
FreshlyChecked ==
    [][\A a \in Attempts :
          InFlight(a) /\ attempts[a].decision = "denied"
          /\ attempts'[a] # Idle /\ attempts'[a].decision = "allowed"
          => attempts[a].barred = {}]_vars

\* Every row is one that some serial history could have left, even after stale
\* writes: milestones in sequence, and a status that agrees with them
\* (invariantSequence and invariantReleasedLteFunded of state.ts).
RowConsistent ==
    \A t \in Trades :
        LET row == trades[t]
            released(m) == row.milestones[m].status = "RELEASED"
        IN  /\ released(2) => released(1)
            /\ released(2) <=> row.status = "COMPLETE"
            /\ released(1) => row.status \in {"ACTIVE", "COMPLETE", "HOLD"}
            /\ row.status = "ACTIVE" => released(1)

\* The registry reports a milestone released only if an authorization for it
\* was signed and recorded (recordRelease before saveTrade).
ReleasedMeansAuthorized ==
    \A t \in Trades, m \in Milestones :
        trades[t].milestones[m].status = "RELEASED" =>
            \E r \in releases : r.trade = t /\ r.milestone = m

-----------------------------------------------------------------------------
(* Properties that hold only while requests are served one at a time.      *)

\* A milestone is authorized at most once.
AuthorizedOnce ==
    \A r1, r2 \in releases :
        r1.trade = r2.trade /\ r1.milestone = r2.milestone => r1 = r2

\* A released milestone stays released.
ReleasedIsFinal ==
    [][\A t \in Trades, m \in Milestones :
          trades[t].milestones[m].status = "RELEASED"
          => trades'[t].milestones[m] = trades[t].milestones[m]]_vars

=============================================================================
