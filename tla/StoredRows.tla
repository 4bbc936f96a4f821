----------------------------- MODULE StoredRows -----------------------------
(***************************************************************************)
(* What ReleaseRegistry's tables hold, as RowMapping stores and reads it.  *)
(* The fields that no decision of ReleaseRegistry looks at are filled in   *)
(* with a value of their type.                                             *)
(***************************************************************************)
EXTENDS ReleaseRegistry, RowMapping

\* The codes a decision can give (packages/domain), which the guard of the rows
\* lists once more.
ReasonCode ==
    Texts({"APASS_NOT_VALID", "VALIDATOR_REJECTED", "VALIDATOR_PAUSED", "EVIDENCE_STALE",
           "CLEANVERSE_UNAVAILABLE", "MALFORMED_RESPONSE", "LOCAL_STATE_DENIED",
           "AUTH_EXPIRED", "AUTH_REPLAY", "TOKEN_TRANSFER_REJECTED"})

TradeRecord(t, trade) ==
    LET milestone(m) ==
            LET held == trade.milestones[m]
            IN  [id |-> Number(m), amount |-> Bigint(1), status |-> Text(held.status),
                 evidenceHash |-> IF held.evidence = NoDigest THEN Null
                                  ELSE Text(held.evidence)]
    IN  [id |-> Text(t), chainId |-> Bigint(1),
         escrow |-> Text(IF trade.bound THEN "escrow" ELSE "another escrow"),
         importer |-> Text("importer"), exporter |-> Text("exporter"),
         token |-> Text("token"), totalAmount |-> Bigint(2),
         status |-> Text(trade.status),
         milestones |-> <<milestone(1), milestone(2)>>,
         createdAt |-> Text("date"), updatedAt |-> Text("date")]

\* `??`, field by field.
OrElse(given, rest) ==
    [field \in DOMAIN given \cup DOMAIN rest |->
        IF field \in DOMAIN given THEN given[field] ELSE rest[field]]

\* What the caller leaves out is null, an empty list of request ids, or made up.
MakeAuditRecord(input) ==
    OrElse(input,
        [auditId |-> Text("uuid"), traceId |-> Text("trace"), actorRole |-> Text("role"),
         cleanverseRequestIds |-> Array({}), reasonCode |-> Null, milestoneId |-> Null,
         evidenceAgeSeconds |-> Null, apassCode |-> Null, validatorValid |-> Null,
         validatorAvailable |-> Null, token |-> Text("token"), amount |-> Digits(1),
         txHash |-> Null, observedAt |-> Text("date"), redactedContext |-> Null])

\* The results of the checks; an authorization that does not bind is audited
\* without them.
CheckResults ==
    {[apassCode |-> Number(1), validatorValid |-> Bool(valid),
      validatorAvailable |-> Bool(available)] : valid, available \in BOOLEAN}
    \cup {[redactedContext |-> Null]}

Reasons(outcome) == IF outcome.decision = "allowed" THEN {Null} ELSE ReasonCode

Decided(outcome, reason) ==
    [operation |-> Text("release"), decision |-> Text(outcome.decision),
     reasonCode |-> reason, tradeId |-> Text(outcome.trade),
     milestoneId |-> Number(outcome.milestone), evidenceAgeSeconds |-> Number(0)]

ReleaseAudits(outcome) ==
    {MakeAuditRecord(OrElse(Decided(outcome, reason), checks)) :
        reason \in Reasons(outcome), checks \in CheckResults}

Edited(edit, rest) ==
    OrElse([operation |-> Text(edit.operation), decision |-> Text("allowed"),
            tradeId |-> Text(edit.trade)], rest)

EditAudits(edit) ==
    CASE edit.operation = "anchor" ->
            {MakeAuditRecord(Edited(edit,
                [milestoneId |-> Number(m),
                 redactedContext |-> Object([evidenceDigest |-> Text(digest)])]))
             : m \in Milestones, digest \in Digests}
      [] edit.operation = "hold" ->
            {MakeAuditRecord(Edited(edit,
                [redactedContext |-> Object([reasonHash |-> Text("hash")])]))}
      [] edit.operation = "freeze" ->
            {MakeAuditRecord(Edited(edit, [txHash |-> Text("hash")]))}
      [] OTHER -> {MakeAuditRecord(Edited(edit, [redactedContext |-> Null]))}

\* The authorization that release signs.
Auth(r) ==
    [chainId |-> Bigint(1), escrow |-> Text("escrow"), tradeId |-> Text(r.trade),
     milestoneId |-> Number(r.milestone), importer |-> Text("importer"),
     exporter |-> Text("exporter"), token |-> Text("token"), amount |-> Bigint(1),
     nonce |-> Bigint(r.nonce), expiry |-> Number(1),
     evidenceDigest |-> Text("digest"), signer |-> Text("signer")]

OutcomeRecords(outcome) ==
    IF outcome.decision = "allowed"
    THEN {[decision |-> Text("allowed"), reasonCode |-> Null,
           auth |-> Object(Auth(outcome)), signature |-> Text("signature"),
           evidenceDigest |-> Text("digest"), nonce |-> Bigint(outcome.nonce),
           auditId |-> Text("uuid")]}
    ELSE {[decision |-> Text("denied"), reasonCode |-> reason, auditId |-> Text("uuid")]
          : reason \in ReasonCode}

-----------------------------------------------------------------------------
(* Whether what a writer stores comes back as it was.                      *)

TradeReadsBack(record) ==
    LET row == TradeToRow(record)
    IN  Storable(row) /\ TradeReadable(row) /\ RowToTrade(row) = record

AuditReadsBack(record) ==
    LET row == AuditToRow(record)
    IN  Storable(row) /\ AuditReadable(row) /\ RowToAudit(row) = record

OutcomeReadsBack(record) ==
    LET read == JsonToOutcome(OutcomeToJson(record))
    IN  IsReleaseOutcome(read) /\ read = record

AuthReadsBack(auth) ==
    LET read == JsonToAuth(AuthToJson(auth))
    IN  IsReleaseAuthorization(read) /\ read = auth

-----------------------------------------------------------------------------
ListingsReadBack ==
    /\ \A t \in Trades :
          trades'[t] = trades[t] \/ TradeReadsBack(TradeRecord(t, trades'[t]))
    /\ \A outcome \in audits' \ audits : \A record \in ReleaseAudits(outcome) :
          AuditReadsBack(record)
    /\ \A edit \in editAudits' \ editAudits : \A record \in EditAudits(edit) :
          AuditReadsBack(record)

AnswersReadBack ==
    /\ \A k \in Keys : \A outcome \in results'[k] \ results[k] :
          \A record \in OutcomeRecords(outcome) : OutcomeReadsBack(record)
    /\ \A r \in releases' \ releases : AuthReadsBack(Auth(r))

\* Nothing a handler writes is refused by its table, makes the listing it is in
\* throw, or comes back changed: every status, reason and missing value that
\* occurs survives the trip, a retry is told what the first attempt was told, and
\* the exporter is served what was signed - the bigints stored as digits are
\* bigints again and nothing else is (tradeToRow, rowToTrade, auditToRow,
\* rowToAudit, outcomeToJson, jsonToOutcome, authToJson, jsonToAuth).
StoredReadsBack == [][ListingsReadBack /\ AnswersReadBack]_vars

=============================================================================
