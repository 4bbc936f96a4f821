----------------------------- MODULE RowMapping -----------------------------
(***************************************************************************)
(* How the registry's records become table rows and come back              *)
(* (apps/api/src/db/mappers.ts, ddl.ts, rows.ts): bigints travel as strings*)
(* of digits, booleans as 0 and 1, nested values as JSON text, and the     *)
(* guards on the way back throw at a row that is not what a writer could   *)
(* have stored.  One such row makes every listing it belongs to throw.     *)
(*                                                                         *)
(* A value is a pair of its JavaScript type and what it holds.  Strings    *)
(* are told apart by what the conversions see in them: Digits is decimal   *)
(* digits only, Json is the text of a value, Text is any other string.     *)
(***************************************************************************)
EXTENDS Integers

Text(string)   == <<"text", string>>
Digits(n)      == <<"digits", n>>
Json(value)    == <<"json", value>>
Number(n)      == <<"number", n>>
Bigint(n)      == <<"bigint", n>>
Bool(b)        == <<"boolean", b>>
Array(items)   == <<"array", items>>
Object(fields) == <<"object", fields>>
Null           == <<"null">>

Has(value, type)     == value[1] = type
IsString(value)      == value[1] \in {"text", "digits", "json"}
Texts(strings)       == {Text(string) : string \in strings}

-----------------------------------------------------------------------------
(* The tables: what a statement that stores a row is refused for.          *)

NullableColumns ==
    {"milestone_one_evidence", "milestone_two_evidence", "reason_code", "milestone_id",
     "evidence_age_seconds", "apass_code", "validator_valid", "validator_available",
     "tx_hash", "resolution"}

IntegerColumns ==
    {"chain_id", "milestone_id", "evidence_age_seconds", "apass_code", "validator_valid",
     "validator_available", "required_signatures"}

Storable(row) ==
    \A column \in DOMAIN row :
        \/ row[column] = Null /\ column \in NullableColumns
        \/ column \in IntegerColumns /\ Has(row[column], "number")
        \/ column \notin IntegerColumns /\ IsString(row[column])

-----------------------------------------------------------------------------
(* The guards on what is read.                                             *)

\* Mutant: trades on hold were forgotten.
TradeStatusesWithoutHold ==
    Texts({"DRAFT", "FUNDED", "ACTIVE", "COMPLETE", "REFUNDED"})

TradeStatuses ==
    Texts({"DRAFT", "FUNDED", "ACTIVE", "COMPLETE", "HOLD", "REFUNDED"})

MilestoneStatuses == Texts({"PENDING", "RELEASED", "BLOCKED"})

ReasonCodes ==
    Texts({"APASS_NOT_VALID", "VALIDATOR_REJECTED", "VALIDATOR_PAUSED", "EVIDENCE_STALE",
           "CLEANVERSE_UNAVAILABLE", "MALFORMED_RESPONSE", "LOCAL_STATE_DENIED",
           "AUTH_EXPIRED", "AUTH_REPLAY", "TOKEN_TRANSFER_REJECTED"})

IsMilestoneId(value)       == value \in {Null, Number(1), Number(2)}
IsDisputeStatus(value)     == value \in Texts({"OPEN", "RESOLVED"})

\* Mutant: only an approval was thought of.
IsNullOrApproved(value) == value = Null \/ value = Text("approved")

IsDisputeResolution(value) == value = Null \/ value \in Texts({"approved", "rejected"})

\* parseStringArray; the value that comes out is ParseJson's.
IsStringArray(json) ==
    /\ Has(json[2], "array")
    /\ \A item \in json[2][2] : IsString(item)

ParseJson(json) == json[2]

IsReleaseAuthorization(auth) ==
    /\ \A field \in {"chainId", "amount", "nonce"} : Has(auth[field], "bigint")
    /\ \A field \in {"escrow", "tradeId", "importer", "exporter", "token",
                     "evidenceDigest", "signer"} : IsString(auth[field])
    /\ auth.milestoneId \in {Number(1), Number(2)}
    /\ Has(auth.expiry, "number")

IsReleaseOutcome(outcome) ==
    CASE outcome.decision = Text("denied") ->
            outcome.reasonCode \in ReasonCodes /\ IsString(outcome.auditId)
      [] outcome.decision = Text("allowed") ->
            /\ outcome.reasonCode = Null
            /\ IsReleaseAuthorization(outcome.auth[2])
            /\ \A field \in {"signature", "evidenceDigest", "auditId"} :
                  IsString(outcome[field])
            /\ Has(outcome.nonce, "bigint")
      [] OTHER -> FALSE

IsEvidencePayload(payload) ==
    /\ Has(payload, "object")
    /\ IsString(payload[2].submittedAt)
    /\ \A field \in DOMAIN payload[2] \cap {"fileName", "note"} :
          IsString(payload[2][field])

-----------------------------------------------------------------------------
(* Trades.                                                                 *)

TradeToRow(trade) ==
    [id |-> trade.id, chain_id |-> Number(trade.chainId[2]),
     escrow |-> trade.escrow, importer |-> trade.importer,
     exporter |-> trade.exporter, token |-> trade.token,
     total_amount |-> Digits(trade.totalAmount[2]), status |-> trade.status,
     milestone_one_amount   |-> Digits(trade.milestones[1].amount[2]),
     milestone_one_status   |-> trade.milestones[1].status,
     milestone_one_evidence |-> trade.milestones[1].evidenceHash,
     milestone_two_amount   |-> Digits(trade.milestones[2].amount[2]),
     milestone_two_status   |-> trade.milestones[2].status,
     milestone_two_evidence |-> trade.milestones[2].evidenceHash,
     created_at |-> trade.createdAt, updated_at |-> trade.updatedAt]

TradeReadable(row) ==
    /\ row.status \in TradeStatuses
    /\ row.milestone_one_status \in MilestoneStatuses
    /\ row.milestone_two_status \in MilestoneStatuses

MilestoneRow(id, amount, status, evidence) ==
    [id |-> Number(id), amount |-> Bigint(amount[2]), status |-> status,
     evidenceHash |-> evidence]

RowToTrade(row) ==
    [id |-> row.id, chainId |-> Bigint(row.chain_id[2]),
     escrow |-> row.escrow, importer |-> row.importer, exporter |-> row.exporter,
     token |-> row.token, totalAmount |-> Bigint(row.total_amount[2]),
     status |-> row.status,
     milestones |-> <<
        MilestoneRow(1, row.milestone_one_amount, row.milestone_one_status,
                     row.milestone_one_evidence),
        MilestoneRow(2, row.milestone_two_amount, row.milestone_two_status,
                     row.milestone_two_evidence)>>,
     createdAt |-> row.created_at, updatedAt |-> row.updated_at]

-----------------------------------------------------------------------------
(* Audit records.                                                          *)

BoolToInt(value) == IF value = Null THEN Null ELSE Number(IF value[2] THEN 1 ELSE 0)
IntToBool(value) == IF value = Null THEN Null ELSE Bool(value[2] = 1)

AuditToRow(record) ==
    [audit_id |-> record.auditId, trace_id |-> record.traceId,
     cleanverse_request_ids |-> Json(record.cleanverseRequestIds),
     actor_role |-> record.actorRole, operation |-> record.operation,
     decision |-> record.decision, reason_code |-> record.reasonCode,
     trade_id |-> record.tradeId, milestone_id |-> record.milestoneId,
     evidence_age_seconds |-> record.evidenceAgeSeconds, apass_code |-> record.apassCode,
     validator_valid |-> BoolToInt(record.validatorValid),
     validator_available |-> BoolToInt(record.validatorAvailable),
     token |-> record.token, amount |-> record.amount, tx_hash |-> record.txHash,
     observed_at |-> record.observedAt,
     redacted_context |-> Json(record.redactedContext)]

AuditReadable(row) ==
    /\ row.decision \in Texts({"allowed", "denied"})
    /\ row.reason_code = Null \/ row.reason_code \in ReasonCodes
    /\ IsMilestoneId(row.milestone_id)
    /\ IsStringArray(row.cleanverse_request_ids)

RowToAudit(row) ==
    [auditId |-> row.audit_id, traceId |-> row.trace_id,
     cleanverseRequestIds |-> ParseJson(row.cleanverse_request_ids),
     actorRole |-> row.actor_role, operation |-> row.operation,
     decision |-> row.decision, reasonCode |-> row.reason_code,
     tradeId |-> row.trade_id, milestoneId |-> row.milestone_id,
     evidenceAgeSeconds |-> row.evidence_age_seconds, apassCode |-> row.apass_code,
     validatorValid |-> IntToBool(row.validator_valid),
     validatorAvailable |-> IntToBool(row.validator_available),
     token |-> row.token, amount |-> row.amount, txHash |-> row.tx_hash,
     observedAt |-> row.observed_at,
     redactedContext |-> ParseJson(row.redacted_context)]

-----------------------------------------------------------------------------
(* Authorizations and outcomes.  Stringify writes every bigint as digits;  *)
(* parsing turns digits back only under the keys that hold bigints.        *)

Stringified(value) == IF Has(value, "bigint") THEN Digits(value[2]) ELSE value

\* Mutant: an amount is left the string it was stored as.
RevivedNonceOnly(key, value) ==
    IF Has(value, "digits") /\ key \in {"nonce", "chainId"} THEN Bigint(value[2]) ELSE value

Revived(key, value) ==
    IF Has(value, "digits") /\ key \in {"nonce", "amount", "chainId"}
    THEN Bigint(value[2]) ELSE value

AuthToJson(auth) == Json(Object([key \in DOMAIN auth |-> Stringified(auth[key])]))

JsonToAuth(json) ==
    LET stored == json[2][2]
    IN  [key \in DOMAIN stored |-> Revived(key, stored[key])]

OutcomeToJson(outcome) ==
    Json(Object([key \in DOMAIN outcome |->
        IF key = "auth" THEN AuthToJson(outcome.auth[2])[2] ELSE Stringified(outcome[key])]))

JsonToOutcome(json) ==
    LET stored == json[2][2]
    IN  [key \in DOMAIN stored |->
            IF key = "auth" THEN Object(JsonToAuth(Json(stored.auth)))
            ELSE Revived(key, stored[key])]

-----------------------------------------------------------------------------
(* Disputes and their evidence.                                            *)

DisputeToRow(dispute) ==
    [dispute_id |-> dispute.disputeId, trade_id |-> dispute.tradeId,
     flagged_by |-> dispute.flaggedBy, reason |-> dispute.reason,
     status |-> dispute.status, resolution |-> dispute.resolution,
     required_signatures |-> dispute.requiredSignatures,
     signers_json |-> Json(dispute.signers),
     created_at |-> dispute.createdAt, updated_at |-> dispute.updatedAt]

DisputeReadable(row) ==
    /\ IsDisputeStatus(row.status)
    /\ IsDisputeResolution(row.resolution)
    /\ IsStringArray(row.signers_json)

RowToDispute(row, evidenceList) ==
    [disputeId |-> row.dispute_id, tradeId |-> row.trade_id,
     flaggedBy |-> row.flagged_by, reason |-> row.reason,
     status |-> row.status, resolution |-> row.resolution,
     requiredSignatures |-> row.required_signatures,
     signers |-> ParseJson(row.signers_json), evidence |-> evidenceList,
     createdAt |-> row.created_at, updatedAt |-> row.updated_at]

EvidenceToRow(disputeId, evidence) ==
    [evidence_id |-> evidence.evidenceId, dispute_id |-> disputeId,
     submitted_by |-> evidence.submittedBy, kind |-> evidence.kind,
     label |-> evidence.label, digest |-> evidence.digest,
     payload_json |-> Json(evidence.payload), created_at |-> evidence.createdAt]

EvidenceReadable(row) == IsEvidencePayload(ParseJson(row.payload_json))

RowToEvidence(row) ==
    [evidenceId |-> row.evidence_id, submittedBy |-> row.submitted_by,
     kind |-> row.kind, label |-> row.label, digest |-> row.digest,
     payload |-> ParseJson(row.payload_json), createdAt |-> row.created_at]

=============================================================================
