--------------------------- MODULE StoredDisputes ---------------------------
(***************************************************************************)
(* What Disputes' tables hold, as RowMapping stores and reads it: a row is *)
(* inserted whole, and later statements replace its signers, its status and*)
(* its resolution.                                                         *)
(***************************************************************************)
EXTENDS DisputeQueue, RowMapping

DisputeRecord(d, dispute, evidenceList) ==
    [disputeId |-> Text(d), tradeId |-> Text("trade"), flaggedBy |-> Text("party"),
     reason |-> Text("reason"), status |-> Text(dispute.status),
     resolution |-> IF dispute.resolution = Unresolved THEN Null
                    ELSE Text(dispute.resolution),
     requiredSignatures |-> Number(dispute.required),
     signers |-> Array(Texts(dispute.signers)), evidence |-> evidenceList,
     createdAt |-> Text("date"), updatedAt |-> Text("date")]

\* createDispute: open, unresolved and unsigned.
Created(d, dispute) ==
    DisputeRecord(d, [dispute EXCEPT !.status = "OPEN", !.resolution = Unresolved,
                                     !.signers = {}], {})

\* The row after signDispute and resolveDispute.
StoredDispute(d, dispute) ==
    [DisputeToRow(Created(d, dispute)) EXCEPT
        !.status = Text(dispute.status),
        !.resolution = IF dispute.resolution = Unresolved THEN Null
                       ELSE Text(dispute.resolution),
        !.signers_json = Json(Array(Texts(dispute.signers)))]

\* A note and a file name come with a piece of evidence or do not.
Payloads ==
    {Object([field \in {"submittedAt"} \cup given |-> Text(field)]) :
        given \in SUBSET {"note", "fileName"}}

EvidenceRecords(d) ==
    {[evidenceId |-> Text("uuid"), submittedBy |-> Text("party"), kind |-> Text("digest"),
      label |-> Text("label"), digest |-> Text(digest), payload |-> payload,
      createdAt |-> Text("date")] : digest \in evidence'[d], payload \in Payloads}

-----------------------------------------------------------------------------
\* However it was signed and resolved, a dispute is read back as what was
\* written, with its evidence: one that is not would make every list of
\* disputes throw (disputeToRow, rowToDispute, evidenceToRow, rowToEvidence).
DisputesReadBack ==
    [][\A d \in DisputeIds :
          /\ disputes'[d] # disputes[d] =>
                LET row == StoredDispute(d, disputes'[d])
                IN  /\ Storable(row) /\ DisputeReadable(row)
                    /\ RowToDispute(row, {}) = DisputeRecord(d, disputes'[d], {})
          /\ evidence'[d] # evidence[d] => \A record \in EvidenceRecords(d) :
                LET row == EvidenceToRow(Text(d), record)
                IN  /\ Storable(row) /\ EvidenceReadable(row)
                    /\ RowToEvidence(row) = record]_vars

=============================================================================
