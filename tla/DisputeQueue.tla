---------------------------- MODULE DisputeQueue ----------------------------
(***************************************************************************)
(* An operator's dispute queue (components/admin/admin-disputes.tsx) with  *)
(* its multi-sig builder (components/evidence/multi-sig-builder.tsx), over *)
(* the dispute handlers of Disputes, which serve other clients, too.       *)
(*                                                                         *)
(* A call of the builder is a request of Disputes whose worker then reads  *)
(* the row once more and answers; answers and listings may be shown in any *)
(* order, each replacing what is shown.  `busy` is one cell: it is set by  *)
(* every call and cleared by the end of any, and the Enter key does not    *)
(* look at it.  Any dispute of the list may be the selected one: the       *)
(* builder is the same for all of them, `busy` included.                   *)
(***************************************************************************)
EXTENDS Disputes

VARIABLES
    shown,              \* the rows the page has
    busy,
    listing,            \* the list of disputes on its way to the page
    calls               \* what becomes of the builder's call to each worker

queueVars == <<shown, busy, listing, calls>>

NoCall    == [phase |-> "none"]
NoListing == [d \in {} |-> NoDispute]

Call == [phase : {"asked", "done"}, dispute : DisputeIds]
        \cup [phase : {"answered"}, dispute : DisputeIds, row : Dispute]

Rows == [DisputeIds -> Dispute \cup {NoDispute}]

QueueTypeOK ==
    /\ TypeOK
    /\ shown \in Rows
    /\ busy \in BOOLEAN
    /\ listing \in Rows \cup {NoListing}
    /\ calls \in [Workers -> Call \cup {NoCall}]

QueueInit ==
    /\ Init
    /\ shown = [d \in DisputeIds |-> NoDispute]
    /\ busy = FALSE
    /\ listing = NoListing
    /\ calls = [w \in Workers |-> NoCall]

-----------------------------------------------------------------------------
(* load: a list on its way replaces whatever the page shows when it comes. *)

Load ==
    /\ listing = NoListing
    /\ listing' = disputes
    /\ UNCHANGED <<vars, shown, busy, calls>>

ShowList ==
    /\ listing # NoListing
    /\ shown' = listing
    /\ listing' = NoListing
    /\ UNCHANGED <<vars, busy, calls>>

LoadFails ==
    /\ listing # NoListing
    /\ listing' = NoListing
    /\ UNCHANGED <<vars, shown, busy, calls>>

-----------------------------------------------------------------------------
(* The builder, on a dispute as it is shown.                               *)

Builder(d) == shown[d] # NoDispute /\ shown[d].status = "OPEN"

Unasked(w) == calls[w] = NoCall

Calls(w, d) ==
    /\ busy' = TRUE
    /\ calls' = [calls EXCEPT ![w] = [phase |-> "asked", dispute |-> d]]
    /\ UNCHANGED listing

\* Mutant: the signature is shown before the registry has it.
AddSignerOptimistic(w, d, signer) ==
    /\ Builder(d) /\ Unasked(w)
    /\ signer \notin shown[d].signers
    /\ shown' = [shown EXCEPT ![d].signers = @ \cup {signer}]
    /\ UNCHANGED <<vars, busy, listing, calls>>

\* addSigner: the button is disabled while busy, the Enter key is not.
AddSigner(w, d, signer) ==
    /\ Builder(d) /\ Unasked(w)
    /\ signer \notin shown[d].signers
    /\ SignRead(w, d, signer)
    /\ Calls(w, d)
    /\ UNCHANGED shown

ThresholdMet(d) == Cardinality(shown[d].signers) >= shown[d].required

\* resolve; on a dispute that is resolved by now it is a 409 at once.
Resolve(w, d, resolution) ==
    /\ Builder(d) /\ Unasked(w)
    /\ ThresholdMet(d) /\ ~busy
    /\ ResolveRead(w, d, resolution)
    /\ Calls(w, d)
    /\ UNCHANGED shown

\* The call of a worker goes on to a phase, if the builder made it.
Serves(w, phase) ==
    /\ calls' = IF calls[w].phase = "asked" THEN [calls EXCEPT ![w].phase = phase] ELSE calls
    /\ UNCHANGED <<shown, busy, listing>>

\* catch and finally of run, for a call that was refused or lost.
Fails(w) ==
    /\ calls' = [calls EXCEPT ![w] = NoCall]
    /\ busy' = IF calls[w] = NoCall THEN busy ELSE FALSE
    /\ UNCHANGED <<shown, listing>>

Serve(w) ==
    \/ SignWrite(w) /\ Serves(w, "done")
    \/ /\ ResolveCheck(w)
       /\ IF working'[w] = NoRequest THEN Fails(w) ELSE UNCHANGED queueVars
    \/ ResolveWrite(w) /\ Serves(w, "done")

Lose(w) == Abandon(w) /\ Fails(w)

\* The registry answers with the row as it is by then.
Answer(w) ==
    /\ calls[w].phase = "done"
    /\ calls' = [calls EXCEPT ![w] = [phase |-> "answered", dispute |-> calls[w].dispute,
                                      row |-> disputes[calls[w].dispute]]]
    /\ UNCHANGED <<vars, shown, busy, listing>>

AnswerLost(w) ==
    /\ calls[w].phase \in {"done", "answered"}
    /\ Fails(w)
    /\ UNCHANGED vars

\* onChanged: merged into the list, whatever is shown by now.
Changed(w) ==
    /\ calls[w].phase = "answered"
    /\ shown' = [d \in DisputeIds |->
                    IF d = calls[w].dispute /\ shown[d] # NoDispute
                    THEN calls[w].row ELSE shown[d]]
    /\ calls' = [calls EXCEPT ![w] = NoCall]
    /\ busy' = FALSE
    /\ UNCHANGED <<vars, listing>>

-----------------------------------------------------------------------------
\* Parties, and other operators, for whom a worker is free once it has answered.
Others ==
    \/ \E d \in DisputeIds, required \in Thresholds : CreateDispute(d, required)
    \/ \E d \in DisputeIds, digest \in Digests : AddEvidence(d, digest)
    \/ \E w \in Workers, d \in DisputeIds :
          /\ Unasked(w)
          /\ \/ \E signer \in Signers : SignRead(w, d, signer)
             \/ \E resolution \in Resolutions : ResolveRead(w, d, resolution)

QueueNext ==
    \/ Load \/ ShowList \/ LoadFails
    \/ \E w \in Workers, d \in DisputeIds :
          \/ \E signer \in Signers : AddSigner(w, d, signer)
          \/ \E resolution \in Resolutions : Resolve(w, d, resolution)
    \/ \E w \in Workers : Serve(w) \/ Lose(w) \/ Answer(w) \/ AnswerLost(w) \/ Changed(w)
    \/ Others /\ UNCHANGED queueVars

QueueSpec == QueueInit /\ [][QueueNext]_<<vars, queueVars>>

-----------------------------------------------------------------------------
\* Whatever order lists and answers come in, the page shows no signature nobody
\* gave, and no resolution of a dispute the registry has open (onChanged, load).
ShownIsReal ==
    \A d \in DisputeIds :
        shown[d] # NoDispute =>
            /\ shown[d].signers \subseteq submitted[d]
            /\ shown[d].status = "RESOLVED" => disputes[d].status = "RESOLVED"

=============================================================================
