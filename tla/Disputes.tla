------------------------------ MODULE Disputes ------------------------------
(***************************************************************************)
(* The resolution center: disputes, their signatures and their resolution  *)
(* (apps/api/src/db/sqlite-registry.ts and the /disputes handlers of       *)
(* apps/api/src/server.ts).  A signature is added by reading the row and   *)
(* writing its whole signer list back; a resolution is a status check in   *)
(* the handler, a threshold check in the registry and a write, with an     *)
(* await between each two.                                                 *)
(***************************************************************************)
EXTENDS Integers, FiniteSets

CONSTANTS
    DisputeIds,
    Signers,
    Thresholds,         \* requiredSignatures, 1 to 5 by the request schema
    Digests,            \* evidence digests
    Workers,            \* requests in flight at once
    MaxInFlight         \* bound on them: 1 serves them serially

ASSUME DisputesAssumption ==
    /\ Thresholds \subseteq 1 .. 5
    /\ MaxInFlight \in Nat

VARIABLES
    disputes,           \* the disputes table
    evidence,           \* the evidence table: digests of each dispute
    working,            \* what each worker is in the middle of
    submitted           \* not in the code: who ever asked to sign each dispute

vars == <<disputes, evidence, working, submitted>>

Resolutions == {"approved", "rejected"}
Unresolved  == "null"
NoDispute   == [status |-> "absent"]
NoRequest   == [pc |-> "idle"]

Dispute == [status : {"OPEN", "RESOLVED"}, resolution : Resolutions \cup {Unresolved},
            required : Thresholds, signers : SUBSET Signers]

Request ==
    [pc : {"writeSigners"}, dispute : DisputeIds, signers : SUBSET Signers]
    \cup [pc : {"checkThreshold", "writeResolution"}, dispute : DisputeIds,
          resolution : Resolutions]

TypeOK ==
    /\ disputes \in [DisputeIds -> Dispute \cup {NoDispute}]
    /\ evidence \in [DisputeIds -> SUBSET Digests]
    /\ working \in [Workers -> Request \cup {NoRequest}]
    /\ submitted \in [DisputeIds -> SUBSET Signers]

Init ==
    /\ disputes = [d \in DisputeIds |-> NoDispute]
    /\ evidence = [d \in DisputeIds |-> {}]
    /\ working = [w \in Workers |-> NoRequest]
    /\ submitted = [d \in DisputeIds |-> {}]

-----------------------------------------------------------------------------
Exists(d) == disputes[d] # NoDispute

Free(w) ==
    /\ working[w] = NoRequest
    /\ Cardinality({v \in Workers : working[v] # NoRequest}) < MaxInFlight

At(w, pc)   == working[w].pc = pc
Begin(w, r) == working' = [working EXCEPT ![w] = r]
Finish(w)   == Begin(w, NoRequest)

\* A fresh id, inserted by a party of the trade; not yet signed.
CreateDispute(d, required) ==
    /\ ~Exists(d)
    /\ disputes' = [disputes EXCEPT ![d] =
           [status |-> "OPEN", resolution |-> Unresolved, required |-> required,
            signers |-> {}]]
    /\ UNCHANGED <<evidence, working, submitted>>

AddEvidence(d, digest) ==
    /\ Exists(d)
    /\ evidence' = [evidence EXCEPT ![d] = @ \cup {digest}]
    /\ UNCHANGED <<disputes, working, submitted>>

\* signDispute, up to and after its update.
SignRead(w, d, signer) ==
    /\ Free(w) /\ Exists(d)
    /\ Begin(w, [pc |-> "writeSigners", dispute |-> d,
                 signers |-> disputes[d].signers \cup {signer}])
    /\ submitted' = [submitted EXCEPT ![d] = @ \cup {signer}]
    /\ UNCHANGED <<disputes, evidence>>

SignWrite(w) ==
    /\ At(w, "writeSigners")
    /\ disputes' = [disputes EXCEPT ![working[w].dispute].signers = working[w].signers]
    /\ Finish(w)
    /\ UNCHANGED <<evidence, submitted>>

\* Mutant: the handler leaves the check to the registry, which has none.
ResolveReadUnchecked(w, d, resolution) ==
    /\ Free(w) /\ Exists(d)
    /\ Begin(w, [pc |-> "checkThreshold", dispute |-> d, resolution |-> resolution])
    /\ UNCHANGED <<disputes, evidence, submitted>>

\* The handler's own read: 409 'dispute already resolved'.
ResolveRead(w, d, resolution) ==
    /\ Free(w) /\ Exists(d)
    /\ disputes[d].status # "RESOLVED"
    /\ Begin(w, [pc |-> "checkThreshold", dispute |-> d, resolution |-> resolution])
    /\ UNCHANGED <<disputes, evidence, submitted>>

\* Mutant: one signature too few is enough.
ResolveCheckOffByOne(w) ==
    /\ At(w, "checkThreshold")
    /\ LET row == disputes[working[w].dispute]
       IN  IF Cardinality(row.signers) + 1 < row.required
           THEN Finish(w)
           ELSE Begin(w, [working[w] EXCEPT !.pc = "writeResolution"])
    /\ UNCHANGED <<disputes, evidence, submitted>>

\* resolveDispute: 'signature threshold not met'.
ResolveCheck(w) ==
    /\ At(w, "checkThreshold")
    /\ LET row == disputes[working[w].dispute]
       IN  IF Cardinality(row.signers) < row.required
           THEN Finish(w)
           ELSE Begin(w, [working[w] EXCEPT !.pc = "writeResolution"])
    /\ UNCHANGED <<disputes, evidence, submitted>>

ResolveWrite(w) ==
    /\ At(w, "writeResolution")
    /\ disputes' = [disputes EXCEPT ![working[w].dispute].status = "RESOLVED",
                                    ![working[w].dispute].resolution =
                                        working[w].resolution]
    /\ Finish(w)
    /\ UNCHANGED <<evidence, submitted>>

\* The request dies with its connection, the database or the process.
Abandon(w) ==
    /\ working[w] # NoRequest
    /\ Finish(w)
    /\ UNCHANGED <<disputes, evidence, submitted>>

Next ==
    \/ \E d \in DisputeIds, required \in Thresholds : CreateDispute(d, required)
    \/ \E d \in DisputeIds, digest \in Digests : AddEvidence(d, digest)
    \/ \E w \in Workers, d \in DisputeIds, signer \in Signers : SignRead(w, d, signer)
    \/ \E w \in Workers, d \in DisputeIds, resolution \in Resolutions :
          ResolveRead(w, d, resolution)
    \/ \E w \in Workers :
          SignWrite(w) \/ ResolveCheck(w) \/ ResolveWrite(w) \/ Abandon(w)

Spec == Init /\ [][Next]_vars

-----------------------------------------------------------------------------
\* A dispute is resolved only after as many distinct signers as it requires
\* have asked to sign it, however their requests interleave (resolveDispute).
ResolvedBySigners ==
    \A d \in DisputeIds :
        Exists(d) /\ disputes[d].status = "RESOLVED"
        => Cardinality(submitted[d]) >= disputes[d].required

\* The requests that are past the handler's check and may still write.
Resolving(d) ==
    {w \in Workers : /\ working[w].pc \in {"checkThreshold", "writeResolution"}
                     /\ working[w].dispute = d}

Resolved(d) == Exists(d) /\ disputes[d].status = "RESOLVED"
Settled(d)  == Resolved(d) /\ Resolving(d) = {}

\* A resolved dispute stays resolved, whatever slow signature arrives; and once
\* the resolutions that had passed the check beside the one that was written are
\* over, its resolution is final: a request that comes later is a 409 and changes
\* nothing.  Until then the last of them to write wins, which is as far as 'dispute
\* already resolved' goes (the handler's check, resolveDispute, signDispute).
ResolvedStays ==
    [][\A d \in DisputeIds :
          /\ Resolved(d) => Resolved(d)' /\ disputes'[d].resolution # Unresolved
          /\ Settled(d) => /\ Settled(d)'
                           /\ disputes'[d].resolution = disputes[d].resolution]_vars

=============================================================================
