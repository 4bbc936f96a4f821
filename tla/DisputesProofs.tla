--------------------------- MODULE DisputesProofs ---------------------------
(***************************************************************************)
(* Disputes and the operator's queue, for any number of disputes, signers, *)
(* thresholds and requests: what ResolvedBySigners and ResolvedStays say   *)
(* holds, whatever the builder and other clients do at the same time.      *)
(*                                                                         *)
(* Every step of the queue is a step of Disputes or leaves its variables   *)
(* alone (QueueImplements), so what is proved of Disputes holds for it.    *)
(***************************************************************************)
EXTENDS StoredDisputes, FiniteSetTheorems, TLAPS

\* A signer list that a request is about to write was asked for.
PendingSigners ==
    \A w \in Workers : At(w, "writeSigners") =>
        LET d == working[w].dispute
        IN  Exists(d) /\ working[w].signers \subseteq submitted[d]

\* A resolution that a request is about to write has been found to be due.
PendingResolution ==
    \A w \in Workers :
        /\ At(w, "checkThreshold") => Exists(working[w].dispute)
        /\ At(w, "writeResolution") =>
              LET d == working[w].dispute
              IN  /\ Exists(d)
                  /\ Cardinality(submitted[d]) >= disputes[d].required

\* Signers in the table have asked to sign, and signers are finitely many.
SignersAsked ==
    \A d \in DisputeIds :
        /\ IsFiniteSet(submitted[d])
        /\ Exists(d) => disputes[d].signers \subseteq submitted[d]

ResolvedHasResolution ==
    \A d \in DisputeIds :
        Exists(d) /\ disputes[d].status = "RESOLVED"
        => disputes[d].resolution \in Resolutions

IInv ==
    /\ TypeOK
    /\ SignersAsked
    /\ PendingSigners
    /\ PendingResolution
    /\ ResolvedHasResolution
    /\ ResolvedBySigners

-----------------------------------------------------------------------------
\* At the start nothing is filed and nobody is asked.
LEMMA InitInv == Init => IInv
<1> SUFFICES ASSUME Init PROVE IInv
  OBVIOUS
<1>1. TypeOK
  BY DEF Init, TypeOK
<1>2. SignersAsked
  BY FS_EmptySet DEF Init, SignersAsked, Exists
<1>3. PendingSigners /\ PendingResolution
  BY DEF Init, PendingSigners, PendingResolution, At, NoRequest
<1>4. ResolvedHasResolution /\ ResolvedBySigners
  BY DEF Init, ResolvedHasResolution, ResolvedBySigners, Exists
<1> QED  BY <1>1, <1>2, <1>3, <1>4 DEF IInv

\* What is in a row: two facts used for every write to the table.
LEMMA RowTypes ==
    /\ NoDispute \notin Dispute
    /\ \A row \in Dispute : row.status \in {"OPEN", "RESOLVED"} /\ row.required \in Thresholds
BY DEF NoDispute, Dispute

\* A row of the table demands a number of signatures.
LEMMA RequiredIsNumber ==
    ASSUME TypeOK, NEW d \in DisputeIds, Exists(d)
    PROVE  disputes[d].required \in Int
<1>1. disputes[d] \in Dispute
  BY DEF TypeOK, Exists
<1>2. disputes[d].required \in Thresholds
  BY <1>1, RowTypes
<1>3. \A n \in Thresholds : n \in 1 .. 5
  BY DisputesAssumption
<1>4. \A n \in 1 .. 5 : n \in Int
  OBVIOUS
<1> QED  BY <1>2, <1>3, <1>4

\* A new dispute has no signer and a number of its own.
LEMMA CreateDisputeInv ==
    ASSUME IInv, NEW d \in DisputeIds, NEW required \in Thresholds,
           CreateDispute(d, required)
    PROVE  IInv'
<1> DEFINE row == [status |-> "OPEN", resolution |-> Unresolved,
                   required |-> required, signers |-> {}]
<1>1. row \in Dispute /\ row # NoDispute
  BY DEF Dispute, NoDispute, Unresolved
<1>2. /\ disputes[d] = NoDispute
      /\ disputes' = [disputes EXCEPT ![d] = row]
      /\ UNCHANGED <<evidence, working, submitted>>
  BY DEF CreateDispute, Exists
<1>3. TypeOK'
  BY <1>1, <1>2 DEF IInv, TypeOK
<1>4. /\ disputes'[d] = row
      /\ \A e \in DisputeIds : e # d => disputes'[e] = disputes[e]
  BY <1>2 DEF IInv, TypeOK
<1>5. SignersAsked'
  BY <1>1, <1>2, <1>4 DEF IInv, SignersAsked, Exists
<1>6. PendingSigners' /\ PendingResolution'
  BY <1>2, <1>4 DEF IInv, TypeOK, PendingSigners, PendingResolution, At, Exists,
     Request, NoRequest
<1>7. ResolvedHasResolution' /\ ResolvedBySigners'
  BY <1>2, <1>4 DEF IInv, ResolvedHasResolution, ResolvedBySigners, Exists
<1> QED  BY <1>3, <1>5, <1>6, <1>7 DEF IInv

\* A signer reads the dispute; the tables stay.
LEMMA SignReadInv ==
    ASSUME IInv, NEW w \in Workers, NEW d \in DisputeIds, NEW signer \in Signers,
           SignRead(w, d, signer)
    PROVE  IInv'
<1> DEFINE request == [pc |-> "writeSigners", dispute |-> d,
                       signers |-> disputes[d].signers \cup {signer}]
<1>1. /\ Exists(d)
      /\ working' = [working EXCEPT ![w] = request]
      /\ submitted' = [submitted EXCEPT ![d] = @ \cup {signer}]
      /\ UNCHANGED <<disputes, evidence>>
  BY DEF SignRead, Begin
<1>2. disputes[d] \in Dispute
  BY <1>1 DEF IInv, TypeOK, Exists
<1>3. request \in Request
  BY <1>2 DEF Request, Dispute
<1>4. TypeOK'
  BY <1>1, <1>3 DEF IInv, TypeOK
<1>5. \A e \in DisputeIds :
          /\ submitted[e] \subseteq submitted'[e]
          /\ IsFiniteSet(submitted'[e])
  BY <1>1, FS_AddElement DEF IInv, TypeOK, SignersAsked
<1>6. \A e \in DisputeIds : Cardinality(submitted[e]) <= Cardinality(submitted'[e])
  BY <1>5, FS_Subset
<1>7. \A e \in DisputeIds : /\ Cardinality(submitted[e]) \in Nat
                            /\ Cardinality(submitted'[e]) \in Nat
  BY <1>5, FS_CardinalityType DEF IInv, SignersAsked
<1>8. \A e \in DisputeIds : Exists(e) => disputes[e].required \in Int
  BY RequiredIsNumber DEF IInv
<1>9. SignersAsked'
  BY <1>1, <1>5 DEF IInv, SignersAsked, Exists
<1>10. \A v \in Workers : working'[v] = IF v = w THEN request ELSE working[v]
  BY <1>1 DEF IInv, TypeOK
<1>11. \A v \in Workers : working[v] # NoRequest => working[v].dispute \in DisputeIds
  BY DEF IInv, TypeOK, Request
<1>12. PendingSigners'
  <2> SUFFICES ASSUME NEW v \in Workers, working'[v].pc = "writeSigners"
               PROVE  /\ disputes'[working'[v].dispute] # NoDispute
                      /\ working'[v].signers \subseteq submitted'[working'[v].dispute]
    BY DEF PendingSigners, At, Exists
  <2>1. CASE v = w
    <3>1. disputes[d].signers \subseteq submitted[d] /\ signer \in submitted'[d]
      BY <1>1 DEF IInv, TypeOK, SignersAsked
    <3> QED  BY <1>1, <1>5, <1>10, <2>1, <3>1 DEF Exists
  <2>2. CASE v # w
    <3>1. working'[v] = working[v] /\ At(v, "writeSigners")
      BY <1>10, <2>2 DEF At
    <3>2. Exists(working[v].dispute) /\ working[v].signers \subseteq submitted[working[v].dispute]
      BY <3>1 DEF IInv, PendingSigners
    <3>3. working[v].dispute \in DisputeIds
      BY <1>11, <3>1 DEF At, NoRequest
    <3> QED  BY <1>1, <1>5, <3>1, <3>2, <3>3 DEF Exists
  <2> QED  BY <2>1, <2>2
<1>13. PendingResolution'
  <2> SUFFICES ASSUME NEW v \in Workers,
                      working'[v].pc \in {"checkThreshold", "writeResolution"}
               PROVE  /\ disputes'[working'[v].dispute] # NoDispute
                      /\ working'[v].pc = "writeResolution" =>
                            Cardinality(submitted'[working'[v].dispute])
                                >= disputes'[working'[v].dispute].required
    BY DEF PendingResolution, At, Exists
  <2>1. v # w /\ working'[v] = working[v]
    BY <1>10
  <2>2. /\ Exists(working[v].dispute)
        /\ working[v].pc = "writeResolution" =>
              Cardinality(submitted[working[v].dispute]) >= disputes[working[v].dispute].required
    BY <2>1 DEF IInv, PendingResolution, At
  <2>3. working[v].dispute \in DisputeIds
    BY <1>11, <2>1 DEF NoRequest
  <2> QED  BY <1>1, <1>6, <1>7, <1>8, <2>1, <2>2, <2>3 DEF Exists
<1>14. ResolvedHasResolution' /\ ResolvedBySigners'
  <2>1. ResolvedHasResolution'
    BY <1>1 DEF IInv, ResolvedHasResolution, Exists
  <2>2. ASSUME NEW e \in DisputeIds, Exists(e), disputes[e].status = "RESOLVED"
        PROVE  Cardinality(submitted'[e]) >= disputes[e].required
    <3>1. Cardinality(submitted[e]) >= disputes[e].required
      BY <2>2 DEF IInv, ResolvedBySigners
    <3> QED  BY <1>6, <1>7, <1>8, <2>2, <3>1
  <2> QED  BY <1>1, <2>1, <2>2 DEF ResolvedBySigners, Exists
<1> QED  BY <1>4, <1>9, <1>12, <1>13, <1>14 DEF IInv

\* The signature is written over what was read.
LEMMA SignWriteInv ==
    ASSUME IInv, NEW w \in Workers, SignWrite(w)
    PROVE  IInv'
<1> DEFINE d == working[w].dispute
           row == [disputes[d] EXCEPT !.signers = working[w].signers]
<1>1. /\ working[w].pc = "writeSigners"
      /\ disputes' = [disputes EXCEPT ![d].signers = working[w].signers]
      /\ working' = [working EXCEPT ![w] = NoRequest]
      /\ UNCHANGED <<evidence, submitted>>
  BY DEF SignWrite, At, Finish, Begin
<1>2. d \in DisputeIds /\ working[w].signers \subseteq Signers
  BY <1>1 DEF IInv, TypeOK, Request, NoRequest
<1>3. Exists(d) /\ working[w].signers \subseteq submitted[d]
  BY <1>1 DEF IInv, PendingSigners, At
<1>4. disputes[d] \in Dispute
  BY <1>2, <1>3 DEF IInv, TypeOK, Exists
<1>5. /\ row \in Dispute /\ row # NoDispute
      /\ row.status = disputes[d].status /\ row.resolution = disputes[d].resolution
      /\ row.required = disputes[d].required /\ row.signers = working[w].signers
  BY <1>2, <1>4 DEF Dispute, NoDispute
<1>6. /\ disputes'[d] = row
      /\ \A e \in DisputeIds : e # d => disputes'[e] = disputes[e]
      /\ disputes' = [disputes EXCEPT ![d] = row]
  BY <1>1, <1>2 DEF IInv, TypeOK
<1>7. TypeOK'
  BY <1>1, <1>2, <1>5, <1>6 DEF IInv, TypeOK
<1>8. SignersAsked'
  BY <1>1, <1>3, <1>5, <1>6 DEF IInv, SignersAsked, Exists
<1>9. \A v \in Workers : working'[v] = IF v = w THEN NoRequest ELSE working[v]
  BY <1>1 DEF IInv, TypeOK
<1>10. \A e \in DisputeIds :
          /\ Exists(e) => Exists(e)'
          /\ Exists(e)' => Exists(e)
          /\ Exists(e) => /\ disputes'[e].required = disputes[e].required
                          /\ disputes'[e].status = disputes[e].status
                          /\ disputes'[e].resolution = disputes[e].resolution
  BY <1>3, <1>5, <1>6 DEF Exists
<1>11. PendingSigners' /\ PendingResolution'
  BY <1>1, <1>9, <1>10 DEF IInv, TypeOK, PendingSigners, PendingResolution, At,
     Request, NoRequest
<1>12. ResolvedHasResolution' /\ ResolvedBySigners'
  BY <1>1, <1>10 DEF IInv, ResolvedHasResolution, ResolvedBySigners
<1> QED  BY <1>7, <1>8, <1>11, <1>12 DEF IInv

\* A resolution reads the dispute; the tables stay.
LEMMA ResolveReadInv ==
    ASSUME IInv, NEW w \in Workers, NEW d \in DisputeIds, NEW resolution \in Resolutions,
           ResolveRead(w, d, resolution)
    PROVE  IInv'
<1>1. /\ Exists(d)
      /\ working' = [working EXCEPT ![w] = [pc |-> "checkThreshold", dispute |-> d,
                                            resolution |-> resolution]]
      /\ UNCHANGED <<disputes, evidence, submitted>>
  BY DEF ResolveRead, Begin
<1>2. TypeOK'
  BY <1>1 DEF IInv, TypeOK, Request
<1>3. SignersAsked' /\ ResolvedHasResolution' /\ ResolvedBySigners'
  BY <1>1 DEF IInv, SignersAsked, ResolvedHasResolution, ResolvedBySigners, Exists
<1>4. PendingSigners' /\ PendingResolution'
  BY <1>1 DEF IInv, TypeOK, PendingSigners, PendingResolution, At, Exists
<1> QED  BY <1>2, <1>3, <1>4 DEF IInv

\* It goes on only with the signers it needs.
LEMMA ResolveCheckInv ==
    ASSUME IInv, NEW w \in Workers, ResolveCheck(w)
    PROVE  IInv'
<1> DEFINE d == working[w].dispute
           due == [working[w] EXCEPT !.pc = "writeResolution"]
<1>1. /\ working[w].pc = "checkThreshold"
      /\ \/ working' = [working EXCEPT ![w] = NoRequest]
         \/ /\ ~(Cardinality(disputes[d].signers) < disputes[d].required)
            /\ working' = [working EXCEPT ![w] = due]
      /\ UNCHANGED <<disputes, evidence, submitted>>
  BY DEF ResolveCheck, At, Finish, Begin
<1>2. /\ working[w] \in [pc : {"checkThreshold", "writeResolution"},
                         dispute : DisputeIds, resolution : Resolutions]
      /\ Exists(d)
  BY <1>1 DEF IInv, TypeOK, Request, NoRequest, PendingResolution, At
<1>3. due \in Request /\ due.pc = "writeResolution" /\ due.dispute = d
  BY <1>2 DEF Request
<1>4. TypeOK'
  BY <1>1, <1>3 DEF IInv, TypeOK
<1>5. SignersAsked' /\ ResolvedHasResolution' /\ ResolvedBySigners'
  BY <1>1 DEF IInv, SignersAsked, ResolvedHasResolution, ResolvedBySigners, Exists
<1>6. PendingSigners'
  <2>1. \A v \in Workers : \/ working'[v] = working[v]
                            \/ working'[v].pc # "writeSigners"
    <3> SUFFICES ASSUME NEW v \in Workers, working'[v] # working[v]
                 PROVE  working'[v].pc # "writeSigners"
      OBVIOUS
    <3>1. v = w /\ working'[w] \in {NoRequest, due}
      BY <1>1 DEF IInv, TypeOK
    <3>2. CASE working'[w] = NoRequest
      BY <3>1, <3>2 DEF NoRequest
    <3>3. CASE working'[w] = due
      <4>1. working'[w].pc = "writeResolution"
        BY <1>3, <3>3
      <4> QED  BY <3>1, <4>1
    <3> QED  BY <3>1, <3>2, <3>3
  <2> QED  BY <1>1, <2>1 DEF IInv, PendingSigners, At, Exists
<1>7. Cardinality(disputes[d].signers) <= Cardinality(submitted[d])
  BY <1>2, FS_Subset DEF IInv, SignersAsked
<1>8. /\ Cardinality(disputes[d].signers) \in Nat
      /\ Cardinality(submitted[d]) \in Nat
      /\ disputes[d].required \in Int
  <2>1. IsFiniteSet(submitted[d]) /\ IsFiniteSet(disputes[d].signers)
    BY <1>2, FS_Subset DEF IInv, SignersAsked
  <2>2. disputes[d].required \in Int
    BY <1>2, RequiredIsNumber DEF IInv, TypeOK, Request
  <2> QED  BY <2>1, <2>2, FS_CardinalityType
<1>9. PendingResolution'
  BY <1>1, <1>2, <1>3, <1>7, <1>8 DEF IInv, TypeOK, PendingResolution, At, Exists, NoRequest
<1> QED  BY <1>4, <1>5, <1>6, <1>9 DEF IInv

\* It is written over what was read.
LEMMA ResolveWriteInv ==
    ASSUME IInv, NEW w \in Workers, ResolveWrite(w)
    PROVE  IInv'
<1> DEFINE d == working[w].dispute
           row == [disputes[d] EXCEPT !.status = "RESOLVED",
                                      !.resolution = working[w].resolution]
<1>1. /\ working[w].pc = "writeResolution"
      /\ disputes' = [disputes EXCEPT ![d].status = "RESOLVED",
                                      ![d].resolution = working[w].resolution]
      /\ working' = [working EXCEPT ![w] = NoRequest]
      /\ UNCHANGED <<evidence, submitted>>
  BY DEF ResolveWrite, At, Finish, Begin
<1>2. d \in DisputeIds /\ working[w].resolution \in Resolutions
  BY <1>1 DEF IInv, TypeOK, Request, NoRequest
<1>3. Exists(d) /\ Cardinality(submitted[d]) >= disputes[d].required
  BY <1>1 DEF IInv, PendingResolution, At
<1>4. disputes[d] \in Dispute
  BY <1>2, <1>3 DEF IInv, TypeOK, Exists
<1>5. /\ row \in Dispute /\ row # NoDispute
      /\ row.status = "RESOLVED" /\ row.resolution = working[w].resolution
      /\ row.required = disputes[d].required /\ row.signers = disputes[d].signers
  BY <1>2, <1>4 DEF Dispute, NoDispute
<1>6. /\ disputes' = [disputes EXCEPT ![d] = row]
      /\ disputes'[d] = row
      /\ \A e \in DisputeIds : e # d => disputes'[e] = disputes[e]
  BY <1>1, <1>2 DEF IInv, TypeOK
<1>7. TypeOK'
  BY <1>1, <1>2, <1>5, <1>6 DEF IInv, TypeOK
<1>8. SignersAsked'
  BY <1>1, <1>3, <1>5, <1>6 DEF IInv, SignersAsked, Exists
<1>9. \A v \in Workers : working'[v] = IF v = w THEN NoRequest ELSE working[v]
  BY <1>1 DEF IInv, TypeOK
<1>10. \A e \in DisputeIds :
          /\ Exists(e) => Exists(e)'
          /\ Exists(e) => disputes'[e].required = disputes[e].required
  BY <1>3, <1>5, <1>6 DEF Exists
<1>11. PendingSigners' /\ PendingResolution'
  BY <1>1, <1>9, <1>10 DEF IInv, TypeOK, PendingSigners, PendingResolution, At,
     Request, NoRequest
<1>12. ResolvedHasResolution' /\ ResolvedBySigners'
  BY <1>1, <1>2, <1>3, <1>5, <1>6 DEF IInv, ResolvedHasResolution, ResolvedBySigners, Exists
<1> QED  BY <1>7, <1>8, <1>11, <1>12 DEF IInv

\* Steps that leave the table and the signatures alone.
LEMMA QuietInv ==
    ASSUME IInv,
           \/ UNCHANGED vars
           \/ \E d \in DisputeIds, digest \in Digests : AddEvidence(d, digest)
           \/ \E w \in Workers : Abandon(w)
    PROVE  IInv'
<1>1. /\ UNCHANGED <<disputes, submitted>>
      /\ TypeOK'
      /\ \A v \in Workers : working'[v] = working[v] \/ working'[v] = NoRequest
  <2>1. CASE UNCHANGED vars
    BY <2>1 DEF IInv, TypeOK, vars
  <2>2. CASE \E d \in DisputeIds, digest \in Digests : AddEvidence(d, digest)
    BY <2>2 DEF IInv, TypeOK, AddEvidence
  <2>3. CASE \E w \in Workers : Abandon(w)
    BY <2>3 DEF IInv, TypeOK, Abandon, Finish, Begin
  <2> QED  BY <2>1, <2>2, <2>3
<1>2. SignersAsked' /\ ResolvedHasResolution' /\ ResolvedBySigners'
  BY <1>1 DEF IInv, SignersAsked, ResolvedHasResolution, ResolvedBySigners, Exists
<1>3. PendingSigners' /\ PendingResolution'
  BY <1>1 DEF IInv, PendingSigners, PendingResolution, At, Exists, NoRequest
<1> QED  BY <1>1, <1>2, <1>3 DEF IInv

\* Every step keeps the invariant.
LEMMA NextInv == IInv /\ [Next]_vars => IInv'
<1> SUFFICES ASSUME IInv, [Next]_vars PROVE IInv'
  OBVIOUS
<1>1. CASE \E d \in DisputeIds, required \in Thresholds : CreateDispute(d, required)
  BY <1>1, CreateDisputeInv
<1>2. CASE \E w \in Workers, d \in DisputeIds, signer \in Signers : SignRead(w, d, signer)
  BY <1>2, SignReadInv
<1>3. CASE \E w \in Workers, d \in DisputeIds, resolution \in Resolutions :
              ResolveRead(w, d, resolution)
  BY <1>3, ResolveReadInv
<1>4. CASE \E w \in Workers : SignWrite(w)
  BY <1>4, SignWriteInv
<1>5. CASE \E w \in Workers : ResolveCheck(w)
  BY <1>5, ResolveCheckInv
<1>6. CASE \E w \in Workers : ResolveWrite(w)
  BY <1>6, ResolveWriteInv
<1>7. CASE \/ UNCHANGED vars
           \/ \E d \in DisputeIds, digest \in Digests : AddEvidence(d, digest)
           \/ \E w \in Workers : Abandon(w)
  BY <1>7, QuietInv
<1> QED  BY <1>1, <1>2, <1>3, <1>4, <1>5, <1>6, <1>7 DEF Next

\* No step undoes a resolution.
LEMMA StepKeepsResolved ==
    ASSUME IInv, [Next]_vars, NEW d \in DisputeIds,
           Exists(d), disputes[d].status = "RESOLVED"
    PROVE  disputes'[d].status = "RESOLVED" /\ disputes'[d].resolution # Unresolved
<1>1. disputes[d].resolution # Unresolved
  BY DEF IInv, ResolvedHasResolution, Resolutions, Unresolved
<1>2. disputes[d] \in Dispute
  BY DEF IInv, TypeOK, Exists
<1>3. CASE \E e \in DisputeIds, required \in Thresholds : CreateDispute(e, required)
  BY <1>1, <1>3 DEF CreateDispute, IInv, TypeOK
<1>4. CASE \E w \in Workers : SignWrite(w)
  BY <1>1, <1>2, <1>4 DEF SignWrite, IInv, TypeOK, Dispute
<1>5. CASE \E w \in Workers : ResolveWrite(w)
  <2> PICK w \in Workers : ResolveWrite(w)
    BY <1>5
  <2>1. working[w].resolution \in Resolutions
    BY DEF ResolveWrite, At, IInv, TypeOK, Request, NoRequest
  <2> QED  BY <1>1, <1>2, <2>1 DEF ResolveWrite, IInv, TypeOK, Dispute, Resolutions, Unresolved
<1>6. CASE UNCHANGED disputes
  BY <1>1, <1>6
<1> QED
  BY <1>3, <1>4, <1>5, <1>6 DEF Next, vars, SignRead, ResolveRead, ResolveCheck, AddEvidence,
     Abandon

\* While no request may still write a resolution, none begins to and none is
\* written: the handler's check stands before the former, and Settled excludes
\* the latter.
LEMMA StepKeepsSettled ==
    ASSUME IInv, [Next]_vars, NEW d \in DisputeIds, Settled(d)
    PROVE  Settled(d)' /\ disputes'[d].resolution = disputes[d].resolution
<1>1. /\ Exists(d) /\ disputes[d].status = "RESOLVED" /\ disputes[d] \in Dispute
      /\ \A w \in Workers : ~(/\ working[w].pc \in {"checkThreshold", "writeResolution"}
                             /\ working[w].dispute = d)
  BY DEF Settled, Resolved, Resolving, IInv, TypeOK, Exists
<1>2. Resolved(d)'
  BY <1>1, StepKeepsResolved, RowTypes DEF Resolved, Exists, NoDispute
<1>3. disputes'[d].resolution = disputes[d].resolution
  <2>1. CASE \E e \in DisputeIds, required \in Thresholds : CreateDispute(e, required)
    BY <1>1, <2>1 DEF CreateDispute, IInv, TypeOK
  <2>2. CASE \E w \in Workers : SignWrite(w)
    BY <1>1, <2>2 DEF SignWrite, IInv, TypeOK, Dispute
  <2>3. CASE \E w \in Workers : ResolveWrite(w)
    <3> PICK w \in Workers : ResolveWrite(w)
      BY <2>3
    <3>1. working[w].dispute # d
      BY <1>1 DEF ResolveWrite, At
    <3> QED  BY <3>1 DEF ResolveWrite, IInv, TypeOK
  <2>4. CASE UNCHANGED disputes
    BY <2>4
  <2> QED
    BY <2>1, <2>2, <2>3, <2>4 DEF Next, vars, SignRead, ResolveRead, ResolveCheck,
       AddEvidence, Abandon
<1>4. Resolving(d)' = {}
  <2> SUFFICES ASSUME NEW v \in Workers,
                      working'[v].pc \in {"checkThreshold", "writeResolution"},
                      working'[v].dispute = d
               PROVE  FALSE
    BY DEF Resolving
  <2>1. CASE UNCHANGED working
    BY <1>1, <2>1
  <2>2. ASSUME NEW w \in Workers, SignWrite(w) \/ ResolveWrite(w) \/ Abandon(w)
        PROVE  FALSE
    BY <1>1, <2>2 DEF SignWrite, ResolveWrite, Abandon, Finish, Begin, NoRequest, IInv, TypeOK
  <2>3. ASSUME NEW w \in Workers, ResolveCheck(w)
        PROVE  FALSE
    BY <1>1, <2>3 DEF ResolveCheck, At, Finish, Begin, NoRequest, IInv, TypeOK, Request
  <2>4. ASSUME NEW w \in Workers, NEW e \in DisputeIds, NEW signer \in Signers,
               SignRead(w, e, signer)
        PROVE  FALSE
    BY <1>1, <2>4 DEF SignRead, Begin, IInv, TypeOK
  <2>5. ASSUME NEW w \in Workers, NEW e \in DisputeIds, NEW resolution \in Resolutions,
               ResolveRead(w, e, resolution)
        PROVE  FALSE
    <3>1. e # d
      BY <1>1, <2>5 DEF ResolveRead
    <3> QED  BY <1>1, <2>5, <3>1 DEF ResolveRead, Begin, IInv, TypeOK
  <2> QED
    BY <2>1, <2>2, <2>3, <2>4, <2>5 DEF Next, vars, CreateDispute, AddEvidence
<1> QED  BY <1>2, <1>3, <1>4 DEF Settled

-----------------------------------------------------------------------------
\* Every step of the queue, with its pages, calls and answers, is a step of the
\* dispute handlers or none of theirs.
LEMMA QueueStep == [QueueNext]_<<vars, queueVars>> => [Next]_vars
<1> SUFFICES ASSUME [QueueNext]_<<vars, queueVars>> PROVE [Next]_vars
  OBVIOUS
<1>1. CASE Load \/ ShowList \/ LoadFails \/ UNCHANGED <<vars, queueVars>>
  BY <1>1 DEF Load, ShowList, LoadFails
<1>2. CASE \E w \in Workers, d \in DisputeIds :
              \/ \E signer \in Signers : AddSigner(w, d, signer)
              \/ \E resolution \in Resolutions : Resolve(w, d, resolution)
  BY <1>2 DEF AddSigner, Resolve, Next
<1>3. CASE \E w \in Workers : Serve(w) \/ Lose(w)
  BY <1>3 DEF Serve, Lose, Next
<1>4. CASE \E w \in Workers : Answer(w) \/ AnswerLost(w) \/ Changed(w)
  BY <1>4 DEF Answer, AnswerLost, Changed
<1>5. CASE Others
  BY <1>5 DEF Others, Next
<1> QED  BY <1>1, <1>2, <1>3, <1>4, <1>5 DEF QueueNext

\* The operator's queue and the other clients use the handlers as Disputes says
\* they may be used.
THEOREM QueueImplements == QueueSpec => Spec
<1>1. QueueInit => Init
  BY DEF QueueInit
<1> QED  BY <1>1, QueueStep, PTL DEF QueueSpec, Spec

\* The invariant holds of every behaviour.
THEOREM Invariant == Spec => []IInv
BY InitInv, NextInv, PTL DEF Spec

\* The tables and requests keep their types.
THEOREM TypeCorrect == Spec => []TypeOK
<1>1. IInv => TypeOK
  BY DEF IInv
<1> QED  BY <1>1, Invariant, PTL

\* No dispute is resolved without as many signers as it requires, whatever the
\* queue, other operators and the parties do at the same time.
THEOREM SignaturesRequired == QueueSpec => []ResolvedBySigners
<1>1. IInv => ResolvedBySigners
  BY DEF IInv
<1> QED  BY <1>1, Invariant, QueueImplements, PTL

\* A resolved dispute stays resolved, and its resolution is final for every
\* request that comes once those beside it are over.
THEOREM ResolutionFinal == QueueSpec => ResolvedStays
<1>1. IInv /\ [Next]_vars =>
         [\A d \in DisputeIds :
             /\ Resolved(d) => Resolved(d)' /\ disputes'[d].resolution # Unresolved
             /\ Settled(d) => /\ Settled(d)'
                              /\ disputes'[d].resolution = disputes[d].resolution]_vars
  BY StepKeepsResolved, StepKeepsSettled, RowTypes DEF Resolved, IInv, TypeOK, Exists, NoDispute
<1> QED  BY <1>1, Invariant, QueueImplements, PTL DEF Spec, ResolvedStays

-----------------------------------------------------------------------------
(* What the operator's page shows.                                         *)

\* A row the page has or may come to have: of a dispute that was filed, with
\* signatures that were given, resolved only if the dispute is.
Real(d, r) ==
    r # NoDispute =>
        /\ Exists(d) /\ r.signers \subseteq submitted[d]
        /\ r.status = "RESOLVED" => disputes[d].status = "RESOLVED"

CallReal(c) ==
    /\ c.phase # "none" => Exists(c.dispute)
    /\ c.phase = "answered" => Real(c.dispute, c.row)

QueueInv ==
    /\ IInv /\ QueueTypeOK
    /\ \A d \in DisputeIds : Real(d, shown[d])
    /\ listing # NoListing => \A d \in DisputeIds : Real(d, listing[d])
    /\ \A w \in Workers : CallReal(calls[w])

\* No dispute is taken back.
LEMMA ExistsStays ==
    ASSUME IInv, [Next]_vars, NEW d \in DisputeIds, Exists(d)
    PROVE  Exists(d)'
<1>0. disputes[d] \in Dispute /\ disputes[d] # NoDispute
  BY DEF IInv, TypeOK, Exists
<1>1. ASSUME NEW e \in DisputeIds, NEW required \in Thresholds,
             CreateDispute(e, required)
      PROVE  disputes'[d] = disputes[d]
  BY <1>1 DEF CreateDispute, IInv, TypeOK, Exists
<1>2. ASSUME NEW w \in Workers, SignWrite(w)
      PROVE  disputes'[d].status = disputes[d].status
  BY <1>0, <1>2 DEF SignWrite, IInv, TypeOK, Dispute
<1>3. ASSUME NEW w \in Workers, ResolveWrite(w)
      PROVE  disputes'[d].status \in {disputes[d].status, "RESOLVED"}
  BY <1>0, <1>3 DEF ResolveWrite, IInv, TypeOK, Dispute
<1>4. disputes[d].status \in {"OPEN", "RESOLVED"} /\ NoDispute.status = "absent"
  BY <1>0 DEF Dispute, NoDispute
<1>5. CASE UNCHANGED disputes
  BY <1>0, <1>5 DEF Exists
<1> QED  BY <1>0, <1>1, <1>2, <1>3, <1>4, <1>5 DEF Next, vars, SignRead, ResolveRead,
            ResolveCheck, AddEvidence, Abandon, Exists

\* Whatever the handlers do, what was real remains so.
LEMMA RealStays ==
    ASSUME IInv, [Next]_vars, NEW d \in DisputeIds, NEW r, Real(d, r)
    PROVE  Real(d, r)'
<1> SUFFICES ASSUME r # NoDispute PROVE Real(d, r)'
  BY DEF Real
<1>1. Exists(d) /\ r.signers \subseteq submitted[d]
  BY DEF Real
<1>2. submitted[d] \subseteq submitted'[d]
  <2>1. ASSUME NEW w \in Workers, NEW e \in DisputeIds, NEW signer \in Signers,
               SignRead(w, e, signer)
        PROVE  submitted[d] \subseteq submitted'[d]
    BY <2>1 DEF SignRead, IInv, TypeOK
  <2>2. CASE UNCHANGED submitted
    BY <2>2
  <2> QED  BY <2>1, <2>2 DEF Next, vars, CreateDispute, AddEvidence, SignWrite, ResolveRead,
               ResolveCheck, ResolveWrite, Abandon
<1>3. Exists(d)'
  BY <1>1, ExistsStays
<1>4. r.status = "RESOLVED" => disputes'[d].status = "RESOLVED"
  BY <1>1, StepKeepsResolved DEF Real
<1> QED  BY <1>1, <1>2, <1>3, <1>4 DEF Real

\* A row of the registry is real.
LEMMA RowsReal ==
    ASSUME IInv, NEW d \in DisputeIds
    PROVE  Real(d, disputes[d])
  BY DEF IInv, SignersAsked, Real, Exists

\* A call the step does not touch keeps what it rests on.
LEMMA CallStays ==
    ASSUME IInv, [Next]_vars, NEW c \in Call \cup {NoCall}, CallReal(c)
    PROVE  CallReal(c)'
<1>1. CASE c.phase = "none"
  BY <1>1 DEF CallReal
<1>2. CASE c.phase # "none"
  <2>1. c.dispute \in DisputeIds /\ Exists(c.dispute)
    BY <1>2 DEF Call, NoCall, CallReal
  <2>2. Exists(c.dispute)'
    BY <2>1, ExistsStays
  <2>3. c.phase = "answered" => Real(c.dispute, c.row)'
    BY <2>1, RealStays DEF CallReal
  <2> QED  BY <2>2, <2>3 DEF CallReal
<1> QED  BY <1>1, <1>2

\* At the start the page shows nothing.
LEMMA InitQueueInv == QueueInit => QueueInv
<1> SUFFICES ASSUME QueueInit PROVE QueueInv
  OBVIOUS
<1>1. IInv
  BY InitInv DEF QueueInit
<1>2. QueueTypeOK
  BY <1>1 DEF QueueInit, QueueTypeOK, IInv, Rows
<1>3. \A d \in DisputeIds : Real(d, shown[d])
  BY DEF QueueInit, Real
<1>4. \A w \in Workers : CallReal(calls[w])
  BY DEF QueueInit, CallReal, NoCall
<1> QED  BY <1>1, <1>2, <1>3, <1>4 DEF QueueInit, QueueInv

\* What a step leaves alone stays real.
LEMMA QueueFrame ==
    ASSUME QueueInv, [Next]_vars
    PROVE  /\ IInv' /\ TypeOK'
           /\ UNCHANGED shown => (\A d \in DisputeIds : Real(d, shown[d]))'
           /\ UNCHANGED listing =>
                (listing # NoListing => \A d \in DisputeIds : Real(d, listing[d]))'
           /\ \A w \in Workers : calls'[w] = calls[w] => CallReal(calls[w])'
           /\ \A w \in Workers : calls'[w] = NoCall => CallReal(calls[w])'
<1>1. IInv' /\ TypeOK'
  BY NextInv DEF QueueInv, IInv
<1>2. ASSUME UNCHANGED shown, NEW d \in DisputeIds
      PROVE  Real(d, shown[d])'
  <2>1. \A r : Real(d, r) => Real(d, r)'
    BY RealStays DEF QueueInv
  <2> QED  BY <1>2, <2>1 DEF QueueInv, Real
<1>3. ASSUME UNCHANGED listing, listing # NoListing, NEW d \in DisputeIds
      PROVE  Real(d, listing[d])'
  <2>1. \A r : Real(d, r) => Real(d, r)'
    BY RealStays DEF QueueInv
  <2> QED  BY <1>3, <2>1 DEF QueueInv, Real
<1>4. ASSUME NEW w \in Workers, calls'[w] = calls[w]
      PROVE  CallReal(calls[w])'
  <2>1. calls[w] \in Call \cup {NoCall}
    BY DEF QueueInv, QueueTypeOK
  <2>2. \A c \in Call \cup {NoCall} : CallReal(c) => CallReal(c)'
    BY CallStays DEF QueueInv
  <2> QED  BY <1>4, <2>1, <2>2 DEF QueueInv, CallReal, Real
<1>5. ASSUME NEW w \in Workers, calls'[w] = NoCall
      PROVE  CallReal(calls[w])'
  BY <1>5 DEF CallReal, NoCall
<1> QED  BY <1>1, <1>2, <1>3, <1>4, <1>5

\* Lists: asked for, shown, or lost.
LEMMA ListInv ==
    ASSUME QueueInv, Load \/ ShowList \/ LoadFails
    PROVE  QueueInv'
<1>1. UNCHANGED vars /\ UNCHANGED <<busy, calls>>
  BY DEF Load, ShowList, LoadFails
<1>2. [Next]_vars
  BY <1>1
<1>3. \A w \in Workers : CallReal(calls[w])'
  BY <1>1, <1>2, QueueFrame
<1>5. CASE Load
  <2>1. listing' = disputes /\ UNCHANGED shown
    BY <1>5 DEF Load
  <2>2. QueueTypeOK'
    BY <1>1, <1>2, <2>1, QueueFrame DEF QueueInv, IInv, TypeOK, QueueTypeOK, Rows
  <2>3. \A d \in DisputeIds : Real(d, listing[d])'
    <3>1. \A d \in DisputeIds : Real(d, disputes[d])
      BY RowsReal DEF QueueInv
    <3> QED  BY <2>1, <3>1, <1>1 DEF vars, Real, Exists
  <2> QED  BY <1>2, <1>3, <2>1, <2>2, <2>3, QueueFrame DEF QueueInv
<1>6. CASE ShowList
  <2>1. listing # NoListing /\ shown' = listing /\ listing' = NoListing
    BY <1>6 DEF ShowList
  <2>2. QueueTypeOK'
    BY <1>1, <1>2, <2>1, QueueFrame DEF QueueInv, QueueTypeOK
  <2>3. \A d \in DisputeIds : Real(d, shown[d])'
    BY <1>1, <2>1 DEF QueueInv, vars, Real, Exists
  <2> QED  BY <1>2, <1>3, <2>1, <2>2, <2>3, QueueFrame DEF QueueInv
<1>7. CASE LoadFails
  <2>1. listing' = NoListing /\ UNCHANGED shown
    BY <1>7 DEF LoadFails
  <2>2. QueueTypeOK'
    BY <1>1, <1>2, <2>1, QueueFrame DEF QueueInv, QueueTypeOK
  <2> QED  BY <1>2, <1>3, <2>1, <2>2, QueueFrame DEF QueueInv
<1> QED  BY <1>5, <1>6, <1>7

\* A click of the builder: the dispute it is made on was filed.
LEMMA BuilderInv ==
    ASSUME QueueInv, NEW w \in Workers, NEW d \in DisputeIds,
           \/ \E signer \in Signers : AddSigner(w, d, signer)
           \/ \E resolution \in Resolutions : Resolve(w, d, resolution)
    PROVE  QueueInv'
<1>1. /\ Calls(w, d) /\ UNCHANGED shown /\ Exists(d)
      /\ \/ \E signer \in Signers : SignRead(w, d, signer)
         \/ \E resolution \in Resolutions : ResolveRead(w, d, resolution)
  BY DEF AddSigner, Resolve, SignRead, ResolveRead
<1>2. [Next]_vars
  BY <1>1 DEF Next
<1> DEFINE c == [phase |-> "asked", dispute |-> d]
<1>3. /\ busy' = TRUE /\ UNCHANGED listing
      /\ calls' = [calls EXCEPT ![w] = c]
  BY <1>1 DEF Calls
<1>4. c \in Call /\ c.phase = "asked" /\ c.dispute = d
  BY DEF Call
<1> HIDE DEF c
<1>5. calls \in [Workers -> Call \cup {NoCall}]
  BY DEF QueueInv, QueueTypeOK
<1>6. QueueTypeOK'
  BY <1>1, <1>2, <1>3, <1>4, <1>5, QueueFrame DEF QueueInv, QueueTypeOK
<1>7. ASSUME NEW v \in Workers PROVE CallReal(calls[v])'
  <2>1. CASE v = w
    <3>1. Exists(d)'
      BY <1>1, <1>2, ExistsStays DEF QueueInv
    <3>2. calls'[v] = c
      BY <1>3, <1>5, <2>1
    <3> QED  BY <1>4, <3>1, <3>2 DEF CallReal
  <2>2. CASE v # w
    BY <1>2, <1>3, <1>5, <2>2, QueueFrame
  <2> QED  BY <2>1, <2>2
<1> QED  BY <1>1, <1>2, <1>3, <1>6, <1>7, QueueFrame DEF QueueInv

\* A call goes on, is answered or fails: it is of a dispute that was filed.
LEMMA CallGoes ==
    ASSUME QueueInv, [Next]_vars, NEW w \in Workers, NEW c \in Call \cup {NoCall},
           CallReal(c)', calls' = [calls EXCEPT ![w] = c],
           UNCHANGED <<shown, listing>>, busy' \in BOOLEAN
    PROVE  QueueInv'
<1>1. calls \in [Workers -> Call \cup {NoCall}]
  BY DEF QueueInv, QueueTypeOK
<1>2. QueueTypeOK'
  BY <1>1, QueueFrame DEF QueueInv, QueueTypeOK
<1>3. ASSUME NEW v \in Workers PROVE CallReal(calls[v])'
  <2>1. CASE v = w
    BY <1>1, <2>1 DEF CallReal, Real
  <2>2. CASE v # w
    BY <1>1, <2>2, QueueFrame
  <2> QED  BY <2>1, <2>2
<1> QED  BY <1>2, <1>3, QueueFrame DEF QueueInv

\* A step of the handlers that the page does not notice.
LEMMA UnnoticedInv ==
    ASSUME QueueInv, [Next]_vars, UNCHANGED queueVars
    PROVE  QueueInv'
<1>1. QueueTypeOK'
  BY QueueFrame DEF QueueInv, QueueTypeOK, queueVars
<1> QED  BY <1>1, QueueFrame DEF QueueInv, queueVars

\* A worker with no call pending shows nothing that is not stored.
LEMMA NoCallReal == CallReal(NoCall)'
  BY DEF CallReal, NoCall

\* A call that fails leaves the rows, the listings and what they show as they were.
LEMMA FailsInv ==
    ASSUME QueueInv, [Next]_vars, NEW w \in Workers, Fails(w)
    PROVE  QueueInv'
<1>1. busy' \in BOOLEAN
  BY DEF Fails, QueueInv, QueueTypeOK
<1> QED  BY <1>1, NoCallReal, CallGoes DEF Fails

\* A served call changes the answer only: its worker waits for it as before.
LEMMA ServesInv ==
    ASSUME QueueInv, [Next]_vars, NEW w \in Workers, Serves(w, "done")
    PROVE  QueueInv'
<1>1. CASE calls[w].phase # "asked"
  BY <1>1, UnnoticedInv DEF Serves, queueVars
<1>2. CASE calls[w].phase = "asked"
  <2>1. calls[w] \in [phase : {"asked"}, dispute : DisputeIds]
    BY <1>2 DEF QueueInv, QueueTypeOK, Call, NoCall
  <2>2. [calls[w] EXCEPT !.phase = "done"] \in Call
    BY <2>1 DEF Call
  <2>3. PICK c \in Call :
           /\ c.phase = "done" /\ c.dispute = calls[w].dispute
           /\ calls' = [calls EXCEPT ![w] = c]
           /\ UNCHANGED <<shown, busy, listing>>
    BY <1>2, <2>1, <2>2 DEF Serves
  <2>4. Exists(calls[w].dispute)
    BY <1>2 DEF QueueInv, CallReal
  <2>5. \A d \in DisputeIds : Exists(d) => Exists(d)'
    BY ExistsStays DEF QueueInv
  <2>6. CallReal(c)'
    <3>1. PICK d \in DisputeIds : d = calls[w].dispute
      BY <2>1
    <3>2. Exists(d)'
      BY <2>4, <2>5, <3>1
    <3> QED  BY <2>3, <3>1, <3>2 DEF CallReal
  <2>7. busy' \in BOOLEAN
    BY <2>3 DEF QueueInv, QueueTypeOK
  <2> QED  BY <2>3, <2>6, <2>7, CallGoes
<1> QED  BY <1>1, <1>2

\* The worker goes on with a call, or loses it.
LEMMA ServeInv ==
    ASSUME QueueInv, NEW w \in Workers, Serve(w) \/ Lose(w)
    PROVE  QueueInv'
<1>1. [Next]_vars
  BY DEF Serve, Lose, Next
<1> QED  BY <1>1, ServesInv, FailsInv, UnnoticedInv DEF Serve, Lose

\* The registry answers with a row, which reaches the page or not.
LEMMA AnswerInv ==
    ASSUME QueueInv, NEW w \in Workers, Answer(w) \/ AnswerLost(w)
    PROVE  QueueInv'
<1>1. UNCHANGED vars /\ [Next]_vars
  BY DEF Answer, AnswerLost
<1>2. CASE AnswerLost(w)
  BY <1>1, <1>2, FailsInv DEF AnswerLost
<1>3. CASE Answer(w)
  <2>1. calls[w] \in Call /\ calls[w].phase = "done"
    BY <1>3 DEF Answer, QueueInv, QueueTypeOK, NoCall
  <2>2. PICK d \in DisputeIds : d = calls[w].dispute
    BY <2>1 DEF Call
  <2>3. Exists(d) /\ Real(d, disputes[d]) /\ disputes[d] \in Dispute
    BY <2>1, <2>2, RowsReal DEF QueueInv, CallReal, Exists, IInv, TypeOK
  <2>4. PICK row \in Dispute : row = disputes[d]
    BY <2>3
  <2> DEFINE c == [phase |-> "answered", dispute |-> d, row |-> row]
  <2>5. c \in Call /\ c.dispute = d /\ c.row = row
    BY DEF Call
  <2>6. calls' = [calls EXCEPT ![w] = c] /\ UNCHANGED <<shown, busy, listing>>
    BY <1>3, <2>2, <2>4 DEF Answer
  <2> HIDE DEF c
  <2>7. CallReal(c)'
    BY <1>1, <2>3, <2>4, <2>5 DEF CallReal, Real, Exists, vars
  <2>8. busy' \in BOOLEAN
    BY <2>6 DEF QueueInv, QueueTypeOK
  <2> QED  BY <1>1, <2>5, <2>6, <2>7, <2>8, CallGoes
<1> QED  BY <1>2, <1>3

\* An answer is shown, whatever came in between.
LEMMA ChangedInv ==
    ASSUME QueueInv, NEW w \in Workers, Changed(w)
    PROVE  QueueInv'
<1>1. UNCHANGED vars /\ UNCHANGED listing /\ busy' = FALSE
  BY DEF Changed
<1>2. [Next]_vars
  BY <1>1
<1>3. calls[w] \in [phase : {"answered"}, dispute : DisputeIds, row : Dispute]
  BY DEF Changed, QueueInv, QueueTypeOK, Call, NoCall
<1>4. Real(calls[w].dispute, calls[w].row)
  BY DEF Changed, QueueInv, CallReal
<1>5. shown' = [d \in DisputeIds |->
                   IF d = calls[w].dispute /\ shown[d] # NoDispute
                   THEN calls[w].row ELSE shown[d]]
  BY DEF Changed
<1>6. QueueTypeOK'
  <2>1. shown' \in Rows
    BY <1>3, <1>5 DEF QueueInv, QueueTypeOK, Rows
  <2>2. calls' \in [Workers -> Call \cup {NoCall}]
    BY DEF Changed, QueueInv, QueueTypeOK
  <2> QED  BY <1>1, <1>2, <2>1, <2>2, QueueFrame DEF QueueInv, QueueTypeOK
<1>7. ASSUME NEW d \in DisputeIds PROVE Real(d, shown[d])'
  <2>1. Real(d, shown'[d])
    BY <1>4, <1>5 DEF QueueInv
  <2> QED  BY <1>1, <2>1 DEF Real, Exists, vars
<1>8. ASSUME NEW v \in Workers PROVE CallReal(calls[v])'
  <2>1. calls' = [calls EXCEPT ![w] = NoCall] /\ calls \in [Workers -> Call \cup {NoCall}]
    BY DEF Changed, QueueInv, QueueTypeOK
  <2>2. calls'[v] = NoCall \/ calls'[v] = calls[v]
    BY <2>1
  <2> QED  BY <1>2, <2>2, QueueFrame
<1> QED  BY <1>1, <1>2, <1>6, <1>7, <1>8, QueueFrame DEF QueueInv

\* Every step of the server, of a worker or of the network keeps the queue's invariant.
LEMMA QueueNextInv == QueueInv /\ [QueueNext]_<<vars, queueVars>> => QueueInv'
<1> SUFFICES ASSUME QueueInv, [QueueNext]_<<vars, queueVars>> PROVE QueueInv'
  OBVIOUS
<1>1. CASE Load \/ ShowList \/ LoadFails
  BY <1>1, ListInv
<1>2. ASSUME NEW w \in Workers, NEW d \in DisputeIds,
             \/ \E signer \in Signers : AddSigner(w, d, signer)
             \/ \E resolution \in Resolutions : Resolve(w, d, resolution)
      PROVE  QueueInv'
  BY <1>2, BuilderInv
<1>3. ASSUME NEW w \in Workers,
             Serve(w) \/ Lose(w) \/ Answer(w) \/ AnswerLost(w) \/ Changed(w)
      PROVE  QueueInv'
  BY <1>3, ServeInv, AnswerInv, ChangedInv
<1>4. CASE Others /\ UNCHANGED queueVars
  <2>1. [Next]_vars
    BY <1>4 DEF Others, Next
  <2> QED  BY <1>4, <2>1, UnnoticedInv
<1>5. CASE UNCHANGED <<vars, queueVars>>
  <2>1. [Next]_vars /\ UNCHANGED queueVars
    BY <1>5
  <2> QED  BY <2>1, UnnoticedInv
<1> QED  BY <1>1, <1>2, <1>3, <1>4, <1>5 DEF QueueNext

\* What the page, the lists and the answers on their way to it hold is real.
THEOREM QueueInvariant == QueueSpec => []QueueInv
BY InitQueueInv, QueueNextInv, PTL DEF QueueSpec

\* Nobody is shown a signature that was never given or a resolution that was
\* never made, in whatever order lists and answers arrive (load, onChanged).
THEOREM QueueShowsReal == QueueSpec => []ShownIsReal
<1>1. QueueInv => ShownIsReal
  BY DEF QueueInv, Real, ShownIsReal
<1> QED  BY <1>1, QueueInvariant, PTL

-----------------------------------------------------------------------------
(* What the tables give back (StoredDisputes).                             *)

\* The row of a dispute, column by column.
LEMMA DisputeColumns ==
    ASSUME NEW d, NEW dispute \in Dispute
    PROVE  StoredDispute(d, dispute) =
               [dispute_id |-> Text(d), trade_id |-> Text("trade"),
                flagged_by |-> Text("party"), reason |-> Text("reason"),
                status |-> Text(dispute.status),
                resolution |-> IF dispute.resolution = Unresolved THEN Null
                               ELSE Text(dispute.resolution),
                required_signatures |-> Number(dispute.required),
                signers_json |-> Json(Array(Texts(dispute.signers))),
                created_at |-> Text("date"), updated_at |-> Text("date")]
<1> DEFINE new == [dispute EXCEPT !.status = "OPEN", !.resolution = Unresolved,
                               !.signers = {}]
           row == DisputeToRow(Created(d, dispute))
<1>1. /\ new.status = "OPEN" /\ new.resolution = Unresolved /\ new.signers = {}
      /\ new.required = dispute.required
  BY DEF Dispute
<1>2. Created(d, dispute) = DisputeRecord(d, new, {})
  BY DEF Created
<1> HIDE DEF new
<1>3. row = [dispute_id |-> Text(d), trade_id |-> Text("trade"),
             flagged_by |-> Text("party"), reason |-> Text("reason"),
             status |-> Text("OPEN"), resolution |-> Null,
             required_signatures |-> Number(dispute.required),
             signers_json |-> Json(Array(Texts({}))),
             created_at |-> Text("date"), updated_at |-> Text("date")]
  BY <1>1, <1>2 DEF DisputeToRow, DisputeRecord
<1>4. StoredDispute(d, dispute) =
          [row EXCEPT !.status = Text(dispute.status),
                      !.resolution = IF dispute.resolution = Unresolved THEN Null
                                     ELSE Text(dispute.resolution),
                      !.signers_json = Json(Array(Texts(dispute.signers)))]
  BY DEF StoredDispute
<1> HIDE DEF row
<1> QED  BY <1>3, <1>4

\* A dispute's row is one the table takes, the guards let through and the
\* mapping gives back as it was, whatever its signers and its resolution.
LEMMA DisputeTrip ==
    ASSUME NEW d, NEW dispute \in Dispute
    PROVE  LET row == StoredDispute(d, dispute)
           IN  /\ Storable(row) /\ DisputeReadable(row)
               /\ RowToDispute(row, {}) = DisputeRecord(d, dispute, {})
<1> DEFINE row == StoredDispute(d, dispute)
<1>1. /\ row.dispute_id = Text(d) /\ row.trade_id = Text("trade")
      /\ row.flagged_by = Text("party") /\ row.reason = Text("reason")
      /\ row.status = Text(dispute.status)
      /\ row.resolution = IF dispute.resolution = Unresolved THEN Null
                          ELSE Text(dispute.resolution)
      /\ row.required_signatures = Number(dispute.required)
      /\ row.signers_json = Json(Array(Texts(dispute.signers)))
      /\ row.created_at = Text("date") /\ row.updated_at = Text("date")
      /\ DOMAIN row = {"dispute_id", "trade_id", "flagged_by", "reason", "status",
                       "resolution", "required_signatures", "signers_json",
                       "created_at", "updated_at"}
  BY DisputeColumns
<1> HIDE DEF row
<1>2. /\ dispute.status \in {"OPEN", "RESOLVED"}
      /\ dispute.resolution \in {"approved", "rejected", Unresolved}
  BY DEF Dispute, Resolutions
<1>3. Storable(row)
  BY <1>1, <1>2
  DEF Storable, NullableColumns, IntegerColumns, Has, IsString, Text, Number, Json, Null
<1>4. DisputeReadable(row)
  <2>1. IsDisputeStatus(row.status)
    BY <1>1, <1>2 DEF IsDisputeStatus, Texts
  <2>2. IsDisputeResolution(row.resolution)
    BY <1>1, <1>2 DEF IsDisputeResolution, Texts, Unresolved
  <2>3. IsStringArray(row.signers_json)
    BY <1>1 DEF IsStringArray, Has, IsString, Texts, Text, Json, Array
  <2> QED  BY <2>1, <2>2, <2>3 DEF DisputeReadable
<1>5. RowToDispute(row, {}) = DisputeRecord(d, dispute, {})
  BY <1>1 DEF RowToDispute, DisputeRecord, ParseJson, Json
<1> QED  BY <1>3, <1>4, <1>5 DEF row

\* So is a piece of evidence, with and without its note and file name.
LEMMA EvidenceTrip ==
    ASSUME NEW d, NEW digest, NEW payload \in Payloads,
           NEW record,
           record = [evidenceId |-> Text("uuid"), submittedBy |-> Text("party"),
                     kind |-> Text("digest"), label |-> Text("label"),
                     digest |-> Text(digest), payload |-> payload,
                     createdAt |-> Text("date")]
    PROVE  LET row == EvidenceToRow(Text(d), record)
           IN  /\ Storable(row) /\ EvidenceReadable(row)
               /\ RowToEvidence(row) = record
<1> DEFINE row == EvidenceToRow(Text(d), record)
<1>1. row = [evidence_id |-> Text("uuid"), dispute_id |-> Text(d),
             submitted_by |-> Text("party"), kind |-> Text("digest"),
             label |-> Text("label"), digest |-> Text(digest),
             payload_json |-> Json(payload), created_at |-> Text("date")]
  BY DEF EvidenceToRow
<1> HIDE DEF row
<1>2. Storable(row)
  BY <1>1 DEF Storable, NullableColumns, IntegerColumns, Has, IsString, Text, Json
<1>3. IsEvidencePayload(payload)
  <2>1. PICK given \in SUBSET {"note", "fileName"} :
            payload = Object([field \in {"submittedAt"} \cup given |-> Text(field)])
    BY DEF Payloads
  <2>2. /\ Has(payload, "object")
        /\ payload[2] = [field \in {"submittedAt"} \cup given |-> Text(field)]
    BY <2>1 DEF Has, Object
  <2>3. \A field \in {"submittedAt"} \cup given : IsString(payload[2][field])
    BY <2>2 DEF IsString, Text
  <2>4. DOMAIN payload[2] = {"submittedAt"} \cup given
    BY <2>2
  <2> QED  BY <2>2, <2>3, <2>4 DEF IsEvidencePayload
<1>4. ParseJson(row.payload_json) = payload
  BY <1>1 DEF ParseJson, Json
<1>5. EvidenceReadable(row)
  BY <1>3, <1>4 DEF EvidenceReadable
<1>6. RowToEvidence(row) = record
  BY <1>1, <1>4 DEF RowToEvidence
<1> QED  BY <1>2, <1>5, <1>6 DEF row

\* What a step writes is the row of a dispute, never of none.
LEMMA StepReadsBack ==
    ASSUME IInv, [Next]_vars
    PROVE  [\A d \in DisputeIds :
              /\ disputes'[d] # disputes[d] =>
                    LET row == StoredDispute(d, disputes'[d])
                    IN  /\ Storable(row) /\ DisputeReadable(row)
                        /\ RowToDispute(row, {}) = DisputeRecord(d, disputes'[d], {})
              /\ evidence'[d] # evidence[d] => \A record \in EvidenceRecords(d) :
                    LET row == EvidenceToRow(Text(d), record)
                    IN  /\ Storable(row) /\ EvidenceReadable(row)
                        /\ RowToEvidence(row) = record]_vars
<1>1. ASSUME NEW d \in DisputeIds, disputes'[d] # disputes[d]
      PROVE  disputes'[d] \in Dispute
  <2>1. disputes'[d] \in Dispute \cup {NoDispute}
    BY NextInv DEF IInv, TypeOK
  <2>2. disputes'[d] # NoDispute
    BY <1>1, ExistsStays DEF Exists
  <2> QED  BY <2>1, <2>2
<1>2. ASSUME NEW d \in DisputeIds, NEW record \in EvidenceRecords(d)
      PROVE  LET row == EvidenceToRow(Text(d), record)
             IN  /\ Storable(row) /\ EvidenceReadable(row)
                 /\ RowToEvidence(row) = record
  <2>1. PICK digest \in evidence'[d], payload \in Payloads :
            record = [evidenceId |-> Text("uuid"), submittedBy |-> Text("party"),
                      kind |-> Text("digest"), label |-> Text("label"),
                      digest |-> Text(digest), payload |-> payload,
                      createdAt |-> Text("date")]
    BY <1>2 DEF EvidenceRecords
  <2> QED  BY <2>1, EvidenceTrip
<1> QED  BY <1>1, <1>2, DisputeTrip

\* Every dispute and every piece of evidence is read back as it was written,
\* whatever the signers, the thresholds and the order of the requests.
THEOREM DisputesComeBack == QueueSpec => DisputesReadBack
BY StepReadsBack, Invariant, QueueImplements, PTL DEF Spec, DisputesReadBack

=============================================================================
