----------------------------- MODULE Settlement -----------------------------
(***************************************************************************)
(* From anchored evidence to the exporter's money: the server signs an     *)
(* authorization and calls the milestone RELEASED at once                  *)
(* (orchestrator.ts), serves the newest authorization of the trade         *)
(* (server.ts), the exporter claims it from the browser                    *)
(* (components/console/exporter-panel.tsx) or an operator submits it with  *)
(* a script (scripts/submit-release.ts), and the escrow pays while it is   *)
(* neither expired nor used.                                               *)
(*                                                                         *)
(* One funded trade and one page of its exporter.  The awaits inside a     *)
(* release are those between reading the row and signing; the rest of them,*)
(* and those of an anchor, are the subject of ReleaseRegistry; how the page*)
(* obtains the token it fetches with, that of TradeSession.                *)
(***************************************************************************)
EXTENDS TradeDomain, Sequences

CONSTANTS
    Window,             \* authExpiryWindowSeconds
    MaxTime,            \* bound on the clock
    MaxAuthorizations,  \* bound on signatures
    MaxFaults           \* bound on lost requests, refused prompts, reloads, freezes

ASSUME SettlementAssumption ==
    {Window, MaxTime, MaxAuthorizations, MaxFaults} \subseteq Nat

VARIABLES
    row,                \* the trade's row in the registry
    requests,           \* releases between reading the row and signing
    decided,            \* evidence whose per-evidence key is taken
    authorizations,     \* in the order of signing, the nonce is the place
    passing,            \* do both parties pass the checks?
    paid,               \* milestoneReleased, in the escrow
    now,
    page,               \* what the page shows: pending milestones, authorization
    panel,              \* state of the exporter panel
    desk,               \* state of the document evidence section
    shownFor,           \* not in the code: milestone displayed when it was anchored
    faults

server == <<row, requests, decided, authorizations>>
web    == <<page, panel, desk, shownFor>>
allVars == <<server, passing, paid, now, web, faults>>

Releasers == {"operator", "auto"}
None      == 0
Numbers   == 0 .. MaxAuthorizations

NoRequest == [m |-> None]

NoTx      == [status |-> "none"]

\* `prompt` is the authorization the wallet is asked to submit.
Panel == [prompt : Numbers,
          tx : {NoTx} \cup [status : {"pending", "success", "reverted"},
                            auth : 1 .. MaxAuthorizations]]

\* `age` counts the reloads since a post was sent.
Post == [m : Milestones, digest : Digests, shown : Milestones \cup {None}, age : Nat]

Desk == [digest : Digests \cup {NoDigest}, choice : Milestones, posts : SUBSET Post]

SettlementTypeOK ==
    /\ row \in Trade
    /\ requests \in [Releasers -> {NoRequest} \cup [m : Milestones, row : Trade]]
    /\ decided \subseteq Milestones \X (Digests \cup {Compliance})
    /\ authorizations \in Seq([milestone : Milestones, expiry : 0 .. MaxTime + Window])
    /\ Len(authorizations) <= MaxAuthorizations
    /\ passing \in BOOLEAN
    /\ paid \subseteq Milestones
    /\ 2 \in paid => 1 \in paid
    /\ now \in 0 .. MaxTime
    /\ page \in [pending : SUBSET Milestones, auth : Numbers]
    /\ panel \in Panel
    /\ desk \in Desk
    /\ shownFor \in [Milestones -> Milestones \cup {None}]
    /\ faults \in 0 .. MaxFaults

NewPanel == [prompt |-> None, tx |-> NoTx]
NewDesk  == [digest |-> NoDigest, choice |-> 1, posts |-> {}]

SettlementInit ==
    /\ row = MarkFunded(CreateTrade(TRUE))
    /\ requests = [r \in Releasers |-> NoRequest] /\ decided = {}
    /\ authorizations = << >>
    /\ passing = TRUE
    /\ paid = {}
    /\ now = 0
    /\ page = [pending |-> Milestones, auth |-> None]
    /\ panel = NewPanel /\ desk = NewDesk
    /\ shownFor = [m \in Milestones |-> None]
    /\ faults = 0

Fault == faults < MaxFaults /\ faults' = faults + 1

-----------------------------------------------------------------------------
(* The server.                                                             *)

Pending(trade) == {m \in Milestones : trade.milestones[m].status = "PENDING"}
First(ms)      == CHOOSE m \in ms : \A n \in ms : m <= n

Read(r, m) == requests' = [requests EXCEPT ![r] = [m |-> m, row |-> row]]

\* POST release, under a key of its own.
OperatorReads ==
    /\ requests["operator"] = NoRequest
    /\ \E m \in Milestones : Read("operator", m)
    /\ UNCHANGED <<row, decided, authorizations, passing, paid, now, web, faults>>

\* maybeRelease, once for each evidence.
AutoReads ==
    /\ requests["auto"] = NoRequest
    /\ row.status \in {"FUNDED", "ACTIVE"}
    /\ Pending(row) # {}
    /\ LET next   == First(Pending(row))
           digest == row.milestones[next].evidence
       IN  /\ digest # NoDigest /\ <<next, digest>> \notin decided
           /\ decided' = decided \cup {<<next, digest>>}
           /\ Read("auto", next)
    /\ UNCHANGED <<row, authorizations, passing, paid, now, web, faults>>

\* The four checks are over; one that stays unavailable counts as failed.
Sign(r) ==
    LET request == requests[r]
    IN  /\ request # NoRequest
        /\ \E clear \in {passing, FALSE} :
             IF /\ DecideRelease(request.row, request.m, clear)
                /\ AuthorizationBinds(request.row)
             THEN /\ Len(authorizations) < MaxAuthorizations
                  /\ authorizations' = Append(authorizations,
                         [milestone |-> request.m, expiry |-> now + Window])
                  /\ row' = MarkMilestoneReleased(request.row, request.m)
             ELSE UNCHANGED <<authorizations, row>>
        /\ requests' = [requests EXCEPT ![r] = NoRequest]
        /\ UNCHANGED <<decided, passing, paid, now, web, faults>>

\* GET authorization: the newest, unless it has expired.
Served ==
    LET latest == Len(authorizations)
    IN  IF latest = 0 THEN None
        ELSE IF now > authorizations[latest].expiry THEN None ELSE latest

-----------------------------------------------------------------------------
(* The chain.                                                              *)

\* releaseMilestone on a funded trade; a used nonce is that of a paid milestone.
Pays(auth) ==
    /\ auth.expiry >= now
    /\ auth.milestone \notin paid
    /\ auth.milestone = 2 => 1 \in paid
    /\ passing

Execute(auth) == paid' = IF Pays(auth) THEN paid \cup {auth.milestone} ELSE paid

\* A transaction of anyone but this panel is mined, with a payload the server
\* ever returned: one of submit-release, or one that a page sent before it was
\* reloaded.  One that reverts changes nothing.
SubmitRelease ==
    /\ \E number \in DOMAIN authorizations :
           Pays(authorizations[number]) /\ Execute(authorizations[number])
    /\ UNCHANGED <<server, passing, now, web, faults>>

MineClaim ==
    /\ panel.tx.status = "pending"
    /\ LET auth == authorizations[panel.tx.auth]
       IN  /\ Execute(auth)
           /\ panel' = [panel EXCEPT !.tx.status = IF Pays(auth) THEN "success"
                                                   ELSE "reverted"]
    /\ UNCHANGED <<server, passing, now, page, desk, shownFor, faults>>

\* freeze-exporter and its undoing, a suspended party.
StandingsChange ==
    /\ Fault
    /\ passing' = ~passing
    /\ UNCHANGED <<server, paid, now, web>>

TimePasses ==
    /\ now < MaxTime
    /\ now' = now + 1
    /\ UNCHANGED <<server, passing, paid, web, faults>>

-----------------------------------------------------------------------------
(* The page: refresh, and a reload, which keeps nothing.                   *)

Refresh ==
    /\ page' = [pending |-> Pending(row), auth |-> Served]
    /\ UNCHANGED <<server, passing, paid, now, panel, desk, shownFor, faults>>

\* The first refresh of the new page shows the row of now; a post and a
\* transaction that were sent may still arrive.
Reload ==
    /\ Fault
    /\ page' = [pending |-> Pending(row), auth |-> None]
    /\ panel' = NewPanel
    /\ desk' = [NewDesk EXCEPT !.posts = {[post EXCEPT !.age = @ + 1] : post \in desk.posts}]
    /\ UNCHANGED <<server, passing, paid, now, shownFor>>

-----------------------------------------------------------------------------
(* The exporter panel.                                                     *)

Submitting == panel.tx.status = "pending"

\* Mutant: any receipt of a claim will do.
AnyReceipt == panel.tx.status \in {"success", "reverted"}

\* A reverted transaction is an error of useWaitForTransactionReceipt.
Submitted == panel.tx.status = "success"

\* Mutant: the button stays disabled once a transaction was sent.
ClaimableOnce ==
    /\ page.auth # None
    /\ authorizations[page.auth].expiry > now
    /\ panel = NewPanel

\* The button is enabled.
Claimable ==
    /\ page.auth # None
    /\ authorizations[page.auth].expiry > now
    /\ ~Submitting /\ ~Submitted
    /\ panel.prompt = None

Claim ==
    /\ Claimable
    /\ panel' = [panel EXCEPT !.prompt = page.auth]
    /\ UNCHANGED <<server, passing, paid, now, page, desk, shownFor, faults>>

\* The wallet sends what was displayed when the button was clicked, without
\* estimating it.
Confirm ==
    /\ panel.prompt # None
    /\ panel' = [prompt |-> None, tx |-> [status |-> "pending", auth |-> panel.prompt]]
    /\ UNCHANGED <<server, passing, paid, now, page, desk, shownFor, faults>>

Refuse ==
    /\ panel.prompt # None /\ Fault
    /\ panel' = [panel EXCEPT !.prompt = None]
    /\ UNCHANGED <<server, passing, paid, now, page, desk, shownFor>>

-----------------------------------------------------------------------------
(* The document evidence section.                                          *)

Elsewhere == UNCHANGED <<server, passing, paid, now, page, panel>>

\* handleFile, when it is done: of two documents dropped, the slower one stays.
Hashed(digest) ==
    /\ desk' = [desk EXCEPT !.digest = digest]
    /\ UNCHANGED <<shownFor, faults>> /\ Elsewhere

Clear ==
    /\ desk.digest # NoDigest
    /\ desk' = [desk EXCEPT !.digest = NoDigest]
    /\ UNCHANGED <<shownFor, faults>> /\ Elsewhere

\* The list has the milestones the page shows as pending; a value it does not
\* have displays as its first.
Displayed ==
    IF desk.choice \in page.pending THEN desk.choice
    ELSE IF page.pending = {} THEN None ELSE First(page.pending)

Choose(m) ==
    /\ m \in page.pending \ {Displayed}
    /\ desk' = [desk EXCEPT !.choice = m]
    /\ UNCHANGED <<shownFor, faults>> /\ Elsewhere

\* The button is disabled while a post of this page is under way.
Anchoring == \E post \in desk.posts : post.age = 0

\* anchorEvidence posts the value, not what is displayed.
Anchor ==
    /\ desk.digest # NoDigest /\ ~Anchoring
    /\ desk' = [desk EXCEPT !.posts = @ \cup
           {[m |-> desk.choice, digest |-> desk.digest, shown |-> Displayed, age |-> 0]}]
    /\ UNCHANGED <<shownFor, faults>> /\ Elsewhere

Posted(post) == desk' = [desk EXCEPT !.posts = @ \ {post}]

\* POST evidence answers 201 whether or not the row took the digest.
AnchorArrives ==
    /\ \E post \in desk.posts :
          /\ row' = AnchorMilestoneEvidence(row, post.m, post.digest)
          /\ shownFor' = IF row' # row THEN [shownFor EXCEPT ![post.m] = post.shown]
                         ELSE shownFor
          /\ Posted(post)
    /\ UNCHANGED <<requests, decided, authorizations, passing, paid, now, page,
                   panel, faults>>

AnchorLost ==
    /\ Fault
    /\ \E post \in desk.posts : Posted(post)
    /\ UNCHANGED shownFor /\ Elsewhere

-----------------------------------------------------------------------------
SettlementNext ==
    \/ OperatorReads \/ AutoReads \/ \E r \in Releasers : Sign(r)
    \/ SubmitRelease \/ MineClaim
    \/ StandingsChange \/ TimePasses
    \/ Refresh \/ Reload
    \/ Claim \/ Confirm \/ Refuse
    \/ \E digest \in Digests : Hashed(digest)
    \/ Clear \/ Anchor \/ AnchorArrives \/ AnchorLost
    \/ \E m \in Milestones : Choose(m)

\* The page polls, transactions are mined, and the exporter clicks what is
\* offered and confirms it.
Fairness ==
    /\ WF_allVars(Refresh)
    /\ WF_allVars(Claim) /\ WF_allVars(Confirm)
    /\ WF_allVars(MineClaim)

SettlementSpec == SettlementInit /\ [][SettlementNext]_allVars /\ Fairness

-----------------------------------------------------------------------------
Signed(m) == \E i \in DOMAIN authorizations : authorizations[i].milestone = m

\* A digest is the evidence of a milestone only if that milestone was the one
\* displayed when the party anchored it, though the select's value and its
\* display part after a release (trade-detail.tsx, anchorMilestoneEvidence).
\* Where a stale write has made a released milestone pending again, it may have
\* been anchored from an empty select, but never from one that displayed the
\* other milestone.
EvidenceWhereShown ==
    \A m \in Milestones :
        row.milestones[m].evidence \in Digests =>
            shownFor[m] = m \/ (shownFor[m] = None /\ Signed(m))

\* The panel never takes back a success: it shows 'Released on-chain' under
\* whatever authorization is displayed by then.  Its own claim was paid, and so
\* was the milestone displayed, whoever submitted it, with one exception: the
\* success of a claim of the first milestone is also shown, and announced, under
\* an authorization for the second, paid or not (exporter-panel.tsx).
SuccessShownIsPaid ==
    Submitted =>
        LET claimed == authorizations[panel.tx.auth].milestone
        IN  /\ claimed \in paid
            /\ page.auth # None =>
                  LET displayed == authorizations[page.auth].milestone
                  IN  displayed \in paid \/ (claimed = 1 /\ displayed = 2)

\* An authorization that the server keeps serving and the escrow would pay is
\* paid in the end from the panel, through reverted claims, refused prompts and
\* reloads, unless the panel already claimed another one (exporter-panel.tsx).
ServedIsClaimed ==
    []<>(\/ Served = None
         \/ authorizations[Served].expiry <= now
         \/ ~Pays(authorizations[Served])
         \/ Submitted)

\* Stated by the code and not so: an authorization that was not submitted in
\* time can be asked for again (exporter-panel.tsx, decideRelease).
NeverStranded ==
    \A m \in Milestones \ paid :
        row.milestones[m].status = "RELEASED" =>
            \/ \E i \in DOMAIN authorizations :
                   authorizations[i].milestone = m /\ authorizations[i].expiry >= now
            \/ DecideRelease(row, m, TRUE)

=============================================================================
