-------------------------- MODULE CleanverseClient --------------------------
(***************************************************************************)
(* The Cleanverse transport (packages/cleanverse/src/transport.ts) under   *)
(* its callers: the release checks with their retries (orchestrator.ts),   *)
(* the freeze handler and the compliance read of the API (server.ts), the  *)
(* smoke report, and the provisioning scripts with the .env file they keep.*)
(*                                                                         *)
(* Every call is sent, executed by the service at a moment of its choosing *)
(* and answered, or not.  An aborted fetch tells nothing of the request: a *)
(* write whose reply was lost has happened, and one that had not arrived   *)
(* when the client gave up may still happen later.  So may what is only a  *)
(* transaction when it is answered.                                        *)
(***************************************************************************)
EXTENDS Naturals

CONSTANTS
    RetryAttempts,      \* BRIDGESURE_CLEANVERSE_RETRY_ATTEMPTS
    MaxPools,           \* bound on escrows deployed
    MaxWrites           \* bound on scripts run and freezes clicked

ASSUME CleanverseAssumption ==
    /\ {RetryAttempts, MaxPools} \subseteq Nat \ {0}
    /\ MaxWrites \in Nat

VARIABLES
    record,             \* the service's A-Pass record of each party
    registered, paused, \* the pools it knows, and those it has paused
    deployed,           \* escrow creations mined, each with its address; they
                        \* may have reverted, which nobody here finds out
    wire,               \* the call each caller waits for
    late,               \* writes given up before they arrived, and transactions
                        \* answered before they were mined
    dotenv,             \* the addresses in the .env file
    conf,               \* ... as the API read them when it started
    attempt,            \* the release attempt
    script,             \* the provisioning script that runs
    report,             \* the report being made
    firm,               \* not in the code: the freezes asked for and not undone
                        \* by the service, and was the operator told of one?
    writes              \* scripts run and freezes clicked so far

service == <<record, registered, paused, deployed>>
vars    == <<service, wire, late, dotenv, conf, attempt, script, report, firm, writes>>

Parties == {"importer", "exporter"}
Callers == {"release", "desk", "script"}
NoPool  == 0            \* a blank address: the validator contract stands in
Pools   == 1 .. MaxPools

\* What a call comes back with: data that passes its schema, a business code
\* other than 0000, or no usable answer.
Verdicts  == {"pass", "fail", "done"}
Refusals  == {"1000", "refused"}
NoAnswer  == "failed"
Waiting   == "waiting"

\* The calls that change what the service or the chain holds.
Writes == {"deploy", "register", "grant", "pause", "unpause", "freeze",
           "unfreeze", "generate", "override"}

\* The writes that are answered once their transaction is submitted.
Transactions == {"register", "grant", "pause", "unpause"}

\* The four checks of an attempt, in order.
Checks == << [what |-> "apass", party |-> "importer"],
             [what |-> "apass", party |-> "exporter"],
             [what |-> "validator", party |-> "importer"],
             [what |-> "validator", party |-> "exporter"] >>

Request == [what : Writes \cup {"apass", "validator"}, party : Parties,
            pool : Pools \cup {NoPool}]
NoCall  == [what |-> "none"]
Call    == [what : Writes \cup {"apass", "validator"}, party : Parties,
            pool : Pools \cup {NoPool}, reply : Verdicts \cup Refusals \cup {Waiting}]

Ask(what, party, pool) == [what |-> what, party |-> party, pool |-> pool]
Sent(request) == [what |-> request.what, party |-> request.party,
                  pool |-> request.pool, reply |-> Waiting]
RequestOf(call) == Ask(call.what, call.party, call.pool)

\* Not in the code: has the service passed the present check, and how many
\* of those counted as passed did it pass; did the attempt begin after the
\* operator was told of a freeze that the service has not undone since?
Attempt == [pc : {"idle", "asking", "backoff", "allowed", "denied"},
            check : 1 .. 4, tries : 1 .. RetryAttempts, pool : Pools \cup {NoPool},
            results : [1 .. 4 -> Verdicts \cup Refusals \cup {NoAnswer}],
            passed : BOOLEAN, proven : 0 .. 4, afterFreeze : BOOLEAN]

Slots == {"tokens", "importer", "exporter", "registered", "paused", "validator"}

\* A report shows one of these for each slot; `afterFreeze` as in an attempt.
Shown == {"unread", "null", "yes", "no"}
Report == [wants : SUBSET Slots, pool : Pools \cup {NoPool},
           shows : [Slots -> Shown], afterFreeze : BOOLEAN]
NoAttempt == [pc |-> "idle", check |-> 1, tries |-> 1, pool |-> NoPool,
              results |-> [k \in 1 .. 4 |-> NoAnswer], passed |-> FALSE,
              proven |-> 0, afterFreeze |-> FALSE]

NoReport == [wants |-> {}, pool |-> NoPool,
             shows |-> [s \in Slots |-> "unread"], afterFreeze |-> FALSE]

TypeOK ==
    /\ record \in [Parties -> {"none", "active", "frozen"}]
    /\ registered \subseteq Pools /\ paused \subseteq registered
    /\ deployed \in 0 .. MaxPools
    /\ wire \in [Callers -> Call \cup {NoCall}]
    /\ late \subseteq Request
    /\ dotenv \in [escrow : Pools \cup {NoPool}, pool : Pools \cup {NoPool}]
    /\ conf \in [escrow : Pools \cup {NoPool}, pool : Pools \cup {NoPool}]
    /\ attempt \in Attempt
    /\ script \in Writes \cup {"idle"}
    /\ report \in Report
    /\ firm \in [asked : SUBSET {"desk", "script"}, told : BOOLEAN]
    /\ writes \in 0 .. MaxWrites

\* An untouched sandbox, or one where everything is provisioned.
Init ==
    /\ \/ /\ record = [p \in Parties |-> "none"]
          /\ registered = {} /\ deployed = 0
       \/ /\ record = [p \in Parties |-> "active"]
          /\ registered = {1} /\ deployed = 1
    /\ dotenv = [escrow |-> deployed, pool |-> deployed]
    /\ conf = dotenv
    /\ paused = {}
    /\ wire = [c \in Callers |-> NoCall] /\ late = {}
    /\ attempt = NoAttempt /\ script = "idle" /\ report = NoReport
    /\ firm = [asked |-> {}, told |-> FALSE]
    /\ writes = 0

-----------------------------------------------------------------------------
(* The service and the chain.                                              *)

\* What the service answers a check, when it can read the chain.
Verdict(what, party, pool) ==
    IF what = "validator" /\ pool \notin registered \ paused THEN "refused"
    ELSE IF record[party] = "active" THEN "pass" ELSE "fail"

\* An A-Pass that exists is only replaced on request; replacing it may or may
\* not lift a freeze.
Execute(r) ==
    /\ \/ /\ r.what = "deploy" /\ deployed < MaxPools
          /\ deployed' = deployed + 1
          /\ UNCHANGED <<record, registered, paused>>
       \/ /\ r.what = "register"
          /\ registered' = registered \cup {r.pool}
          /\ UNCHANGED <<record, paused, deployed>>
       \/ /\ r.what \in {"pause", "unpause"} /\ r.pool \in registered
          /\ paused' = IF r.what = "pause" THEN paused \cup {r.pool} ELSE paused \ {r.pool}
          /\ UNCHANGED <<record, registered, deployed>>
       \/ /\ r.what \in {"freeze", "unfreeze"} /\ record[r.party] # "none"
          /\ record' = [record EXCEPT ![r.party] = IF r.what = "freeze" THEN "frozen"
                                                                        ELSE "active"]
          /\ UNCHANGED <<registered, paused, deployed>>
       \/ /\ \/ r.what = "generate" /\ record[r.party] = "none"
             \/ r.what = "override"
          /\ \E status \in {"active", record[r.party]} \ {"none"} :
                record' = [record EXCEPT ![r.party] = status]
          /\ UNCHANGED <<registered, paused, deployed>>
       \/ r.what = "grant" /\ UNCHANGED service

Reply(c, reply) == wire' = [wire EXCEPT ![c].reply = reply]

Open(c) == wire[c] # NoCall /\ wire[c].reply = Waiting

\* Any write, and any check, may be refused.
Refuse(c) ==
    /\ Open(c)
    /\ Reply(c, IF wire[c].what = "generate" /\ record[wire[c].party] # "none"
                THEN "1000" ELSE "refused")
    /\ UNCHANGED <<service, late, dotenv, conf, attempt, script, report, firm, writes>>

\* Executing one of these may make the exporter eligible again: it undoes the
\* freezes executed before it, and no others.
Lifts(r) == r.what \in {"unfreeze", "override"} /\ r.party = "exporter"

Undo(r) ==
    IF Lifts(r)
    THEN /\ firm' = [asked |-> {c \in firm.asked : wire[c].reply = Waiting},
                     told  |-> FALSE]
         /\ attempt' = [attempt EXCEPT !.afterFreeze = FALSE]
         /\ report' = [report EXCEPT !.afterFreeze = FALSE]
    ELSE UNCHANGED <<firm, attempt, report>>

ServeWrite(c) ==
    /\ Open(c) /\ wire[c].what \in Writes
    /\ Execute(RequestOf(wire[c])) /\ Undo(RequestOf(wire[c]))
    /\ Reply(c, "done")
    /\ UNCHANGED <<late, dotenv, conf, script, writes>>

\* The transaction is submitted; it is mined later, if ever.
Submit(c) ==
    /\ Open(c) /\ wire[c].what \in Transactions
    /\ Reply(c, "done")
    /\ late' = late \cup {RequestOf(wire[c])}
    /\ UNCHANGED <<service, dotenv, conf, attempt, script, report, firm, writes>>

ServeCheck ==
    /\ Open("release")
    /\ LET call == wire["release"]
           verdict == Verdict(call.what, call.party, call.pool)
       IN  /\ Reply("release", verdict)
           /\ attempt' = [attempt EXCEPT !.passed = @ \/ verdict = "pass"]
    /\ UNCHANGED <<service, late, dotenv, conf, script, report, firm, writes>>

ServeLate ==
    /\ \E r \in late : Execute(r) /\ Undo(r) /\ late' = late \ {r}
    /\ UNCHANGED <<wire, dotenv, conf, script, writes>>

-----------------------------------------------------------------------------
(* post: how a call ends for its caller.                                   *)

\* Mutant: a reply that does not parse is taken for what was hoped for.
OutcomesHopeful(c) ==
    {IF c = "release" THEN "pass" ELSE "done"}
        \cup (IF wire[c].reply = Waiting THEN {} ELSE {wire[c].reply})

\* The answer, or any of: refused connection, timeout, a status other than
\* 2xx, a body, envelope or payload that does not parse.
Outcomes(c) ==
    {NoAnswer} \cup (IF wire[c].reply = Waiting THEN {} ELSE {wire[c].reply})

\* A write given up before the service had it is lost, or arrives later.
Hear(c, outcome) ==
    /\ wire[c] # NoCall
    /\ outcome \in Outcomes(c)
    /\ \/ late' = late
       \/ /\ Open(c) /\ wire[c].what \in Writes
          /\ late' = late \cup {RequestOf(wire[c])}

-----------------------------------------------------------------------------
(* ReleaseOrchestrator: the checks of a release.                           *)

AskCheck(k, pool) ==
    wire' = [wire EXCEPT !["release"] =
                Sent(Ask(Checks[k].what, Checks[k].party,
                         IF Checks[k].what = "validator" THEN pool ELSE NoPool))]

StartRelease ==
    /\ attempt.pc = "idle" /\ report = NoReport
    /\ attempt' = [NoAttempt EXCEPT !.pc = "asking", !.pool = conf.pool,
                                    !.afterFreeze = firm.told]
    /\ AskCheck(1, conf.pool)
    /\ UNCHANGED <<service, late, dotenv, conf, script, report, firm, writes>>

\* withRetry
Retried(outcome, tries) == outcome = NoAnswer /\ tries < RetryAttempts

\* The lower of the A-Pass codes is 4, both validators are valid, and all four
\* could be read.
Clear(results) == \A k \in 1 .. 4 : results[k] = "pass"

HearCheck(outcome) ==
    /\ Hear("release", outcome)
    /\ LET k == attempt.check
           heard == [attempt EXCEPT !.results[k] = outcome, !.passed = FALSE,
                        !.proven = IF outcome = "pass" /\ attempt.passed THEN @ + 1 ELSE @]
       IN  \/ /\ Retried(outcome, attempt.tries)
              /\ attempt' = [attempt EXCEPT !.pc = "backoff", !.results[k] = outcome]
              /\ wire' = [wire EXCEPT !["release"] = NoCall]
           \/ /\ ~Retried(outcome, attempt.tries) /\ k < 4
              /\ attempt' = [heard EXCEPT !.check = k + 1, !.tries = 1]
              /\ AskCheck(k + 1, attempt.pool)
           \/ /\ ~Retried(outcome, attempt.tries) /\ k = 4
              /\ attempt' = [heard EXCEPT !.pc = IF Clear(heard.results) THEN "allowed"
                                                                        ELSE "denied"]
              /\ wire' = [wire EXCEPT !["release"] = NoCall]
    /\ UNCHANGED <<service, dotenv, conf, script, report, firm, writes>>

Retry ==
    /\ attempt.pc = "backoff"
    /\ attempt' = [attempt EXCEPT !.pc = "asking", !.tries = @ + 1]
    /\ AskCheck(attempt.check, attempt.pool)
    /\ UNCHANGED <<service, late, dotenv, conf, script, report, firm, writes>>

\* The decision is answered and nothing of the attempt stays in memory.
Respond ==
    /\ attempt.pc \in {"allowed", "denied"}
    /\ attempt' = NoAttempt
    /\ UNCHANGED <<service, wire, late, dotenv, conf, script, report, firm, writes>>

-----------------------------------------------------------------------------
(* Freezing and unfreezing.                                                *)

AskFreeze(c) == firm' = [firm EXCEPT !.asked = @ \cup {c}]
Told(c, frozen) == firm' = [asked |-> firm.asked \ {c},
                            told |-> firm.told \/ (frozen /\ c \in firm.asked)]

\* POST /trades/:id/freeze-exporter
FreezeExporter ==
    /\ wire["desk"] = NoCall /\ writes < MaxWrites
    /\ wire' = [wire EXCEPT !["desk"] = Sent(Ask("freeze", "exporter", NoPool))]
    /\ AskFreeze("desk")
    /\ writes' = writes + 1
    /\ UNCHANGED <<service, late, dotenv, conf, attempt, script, report>>

\* Mutant: a freeze that could not be confirmed is reported as done.
FrozenRegardless(outcome) == TRUE

\* The handler answers frozen: true, or 502.
Frozen(outcome) == outcome = "done"

HearFreeze(outcome) ==
    /\ Hear("desk", outcome)
    /\ wire' = [wire EXCEPT !["desk"] = NoCall]
    /\ Told("desk", Frozen(outcome))
    /\ UNCHANGED <<service, dotenv, conf, attempt, script, report, writes>>

-----------------------------------------------------------------------------
(* The provisioning scripts, each run with --confirm in live mode.         *)

\* The pool the scripts work on: POOL ?? ESCROW ?? VALIDATOR.
ScriptPool == IF dotenv.pool # NoPool THEN dotenv.pool ELSE dotenv.escrow

RunScript(what, party, pool) ==
    /\ script = "idle" /\ writes < MaxWrites
    /\ LET r == Ask(what, party, pool)
       IN  /\ wire' = [wire EXCEPT !["script"] = Sent(r)]
           /\ IF what = "freeze" THEN AskFreeze("script") ELSE UNCHANGED firm
    /\ script' = what
    /\ writes' = writes + 1
    /\ UNCHANGED <<service, late, dotenv, conf, attempt, report>>

DeployEscrow      == RunScript("deploy", "exporter", NoPool)
\* The address is the configured one, and there must be one.
RegisterPool      == dotenv.escrow # NoPool /\ RunScript("register", "exporter", dotenv.escrow)
GrantRegisterRole == RunScript("grant", "exporter", NoPool)
GenerateApass     == \E party \in Parties : RunScript("generate", party, NoPool)
FreezeScript      == RunScript("freeze", "exporter", NoPool)
UnfreezeScript    == RunScript("unfreeze", "exporter", NoPool)
SetPaused         == \E what \in {"pause", "unpause"} : RunScript(what, "exporter", ScriptPool)

\* The address a script keeps in .env once it has a receipt or a transaction:
\* neither the status of the one nor the fate of the other is looked at.
Kept(what, pool) ==
    CASE what = "deploy"   -> [dotenv EXCEPT !.escrow = deployed]
      [] what = "register" -> [dotenv EXCEPT !.pool = pool]
      [] OTHER             -> dotenv

\* generateApass asks again, with override, on code 1000 only.
Overrides(outcome) == outcome = "1000"

HearScript(outcome) ==
    /\ Hear("script", outcome)
    /\ LET call == wire["script"]
       IN  \/ /\ call.what = "generate" /\ Overrides(outcome)
              /\ wire' = [wire EXCEPT !["script"] =
                                Sent(Ask("override", call.party, NoPool))]
              /\ UNCHANGED <<script, dotenv, firm>>
           \/ /\ ~(call.what = "generate" /\ Overrides(outcome))
              /\ wire' = [wire EXCEPT !["script"] = NoCall]
              /\ script' = "idle"
              /\ dotenv' = IF outcome = "done" THEN Kept(call.what, call.pool) ELSE dotenv
              /\ Told("script", outcome = "done")
    /\ UNCHANGED <<service, conf, attempt, report, writes>>

\* The API reads .env when it starts, and never again.
Boot ==
    /\ conf # dotenv /\ attempt.pc = "idle"
    /\ wire["desk"] = NoCall
    /\ conf' = dotenv
    /\ UNCHANGED <<service, wire, late, dotenv, attempt, script, report, firm, writes>>

-----------------------------------------------------------------------------
(* Reports: the compliance read, the smoke run and provision:verify-pool.  *)
(* They share nothing with a release attempt, so the two take turns here.  *)

StartReport(wants, pool) ==
    /\ report = NoReport /\ attempt.pc = "idle"
    /\ report' = [NoReport EXCEPT !.wants = wants, !.pool = pool,
                                  !.afterFreeze = firm.told]
    /\ UNCHANGED <<service, wire, late, dotenv, conf, attempt, script, firm, writes>>

\* GET /compliance/:address, `pnpm smoke` and provision:verify-pool.
ComplianceRead == StartReport({"exporter", "validator"}, conf.pool)
RunSmoke       == StartReport(Slots \ {"validator"}, dotenv.pool)
VerifyPool     == StartReport(Slots \ {"validator", "tokens"}, ScriptPool)

YesIf(b) == IF b THEN "yes" ELSE "no"

Truth(slot, pool) ==
    CASE slot \in Parties     -> YesIf(record[slot] = "active")
      [] slot = "registered"  -> YesIf(pool \in registered)
      [] slot = "paused"      -> YesIf(pool \in paused)
      [] slot = "validator"   -> IF pool \in registered \ paused
                                 THEN YesIf(record["exporter"] = "active") ELSE "null"
      [] OTHER                -> "yes"

\* Mutant: what cannot be read is not held against the wallet.
UnreadableIsYes(slot) == "yes"

\* A read that fails shows null, "n/a" or available: false; a token list that
\* fails counts as an unreachable service.
Unreadable(slot) == IF slot = "tokens" THEN "no" ELSE "null"

ReadSlot(slot) ==
    /\ slot \in report.wants
    /\ slot = "validator" => "exporter" \notin report.wants
    /\ \E shown \in {Truth(slot, report.pool), Unreadable(slot)} :
          report' = [report EXCEPT !.wants = @ \ {slot}, !.shows[slot] = shown]
    /\ UNCHANGED <<service, wire, late, dotenv, conf, attempt, script, firm, writes>>

EndReport ==
    /\ report # NoReport /\ report.wants = {}
    /\ report' = NoReport
    /\ UNCHANGED <<service, wire, late, dotenv, conf, attempt, script, firm, writes>>

-----------------------------------------------------------------------------
Next ==
    \/ \E c \in Callers : Refuse(c) \/ ServeWrite(c) \/ Submit(c)
    \/ ServeCheck \/ ServeLate
    \/ StartRelease \/ Retry \/ Respond
    \/ FreezeExporter
    \/ \E outcome \in Verdicts \cup Refusals \cup {NoAnswer} :
        HearCheck(outcome) \/ HearFreeze(outcome) \/ HearScript(outcome)
    \/ DeployEscrow \/ RegisterPool \/ GrantRegisterRole \/ GenerateApass
    \/ FreezeScript \/ UnfreezeScript \/ SetPaused
    \/ Boot
    \/ ComplianceRead \/ RunSmoke \/ VerifyPool \/ EndReport
    \/ \E slot \in Slots : ReadSlot(slot)

Spec == Init /\ [][Next]_vars

-----------------------------------------------------------------------------
(* Properties.                                                             *)

\* "HTTP 200 alone is not success": a release is allowed only if the service
\* itself passed each of the four checks during that attempt, whatever was
\* lost, retried, refused or malformed on the way (transport.ts post,
\* orchestrator.ts withRetry and decideRelease).
AllowedWasPassed == attempt.pc = "allowed" => attempt.proven = 4

\* A freeze the operator was told of (the freeze handler's frozen: true, or
\* the script's tx_hash) makes every release begun afterwards fail, unless the
\* service has since executed a call that reactivates the credential.  (That
\* call may be one its script had given up before the freeze was asked for.)
FreezeStops == attempt.pc = "allowed" => ~attempt.afterFreeze

\* Nor does a report begun after such a freeze show the exporter as passing,
\* whatever of it could not be read (GET /compliance/:address, smoke.ts safe).
FreezeShows ==
    report.afterFreeze => \A slot \in {"exporter", "validator"} : report.shows[slot] # "yes"

=============================================================================
