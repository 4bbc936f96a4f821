----------------------------- MODULE AutoRelease -----------------------------
(***************************************************************************)
(* The automatic release scheduler (apps/api/src/auto-release.ts): a timer *)
(* whose ticks list the trades and release, one after the other, each next *)
(* milestone that has evidence.  It is one more caller of                  *)
(* ReleaseOrchestrator.release, under a key made from the evidence, and    *)
(* what that call throws ends the tick.                                    *)
(***************************************************************************)
EXTENDS ReleaseRegistry

CONSTANTS
    Listing,            \* the trades in the order listTrades returns them
    Scheduled           \* the attempt that is the scheduler's

\* The key of a milestone's evidence.
AutoKey(t, m, digest) == <<t, m, digest>>

ASSUME AutoReleaseAssumption ==
    /\ Listing \in Seq(Trades)
    /\ Scheduled \in Attempts
    /\ \A t \in Trades, m \in Milestones, digest \in Digests :
          AutoKey(t, m, digest) \in Keys

VARIABLE pass           \* rows the running tick has listed and not yet looked at

autoVars == <<vars, pass>>

AutoTypeOK ==
    /\ TypeOK
    /\ pass \in Seq([trade : Trades, row : Trade])

\* The trades have been created and funded before the server starts.
AutoInit ==
    /\ trades = [t \in Trades |-> MarkFunded(CreateTrade(TRUE))]
    /\ reserved = {}
    /\ results = [k \in Keys |-> {}]
    /\ nonces = {} /\ releases = {} /\ audits = {}
    /\ editAudits = {[operation |-> "fund", trade |-> t] : t \in Trades}
    /\ eligible \in Standings
    /\ attempts = [a \in Attempts |-> Idle]
    /\ editors = [e \in Editors |-> NoEdit]
    /\ failures = 0
    /\ pass = << >>

\* The key a row asks to be released under: a set of at most one.
Due(t, row) ==
    {AutoKey(t, m, row.milestones[m].evidence) :
        m \in {n \in Milestones :
                  /\ row.status \in {"FUNDED", "ACTIVE"}
                  /\ row.milestones[n].status = "PENDING"
                  /\ row.milestones[n].evidence # NoDigest
                  /\ \A earlier \in 1 .. n - 1 :
                        row.milestones[earlier].status # "PENDING"}}

Running == pass # << >> \/ InFlight(Scheduled)

-----------------------------------------------------------------------------
\* tick: nothing while one is running, otherwise list the trades.
Tick ==
    /\ ~Running
    /\ pass' = [i \in DOMAIN Listing |-> [trade |-> Listing[i], row |-> trades[Listing[i]]]]
    /\ UNCHANGED vars

\* Mutant: a tick ends with the first release it makes.
ReleaseListedOnly ==
    /\ pass # << >> /\ ~InFlight(Scheduled)
    /\ \E key \in Due(Head(pass).trade, Head(pass).row) :
          StartRelease(Scheduled, key[1], key[2], key)
    /\ pass' = << >>

\* maybeRelease goes by the listed row, release by the row as it is by then.
ReleaseListed ==
    /\ pass # << >> /\ ~InFlight(Scheduled)
    /\ \E key \in Due(Head(pass).trade, Head(pass).row) :
          StartRelease(Scheduled, key[1], key[2], key)
    /\ pass' = Tail(pass)

PassOver ==
    /\ pass # << >> /\ ~InFlight(Scheduled)
    /\ Due(Head(pass).trade, Head(pass).row) = {}
    /\ pass' = Tail(pass)
    /\ UNCHANGED vars

\* A refused reservation or nonce throws out of release and out of the tick.
AutoStep ==
    /\ ReleaseStep(Scheduled)
    /\ pass' = IF attempts[Scheduled].pc \in {"reserve", "consume"} /\ attempts'[Scheduled] = Idle
               THEN << >>
               ELSE pass

\* A rejected database call throws likewise.
AutoFails == AbandonAttempt(Scheduled) /\ pass' = << >>

\* Everything in memory is lost; the registry stays.
Restart ==
    /\ failures < MaxFailures
    /\ failures' = failures + 1
    /\ attempts' = [a \in Attempts |-> Idle]
    /\ editors' = [e \in Editors |-> NoEdit]
    /\ pass' = << >>
    /\ UNCHANGED <<trades, reserved, results, nonces, releases, audits, editAudits,
                   eligible>>

\* The other requests, and freezes and suspensions by whoever makes them: each
\* check of a tick may meet other eligible parties than the one before.  (Nothing
\* here reads the audit record of a freeze made through the server.)
Request ==
    /\ \/ \E e \in Editors, operation \in Handlers, t \in Trades :
             ReadForEdit(e, operation, t)
       \/ \E e \in Editors : SaveEdit(e) \/ AuditEdit(e)
       \/ \E parties \in Standings : SetEligible(parties)
    /\ UNCHANGED pass

AutoNext ==
    \/ Tick \/ ReleaseListed \/ PassOver \/ AutoStep \/ AutoFails \/ Restart
    \/ Request

\* The interval fires, the loop goes on, and every await of a release settles:
\* the Cleanverse calls time out and their retries are counted.
AutoSpec ==
    /\ AutoInit /\ [][AutoNext]_autoVars
    /\ WF_autoVars(Tick)
    /\ WF_autoVars(ReleaseListed \/ PassOver)
    /\ WF_autoVars(AutoStep)

-----------------------------------------------------------------------------
\* A key that was reserved by an attempt that died: nobody will store its outcome.
Lost(key) ==
    /\ key \in reserved
    /\ results[key] = {}
    /\ ~(InFlight(Scheduled) /\ attempts[Scheduled].key = key)

\* A trade that makes every tick throw before or when the tick gets to t.
Blocked(t) ==
    \E i \in DOMAIN Listing : \E key \in Due(Listing[i], trades[Listing[i]]) :
        /\ Lost(key)
        /\ \E j \in DOMAIN Listing : j >= i /\ Listing[j] = t

\* Evidence anchored for the next milestone of a funded trade is decided: time
\* and again there is none left that is not, unless the key of its trade or of
\* one listed before it was lost with a dead attempt (tick, maybeRelease).
EvidenceDecidedUnlessBlocked ==
    []<>(\A t \in Trades : \A key \in Due(t, trades[t]) :
            results[key] # {} \/ Blocked(t))

\* However often the scheduler ticks, fails and restarts, an evidence digest
\* costs at most one nonce (the idempotency key made from the digest).
NoncePerEvidence == Cardinality(nonces) <= Cardinality(reserved)

=============================================================================
