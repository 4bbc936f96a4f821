--------------------------- MODULE CleanverseProofs ---------------------------
(***************************************************************************)
(* What the callers of Cleanverse may rely on, for any number of retries,  *)
(* pools and writes, and however calls are lost, executed late or refused: *)
(* an allowed release was passed four times by the service itself, and a   *)
(* freeze that was confirmed stops the releases after it, and shows in the *)
(* reports after it, until the service executes a call that undoes it.     *)
(*                                                                         *)
(* The invariant says which calls each caller can have on the wire, and    *)
(* ties the reply on the wire to what the service holds, which is stable   *)
(* for as long as the caller may still read that reply.                    *)
(***************************************************************************)
EXTENDS CleanverseClient, TLAPS

Busy(c) == wire[c] # NoCall

\* A write as the scripts and the desk send it: only a pool that is named is
\* registered, and nobody but the exporter is frozen.
Sound(r) ==
    /\ r.what \in Writes
    /\ r.what = "register" => r.pool # NoPool
    /\ r.what = "freeze" => r.party = "exporter"

CallsSound ==
    /\ Busy("release") => /\ attempt.pc = "asking"
                          /\ wire["release"].what = Checks[attempt.check].what
                          /\ wire["release"].party = Checks[attempt.check].party
    /\ Busy("desk") => wire["desk"].what = "freeze" /\ Sound(wire["desk"])
    /\ Busy("script") => script # "idle" /\ Sound(wire["script"])
    /\ \A r \in late : Sound(r)

\* The checks already heard: each of those that count was passed by the service.
ChecksSound ==
    /\ attempt.pc \in {"asking", "backoff"} =>
          /\ attempt.proven < attempt.check
          /\ (\A k \in 1 .. 4 : k < attempt.check => attempt.results[k] = "pass") =>
                attempt.proven = attempt.check - 1
    /\ attempt.pc = "backoff" => attempt.tries < RetryAttempts
    /\ AllowedWasPassed
    /\ Busy("release") /\ wire["release"].reply = "pass" => attempt.passed

\* A freeze that can still be confirmed is in force once it is executed, and one
\* that was confirmed is in force.
FreezeSound ==
    /\ \A c \in firm.asked :
          /\ Busy(c) /\ wire[c].what = "freeze"
          /\ wire[c].reply = "done" => record["exporter"] = "frozen"
    /\ firm.told => record["exporter"] = "frozen"

\* So an attempt begun after it passes none of the exporter's checks.
StopSound ==
    /\ attempt.afterFreeze =>
          /\ firm.told
          /\ \A k \in 1 .. 4 : Checks[k].party = "exporter" => attempt.results[k] # "pass"
          /\ Busy("release") /\ wire["release"].party = "exporter" =>
                wire["release"].reply # "pass"
    /\ FreezeStops

\* Nor does a report read anything but that.
ReportSound == FreezeShows /\ (report.afterFreeze => firm.told)

IInv ==
    /\ TypeOK
    /\ CallsSound /\ ChecksSound /\ FreezeSound /\ StopSound /\ ReportSound

-----------------------------------------------------------------------------
(* Calls on the wire.                                                      *)

\* A caller waits for a call, or there is none.
LEMMA CallTypes ==
    ASSUME TypeOK, NEW c \in Callers, Busy(c)
    PROVE  wire[c] \in Call /\ RequestOf(wire[c]) \in Request
<1>1. wire[c] \in Call
  BY DEF TypeOK, Busy
<1> QED  BY <1>1 DEF Call, Request, RequestOf, Ask

\* An answer changes the reply of the call and nothing else.
LEMMA ReplyInv ==
    ASSUME TypeOK, NEW c \in Callers, Open(c), NEW reply \in Verdicts \cup Refusals,
           Reply(c, reply)
    PROVE  /\ wire' \in [Callers -> Call \cup {NoCall}]
           /\ wire'[c].what = wire[c].what /\ wire'[c].party = wire[c].party
           /\ wire'[c].pool = wire[c].pool /\ wire'[c].reply = reply
           /\ wire'[c] # NoCall /\ wire[c] # NoCall
           /\ \A d \in Callers \ {c} : wire'[d] = wire[d]
<1>1. wire[c] \in Call /\ wire[c] # NoCall
  BY CallTypes DEF Open, Busy
<1>2. [wire[c] EXCEPT !.reply = reply] \in Call
  BY <1>1 DEF Call
<1>3. wire'[c] = [wire[c] EXCEPT !.reply = reply] /\ \A d \in Callers \ {c} : wire'[d] = wire[d]
  BY DEF Reply, TypeOK
<1>4. wire' \in [Callers -> Call \cup {NoCall}]
  BY <1>2 DEF Reply, TypeOK
<1>5. /\ wire'[c].what = wire[c].what /\ wire'[c].party = wire[c].party
      /\ wire'[c].pool = wire[c].pool /\ wire'[c].reply = reply
  BY <1>1, <1>3 DEF Call
<1>6. wire'[c] # NoCall
  BY <1>1, <1>5 DEF NoCall, Call, Writes
<1> QED  BY <1>1, <1>3, <1>4, <1>5, <1>6

\* A call is sent without a reply.
LEMMA SendInv ==
    ASSUME TypeOK, NEW c \in Callers, NEW what \in Writes \cup {"apass", "validator"},
           NEW party \in Parties, NEW pool \in Pools \cup {NoPool},
           wire' = [wire EXCEPT ![c] = Sent(Ask(what, party, pool))]
    PROVE  /\ wire' \in [Callers -> Call \cup {NoCall}]
           /\ wire'[c].what = what /\ wire'[c].party = party
           /\ wire'[c].pool = pool /\ wire'[c].reply = Waiting
           /\ \A d \in Callers \ {c} : wire'[d] = wire[d]
<1>1. Sent(Ask(what, party, pool)) \in Call
  BY DEF Sent, Ask, Call
<1> QED  BY <1>1 DEF TypeOK, Sent, Ask

\* A call is over for its caller.
LEMMA ClearInv ==
    ASSUME TypeOK, NEW c \in Callers, wire' = [wire EXCEPT ![c] = NoCall]
    PROVE  /\ wire' \in [Callers -> Call \cup {NoCall}]
           /\ wire'[c] = NoCall
           /\ \A d \in Callers \ {c} : wire'[d] = wire[d]
BY DEF TypeOK

\* What a caller hears is a failure or the reply; what it gives up is remembered
\* as the write it was.
LEMMA HearInv ==
    ASSUME TypeOK, CallsSound, NEW c \in Callers, NEW outcome, Hear(c, outcome)
    PROVE  /\ Busy(c) /\ wire[c] \in Call
           /\ outcome \in Verdicts \cup Refusals \cup {NoAnswer}
           /\ outcome # NoAnswer => outcome = wire[c].reply
           /\ late' \subseteq Request
           /\ \A r \in late' : Sound(r)
<1>1. Busy(c) /\ wire[c] \in Call /\ RequestOf(wire[c]) \in Request
  BY CallTypes DEF Hear, Busy
<1>2. wire[c].reply \in Verdicts \cup Refusals \cup {Waiting}
  BY <1>1 DEF Call
<1>3. /\ outcome \in Verdicts \cup Refusals \cup {NoAnswer}
      /\ outcome # NoAnswer => outcome = wire[c].reply
  BY <1>2 DEF Hear, Outcomes, Waiting
<1>4. late' \subseteq Request
  BY <1>1 DEF Hear, TypeOK
<1>5. wire[c].what \in Writes => Sound(RequestOf(wire[c]))
  <2>1. CASE c = "release"
    BY <1>1, <2>1 DEF CallsSound, Checks, Writes, Busy, TypeOK, Attempt
  <2>2. CASE c = "desk"
    BY <1>1, <2>2 DEF CallsSound, Sound, RequestOf, Ask
  <2>3. CASE c = "script"
    BY <1>1, <2>3 DEF CallsSound, Sound, RequestOf, Ask
  <2> QED  BY <2>1, <2>2, <2>3 DEF Callers
<1>6. \A r \in late' : Sound(r)
  BY <1>5 DEF Hear, CallsSound
<1> QED  BY <1>1, <1>3, <1>4, <1>6

-----------------------------------------------------------------------------
(* What each part of the invariant depends on.                             *)

\* The attempt goes on: its checks stand.
LEMMA ChecksStay ==
    ASSUME IInv, wire'["release"] = wire["release"],
           UNCHANGED <<attempt.pc, attempt.check, attempt.tries, attempt.results,
                       attempt.passed, attempt.proven>>
    PROVE  ChecksSound'
BY DEF IInv, ChecksSound, AllowedWasPassed, Busy

\* And an attempt that began after a freeze is still one, unless that is undone.
LEMMA StopStays ==
    ASSUME IInv, wire'["release"] = wire["release"],
           UNCHANGED <<attempt.pc, attempt.results>>,
           attempt'.afterFreeze => attempt.afterFreeze,
           attempt'.afterFreeze /\ firm.told => firm'.told
    PROVE  StopSound'
BY DEF IInv, StopSound, FreezeStops, Busy

\* And so is a report.
LEMMA ReportStays ==
    ASSUME IInv, report'.shows = report.shows, report'.afterFreeze => report.afterFreeze,
           report'.afterFreeze /\ firm.told => firm'.told
    PROVE  ReportSound'
BY DEF IInv, ReportSound, FreezeShows

\* The freezes asked for are not touched by the other callers.
LEMMA FreezeStays ==
    ASSUME IInv, UNCHANGED firm,
           wire'["desk"] = wire["desk"], wire'["script"] = wire["script"],
           record["exporter"] = "frozen" => record'["exporter"] = "frozen"
    PROVE  FreezeSound'
<1>1. firm.asked \subseteq {"desk", "script"}
  BY DEF IInv, TypeOK
<1> QED  BY <1>1 DEF IInv, FreezeSound, Busy

\* The calls are the same.
LEMMA CallsStay ==
    ASSUME IInv, UNCHANGED <<wire, script, late, attempt>>
    PROVE  CallsSound'
BY DEF IInv, CallsSound, Sound, Busy

\* Nothing but the report or the configuration moves.
LEMMA ElsewhereInv ==
    ASSUME IInv, UNCHANGED <<service, wire, late, dotenv, attempt, script, firm, writes>>,
           conf' \in [escrow : Pools \cup {NoPool}, pool : Pools \cup {NoPool}],
           report' \in Report, ReportSound'
    PROVE  IInv'
<1>1. TypeOK'
  BY DEF IInv, TypeOK, service
<1>2. CallsSound' /\ ChecksSound' /\ StopSound' /\ FreezeSound'
  BY CallsStay, ChecksStay, StopStays, FreezeStays DEF service
<1> QED  BY <1>1, <1>2 DEF IInv


-----------------------------------------------------------------------------
(* The service.                                                            *)

\* What a write does: without a lift, an exporter who is frozen stays frozen.
LEMMA ExecuteInv ==
    ASSUME TypeOK, NEW r \in Request, Sound(r), Execute(r)
    PROVE  /\ record' \in [Parties -> {"none", "active", "frozen"}]
           /\ registered' \subseteq Pools /\ paused' \subseteq registered'
           /\ deployed' \in 0 .. MaxPools
           /\ r.what = "freeze" => record'["exporter"] = "frozen"
           /\ ~Lifts(r) /\ record["exporter"] = "frozen" => record'["exporter"] = "frozen"
<1>1. /\ deployed \in 0 .. MaxPools /\ deployed \in Nat /\ MaxPools \in Nat
      /\ r.party \in Parties /\ r.pool \in Pools \cup {NoPool}
  BY CleanverseAssumption DEF TypeOK, Request
<1>2. CASE r.what = "deploy"
  BY <1>1, <1>2 DEF Execute, TypeOK
<1>3. CASE r.what = "register"
  BY <1>1, <1>3 DEF Execute, TypeOK, Sound
<1>4. CASE r.what \in {"pause", "unpause"}
  BY <1>1, <1>4 DEF Execute, TypeOK
<1>5. CASE r.what \in {"freeze", "unfreeze"}
  <2>1. /\ record' = [record EXCEPT ![r.party] = IF r.what = "freeze" THEN "frozen"
                                                 ELSE "active"]
        /\ UNCHANGED <<registered, paused, deployed>>
    BY <1>5 DEF Execute
  <2> QED  BY <1>1, <1>5, <2>1 DEF TypeOK, Sound, Lifts, Parties
<1>6. CASE r.what \in {"generate", "override"}
  <2>1. PICK status \in {"active", record[r.party]} \ {"none"} :
           record' = [record EXCEPT ![r.party] = status]
    BY <1>6 DEF Execute
  <2>2. UNCHANGED <<registered, paused, deployed>>
    BY <1>6 DEF Execute
  <2>3. status \in {"none", "active", "frozen"}
    BY <1>1, <2>1 DEF TypeOK
  <2>4. r.what = "generate" => record[r.party] = "none"
    BY <1>6 DEF Execute
  <2> QED  BY <1>1, <1>6, <2>1, <2>2, <2>3, <2>4 DEF TypeOK, Lifts, Parties
<1>7. CASE r.what = "grant"
  BY <1>1, <1>7 DEF Execute, TypeOK, service
<1> QED  BY <1>2, <1>3, <1>4, <1>5, <1>6, <1>7 DEF Sound, Writes

\* A lift forgets the freezes it undoes; any other write forgets none.
LEMMA UndoInv ==
    ASSUME IInv, NEW r, Undo(r)
    PROVE  /\ firm' \in [asked : SUBSET {"desk", "script"}, told : BOOLEAN]
           /\ firm'.asked \subseteq firm.asked /\ (firm'.told => firm.told)
           /\ attempt' \in Attempt /\ report' \in Report
           /\ UNCHANGED <<attempt.pc, attempt.check, attempt.tries, attempt.results,
                          attempt.passed, attempt.proven, report.shows>>
           /\ attempt'.afterFreeze => attempt.afterFreeze /\ firm' = firm
           /\ report'.afterFreeze => report.afterFreeze /\ firm' = firm
           /\ Lifts(r) => ~firm'.told /\ \A c \in firm'.asked : wire[c].reply = Waiting
<1>1. /\ firm \in [asked : SUBSET {"desk", "script"}, told : BOOLEAN]
      /\ attempt \in Attempt /\ report \in Report
  BY DEF IInv, TypeOK
<1>2. CASE Lifts(r)
  <2>1. /\ firm' = [asked |-> {c \in firm.asked : wire[c].reply = Waiting}, told |-> FALSE]
        /\ attempt' = [attempt EXCEPT !.afterFreeze = FALSE]
        /\ report' = [report EXCEPT !.afterFreeze = FALSE]
    BY <1>2 DEF Undo
  <2> QED  BY <1>1, <1>2, <2>1 DEF Attempt, Report
<1>3. CASE ~Lifts(r)
  BY <1>1, <1>3 DEF Undo
<1> QED  BY <1>2, <1>3

\* A reply that confirms no freeze and passes no check disturbs nobody.
LEMMA ReplyStays ==
    ASSUME IInv, NEW c \in Callers, Open(c), NEW reply \in Verdicts \cup Refusals,
           Reply(c, reply), late' \subseteq Request, \A r \in late' : Sound(r),
           reply # "pass",
           reply = "done" => c = "script" /\ wire[c].what # "freeze",
           UNCHANGED <<service, dotenv, conf, attempt, script, report, firm, writes>>
    PROVE  IInv'
<1>1. /\ wire' \in [Callers -> Call \cup {NoCall}]
      /\ wire'[c].what = wire[c].what /\ wire'[c].party = wire[c].party
      /\ wire'[c].pool = wire[c].pool /\ wire'[c].reply = reply
      /\ wire'[c] # NoCall /\ wire[c] # NoCall
      /\ \A d \in Callers \ {c} : wire'[d] = wire[d]
  BY ReplyInv DEF IInv
<1>2. TypeOK'
  BY <1>1 DEF IInv, TypeOK, service
<1>3. CallsSound'
  BY <1>1 DEF IInv, CallsSound, Sound, Busy, Callers
<1>4. ChecksSound' /\ StopSound'
  BY <1>1 DEF IInv, ChecksSound, AllowedWasPassed, StopSound, FreezeStops, Busy, Callers
<1>5. FreezeSound'
  <2>1. firm.asked \subseteq Callers
    BY DEF IInv, TypeOK, Callers
  <2> QED  BY <1>1, <2>1 DEF IInv, FreezeSound, Busy, service
<1>6. ReportSound'
  BY ReportStays
<1> QED  BY <1>2, <1>3, <1>4, <1>5, <1>6 DEF IInv

\* A refusal is not an answer anybody counts on.
LEMMA RefuseInv ==
    ASSUME IInv, NEW c \in Callers, Refuse(c)
    PROVE  IInv'
<1>1. PICK reply \in Refusals : Reply(c, reply)
  BY DEF Refuse, Refusals
<1>2. Open(c) /\ UNCHANGED <<service, late, dotenv, conf, attempt, script, report, firm, writes>>
  BY DEF Refuse
<1>3. reply # "pass" /\ reply # "done" /\ reply \in Verdicts \cup Refusals
  BY DEF Refusals
<1>4. late' \subseteq Request /\ \A r \in late' : Sound(r)
  BY <1>2 DEF IInv, TypeOK, CallsSound
<1> QED  BY <1>1, <1>2, <1>3, <1>4, ReplyStays

\* Only a script waits for a transaction, and it is no freeze.
LEMMA SubmitInv ==
    ASSUME IInv, NEW c \in Callers, Submit(c)
    PROVE  IInv'
<1>1. /\ Open(c) /\ wire[c].what \in Transactions /\ Reply(c, "done")
      /\ late' = late \cup {RequestOf(wire[c])}
      /\ UNCHANGED <<service, dotenv, conf, attempt, script, report, firm, writes>>
  BY DEF Submit
<1>2. Busy(c) /\ RequestOf(wire[c]) \in Request
  BY <1>1, CallTypes DEF IInv, Open, Busy
<1>3. c = "script" /\ wire[c].what # "freeze" /\ "done" \in Verdicts
  <2>1. c # "release"
    BY <1>1, <1>2 DEF IInv, CallsSound, Checks, Transactions, TypeOK, Attempt
  <2>2. c # "desk"
    BY <1>1, <1>2 DEF IInv, CallsSound, Transactions
  <2> QED  BY <1>1, <2>1, <2>2 DEF Callers, Transactions, Verdicts
<1>4. Sound(RequestOf(wire[c]))
  BY <1>2, <1>3 DEF IInv, CallsSound, Sound, RequestOf, Ask
<1>5. late' \subseteq Request /\ \A r \in late' : Sound(r)
  BY <1>1, <1>2, <1>4 DEF IInv, TypeOK, CallsSound
<1> QED  BY <1>1, <1>3, <1>5, ReplyStays

\* A write is executed while its caller waits.
LEMMA ServeWriteInv ==
    ASSUME IInv, NEW c \in Callers, ServeWrite(c)
    PROVE  IInv'
<1> DEFINE r == RequestOf(wire[c])
<1>1. /\ Open(c) /\ wire[c].what \in Writes /\ Execute(r) /\ Undo(r) /\ Reply(c, "done")
      /\ UNCHANGED <<late, dotenv, conf, script, writes>>
  BY DEF ServeWrite
<1>2. /\ wire' \in [Callers -> Call \cup {NoCall}]
      /\ wire'[c].what = wire[c].what /\ wire'[c].party = wire[c].party
      /\ wire'[c].pool = wire[c].pool /\ wire'[c].reply = "done"
      /\ wire'[c] # NoCall /\ wire[c] # NoCall
      /\ \A d \in Callers \ {c} : wire'[d] = wire[d]
  BY <1>1, ReplyInv DEF IInv, Verdicts
<1>3. c # "release"
  BY <1>1, <1>2 DEF IInv, CallsSound, Busy, Checks, Writes, TypeOK, Attempt
<1>4. Sound(wire[c]) /\ Sound(r) /\ r \in Request
  <2>1. Sound(wire[c])
    BY <1>2, <1>3 DEF IInv, CallsSound, Busy, Callers
  <2>2. r \in Request
    BY <1>2, CallTypes DEF IInv, Busy
  <2> QED  BY <2>1, <2>2 DEF Sound, RequestOf, Ask
<1>5. /\ r.what = wire[c].what /\ r.party = wire[c].party /\ r.pool = wire[c].pool
  BY DEF RequestOf, Ask
<1> HIDE DEF r
<1>6. /\ record' \in [Parties -> {"none", "active", "frozen"}]
      /\ registered' \subseteq Pools /\ paused' \subseteq registered'
      /\ deployed' \in 0 .. MaxPools
      /\ r.what = "freeze" => record'["exporter"] = "frozen"
      /\ ~Lifts(r) /\ record["exporter"] = "frozen" => record'["exporter"] = "frozen"
  BY <1>1, <1>4, ExecuteInv DEF IInv
<1>7. /\ firm' \in [asked : SUBSET {"desk", "script"}, told : BOOLEAN]
      /\ firm'.asked \subseteq firm.asked /\ (firm'.told => firm.told)
      /\ attempt' \in Attempt /\ report' \in Report
      /\ UNCHANGED <<attempt.pc, attempt.check, attempt.tries, attempt.results,
                     attempt.passed, attempt.proven, report.shows>>
      /\ attempt'.afterFreeze => attempt.afterFreeze /\ firm' = firm
      /\ report'.afterFreeze => report.afterFreeze /\ firm' = firm
      /\ Lifts(r) => ~firm'.told /\ \A d \in firm'.asked : wire[d].reply = Waiting
  BY <1>1, UndoInv
<1>8. TypeOK'
  BY <1>1, <1>2, <1>6, <1>7 DEF IInv, TypeOK
<1>9. CallsSound'
  BY <1>1, <1>2, <1>3, <1>7 DEF IInv, CallsSound, Sound, Busy, Callers
<1>10. ChecksSound' /\ StopSound' /\ ReportSound'
  <2>1. wire'["release"] = wire["release"]
    BY <1>2, <1>3 DEF Callers
  <2> QED  BY <1>7, <2>1, ChecksStay, StopStays, ReportStays
<1>11. FreezeSound'
  <2>1. ASSUME NEW d \in firm'.asked
        PROVE  /\ Busy(d)' /\ wire'[d].what = "freeze"
               /\ wire'[d].reply = "done" => record'["exporter"] = "frozen"
    <3>1. /\ d \in firm.asked /\ d \in Callers /\ Busy(d) /\ wire[d].what = "freeze"
          /\ wire[d].reply = "done" => record["exporter"] = "frozen"
      BY <1>7 DEF IInv, TypeOK, FreezeSound, Callers
    <3>2. CASE d = c
      BY <1>2, <1>5, <1>6, <3>1, <3>2 DEF Busy
    <3>3. CASE d # c /\ Lifts(r)
      BY <1>2, <1>7, <3>1, <3>3 DEF Busy, Waiting
    <3>4. CASE d # c /\ ~Lifts(r)
      BY <1>2, <1>6, <3>1, <3>4 DEF Busy
    <3> QED  BY <3>2, <3>3, <3>4
  <2>2. firm'.told => record'["exporter"] = "frozen"
    BY <1>6, <1>7 DEF IInv, FreezeSound
  <2> QED  BY <2>1, <2>2 DEF FreezeSound
<1> QED  BY <1>8, <1>9, <1>10, <1>11 DEF IInv

\* A write that was given up, or only submitted, is executed.
LEMMA ServeLateInv ==
    ASSUME IInv, ServeLate
    PROVE  IInv'
<1>1. PICK r \in late : Execute(r) /\ Undo(r) /\ late' = late \ {r}
  BY DEF ServeLate
<1>2. UNCHANGED <<wire, dotenv, conf, script, writes>>
  BY DEF ServeLate
<1>3. r \in Request /\ Sound(r)
  BY DEF IInv, TypeOK, CallsSound
<1>4. /\ record' \in [Parties -> {"none", "active", "frozen"}]
      /\ registered' \subseteq Pools /\ paused' \subseteq registered'
      /\ deployed' \in 0 .. MaxPools
      /\ ~Lifts(r) /\ record["exporter"] = "frozen" => record'["exporter"] = "frozen"
  BY <1>1, <1>3, ExecuteInv DEF IInv
<1>5. /\ firm' \in [asked : SUBSET {"desk", "script"}, told : BOOLEAN]
      /\ firm'.asked \subseteq firm.asked /\ (firm'.told => firm.told)
      /\ attempt' \in Attempt /\ report' \in Report
      /\ UNCHANGED <<attempt.pc, attempt.check, attempt.tries, attempt.results,
                     attempt.passed, attempt.proven, report.shows>>
      /\ attempt'.afterFreeze => attempt.afterFreeze /\ firm' = firm
      /\ report'.afterFreeze => report.afterFreeze /\ firm' = firm
      /\ Lifts(r) => ~firm'.told /\ \A d \in firm'.asked : wire[d].reply = Waiting
  BY <1>1, UndoInv
<1>6. TypeOK'
  BY <1>1, <1>2, <1>4, <1>5 DEF IInv, TypeOK
<1>7. CallsSound'
  BY <1>1, <1>2, <1>5 DEF IInv, CallsSound, Sound, Busy
<1>8. ChecksSound' /\ StopSound' /\ ReportSound'
  BY <1>2, <1>5, ChecksStay, StopStays, ReportStays
<1>9. FreezeSound'
  <2>1. ASSUME NEW d \in firm'.asked
        PROVE  /\ Busy(d)' /\ wire'[d].what = "freeze"
               /\ wire'[d].reply = "done" => record'["exporter"] = "frozen"
    <3>1. /\ d \in firm.asked /\ Busy(d) /\ wire[d].what = "freeze"
          /\ wire[d].reply = "done" => record["exporter"] = "frozen"
      BY <1>5 DEF IInv, FreezeSound
    <3> QED  BY <1>2, <1>4, <1>5, <3>1 DEF Busy, Waiting
  <2>2. firm'.told => record'["exporter"] = "frozen"
    BY <1>4, <1>5 DEF IInv, FreezeSound
  <2> QED  BY <2>1, <2>2 DEF FreezeSound
<1> QED  BY <1>6, <1>7, <1>8, <1>9 DEF IInv

\* A check is answered with the record of the moment: a party that is frozen
\* does not pass.
LEMMA ServeCheckInv ==
    ASSUME IInv, ServeCheck
    PROVE  IInv'
<1> DEFINE call == wire["release"]
           verdict == Verdict(call.what, call.party, call.pool)
<1>1. /\ Open("release") /\ Reply("release", verdict)
      /\ attempt' = [attempt EXCEPT !.passed = @ \/ verdict = "pass"]
      /\ UNCHANGED <<service, late, dotenv, conf, script, report, firm, writes>>
  BY DEF ServeCheck
<1>2. verdict \in Verdicts \cup Refusals
  BY DEF Verdict, Verdicts, Refusals
<1>3. verdict = "pass" => record[call.party] = "active"
  BY DEF Verdict
<1>4. PICK v \in Verdicts \cup Refusals : v = verdict
  BY <1>2
<1> HIDE DEF verdict
<1>5. /\ wire' \in [Callers -> Call \cup {NoCall}]
      /\ wire'["release"].what = call.what /\ wire'["release"].party = call.party
      /\ wire'["release"].reply = v
      /\ wire'["release"] # NoCall /\ wire["release"] # NoCall
      /\ wire'["desk"] = wire["desk"] /\ wire'["script"] = wire["script"]
  BY <1>1, <1>4, ReplyInv DEF IInv, Callers
<1>6. /\ attempt' \in Attempt /\ attempt'.passed = (attempt.passed \/ v = "pass")
      /\ attempt'.pc = attempt.pc /\ attempt'.check = attempt.check
      /\ attempt'.proven = attempt.proven /\ attempt'.results = attempt.results
      /\ attempt'.tries = attempt.tries /\ attempt'.afterFreeze = attempt.afterFreeze
  <2>1. (attempt.passed \/ v = "pass") \in BOOLEAN
    OBVIOUS
  <2> QED  BY <1>1, <1>4, <2>1 DEF IInv, TypeOK, Attempt
<1>7. TypeOK'
  BY <1>1, <1>5, <1>6 DEF IInv, TypeOK, service
<1>8. CallsSound'
  BY <1>1, <1>5, <1>6 DEF IInv, CallsSound, Sound, Busy
<1>9. ChecksSound'
  BY <1>5, <1>6 DEF IInv, ChecksSound, AllowedWasPassed, Busy
<1>10. StopSound'
  <2>1. attempt.afterFreeze => record["exporter"] = "frozen"
    BY DEF IInv, StopSound, FreezeSound
  <2> QED  BY <1>1, <1>3, <1>4, <1>5, <1>6, <2>1 DEF IInv, StopSound, FreezeStops, Busy
<1>11. FreezeSound'
  BY <1>1, <1>5, FreezeStays DEF service
<1>12. ReportSound'
  BY <1>1, ReportStays
<1> QED  BY <1>7, <1>8, <1>9, <1>10, <1>11, <1>12 DEF IInv


-----------------------------------------------------------------------------
(* The release attempt.                                                    *)

\* An attempt that has not begun.
LEMMA NoAttemptType == NoAttempt \in Attempt
BY CleanverseAssumption DEF NoAttempt, Attempt, NoAnswer, NoPool

\* The call of a check.
LEMMA AskCheckInv ==
    ASSUME TypeOK, NEW k \in 1 .. 4, NEW pool \in Pools \cup {NoPool}, AskCheck(k, pool)
    PROVE  /\ wire' \in [Callers -> Call \cup {NoCall}]
           /\ wire'["release"].what = Checks[k].what
           /\ wire'["release"].party = Checks[k].party
           /\ wire'["release"].reply = Waiting
           /\ wire'["desk"] = wire["desk"] /\ wire'["script"] = wire["script"]
<1>1. PICK what \in Writes \cup {"apass", "validator"}, party \in Parties :
         what = Checks[k].what /\ party = Checks[k].party
  BY DEF Checks, Parties
<1>2. PICK asked \in Pools \cup {NoPool} :
         asked = IF Checks[k].what = "validator" THEN pool ELSE NoPool
  OBVIOUS
<1>3. wire' = [wire EXCEPT !["release"] = Sent(Ask(what, party, asked))]
  BY <1>1, <1>2 DEF AskCheck
<1>4. "release" \in Callers /\ "desk" \in Callers /\ "script" \in Callers
  BY DEF Callers
<1>5. /\ wire' \in [Callers -> Call \cup {NoCall}]
      /\ wire'["release"].what = what /\ wire'["release"].party = party
      /\ wire'["release"].reply = Waiting
      /\ \A d \in Callers \ {"release"} : wire'[d] = wire[d]
  <2>1. Sent(Ask(what, party, asked)) \in Call
    BY DEF Sent, Ask, Call
  <2> QED  BY <1>3, <1>4, <2>1 DEF TypeOK, Sent, Ask
<1> QED  BY <1>1, <1>4, <1>5

\* A step of the attempt leaves the parts of the others alone.
LEMMA AttemptFrame ==
    ASSUME IInv, UNCHANGED <<service, dotenv, conf, script, report, firm, writes>>,
           wire'["desk"] = wire["desk"], wire'["script"] = wire["script"],
           wire' \in [Callers -> Call \cup {NoCall}], attempt' \in Attempt,
           late' \subseteq Request, \A r \in late' : Sound(r),
           Busy("release")' => /\ attempt'.pc = "asking"
                               /\ wire'["release"].what = Checks[attempt'.check].what
                               /\ wire'["release"].party = Checks[attempt'.check].party,
           ChecksSound', StopSound'
    PROVE  IInv'
<1>1. TypeOK'
  BY DEF IInv, TypeOK, service
<1>2. CallsSound'
  BY DEF IInv, CallsSound, Sound, Busy
<1>3. FreezeSound' /\ ReportSound'
  BY FreezeStays, ReportStays DEF service
<1> QED  BY <1>1, <1>2, <1>3 DEF IInv

\* The checks begin: nothing is proven.
LEMMA StartReleaseInv ==
    ASSUME IInv, StartRelease
    PROVE  IInv'
<1>1. /\ attempt' = [NoAttempt EXCEPT !.pc = "asking", !.pool = conf.pool,
                                      !.afterFreeze = firm.told]
      /\ AskCheck(1, conf.pool)
      /\ UNCHANGED <<service, late, dotenv, conf, script, report, firm, writes>>
  BY DEF StartRelease
<1>2. conf.pool \in Pools \cup {NoPool} /\ firm.told \in BOOLEAN
  BY DEF IInv, TypeOK
<1>3. /\ attempt' \in Attempt
      /\ attempt'.pc = "asking" /\ attempt'.check = 1 /\ attempt'.proven = 0
      /\ attempt'.afterFreeze = firm.told
      /\ \A k \in 1 .. 4 : attempt'.results[k] = NoAnswer
  <2>1. attempt' = [pc |-> "asking", check |-> 1, tries |-> 1, pool |-> conf.pool,
                    results |-> [k \in 1 .. 4 |-> NoAnswer], passed |-> FALSE,
                    proven |-> 0, afterFreeze |-> firm.told]
    BY <1>1 DEF NoAttempt
  <2>2. /\ 1 \in 1 .. RetryAttempts /\ 1 \in 1 .. 4 /\ 0 \in 0 .. 4
        /\ [k \in 1 .. 4 |-> NoAnswer] \in [1 .. 4 -> Verdicts \cup Refusals \cup {NoAnswer}]
    BY CleanverseAssumption
  <2>3. attempt' \in Attempt
    BY <1>2, <2>1, <2>2 DEF Attempt
  <2> QED  BY <2>1, <2>3
<1>4. /\ wire' \in [Callers -> Call \cup {NoCall}]
      /\ wire'["release"].what = Checks[1].what
      /\ wire'["release"].party = Checks[1].party
      /\ wire'["release"].reply = Waiting
      /\ wire'["desk"] = wire["desk"] /\ wire'["script"] = wire["script"]
  BY <1>1, <1>2, AskCheckInv DEF IInv
<1>5. ChecksSound'
  BY <1>3, <1>4 DEF ChecksSound, AllowedWasPassed, Waiting
<1>6. StopSound'
  BY <1>1, <1>3, <1>4 DEF StopSound, FreezeStops, Waiting, NoAnswer
<1>7. late' \subseteq Request /\ \A r \in late' : Sound(r)
  BY <1>1 DEF IInv, TypeOK, CallsSound
<1> QED  BY <1>1, <1>3, <1>4, <1>5, <1>6, <1>7, AttemptFrame

\* A check is asked again after a failure; what was proven stays.
LEMMA RetryInv ==
    ASSUME IInv, Retry
    PROVE  IInv'
<1>1. /\ attempt.pc = "backoff"
      /\ attempt' = [attempt EXCEPT !.pc = "asking", !.tries = @ + 1]
      /\ AskCheck(attempt.check, attempt.pool)
      /\ UNCHANGED <<service, late, dotenv, conf, script, report, firm, writes>>
  BY DEF Retry
<1>2. attempt \in Attempt
  BY DEF IInv, TypeOK
<1>3. attempt.check \in 1 .. 4 /\ attempt.pool \in Pools \cup {NoPool}
  BY <1>2 DEF Attempt
<1>4. /\ attempt' \in Attempt
      /\ attempt'.pc = "asking" /\ attempt'.check = attempt.check
      /\ attempt'.proven = attempt.proven /\ attempt'.results = attempt.results
      /\ attempt'.afterFreeze = attempt.afterFreeze
  <2>1. attempt.tries < RetryAttempts
    BY <1>1 DEF IInv, ChecksSound
  <2>2. attempt.tries + 1 \in 1 .. RetryAttempts
    BY <1>2, <2>1, CleanverseAssumption DEF Attempt
  <2> QED  BY <1>1, <1>2, <2>2 DEF Attempt
<1>5. /\ wire' \in [Callers -> Call \cup {NoCall}]
      /\ wire'["release"].what = Checks[attempt.check].what
      /\ wire'["release"].party = Checks[attempt.check].party
      /\ wire'["release"].reply = Waiting
      /\ wire'["desk"] = wire["desk"] /\ wire'["script"] = wire["script"]
  BY <1>1, <1>3, AskCheckInv DEF IInv
<1>6. ChecksSound'
  BY <1>1, <1>4, <1>5 DEF IInv, ChecksSound, AllowedWasPassed, Waiting
<1>7. StopSound'
  BY <1>1, <1>4, <1>5 DEF IInv, StopSound, FreezeStops, Waiting
<1>8. late' \subseteq Request /\ \A r \in late' : Sound(r)
  BY <1>1 DEF IInv, TypeOK, CallsSound
<1> QED  BY <1>1, <1>4, <1>5, <1>6, <1>7, <1>8, AttemptFrame

\* The decision is answered; nothing is on the wire by then.
LEMMA RespondInv ==
    ASSUME IInv, Respond
    PROVE  IInv'
<1>1. /\ attempt.pc \in {"allowed", "denied"} /\ attempt' = NoAttempt
      /\ UNCHANGED <<service, wire, late, dotenv, conf, script, report, firm, writes>>
  BY DEF Respond
<1>2. ~Busy("release") /\ ~Busy("release")'
  BY <1>1 DEF IInv, CallsSound, Busy
<1>3. ChecksSound' /\ StopSound'
  BY <1>1, <1>2 DEF ChecksSound, StopSound, AllowedWasPassed, FreezeStops, NoAttempt, Busy
<1>4. /\ late' \subseteq Request /\ \A r \in late' : Sound(r)
      /\ wire' \in [Callers -> Call \cup {NoCall}]
  BY <1>1 DEF IInv, TypeOK, CallsSound
<1> QED  BY <1>1, <1>2, <1>3, <1>4, NoAttemptType, AttemptFrame

\* The answer of a check: it is asked again, or the next one is, or the release
\* is decided.
LEMMA HearCheckInv ==
    ASSUME IInv, NEW outcome, HearCheck(outcome)
    PROVE  IInv'
<1> DEFINE k == attempt.check
           heard == [attempt EXCEPT !.results[k] = outcome, !.passed = FALSE,
                        !.proven = IF outcome = "pass" /\ attempt.passed THEN @ + 1 ELSE @]
<1>1. /\ Hear("release", outcome)
      /\ UNCHANGED <<service, dotenv, conf, script, report, firm, writes>>
  BY DEF HearCheck
<1>2. /\ Busy("release") /\ wire["release"] \in Call
      /\ outcome \in Verdicts \cup Refusals \cup {NoAnswer}
      /\ outcome # NoAnswer => outcome = wire["release"].reply
      /\ late' \subseteq Request
      /\ \A r \in late' : Sound(r)
  BY <1>1, HearInv DEF IInv, Callers
<1>3. /\ attempt \in Attempt /\ attempt.pc = "asking" /\ k \in 1 .. 4
      /\ wire["release"].party = Checks[k].party
      /\ wire["release"].what \in {"apass", "validator"}
  <2>1. /\ attempt \in Attempt /\ attempt.pc = "asking" /\ k \in 1 .. 4
        /\ wire["release"].party = Checks[k].party
        /\ wire["release"].what = Checks[k].what
    BY <1>2 DEF IInv, TypeOK, CallsSound, Attempt
  <2> QED  BY <2>1 DEF Checks
<1>5. /\ attempt.proven \in 0 .. 4 /\ attempt.proven < k
      /\ (\A i \in 1 .. 4 : i < k => attempt.results[i] = "pass") => attempt.proven = k - 1
      /\ outcome = "pass" => attempt.passed
  BY <1>2, <1>3 DEF IInv, ChecksSound, Attempt, NoAnswer
<1>6. attempt.afterFreeze =>
         /\ firm.told
         /\ \A i \in 1 .. 4 : Checks[i].party = "exporter" => attempt.results[i] # "pass"
         /\ Checks[k].party = "exporter" => outcome # "pass"
  BY <1>2, <1>3 DEF IInv, StopSound, NoAnswer
<1>7. PICK results \in [1 .. 4 -> Verdicts \cup Refusals \cup {NoAnswer}] :
         results = [attempt.results EXCEPT ![k] = outcome]
  <2>1. attempt.results \in [1 .. 4 -> Verdicts \cup Refusals \cup {NoAnswer}]
    BY <1>3 DEF Attempt
  <2> QED  BY <1>2, <2>1
<1>8. results[k] = outcome /\ \A i \in 1 .. 4 : i # k => results[i] = attempt.results[i]
  BY <1>3, <1>7 DEF Attempt
<1>9. PICK proven \in 0 .. 4 :
         proven = IF outcome = "pass" /\ attempt.passed THEN attempt.proven + 1
                  ELSE attempt.proven
  BY <1>3, <1>5
<1>10. /\ heard \in Attempt /\ heard.results = results /\ heard.proven = proven
       /\ heard.afterFreeze = attempt.afterFreeze /\ heard.pool = attempt.pool
  BY <1>3, <1>7, <1>9 DEF Attempt
<1>11. /\ proven < k + 1
       /\ (\A i \in 1 .. 4 : i < k + 1 => results[i] = "pass") => proven = k
  <2>1. proven < k + 1
    BY <1>3, <1>5, <1>9
  <2>2. ASSUME \A i \in 1 .. 4 : i < k + 1 => results[i] = "pass"
        PROVE  proven = k
    <3>1. outcome = "pass" /\ \A i \in 1 .. 4 : i < k => attempt.results[i] = "pass"
      BY <1>3, <1>8, <2>2
    <3> QED  BY <1>3, <1>5, <1>9, <3>1
  <2> QED  BY <2>1, <2>2
<1>12. attempt.afterFreeze =>
          \A i \in 1 .. 4 : Checks[i].party = "exporter" => results[i] # "pass"
  BY <1>6, <1>8
<1> HIDE DEF heard
<1>13. CASE /\ Retried(outcome, attempt.tries)
            /\ attempt' = [attempt EXCEPT !.pc = "backoff", !.results[k] = outcome]
            /\ wire' = [wire EXCEPT !["release"] = NoCall]
  <2>1. /\ wire' \in [Callers -> Call \cup {NoCall}] /\ wire'["release"] = NoCall
        /\ wire'["desk"] = wire["desk"] /\ wire'["script"] = wire["script"]
    BY <1>13, ClearInv DEF IInv, Callers
  <2>2. attempt.tries < RetryAttempts
    BY <1>13 DEF Retried
  <2>3. /\ attempt' \in Attempt /\ attempt'.pc = "backoff" /\ attempt'.check = k
        /\ attempt'.results = results /\ attempt'.proven = attempt.proven
        /\ attempt'.tries = attempt.tries /\ attempt'.afterFreeze = attempt.afterFreeze
    BY <1>3, <1>7, <1>13 DEF Attempt
  <2>4. (\A i \in 1 .. 4 : i < k => results[i] = "pass") => attempt.proven = k - 1
    BY <1>5, <1>8
  <2>5. ChecksSound'
    BY <1>5, <2>1, <2>2, <2>3, <2>4 DEF ChecksSound, AllowedWasPassed, Busy
  <2>6. StopSound'
    BY <1>1, <1>6, <1>12, <2>1, <2>3 DEF StopSound, FreezeStops, Busy
  <2> QED  BY <1>1, <1>2, <2>1, <2>3, <2>5, <2>6, AttemptFrame DEF Busy
<1>14. CASE /\ k < 4
            /\ attempt' = [heard EXCEPT !.check = k + 1, !.tries = 1]
            /\ AskCheck(k + 1, attempt.pool)
  <2>1. k + 1 \in 1 .. 4 /\ attempt.pool \in Pools \cup {NoPool}
    BY <1>3, <1>14 DEF Attempt
  <2>2. /\ wire' \in [Callers -> Call \cup {NoCall}]
        /\ wire'["release"].what = Checks[k + 1].what
        /\ wire'["release"].party = Checks[k + 1].party
        /\ wire'["release"].reply = Waiting
        /\ wire'["desk"] = wire["desk"] /\ wire'["script"] = wire["script"]
    BY <1>14, <2>1, AskCheckInv DEF IInv
  <2>3. heard.pc = "asking"
    BY <1>3 DEF heard, Attempt
  <2>4. /\ attempt' \in Attempt /\ attempt'.pc = "asking" /\ attempt'.check = k + 1
        /\ attempt'.results = results /\ attempt'.proven = proven
        /\ attempt'.afterFreeze = attempt.afterFreeze
    <3>1. 1 \in 1 .. RetryAttempts
      BY CleanverseAssumption
    <3> QED  BY <1>10, <1>14, <2>1, <2>3, <3>1 DEF Attempt
  <2>5. (k + 1) - 1 = k
    BY <1>3
  <2>6. ChecksSound'
    BY <1>11, <2>2, <2>4, <2>5 DEF ChecksSound, AllowedWasPassed, Waiting
  <2>7. StopSound'
    BY <1>1, <1>6, <1>12, <2>2, <2>4 DEF StopSound, FreezeStops, Waiting
  <2> QED  BY <1>1, <1>2, <2>2, <2>4, <2>6, <2>7, AttemptFrame
<1>15. CASE /\ k = 4
            /\ attempt' = [heard EXCEPT !.pc = IF Clear(heard.results) THEN "allowed"
                                                                        ELSE "denied"]
            /\ wire' = [wire EXCEPT !["release"] = NoCall]
  <2>1. /\ wire' \in [Callers -> Call \cup {NoCall}] /\ wire'["release"] = NoCall
        /\ wire'["desk"] = wire["desk"] /\ wire'["script"] = wire["script"]
    BY <1>15, ClearInv DEF IInv, Callers
  <2>2. /\ attempt' \in Attempt /\ attempt'.pc \in {"allowed", "denied"}
        /\ attempt'.pc = "allowed" => Clear(results)
        /\ attempt'.results = results /\ attempt'.proven = proven
        /\ attempt'.afterFreeze = attempt.afterFreeze
    BY <1>10, <1>15 DEF Attempt
  <2>3. Clear(results) => proven = 4
    BY <1>11, <1>15 DEF Clear
  <2>4. ChecksSound'
    BY <2>1, <2>2, <2>3 DEF ChecksSound, AllowedWasPassed, Busy
  <2>5. Clear(results) => ~attempt.afterFreeze
    BY <1>12 DEF Clear, Checks
  <2>6. StopSound'
    BY <1>1, <1>6, <1>12, <2>1, <2>2, <2>5 DEF StopSound, FreezeStops, Busy
  <2> QED  BY <1>1, <1>2, <2>1, <2>2, <2>4, <2>6, AttemptFrame DEF Busy
<1> QED  BY <1>13, <1>14, <1>15 DEF HearCheck, heard


-----------------------------------------------------------------------------
(* Freezes and scripts.                                                    *)

\* A freeze is asked for.
LEMMA AskFreezeInv ==
    ASSUME IInv, NEW c \in {"desk", "script"}, AskFreeze(c),
           wire'[c] # NoCall, wire'[c].what = "freeze", wire'[c].reply = Waiting,
           \A d \in {"desk", "script"} \ {c} : wire'[d] = wire[d], UNCHANGED record
    PROVE  FreezeSound' /\ firm' \in [asked : SUBSET {"desk", "script"}, told : BOOLEAN]
           /\ firm'.told = firm.told
<1>1. firm \in [asked : SUBSET {"desk", "script"}, told : BOOLEAN]
  BY DEF IInv, TypeOK
<1>2. /\ firm' \in [asked : SUBSET {"desk", "script"}, told : BOOLEAN]
      /\ firm'.asked = firm.asked \cup {c} /\ firm'.told = firm.told
  BY <1>1 DEF AskFreeze
<1>3. \A d \in firm'.asked : /\ Busy(d)' /\ wire'[d].what = "freeze"
                             /\ wire'[d].reply = "done" => record'["exporter"] = "frozen"
  BY <1>1, <1>2 DEF IInv, FreezeSound, Busy, Waiting
<1>4. firm'.told => record'["exporter"] = "frozen"
  BY <1>2 DEF IInv, FreezeSound
<1> QED  BY <1>2, <1>3, <1>4 DEF FreezeSound

\* The operator is told of a freeze that was done, and it is in force.
LEMMA ToldInv ==
    ASSUME IInv, NEW c \in {"desk", "script"},
           firm'.asked = firm.asked \ {c},
           firm'.told => firm.told \/ (c \in firm.asked /\ wire[c].reply = "done"),
           UNCHANGED record,
           \A d \in {"desk", "script"} \ {c} : wire'[d] = wire[d]
    PROVE  FreezeSound'
<1>1. firm.asked \subseteq {"desk", "script"}
  BY DEF IInv, TypeOK
<1>2. firm'.told => record'["exporter"] = "frozen"
  BY DEF IInv, FreezeSound
<1>3. \A d \in firm'.asked : /\ Busy(d)' /\ wire'[d].what = "freeze"
                             /\ wire'[d].reply = "done" => record'["exporter"] = "frozen"
  BY <1>1 DEF IInv, FreezeSound, Busy
<1> QED  BY <1>2, <1>3 DEF FreezeSound

\* What the caller heard decides what the operator is told.
LEMMA ToldType ==
    ASSUME IInv, NEW c \in {"desk", "script"}, NEW frozen, Told(c, frozen)
    PROVE  /\ firm' \in [asked : SUBSET {"desk", "script"}, told : BOOLEAN]
           /\ firm'.asked = firm.asked \ {c}
           /\ firm.told => firm'.told
           /\ firm'.told => firm.told \/ (frozen /\ c \in firm.asked)
<1>1. firm \in [asked : SUBSET {"desk", "script"}, told : BOOLEAN] /\ firm.told \in BOOLEAN
  BY DEF IInv, TypeOK
<1>2. PICK t \in BOOLEAN : t = (firm.told \/ (frozen /\ c \in firm.asked))
  BY <1>1
<1>3. firm' = [asked |-> firm.asked \ {c}, told |-> t]
  BY <1>2 DEF Told
<1> QED  BY <1>1, <1>2, <1>3

\* The freeze handler asks.
LEMMA FreezeExporterInv ==
    ASSUME IInv, FreezeExporter
    PROVE  IInv'
<1>1. /\ wire["desk"] = NoCall /\ writes < MaxWrites /\ writes' = writes + 1
      /\ wire' = [wire EXCEPT !["desk"] = Sent(Ask("freeze", "exporter", NoPool))]
      /\ AskFreeze("desk")
      /\ UNCHANGED <<service, late, dotenv, conf, attempt, script, report>>
  BY DEF FreezeExporter
<1>2. /\ wire' \in [Callers -> Call \cup {NoCall}]
      /\ wire'["desk"] = Sent(Ask("freeze", "exporter", NoPool))
      /\ wire'["release"] = wire["release"] /\ wire'["script"] = wire["script"]
  <2>1. Sent(Ask("freeze", "exporter", NoPool)) \in Call
    BY DEF Sent, Ask, Call, Writes, Parties
  <2> QED  BY <1>1, <2>1 DEF IInv, TypeOK, Callers
<1>3. /\ wire'["desk"] # NoCall /\ wire'["desk"].what = "freeze"
      /\ wire'["desk"].party = "exporter" /\ wire'["desk"].reply = Waiting
  BY <1>2 DEF Sent, Ask, NoCall
<1>4. /\ FreezeSound' /\ firm' \in [asked : SUBSET {"desk", "script"}, told : BOOLEAN]
      /\ firm'.told = firm.told
  BY <1>1, <1>2, <1>3, AskFreezeInv DEF service
<1>5. writes' \in 0 .. MaxWrites
  BY <1>1, CleanverseAssumption DEF IInv, TypeOK
<1>6. TypeOK'
  BY <1>1, <1>2, <1>4, <1>5 DEF IInv, TypeOK, service
<1>7. CallsSound'
  BY <1>1, <1>2, <1>3 DEF IInv, CallsSound, Sound, Busy, Writes
<1>8. ChecksSound' /\ StopSound' /\ ReportSound'
  BY <1>1, <1>2, <1>4, ChecksStay, StopStays, ReportStays
<1> QED  BY <1>4, <1>6, <1>7, <1>8 DEF IInv

\* The freeze handler is answered.
LEMMA HearFreezeInv ==
    ASSUME IInv, NEW outcome, HearFreeze(outcome)
    PROVE  IInv'
<1>1. /\ Hear("desk", outcome) /\ wire' = [wire EXCEPT !["desk"] = NoCall]
      /\ Told("desk", outcome = "done")
      /\ UNCHANGED <<service, dotenv, conf, attempt, script, report, writes>>
  BY DEF HearFreeze, Frozen
<1>2. /\ Busy("desk")
      /\ outcome # NoAnswer => outcome = wire["desk"].reply
      /\ late' \subseteq Request
      /\ \A r \in late' : Sound(r)
  BY <1>1, HearInv DEF IInv, Callers
<1>4. /\ wire' \in [Callers -> Call \cup {NoCall}] /\ wire'["desk"] = NoCall
      /\ wire'["release"] = wire["release"] /\ wire'["script"] = wire["script"]
  BY <1>1, ClearInv DEF IInv, Callers
<1>6. /\ FreezeSound' /\ firm' \in [asked : SUBSET {"desk", "script"}, told : BOOLEAN]
      /\ firm.told => firm'.told
  <2>1. /\ firm' \in [asked : SUBSET {"desk", "script"}, told : BOOLEAN]
        /\ firm'.asked = firm.asked \ {"desk"}
        /\ firm.told => firm'.told
        /\ firm'.told => firm.told \/ (outcome = "done" /\ "desk" \in firm.asked)
    BY <1>1, ToldType
  <2>2. firm'.told => firm.told \/ ("desk" \in firm.asked /\ wire["desk"].reply = "done")
    BY <1>2, <2>1 DEF NoAnswer
  <2>3. UNCHANGED record /\ \A d \in {"desk", "script"} \ {"desk"} : wire'[d] = wire[d]
    BY <1>1, <1>4 DEF service
  <2>4. FreezeSound'
    BY <2>1, <2>2, <2>3, ToldInv
  <2> QED  BY <2>1, <2>4
<1>7. TypeOK'
  BY <1>1, <1>2, <1>4, <1>6 DEF IInv, TypeOK, service
<1>8. CallsSound'
  BY <1>1, <1>2, <1>4 DEF IInv, CallsSound, Sound, Busy
<1>9. ChecksSound' /\ StopSound' /\ ReportSound'
  BY <1>1, <1>4, <1>6, ChecksStay, StopStays, ReportStays
<1> QED  BY <1>6, <1>7, <1>8, <1>9 DEF IInv

\* A script sends its call.
LEMMA RunScriptInv ==
    ASSUME IInv, NEW what \in Writes, NEW party \in Parties, NEW pool \in Pools \cup {NoPool},
           what = "register" => pool # NoPool, what = "freeze" => party = "exporter",
           RunScript(what, party, pool)
    PROVE  IInv'
<1> DEFINE r == Ask(what, party, pool)
<1>1. /\ script = "idle" /\ writes < MaxWrites /\ writes' = writes + 1 /\ script' = what
      /\ wire' = [wire EXCEPT !["script"] = Sent(r)]
      /\ IF what = "freeze" THEN AskFreeze("script") ELSE UNCHANGED firm
      /\ UNCHANGED <<service, late, dotenv, conf, attempt, report>>
  BY DEF RunScript
<1>2. /\ wire' \in [Callers -> Call \cup {NoCall}]
      /\ wire'["script"] = Sent(r)
      /\ wire'["release"] = wire["release"] /\ wire'["desk"] = wire["desk"]
  <2>1. Sent(r) \in Call
    BY DEF Sent, Ask, Call
  <2> QED  BY <1>1, <2>1 DEF IInv, TypeOK, Callers
<1>3. /\ wire'["script"] # NoCall /\ wire'["script"].what = what
      /\ wire'["script"].party = party /\ wire'["script"].pool = pool
      /\ wire'["script"].reply = Waiting
  BY <1>2 DEF Sent, Ask, NoCall, Writes
<1>4. ~Busy("script") /\ what # "idle"
  BY <1>1 DEF IInv, CallsSound, Writes
<1>5. writes' \in 0 .. MaxWrites
  BY <1>1, CleanverseAssumption DEF IInv, TypeOK
<1>6. /\ FreezeSound' /\ firm' \in [asked : SUBSET {"desk", "script"}, told : BOOLEAN]
      /\ firm'.told = firm.told
  <2>1. CASE what = "freeze"
    BY <1>1, <1>2, <1>3, <2>1, AskFreezeInv DEF service
  <2>2. CASE what # "freeze"
    <3>1. firm' = firm /\ firm.asked \subseteq {"desk"}
      BY <1>1, <1>4, <2>2 DEF IInv, TypeOK, FreezeSound
    <3> QED  BY <1>1, <1>2, <3>1 DEF IInv, TypeOK, FreezeSound, Busy, service
  <2> QED  BY <2>1, <2>2
<1>7. TypeOK'
  BY <1>1, <1>2, <1>5, <1>6 DEF IInv, TypeOK, service
<1>8. CallsSound'
  BY <1>1, <1>2, <1>3, <1>4 DEF IInv, CallsSound, Sound, Busy
<1>9. ChecksSound' /\ StopSound' /\ ReportSound'
  BY <1>1, <1>2, <1>6, ChecksStay, StopStays, ReportStays
<1> QED  BY <1>6, <1>7, <1>8, <1>9 DEF IInv

\* The scripts.
LEMMA ScriptsInv ==
    ASSUME IInv,
           \/ DeployEscrow \/ RegisterPool \/ GrantRegisterRole \/ GenerateApass
           \/ FreezeScript \/ UnfreezeScript \/ SetPaused
    PROVE  IInv'
<1>1. /\ dotenv.escrow \in Pools \cup {NoPool} /\ ScriptPool \in Pools \cup {NoPool}
      /\ NoPool \in Pools \cup {NoPool} /\ "exporter" \in Parties
  BY DEF IInv, TypeOK, ScriptPool, Parties
<1>2. /\ {"deploy", "register", "grant", "generate", "freeze", "unfreeze", "pause", "unpause"}
           \subseteq Writes
  BY DEF Writes
<1>3. CASE DeployEscrow
  BY <1>1, <1>2, <1>3, RunScriptInv DEF DeployEscrow
<1>4. CASE RegisterPool
  BY <1>1, <1>2, <1>4, RunScriptInv DEF RegisterPool
<1>5. CASE GrantRegisterRole
  BY <1>1, <1>2, <1>5, RunScriptInv DEF GrantRegisterRole
<1>6. CASE GenerateApass
  BY <1>1, <1>2, <1>6, RunScriptInv DEF GenerateApass
<1>7. CASE FreezeScript
  BY <1>1, <1>2, <1>7, RunScriptInv DEF FreezeScript
<1>8. CASE UnfreezeScript
  BY <1>1, <1>2, <1>8, RunScriptInv DEF UnfreezeScript
<1>9. CASE SetPaused
  BY <1>1, <1>2, <1>9, RunScriptInv DEF SetPaused
<1> QED  BY <1>3, <1>4, <1>5, <1>6, <1>7, <1>8, <1>9

\* A script is answered: it writes down what was done, or asks once more.
LEMMA HearScriptInv ==
    ASSUME IInv, NEW outcome, HearScript(outcome)
    PROVE  IInv'
<1> DEFINE call == wire["script"]
<1>1. /\ Hear("script", outcome)
      /\ UNCHANGED <<service, conf, attempt, report, writes>>
  BY DEF HearScript
<1>2. /\ Busy("script") /\ call \in Call
      /\ outcome # NoAnswer => outcome = call.reply
      /\ late' \subseteq Request
      /\ \A r \in late' : Sound(r)
  BY <1>1, HearInv DEF IInv, Callers
<1>5. CASE /\ call.what = "generate"
           /\ wire' = [wire EXCEPT !["script"] = Sent(Ask("override", call.party, NoPool))]
           /\ UNCHANGED <<script, dotenv, firm>>
  <2>1. /\ wire' \in [Callers -> Call \cup {NoCall}]
        /\ wire'["script"] = Sent(Ask("override", call.party, NoPool))
        /\ wire'["release"] = wire["release"] /\ wire'["desk"] = wire["desk"]
    <3>1. call.party \in Parties
      BY <1>2 DEF Call
    <3>2. Sent(Ask("override", call.party, NoPool)) \in Call
      BY <3>1 DEF Sent, Ask, Call, Writes
    <3> QED  BY <1>5, <3>2 DEF IInv, TypeOK, Callers
  <2>2. /\ wire'["script"] # NoCall /\ wire'["script"].what = "override"
        /\ wire'["script"].party = call.party /\ wire'["script"].reply = Waiting
    BY <2>1 DEF Sent, Ask, NoCall
  <2>3. TypeOK'
    BY <1>1, <1>2, <1>5, <2>1 DEF IInv, TypeOK, service
  <2>4. CallsSound'
    BY <1>1, <1>2, <1>5, <2>1, <2>2 DEF IInv, CallsSound, Sound, Busy, Writes
  <2>5. ChecksSound' /\ StopSound' /\ ReportSound'
    BY <1>1, <1>5, <2>1, ChecksStay, StopStays, ReportStays
  <2>6. FreezeSound'
    <3>1. firm.asked \subseteq {"desk"}
      BY <1>5 DEF IInv, TypeOK, FreezeSound
    <3> QED  BY <1>1, <1>5, <2>1, <3>1 DEF IInv, FreezeSound, Busy, service
  <2> QED  BY <2>3, <2>4, <2>5, <2>6 DEF IInv
<1>6. CASE /\ wire' = [wire EXCEPT !["script"] = NoCall]
           /\ script' = "idle"
           /\ dotenv' = IF outcome = "done" THEN Kept(call.what, call.pool) ELSE dotenv
           /\ Told("script", outcome = "done")
  <2>1. /\ wire' \in [Callers -> Call \cup {NoCall}] /\ wire'["script"] = NoCall
        /\ wire'["release"] = wire["release"] /\ wire'["desk"] = wire["desk"]
    BY <1>6, ClearInv DEF IInv, Callers
  <2>2. /\ FreezeSound' /\ firm' \in [asked : SUBSET {"desk", "script"}, told : BOOLEAN]
        /\ firm.told => firm'.told
    <3>1. /\ firm' \in [asked : SUBSET {"desk", "script"}, told : BOOLEAN]
          /\ firm'.asked = firm.asked \ {"script"}
          /\ firm.told => firm'.told
          /\ firm'.told => firm.told \/ (outcome = "done" /\ "script" \in firm.asked)
      BY <1>6, ToldType
    <3>2. firm'.told => firm.told \/ ("script" \in firm.asked /\ wire["script"].reply = "done")
      BY <1>2, <3>1 DEF NoAnswer
    <3>3. UNCHANGED record /\ \A d \in {"desk", "script"} \ {"script"} : wire'[d] = wire[d]
      BY <1>1, <2>1 DEF service
    <3>4. FreezeSound'
      BY <3>1, <3>2, <3>3, ToldInv
    <3> QED  BY <3>1, <3>4
  <2>3. dotenv' \in [escrow : Pools \cup {NoPool}, pool : Pools \cup {NoPool}]
    <3>1. /\ dotenv \in [escrow : Pools \cup {NoPool}, pool : Pools \cup {NoPool}]
          /\ deployed \in Pools \cup {NoPool} /\ call.pool \in Pools \cup {NoPool}
      BY <1>2, CleanverseAssumption DEF IInv, TypeOK, Pools, NoPool, Call
    <3>2. \/ dotenv' = dotenv
          \/ dotenv' = [dotenv EXCEPT !.escrow = deployed]
          \/ dotenv' = [dotenv EXCEPT !.pool = call.pool]
      BY <1>6 DEF Kept
    <3> QED  BY <3>1, <3>2
  <2>4. TypeOK'
    BY <1>1, <1>2, <1>6, <2>1, <2>2, <2>3 DEF IInv, TypeOK, service
  <2>5. CallsSound'
    BY <1>1, <1>2, <2>1 DEF IInv, CallsSound, Sound, Busy
  <2>6. ChecksSound' /\ StopSound' /\ ReportSound'
    BY <1>1, <2>1, <2>2, ChecksStay, StopStays, ReportStays
  <2> QED  BY <2>2, <2>4, <2>5, <2>6 DEF IInv
<1> QED  BY <1>5, <1>6 DEF HearScript

-----------------------------------------------------------------------------
(* The API starts again, and reports are made.                             *)

\* The configuration is what .env said.
LEMMA BootInv ==
    ASSUME IInv, Boot
    PROVE  IInv'
<1>1. /\ conf' = dotenv
      /\ UNCHANGED <<service, wire, late, dotenv, attempt, script, report, firm, writes>>
  BY DEF Boot
<1>2. /\ conf' \in [escrow : Pools \cup {NoPool}, pool : Pools \cup {NoPool}]
      /\ report' \in Report /\ ReportSound'
  BY <1>1, ReportStays DEF IInv, TypeOK
<1> QED  BY <1>1, <1>2, ElsewhereInv

\* A report begun after a freeze reads a record that is frozen.
LEMMA ReportInv ==
    ASSUME IInv,
           \/ ComplianceRead \/ RunSmoke \/ VerifyPool \/ EndReport
           \/ \E slot \in Slots : ReadSlot(slot)
    PROVE  IInv'
<1>1. UNCHANGED <<service, wire, late, dotenv, conf, attempt, script, firm, writes>>
  BY DEF ComplianceRead, RunSmoke, VerifyPool, EndReport, StartReport, ReadSlot
<1>2. /\ dotenv.pool \in Pools \cup {NoPool} /\ conf.pool \in Pools \cup {NoPool}
      /\ ScriptPool \in Pools \cup {NoPool} /\ firm.told \in BOOLEAN
  BY DEF IInv, TypeOK, ScriptPool
<1>3. NoReport \in Report /\ ~NoReport.afterFreeze /\ \A s \in Slots : NoReport.shows[s] = "unread"
  BY DEF NoReport, Report, Shown, NoPool
<1>4. CASE ComplianceRead \/ RunSmoke \/ VerifyPool \/ EndReport
  <2>1. report' = NoReport \/ \E wants \in SUBSET Slots, pool \in Pools \cup {NoPool} :
            report' = [NoReport EXCEPT !.wants = wants, !.pool = pool, !.afterFreeze = firm.told]
    <3>1. {"exporter", "validator"} \in SUBSET Slots
      BY DEF Slots
    <3> QED  BY <1>2, <1>4, <3>1 DEF ComplianceRead, RunSmoke, VerifyPool, EndReport, StartReport
  <2>2. /\ report' \in Report /\ \A s \in Slots : report'.shows[s] = "unread"
        /\ report'.afterFreeze => firm.told
    BY <1>2, <1>3, <2>1 DEF Report, NoReport
  <2>3. ReportSound'
    BY <1>1, <2>2 DEF ReportSound, FreezeShows, Slots
  <2> QED  BY <1>1, <2>2, <2>3, ElsewhereInv DEF IInv, TypeOK
<1>5. ASSUME NEW slot \in Slots, ReadSlot(slot)
      PROVE  IInv'
  <2>1. report \in Report
    BY DEF IInv, TypeOK
  <2>2. PICK shown \in {Truth(slot, report.pool), Unreadable(slot)} :
           report' = [report EXCEPT !.wants = @ \ {slot}, !.shows[slot] = shown]
    BY <1>5 DEF ReadSlot
  <2>3. /\ shown \in Shown
        /\ slot \in {"exporter", "validator"} /\ record["exporter"] # "active" => shown # "yes"
    BY <2>2 DEF Truth, Unreadable, YesIf, Shown, Parties
  <2>4. /\ report' \in Report /\ report'.afterFreeze = report.afterFreeze
        /\ report'.shows[slot] = shown
        /\ \A s \in Slots \ {slot} : report'.shows[s] = report.shows[s]
    <3>1. /\ [report.shows EXCEPT ![slot] = shown] \in [Slots -> Shown]
          /\ report.wants \ {slot} \in SUBSET Slots
      BY <2>1, <2>3 DEF Report
    <3> QED  BY <2>1, <2>2, <3>1 DEF Report
  <2>5. report.afterFreeze => firm.told /\ record["exporter"] # "active"
    BY DEF IInv, ReportSound, FreezeSound
  <2>6. ReportSound'
    BY <1>1, <2>3, <2>4, <2>5 DEF IInv, ReportSound, FreezeShows, Slots
  <2> QED  BY <1>1, <2>4, <2>6, ElsewhereInv DEF IInv, TypeOK
<1> QED  BY <1>4, <1>5

-----------------------------------------------------------------------------
\* At the start nothing is on the wire.
LEMMA InitInv == Init => IInv
<1> SUFFICES ASSUME Init PROVE IInv
  OBVIOUS
<1>1. /\ attempt = NoAttempt /\ report = NoReport /\ late = {} /\ script = "idle"
      /\ wire = [c \in Callers |-> NoCall] /\ writes = 0 /\ paused = {}
      /\ firm = [asked |-> {}, told |-> FALSE]
      /\ dotenv = [escrow |-> deployed, pool |-> deployed] /\ conf = dotenv
  BY DEF Init
<1>2. /\ record \in [Parties -> {"none", "active", "frozen"}]
      /\ registered \subseteq Pools /\ deployed \in 0 .. MaxPools
      /\ deployed \in Pools \cup {NoPool}
  BY CleanverseAssumption DEF Init, Parties, Pools, NoPool
<1>3. NoReport \in Report
  BY DEF NoReport, Report, Shown, NoPool
<1>4. 0 \in 0 .. MaxWrites
  BY CleanverseAssumption
<1>5. TypeOK
  BY <1>1, <1>2, <1>3, <1>4, NoAttemptType DEF TypeOK
<1>6. CallsSound /\ FreezeSound
  BY <1>1 DEF CallsSound, FreezeSound, Busy, Callers
<1>8. ChecksSound /\ StopSound
  BY <1>1 DEF ChecksSound, StopSound, AllowedWasPassed, FreezeStops, NoAttempt, Busy, Callers
<1>9. ReportSound
  BY <1>1 DEF ReportSound, FreezeShows, NoReport
<1> QED  BY <1>5, <1>6, <1>8, <1>9 DEF IInv

\* The invariant holds of every behaviour.
THEOREM CleanverseInvariant == Spec => []IInv
<1>1. IInv /\ [Next]_vars => IInv'
  <2> SUFFICES ASSUME IInv, [Next]_vars PROVE IInv'
    OBVIOUS
  <2>1. CASE \E c \in Callers : Refuse(c) \/ ServeWrite(c) \/ Submit(c)
    BY <2>1, RefuseInv, ServeWriteInv, SubmitInv
  <2>2. CASE ServeCheck \/ ServeLate
    BY <2>2, ServeCheckInv, ServeLateInv
  <2>3. CASE StartRelease \/ Retry \/ Respond
    BY <2>3, StartReleaseInv, RetryInv, RespondInv
  <2>4. CASE FreezeExporter
    BY <2>4, FreezeExporterInv
  <2>5. CASE \E outcome \in Verdicts \cup Refusals \cup {NoAnswer} :
                HearCheck(outcome) \/ HearFreeze(outcome) \/ HearScript(outcome)
    BY <2>5, HearCheckInv, HearFreezeInv, HearScriptInv
  <2>6. CASE \/ DeployEscrow \/ RegisterPool \/ GrantRegisterRole \/ GenerateApass
             \/ FreezeScript \/ UnfreezeScript \/ SetPaused
    BY <2>6, ScriptsInv
  <2>7. CASE Boot
    BY <2>7, BootInv
  <2>8. CASE \/ ComplianceRead \/ RunSmoke \/ VerifyPool \/ EndReport
             \/ \E slot \in Slots : ReadSlot(slot)
    BY <2>8, ReportInv
  <2>9. CASE UNCHANGED vars
    <3>1. /\ conf' \in [escrow : Pools \cup {NoPool}, pool : Pools \cup {NoPool}]
          /\ report' \in Report /\ ReportSound'
      BY <2>9, ReportStays DEF vars, IInv, TypeOK
    <3> QED  BY <2>9, <3>1, ElsewhereInv DEF vars
  <2> QED
    BY <2>1, <2>2, <2>3, <2>4, <2>5, <2>6, <2>7, <2>8, <2>9 DEF Next
<1> QED  BY <1>1, InitInv, PTL DEF Spec

\* Types: the service, the calls on the wire and late, .env, the attempt and the
\* report.
THEOREM CleanverseTypeCorrect == Spec => []TypeOK
<1>1. IInv => TypeOK
  BY DEF IInv
<1> QED  BY <1>1, CleanverseInvariant, PTL

\* A release is allowed only after the service passed each of its four checks in
\* that attempt (transport.ts post, orchestrator.ts withRetry and decideRelease).
THEOREM AllowedIsPassed == Spec => []AllowedWasPassed
<1>1. IInv => AllowedWasPassed
  BY DEF IInv, ChecksSound
<1> QED  BY <1>1, CleanverseInvariant, PTL

\* After a freeze the operator was told of, and until the service executes a call
\* that undoes it, no attempt begun is allowed (server.ts freeze-exporter,
\* freeze-exporter.ts).
THEOREM ConfirmedFreezeStops == Spec => []FreezeStops
<1>1. IInv => FreezeStops
  BY DEF IInv, StopSound
<1> QED  BY <1>1, CleanverseInvariant, PTL

\* And no report begun shows the exporter as passing (smoke.ts safe, the
\* compliance read of server.ts).
THEOREM ConfirmedFreezeShows == Spec => []FreezeShows
<1>1. IInv => FreezeShows
  BY DEF IInv, ReportSound
<1> QED  BY <1>1, CleanverseInvariant, PTL

=============================================================================
