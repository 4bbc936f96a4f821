# BridgeSure in TLA+

BridgeSure holds the CVA tokens of an import/export trade in an escrow contract and
pays them out in two milestones, each against an authorization that its API server
signs only after both parties pass fresh compliance checks. This directory models the
parts of it that decide whether money moves and what the parties are told about it,
model-checks them with TLC and proves results about them with TLAPS.
Every definition is translated from the source; `PROJECT.json` names the lines each one
stands for.

    tlc -config MCEscrow.cfg MCEscrow          # a run: a configuration and its module
    tlapm BridgeSureEscrowProofs.tla           # the proofs

## The system

| Component | Source | State it keeps | Operations |
|---|---|---|---|
| Escrow contract | `contracts/src/BridgeSureEscrow.sol` | funded and released amounts, released milestones, used nonces, hold flag, token balance | `fund`, `releaseMilestone`, `refund`, `enterHold`, `registerPool` |
| Domain rules | `packages/domain/src/state.ts` | none (rows in, rows out) | create, fund, decide a release, mark it, anchor evidence, hold |
| Trade registry | `apps/api/src/db` | tables of trades, idempotency keys, nonces, releases, audits, disputes, evidence | reads and single-row writes, SQLite or Postgres; conversion of records to rows and back |
| Release orchestrator | `apps/api/src/orchestrator.ts` | none of its own | `release`: key, checks, decision, nonce, signature, five writes |
| Request handlers | `apps/api/src/server.ts` | none of their own | create, fund-intent, evidence, release, hold, freeze, authorization, disputes |
| Automatic release | `apps/api/src/auto-release.ts` | timer, `running` | `tick` over all trades |
| Automatic funding | `apps/api/src/auto-fund.ts` | timer, `running`, last denial, cooldown | `tick`: read chain, approve, deposit, mirror |
| Wallet authentication | `apps/api/src/wallet-auth.ts` | challenges and bearer tokens in memory | challenge, verify, `partyFor` |
| Cleanverse client | `packages/cleanverse` | none | checks with retries, credential and pool writes |
| Scripts | `apps/api/scripts`, `provisioning.ts`, `smoke.ts` | `.env` | deploy, fund, submit a release, register a pool, freeze, pause, report |
| Parties' console | `apps/web/components` (trade page, importer and exporter panel, resolution center, dispute queue) | what each page last read, wallet, tokens, transactions sent | prove, poll, approve, deposit, claim, anchor, flag, sign, resolve |
| Operator console, public pages | the rest of `apps/web` | none that decides | a client of the API |

The server and the contract share no state. They meet in the signed authorization,
which anyone may submit; in the deposit, which the funding job or the importer sends and
which is then mirrored into the registry; and in Cleanverse, whose answers the server
reads over HTTP and the contract through the validator. The browser meets the server in
polls and bearer tokens, and the chain in the wallet it is connected to, which the user
switches at will.

### What is hard here

- The server has no lock and no transaction. A handler reads a row, awaits (the release
  path awaits four remote checks with retries), and writes the *whole* row back.
  Whatever happened to the row meanwhile is lost.
- The five writes of a release (nonce, authorization, row, audit, outcome) are separate;
  a crash falls between any two.
- A client repeats requests; the schedulers repeat them by design.
- A transaction is estimated, sent, mined and confirmed at four different moments.
- The token is foreign code that runs in the middle of `fund`, `releaseMilestone` and
  `refund`; `enterHold` is callable from there.
- An escrow can be funded, released from, refunded and funded again; some counters
  restart and some do not.
- The registry says RELEASED when an authorization is signed; the escrow pays when it is
  submitted, if that happens before it expires.
- A page's callbacks are closures over the render that made them: their answers arrive
  after the wallet, the token, the trade or the list has changed.
- A call to Cleanverse that is given up may have been executed, or be executed later.

### What makes each part correct

- *Escrow*: each milestone paid once, exactly, in order, through the open gate, against
  an unused authorization; custody covers what the books say.
- *Release path*: one authorization per milestone and per key; nothing older than the
  request allows it; a stored outcome is final and backed by records; released is final;
  what is stored can be read back.
- *Settlement*: evidence counts for the milestone the party saw; a success the panel shows
  is of a paid claim; what is served is claimed in the end.
- *Schedulers and panels*: they get there in the end and never act twice.
- *Wallet proofs*: a token is earned by whoever was a party of the trade it opens while it
  was being earned, one per challenge.
- *Disputes*: no resolution without the signatures it requires; writes are recorded for
  the seat they were made in; nothing is shown that nobody did.
- *Compliance*: an allowed release was passed; a confirmed freeze stops releases and shows in
  every report until the service itself undoes it.

## Modules

| Module | What it is | Runs |
|---|---|---|
| `MilestonePayout` | what the escrow promises, without calls, books or signatures | through `escrow` |
| `BridgeSureEscrow` | the contract, the token, the validator and the clock around it | `escrow` |
| `BridgeSureEscrowProofs` | its invariants and its refinement, proved | |
| `WalletAuthProofs` | a lemma for each handler of `WalletAuth` | |
| `SessionProofs`, `ResolutionProofs` | the invariants of the two browsers, on those lemmas | |
| `DisputesProofs` | the invariants of `Disputes`, that `DisputeQueue` implements it, what the queue shows, and that its tables read back | |
| `RegistryProofs` | the invariants of the release path, under its handlers and under the scheduler; that its tables read back; the invariant of `Settlement` and the escrow in it | |
| `FundingProofs` | the invariant of the funding scheduler beside the importer's panel | |
| `CleanverseProofs` | the invariant of the callers of Cleanverse | |
| `TradeDomain` | the domain rules as operators | through `registry*`, `autorelease`, `settlement*` |
| `ReleaseRegistry` | orchestrator and trade handlers over the registry | `registry`, `registry_serial`, `registry_two_keys` |
| `AutoRelease` | the release scheduler, on top of `ReleaseRegistry` | `autorelease` |
| `Settlement` | signing, serving, claiming and submitting authorizations, the escrow's answer, the exporter's panel and evidence desk | `settlement`, `settlement_stranded` |
| `AutoFund` | the funding scheduler, the chain and the operator around it | through `funding` |
| `ImporterPanel` | the importer's panel and `fund-intent`, beside `AutoFund` | `funding` |
| `WalletAuth` | challenges, verifications and tokens | through `session`, `resolution` |
| `TradeSession` | a browser on a trade page, over `WalletAuth` | `session` |
| `Disputes` | filing, signing and resolving at the server | through `disputes` |
| `DisputeQueue` | the operator's queue and multi-sig builder, over `Disputes` | `disputes` |
| `ResolutionCenter` | a browser on the resolution center and the party gate, over `WalletAuth` | `resolution` |
| `RowMapping` | tables, mappers and guards as operators on typed values | through the two below |
| `StoredRows`, `StoredDisputes` | what `ReleaseRegistry` and `Disputes` store, as rows | `registry_serial`, `disputes` |
| `CleanverseClient` | the transport under its callers: releases, freeze handler, scripts, reports | `cleanverse` |

`MC*` modules give the constants values for TLC. Definitions marked `Mutant` are not part
of any specification: each is the definition after it with a plausible mistake, and the
property named for it in `PROJECT.json` must fail when it takes that definition's place.
They show that the property can fail. The type invariants say what each variable holds.
TLC checks the escrow's; the others hold in the configurations of their modules as well,
which leaves those runs to the properties that could fail, and all of them are parts of
the inductive invariants proved below.

### The grain of atomicity

*Contract.* A transaction is atomic and a revert leaves no trace, so a `revert` is a guard.
The token transfer is the one place where foreign code runs, so each value-moving call is
two actions: `FundCall`, `ReleaseCall`, `RefundCall` up to the transfer, `FundReturn`,
`ReleaseReturn`, `RefundReturn` from it on, with the calls in between on the stack
`frames`. Only calls made by that foreign code can come in between; all calls are offered,
and the contract's own guards decide. A transfer that would fail is a guard of the call.

*Server.* Each `await` is a step boundary: the event loop may run any other request
there. Under the Postgres driver every registry call is a network round trip, so every
boundary is real. Under SQLite the driver's calls are synchronous inside, and the real
boundaries are the Cleanverse calls, which are enough for the interleaving that
`registry_two_keys` needs. Between two awaits the code is atomic, and so is the action. A
check-then-insert on a table with a primary key is one step, because the loser of the race
is refused either way. `AbandonAttempt`, `AbandonEdit` and `Restart` end a request at any
step: a rejected database call, or the death of the process; tables persist, memory does
not.

*Chain, for the funding job and the panels.* Sending, mining and reading the receipt are
different steps. Gas estimation refuses what would revert at that moment; what reverts
later does so when mined. The transactions of one account are mined in nonce order.

*Browser.* A callback runs to its next `await`. Its answer is an action of its own, which
reads the state of the render that started it where the code does, and the current state
where the code goes through a ref or a state updater. Polls overlap.

*Cleanverse.* A call is sent, executed by the service and heard, or given up. One given up
may have been executed, or stays on its way (`late`) and is executed at any later moment.

### How the state corresponds

- `BridgeSureEscrow`: the variables carry the names of the contract's storage. A wrong
  field of an authorization is a member of its set `wrong`; a bad signature, domain or
  chain recovers to a wrong signer. `validator`, `policyAccepts` and `now` stand for the
  CVI validator, the token's `canTransfer` and `block.timestamp`. Amounts are naturals:
  the contract's arithmetic is checked, so nothing wraps.
- `TradeDomain`: a row has the status, each milestone's status and evidence, and whether
  its escrow is the configured one. Its amounts are the contract's subject, and its parties,
  which `POST /trades` may write anew, are the variable `parties` of `WalletAuth`.
- `ReleaseRegistry`: `trades`, `reserved` and `results` (the two columns of the
  idempotency table), `nonces`, `releases` and `audits` are the tables. An attempt is a
  `release` call between two awaits, with its local variables. Its field `barred`, not in
  the code, remembers who was never eligible since the request arrived. An editor is any
  other handler between its read, its write and its audit record. Creating a trade under
  an existing label replaces the row, as `POST /trades` does.
- `AutoRelease`: `pass` is what is left of the list a tick iterates over. The other
  handlers run beside it, and so do freezes and reinstatements (`Request`).
- `Settlement`: `row` is the trade's row, `requests` the releases between reading it and
  signing, `decided` the evidence whose key is taken, `authorizations` what was signed, in
  order; `paid` and `passing` are the escrow and its validator. A transaction of anyone but
  the panel is one step, its execution: what it paid is all that anybody sees of it. `page` is what the trade page
  last fetched, `panel` the claim with its transaction, `desk` the evidence desk with the
  value of its select (`Displayed` is what the select shows instead) and the posts under way,
  each with the number of reloads since: `anchoring` is the state of one page and does not
  survive it, the post does. `shownFor`, not in
  the code, remembers what was displayed when the digest of a milestone was posted.
- `AutoFund`: amounts are counted in deposits, because the job always moves the trade's
  total. `claimed`, not in the code, remembers that an operator declared the trade funded.
  `barred` is the token's transfer policy refusing the importer.
- `ImporterPanel`: `panel` is the panel's state and what its queries last returned;
  its `posting` counts the posts to the registry under way, since a refresh may start another.
  `posted`, not in the code, lists the deposits it told the registry of. The browser wallet
  and the server share the importer's account, hence `txs` and its nonces.
- `WalletAuth`: `challenges` and `tokens` are the two maps; `requests` are verifications
  around their `await`, each with the parties of the row as it read them; `parties` is that
  column of the trades, which `Recreate` (`POST /trades` on an existing label) writes anew. A
  signature names its challenge, its trade and its signer. `signatures`, `minted` and `left`
  (when a wallet was last taken out of a row), not in the code, remember all there ever were,
  and a token's `since` when its proof read the row.
- `TradeSession`: `page` is the component's state and refs, `proof` and `polls` are the
  callbacks in flight. `serving` stands for the server's newest valid authorization.
- `ResolutionCenter`: `cache` is `partyTokens`, `jobs` the flagging and the anchoring in
  flight, each with the render it was clicked in; `known` is what its trades' parties were when
  they were loaded. `filed` and `anchored` are the tables, each entry with the `seat` it was
  made in and the time `at` which it was. `Write` is the handler from the party gate to the
  insert: the row it looks up in between is never deleted, so nothing it reads there can be
  stale. What can be is the token, which is not looked at again when a row's parties change; `crossed` remembers the seats for which a
  wallet connected between click and prompt signed.
- `Disputes`: `submitted`, not in the code, remembers who ever asked to sign.
  `DisputeQueue`: `shown` is the page's list, `calls` the builder's calls in flight.
- `RowMapping`: a value is a pair of its JavaScript type and what it holds, so that a
  bigint, its digits and a number differ; a string is digits, JSON text or other text.
- `CleanverseClient`: `record`, `registered`, `paused` and `deployed` are what Cleanverse and
  the chain hold, `late` the calls and the transactions still on their way; `wire` is the call
  of each caller, `attempt` a release, `script` the script at work, `report` what it prints,
  `dotenv` the file and `conf` what the API booted with. The service is external code:
  an A-Pass update is taken to be in force when it is answered, a transaction (registering,
  granting, pausing) may be answered when it is submitted only, and an address that was
  deployed may be that of a creation that reverted. `firm`, not in the code, remembers which
  freezes were asked for and not undone by the service since, and whether one was confirmed.

## What the runs show

| Run | States | Bounds | Result |
|---|---|---|---|
| `escrow` | 43 000 | amounts 1 and 2; deposits of 0, 1 (short), 3 (exact), 4 (over); funds 6; two sound authorizations of each kind and twelve with one fault; time 0..2 | seven properties hold |
| `registry` | 1 040 000 | one trade, two keys, two attempts, one editor, two in flight, one failure | what keys, nonces and write order guarantee under any interleaving |
| `registry_serial` | 88 000 | one request at a time, three keys, any standing at any moment | the documented guarantees hold when nothing overlaps; all rows read back |
| `autorelease` | 1 080 000 | two funded trades, one digest, evidence anchored and either party frozen or reinstated at any time, one failure or restart | liveness unless a key is lost; a nonce per digest; fresh checks |
| `settlement` | 1 720 000 | one funded trade, one digest, two authorizations, a window of one tick, time 0..1, one fault | no evidence for one milestone while the other is displayed; what the panel's success says, and the one case where it says too much; served is claimed |
| `funding` | 1 500 000 | three events among a transfer, a refund, a failure or reload, and two wallet signatures; the token's policy changing at will | one deposit by the job; the registry follows the chain; the panel mirrors its own deposits once |
| `session` | 533 000 | a page and a repeater of old signatures; two trades, three wallets, two switches, one fault (a trade created again for other parties is one), four challenges, time 0..1 | tokens are earned; the exporter is offered the claim |
| `resolution` | 2 500 000 | two trades, two wallets, three switches, one fault (a trade created again for other parties is one), two challenges, one dispute, time 0..1 | writes are recorded for somebody who proved to be a party, and for the right seat |
| `disputes` | 380 000 | one dispute, two signers, thresholds 1 and 2, two requests in flight | no resolution without enough signers, none reopened; the queue shows nothing unreal |
| `cleanverse` | 1 340 000 | two parties, two pools, two attempts a check, two scripts or freezes | what a lost, late or refused call cannot do |

Why the bounds are enough: an escrow has two milestones, and two authorizations of each kind
with enough funds for two deposits give release, refund, funding and release again. For
lost updates and races two actors suffice, since every one of them is a pair of a stale
read and a write. One trade suffices where nothing couples trades; in `AutoRelease` a tick
couples them, in the browser a token or a form may be used for the wrong one, and there
are two. Three wallets are the two parties and a
bystander; in `resolution` the trade that is not a wallet's own makes it the bystander. A lifetime of zero ticks with
a clock of one makes tokens, challenges and authorizations valid, then expired, and each
can be renewed after. The second attempt of a check is the first retry and the last.
`MaxNonce` is at least the number of keys that can be used for a trade, so no attempt
waits for a nonce because of the bound, and `MaxSent` is never reached in `funding`.

`session`, `resolution`, `settlement`, `funding` and `cleanverse` set
`CHECK_DEADLOCK FALSE`: with the bounded events used up and everything answered, nothing is
left to do. Symmetry is used only for keys, attempts and editors, which are compared and
never ordered, and in no run with a liveness property.

### Properties worth a remark

- `ImplementsPayout`: the escrow refines `MilestonePayout`, its tokens mapped to the pot,
  a pending payout counted as not yet paid. It says in one formula that tokens leave only
  in the ways promised, and each time against an authorization never used before.
- `CompleteIsFinal`: the status COMPLETE is a comparison of two sums, and a refund resets
  one of them; it is final only because the guards of all calls together make it so.
- `RowConsistent`: stale writes lose updates, but they always write a row that some serial
  history could have left. It fails for the seemingly better save onto the current row.
- `FreshlyChecked`: a party that was ineligible all through the request stops it. It is
  the most that four checks made at four moments can promise.
- `AuthorizedOnce` and `ReleasedIsFinal` hold for requests served one at a time, and are
  checked that way, in `registry_serial`; both fail when requests overlap, as the
  next section says.
- `StoredReadsBack`, `DisputesReadBack`: the guards of `mappers.ts` list every status and
  reason a second time, and one row they refuse makes every listing throw; what any
  reachable write stores passes them and comes back equal.
- `EvidenceDecidedUnlessBlocked`: liveness of the release scheduler, with the exact
  exception: the key of this trade, or of one listed before it, was lost with a dead
  attempt.
- `FundedEventually`: the job always reconciles, also after dying between the deposit and
  its mirror, after timeouts with the deposit still pending, and after restarts; the
  importer's own transactions do not disturb it.
- `EvidenceWhereShown`: the page can post milestone 1 while it displays 2, but only when 1
  has been released, and then the domain rule does not touch the row. It can also post 2
  while its list is empty, and there the rule may: a release of milestone 1 in flight can
  write back a row in which 2 is pending again. So the property allows an empty list for a
  milestone that was signed for, and never the other milestone. This takes three
  authorizations, where the run allows two; the theorem is for any number. Like the runs of the
  release path it has an anchor's read and write in one step, because what two of them can do
  to one another there is the subject of `ReleaseRegistry`.
- `ServedIsClaimed`: two authorizations may be signed and only the newest is served;
  whatever the server goes on serving, and the escrow would pay, is paid from the panel,
  unless the panel already claimed another one.
- `ClaimOffered`: the page's chain of proof, token and poll recovers from expiry, restarts
  and lost answers by itself, with the exceptions its comments do not mention.
- `SuccessShownIsPaid`: the panel keeps the transaction of its first claim for ever
  (`exporter-panel.tsx:63`), so the success is shown again under the next authorization. The
  property says how far that goes: its own claim was paid, and so was the milestone it now
  stands under, except when that is the second and the claim was of the first.
- `ResolvedStays`: two resolutions in flight have both passed the check for RESOLVED, and the
  later write replaces the earlier, so the value is promised to stay only once none is under
  way (`Settled`). The mutant, a `resolve` without that check, breaks this.
- `RecordedForParties`: a token names a trade and a wallet and is never compared with the row
  again (`wallet-auth.ts:127-136`), while `POST /trades` may write other parties into it. So a
  dispute can be recorded for a wallet that is no longer a party, for as long as the token
  lives (half an hour). What is promised is that the wallet holds a good token of that very
  trade, and was a party of it when its proof read the row, or later.
- `RecordedForSeat`: caching by wallet and trade does keep seats apart, except for a
  switch between click and prompt.
- `FreezeStops`, `FreezeShows`: an attempt begun after a confirmed freeze is denied, and a
  report begun after it does not show the exporter as passing, until the service executes a
  call that reactivates the credential. That call may be an unfreeze its script gave up before
  the freeze was asked for: it then undoes the freeze without anybody asking, and nothing in
  the code can tell. The properties end there and say nothing of that case.

### Fairness

`BridgeSureEscrow`, `ReleaseRegistry`, `DisputeQueue`, `ResolutionCenter` and
`CleanverseClient` are checked for safety and assume none. `AutoRelease` and `AutoFund`
assume weak fairness of the tick (the interval keeps firing, and `running` is cleared in a
`finally`), of the steps of the running job (the Cleanverse client has a timeout and counts
its retries; RPC calls time out), of the end of the cooldown (time passes) and of mining;
`ImporterPanel` adds nothing to `AutoFund`'s. `TradeSession` assumes that the interval
fires, that requests are answered or fail, and that someone answers the wallet's prompt.
`Settlement` assumes that the page polls, that transactions are mined, and, for what it
says of the exporter, that the exporter clicks what is offered and confirms it. Nothing is
assumed of operators, other parties, failures or restarts: those are bounded instead,
which says that failures stop some day.

## Disagreements

Each of these runs checks one statement of the documents or comments and finds it violated.

| Run | Statement | What happens |
|---|---|---|
| `registry_two_keys` | a milestone releases at most once | two requests under different keys pass the decision on the same row and sign twice; the contract pays once |
| `settlement_stranded` | an expired authorization can be asked for again | the milestone counts as RELEASED from the signature on, and `decideRelease` denies what is not PENDING: it stays unpaid |

Also seen while modelling, and not given a run of their own.

*Escrow.* `releaseMilestone` never reads `held`, although HOLD should end only in a refund
(`docs/engineering/technical-design.md:35`). `releasedAmount` survives a refund, so after
release, refund, new deposit and refund the amount of the released milestone stays in the
contract (`BridgeSureEscrow.sol:279` promises the full amount). `refund` calls no validator
(`docs/planning/contract-spec.md:106` calls it the fresh-check path). A deposit of exactly
the first milestone makes the contract report COMPLETE after one release.

*Release path.* An evidence anchor in flight writes back the row from before a release, so
the milestone is pending again (`state.ts:105-106`); a release in flight overwrites a hold.
A request that dies between `recordRelease` and `saveTrade` leaves a signed authorization
and a pending milestone; a crash before `appendAudit` leaves a signed release out of the
trail. An attempt that loses the race for a nonce, or dies, leaves its key reserved without
an outcome; for the automatic scheduler that key is the digest's, so every later tick
throws at it and never reaches the trades behind it (`auto-release.ts:76` says the next
tick retries), and anchoring the digest again after an unfreeze does not re-attempt either.
A key used again for another milestone is answered with the first one's outcome
(`orchestrator.ts:117`). `POST /trades` with an existing label resets that trade. Once
submitted, an authorization goes on being served, although `server.ts:533` says "not yet
submitted on-chain".

*Funding.* The receipt's status is not read: a deposit that reverts when mined is mirrored
as FUNDED (`auto-fund.ts:175`; `:36-38` says a reverting write is retried). `fund-intent` and
the job can both audit one deposit. A denial whose audit write fails is not recorded again,
and alternating reasons are recorded each time.

*Disputes.* Concurrent signatures overwrite one another, also after the dispute is
resolved, and a second resolution in flight replaces the first, approved by rejected
(`server.ts:685-687` means to refuse it with 409). A dispute can be filed with a token whose
holder `POST /trades` has meanwhile taken out of the trade (`server.ts:581` says only the
trade's importer or exporter may). A late list can show a
resolved dispute as open; `busy` is shared by all disputes.

*Browser.* A late 401 drops a token that was renewed meanwhile, and a proof in flight keeps
a switched wallet from proving itself (`trade-detail.tsx:89, 97-98`). The exporter panel
never resets its transaction hash, so the success of one claim is shown, and announced as the
other milestone's, under the next authorization, unpaid or not (`exporter-panel.tsx:88-92,
282-292`), and that authorization cannot be claimed from the page before a reload. The evidence desk posts milestone 1 while it
displays 2 and is answered 201, and posts milestone 2 while its list is empty, which counts
if a stale release write has made 2 pending again (`trade-detail.tsx:327`). In the resolution center a wallet
switched between click and prompt has its token cached for the other seat
(`resolution-center.tsx:68-69`), and a digest or a chosen trade outlives the form it was
chosen in. The operator's page can reload and act on the trade selected at an earlier
click (`admin-dashboard.tsx:151`).

*Compliance.* An unfreeze given up at the timeout (`transport.ts:119`) and executed late undoes
a freeze that was confirmed after it, which was to make the next release fail closed
(`server.ts:441-443`). `deploy-escrow.ts:79-85` keeps the address of a receipt whose status it
does not read, where `:10` says "on success"; `register-pool.ts:82-84` keeps the pool when its
transaction is submitted, where `:20` says "after a successful registration"; a script that
dies between a deployment and the line for it loses the address. A freeze whose reply is lost answers 502, is in force, and leaves no audit
record (`server.ts:441-454`). After a new deployment `.env` still names the old escrow as the
pool until a new registration (`register-pool.ts:21`). The smoke report prints an unreadable
token list as MISSING and an unreadable record as none (`smoke.ts:121, 191`).

## What is proved

The theorems hold for every value of the constants; `PROJECT.json` lists those a reader
should know of.

`BridgeSureEscrowProofs` proves, for all amounts, deposits, authorizations and initial
holds, from `AmountsAssumption` alone (the milestone amounts are positive, the rest are
naturals, the authorizations are well-typed):

- `TypeCorrect`, `PaymentsExact`, `SequenceKept`, `CustodyKept`: the invariants of `escrow`;
- `DepositOnce`, `CompletionFinal`: its action properties;
- `Refinement`: the contract implements `MilestonePayout`.

`ExporterPaidExactly` and `CustodyCovers` speak of the moments between transactions; they
are not inductive, because a step out of the middle of a call says nothing about what was
true before it. `IInv` adds what holds there: at most one call waits (`OneCall`, the
reentrancy guard); a waiting `fund` still sees an unfunded trade (`PendingFund`); a
waiting release has marked its milestone and spent its nonce, its amount is that
milestone's and the gate is open (`PendingRelease`); a waiting refund has closed the books
(`PendingRefund`); and accounting and custody are stated with the amount still to come.
There is one lemma per action; `QuietStepInv` covers the actions that touch neither books
nor balances. For the refinement, each Call maps to a stutter, each Return to `Deposit`,
`Pay` or `Refund`, and the rest to a stutter or to the gate moving.

`WalletAuthProofs` has one lemma per handler of the wallet proofs, for any number of
trades, wallets, callers and challenges, and for trades created again with other parties at
any moment, from `WalletAuthAssumption` (the parties a trade is created for are wallets, the
bounds and lifetimes are naturals). That a token was earned follows a verification across its
`await`: the parties it read were the row's then, so whoever is among them is a party still or
left the row since (`RowsRead`, `RowsStay`; `EarnedStays` for the tokens). That a challenge buys one token is not
inductive: `AuthInv` adds that challenges are numbered in order and signatures name the
trade their challenge was issued for (`SignedAsIssued`), that a verification past its
`await` is the only one left for its challenge (`RecoveringAlone`), and that a spent
challenge is gone (`MintedSpent`). Two modules cite these lemmas:

- `SessionProofs` adds that the wallet is only prompted with what the server issued
  (`PromptGenuine`), and proves `OneToken` and `Earned` of `TradeSession`, with
  `TypeCorrect`;
- `ResolutionProofs` follows a token through cache and jobs into the tables: whoever holds
  it in a seat either signed for it there or is known to have crossed (`Held`, in
  `CacheSound` and `JobsSound`), and a dispute keeps the number its evidence refers to
  (`Numbered`). It proves `Parties` and `OwnSeat` of `ResolutionCenter`, with `TypeCorrect`.

A refused token is gone from the whole cache (`RefusedIsForgotten`) only because a token is
in one cell of it. That takes a second invariant, `Forgotten`: no two cells hold one token
(`CachedOnce`), a job bears a cached token only in the seat it was cached for
(`BorneAsCached`), and an answer not yet heard carries a token that nobody holds
(`AnswersFresh`), for which `MintFresh` of `WalletAuthProofs` is needed.

`DisputesProofs` proves `SignaturesRequired` and `ResolutionFinal`, for any number of
disputes, signers, thresholds and requests. `ResolutionFinal` has two parts: nothing reopens a
dispute (`StepKeepsResolved`), and its resolution stays once no other is past its checks
(`StepKeepsSettled`). Signers in the table, and in a write still to
come, were asked for (`SignersAsked`, `PendingSigners`), and a resolution that is about to
be written was due when it was checked and cannot become undue (`PendingResolution`),
because nobody's request to sign is ever taken back. The proofs are about `Disputes`;
`QueueImplements` shows that every behaviour of the console's queue over it is one of
`Disputes`, and carries them over. `QueueShowsReal` is about the queue itself: every copy
of a dispute on its way to the operator (in an answer, in a listing, on the page) shows
signers who asked and a resolution that was written (`QueueInv`), however late it arrives.

`RegistryProofs` is about the release path, for any number of trades, keys, parties and
requests in flight, from `RegistryAssumption` (standings are sets of parties, handlers are
operations, the bounds are naturals). The promises are about tables that five writes of
each request fill at five moments, so the invariant `IInv` follows a request through them:

- the key it reserved is its own and has no outcome yet, and until `recordRelease` nothing
  is authorized under it (`KeySound`; `Apart` for any two requests);
- past `consumeNonce` its nonce is taken and no authorization carries it; past
  `recordRelease` its authorization is there; past `appendAudit` its outcome is in the
  trail (`DecisionSound`);
- while it asks, none of the parties found eligible so far has been barred since the
  request arrived (`CheckSound`);
- its copy of the row, and that of every editor, is consistent and marks nothing released
  that is not authorized (`RowsSound`). This is why a stale write loses updates and still
  leaves a row some serial history could have left.

From it follow `KeyBuysOnce`, `NoncesDiffer`, `OutcomesBacked`, `RowsConsistent`,
`ReleasedIsAuthorized`, and by its steps `OutcomesFinal` and `ChecksFresh`. All of them hold
across failures and restarts, which the invariant does not mention because tables persist.
`AutoKeepsPromises` carries the state properties over to the scheduler, which chooses
milestone and key by a listed row that may be stale (`AutoInv`). Its steps are those of the
handlers, except that a restart ends every request at once: `SchedulerIsACaller` says so,
with `Crash` for that step, and `AutoOutcomesFinal` and `AutoChecksFresh` take the action
properties across it, with parties frozen and reinstated beside every tick. `AutoRelease` starts from funded trades, which `ReleaseRegistry`
reaches and does not start from, so this is said of the steps and not as a refinement.
`OneNoncePerEvidence` counts: the nonces taken, and the one still owed to the scheduler's
key, are never more than the keys.

`SeriallyAuthorizedOnce` and `SeriallyReleasedIsFinal` have a hypothesis, `Serial`: one
request in flight, no failure, no `POST /trades` onto an existing label, finitely many
callers (to count them). They say nothing of crashes: a request that dies between
`recordRelease` and `saveTrade` lets the next key sign again. `MCRegistrySerial.cfg` satisfies
`Serial`. `AuthorizedOnce` needs each of
the first three, as the disagreements above show: the documents' promise is one the code
keeps only for callers that take turns and finish. Their invariant adds that a request before its
write has the row as it is (`RowsCurrent`) and that what is authorized is marked, or about
to be (`AuthorizedIsMarked`).

`TablesReadBack` and `AutoTablesReadBack` (and `DisputesComeBack` of `DisputesProofs`, for
any signers and thresholds) prove that what is stored reads back, for every trade, digest,
nonce and reason code, where the runs enumerate those of small sets. The argument goes
column by column: whatever a writer puts in a field of an audit record is of that field's
kind (`FieldOK`, `WellMade`), a record of such fields passes the table's constraints and the
reader's guard, and the reader undoes the writer (`AuditTrip`, `TradeTrip`, `AuthTrip`,
`AllowedTrip`, `DeniedTrip`, `DisputeTrip`, `EvidenceTrip`). For the steps it needs only that
rows, outcomes and authorizations are well-typed after them (`StepStoresReadable`).

`RegistryProofs` also has the results about `Settlement`, for any window, clock, digests and
number of authorizations and faults, from `SettlementAssumption` (the bounds are naturals) and
`DigestsAssumption` of `TradeDomain` (a digest is neither the empty nor the compliance
value). `SettlementInv` follows the evidence in one direction and the authorization in the
other:

- every row, stored or read earlier by a release still in flight, marks released only what
  was signed for, in order, and has the evidence of a displayed milestone (`SettlementRows`);
- what the page does not list has been signed for, and milestone 1, once off the list, is
  never pending again (`PageSound`), because a release that signs 2 has read 1 as released
  and one that signs 1 marks it. Milestone 2 has no such guarantee, hence the exception in
  `EvidenceWhereShown`;
- a post on its way names what was displayed, or a milestone whose row will not take it
  (`PostSound`);
- the numbers that page, wallet prompt and transaction hold are of signed authorizations,
  and a claim that succeeded was paid, by whomever (`ClaimSound`); if the second milestone is
  paid so is the first, which leaves one case in which the milestone displayed is not.

`EvidenceIsWhereShown` and `ClaimsPaid` follow. `ChainImplements` relates the two models of
the escrow: the few lines of chain in `Settlement` step as `MilestonePayout` does from the
deposit on (two payments of 1, a paid milestone being its spent nonce), and `Refinement`
proves the same abstract specification of the contract.

`FundingProofs` proves `DepositsCounted`, `FundedAfterMining` and `DepositsToldOnce`, for any
funds, transfers, refunds, failures and signatures, from the naturals in
`AutoFundAssumption` and `PanelAssumption`. `NoDoubleDeposit` follows from the escrow's
books (`EscrowSound`: deposits are refunds plus the one it holds). That FUNDED means mined
needs to know what each place that writes it has seen: the job waits for a
deposit it sent and mirrors one that was mined (`JobSound`), the panel posts and the
handler saves for a deposit that succeeded (`PanelSound`, `RowSound`), and since the one
list of transactions only grows and each is mined once (`Grows`), nothing seen is undone.

`CleanverseProofs` proves `AllowedIsPassed`, `ConfirmedFreezeStops` and
`ConfirmedFreezeShows`, for any number of retries, pools and writes. Its invariant says which
call each caller can have on the wire (`CallsSound`) and ties the reply on the wire to what the
service holds: a check that will be read as passed was passed (`ChecksSound`), a freeze that
was confirmed, or can still be, is in force (`FreezeSound`), so an attempt begun after it passes
none of the exporter's checks (`StopSound`) and a report shows none of them as passed
(`ReportSound`). What undoes a freeze is its execution by the service (`Undo`), whoever asked
for it and whenever; calls that are late are therefore no special case of the argument.
`CleanverseAssumption` asks for one pool and one attempt at least: without a retry count above
zero a check is never made. Nothing is proved of `.env`: what the scripts keep there is what
they were told of, and the disagreements above say how little that is.

### Only model-checked

- Liveness: `ClaimOffered`, `ServedIsClaimed`, `FundedEventually`,
  `EvidenceDecidedUnlessBlocked`. The prover does not reason about fairness and ENABLED.

Every other property of a passing run is stated by a theorem. What the two violated runs
show is a counterexample and not a theorem.

## What is not modelled

- The operator console, the landing page and the dashboards: lists of what the API answers.
  Their requests are offered by the modules of the handlers. A late answer of the operator
  console (above) is the one behaviour a module of its own would be about.
- Encryption and redaction of Cleanverse calls, hashing, EIP-712 encoding, choosing a
  database driver: conversions and wiring without state. Hashing and signatures are
  whether fields agree; a document is its digest.
- `refund`, `authReplay`, `recordAttempt` and the `invariant*` helpers of `state.ts`, which
  only tests call; two of the invariants are stated as `RowConsistent`.
- Transaction hashes (`recordTxHash` has no caller), listings, layout and texts.
- `milestoneBlocked`, `holdDeadline` and `holdRequester` of the contract: no decision reads
  them.
- The audit feed of funding denials.

## What is left

1. A module of the operator console, for its late reloads, the one hazard of the browser
   without a property.
2. Trails: that an edit whose process lives is audited once, and a funding denial once per
   change of reason, would need the audit feed as state.
3. `AutoRelease` as an implementation of `ReleaseRegistry` rather than a caller of it: this
   needs a history that funds the trades it starts from, and a restart split into one step
   per request.
4. Liveness stays with TLC as long as the prover does not reason about ENABLED.
