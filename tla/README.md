# x402B in TLA+

A verification project for the escrow scheme of x402B: what the resource
server, the facilitator and the buyer's client do to one exchange on the Boson
escrow contract, and what they sign and check on the way, modelled from the
sources under `src/typescript/packages/` (paths below are relative to it, unless
they start with `examples/`), checked with TLC and, where it matters most, proved
with TLAPS.

## The system

A buyer pays for a resource by signing a meta-transaction. The *resource server*
answers 402 with payment requirements, validates the payment that comes back,
relays it through a *facilitator*, verifies the on-chain outcome with an
*exchange reader*, and delivers through *fulfillment channels*. Two commit
actions exist: `createOfferAndCommit` (Flow A: the exchange is COMMITTED, the
buyer redeems later and brings the delivery data then) and
`createOfferCommitAndRedeem` (Flow B: at once REDEEMED and delivered). After the
commit either side moves the exchange on (redeem, complete, dispute), each time
with a signed meta-transaction relayed the same way; and who has earned
something withdraws it from the contract, keyed by an account (entity) instead
of an exchange.

| part | state | operations | talks to |
|---|---|---|---|
| state machine (`core/src/state-machine`) | none | transition tables, post-states | used by everyone |
| typed data (`core/src/eip712`) | none | what is signed and recovered | client, server, facilitator |
| escrow contract, token contracts, reader, subgraph (external) | the exchange, balances; what is indexed of them | execute a meta-transaction once per nonce; read | facilitator, server, client |
| next actions (`actions/`) | none | registry, derive `next[]` and the fallback | challenge, handlers |
| challenge (`server/src/challenge`) | none | requirements, the seller's signature over the offer | resource server |
| offer cache (`examples/resource-server/src/app.ts`) | a Map from session ids to offers being built or built | `resolveRequirements`, expiry, eviction | challenge, middleware |
| commit handlers (`server/src/handlers/commit-and-redeem.ts`) | option store, recovery store, channels | decode, validate, settle, verify, store options or deliver | facilitator client, reader, stores, channels |
| payload validation (`server/src/validate`) | none | rules 1 to 13 | commit handlers |
| post-commit handlers (`perform-action.ts`) | the stores, under the exchange's mutex | gate, pre-read, perform action, verify, deliver | the same |
| entity handlers (`withdraw-funds.ts`, `available-funds.ts`) | none | resolve the entity, relay or read | subgraph, facilitator client |
| recovery (`server.ts`) | recovery store | `list`, `replay` (without the mutex) | stores, channels |
| keyed mutex (`concurrency.ts`) | a Map of promise chains | `runExclusive` | post-commit handlers |
| facilitator client (`server/src/facilitator/client.ts`) | attempts of a call | `settle`, `performAction` with timer and retries | facilitator over HTTP |
| facilitator (`facilitator/`, `facilitator-express/`) | none of its own; the relayer's transactions | `verify`, `settle`, `performAction` | chain |
| buyer's client (`client/`) | attempt log | `handle402`, `signAction`, withdrawal signatures, `submitAction` | server, facilitator, subgraph |
| fetch wrapper (`client-fetch`), paywall (`paywall/`) | one purchase | the 402 loop, the former with a facilitator fallback | server, facilitator |
| fulfillment (`fulfillment/`) | per-channel Map of buyer data | `onCommit`, `onFulfill`, `validate`; `negotiateFulfillment` on the buyer's side | handlers, client |
| shopping agents (`examples/facet-store`) | one checkout run | quote, session, COMPLETE, polling, redeem | a shop's terminal |

What is hard here is not any single function. Every `await` is a point where
another request, a replay, a restart or somebody else's transaction comes in
between; an answer that does not come says nothing about what was executed; the
reader and the subgraph lag; the commit route has no mutex, the recovery worker
does not take the one there is; several stores have to agree with the chain,
which cannot be rolled back; the same payload is checked by two parties with
code and clocks of their own; and what the buyer signs is put together from
things (an offer, a token nonce, a balance, an account) that may have changed by
the time it is used. `PROJECT.json` lists these hazards line by line with the
properties that watch them.

What makes each part correct:

* purchase: a 200 is a payment that landed through the channel it names; a 4xx,
  or a failure before X-PAYMENT was sent, means nothing was or will be paid (a 5xx, and
  the exception that a broken retry is without the fallback, say nothing); an honest payment is refused
  for named reasons outside the payload only; it lands before its timeout; the
  retry is held against the offer of the challenge; the facilitator takes
  nothing the server would refuse.
* post-commit handlers: the delivery data kept, sent or confirmed is that of the
  wallet whose redeem was executed; only advertised channels get it; a
  recovery entry says truly how far the work has got; a 200 is truthful; every
  request is answered, also behind one that threw, unless a relay call never ends.
* commit handlers: one payment is granted once, however often it is presented;
  the redeem gate is seeded before the buyer is answered; the same truthfulness.
* signed actions and withdrawals: an ok is this attempt's own execution, on the
  entity it names; "withdraw all" takes all it was shown; the relayer sends the
  call it has simulated.
* mutex: exclusion and FIFO per key, no pinned key, no leaked entry.
* facilitator client and facilitator: "ok" means this call's own execution, at
  most once per payload; every call ends or hangs on a response's body.
* `submitAction`: its result belongs to the channel it names; the walk ends or
  hangs on a response's body.
* agents: "nothing moved" is true for good; a run pays once at most; nothing is
  signed outside the guardrails.

## The modules

    StateMachine <- Wire <- Envelope <- BuyerClient <- PaymentRules
    PaymentRules, SessionCache <- Payment <- MC_Payment
    PaymentRules <- PerformAction <- Actions <- MC_Actions
    BuyerClient <- Checkout <- MC_Checkout
    Payment, Actions, Checkout <- Payment_proofs, Actions_proofs, Checkout_proofs
    StateMachine <- EscrowChain <- RedeemServer <- MC_RedeemServer, RedeemServer_proofs
                                <- CommitServer <- MC_CommitServer, CommitServer_proofs
    RelayContract <= Relay <- MC_Relay, Relay_proofs      (<= is implemented by)
    RelayContract <= RedeemServer (RedeemServer_proofs)
    RelayContract (instantiated by) CommitServer, Submit, Payment, Actions
    FifoMutex <= KeyedMutex <- MC_KeyedMutex, KeyedMutex_proofs
    Submit <- MC_Submit, Submit_proofs

### Functions of the protocol

`StateMachine` transcribes the tables of `core`. `Wire` has what is signed: every
EIP-712 message, the calldata of a meta-transaction and the offer, as records. A
signature is `[by, over, v, spelling]`, so recovering one over another message
gives nobody, and the two spellings of `v` and of hex digits, which the two
checkers treat differently, are kept. `Envelope` derives `next[]` (a set of entries: the
order of the tables matters only where the first of the two commit actions is
taken, `Preferred`) and the requirements of a challenge, with the conditions a server configuration has to
meet (`ValidConfig`) and the wire format of requirements. `BuyerClient` is what
the client decides and signs: action, strategy, fulfillment (its own or as
`negotiateFulfillment` chooses), cap, deadlines, every authorization. `PaymentRules` has
both checkers side by side, `validatePaymentPayload` (server) and `verify`
(facilitator), and the call that `settle` simulates and submits. `PerformAction` is
the same for the actions after the commit. None of them has state; each is
checked through the systems built from it.

### Systems

`Payment` is one purchase: the challenge, the wallet's two prompts, the retry, the
server's middleware and commit handler up to its answer, and the wrapper's
fallback or the paywall's button. Server and wrapper are two callers of one
`RelayContract`; the facilitator verifies and simulates for each of them and
what passed may land at any later time, if the contract still takes it
(`ContractAccepts`). Around them: time and the skew of two clocks, the buyer's
other transactions (`PaysElsewhere`), the indexer, other sessions, failing builds
and a restart. The offers come from `SessionCache`, the Map of the example server
call by call: an offer is the index of its build in `builds`, and the Map's insertion
order is kept in each entry as the keys that were inserted `after` it. A `setup` says who the
buyer is, what the server advertises and which one trouble occurs.

`Actions` is two attempts at one signed action, from the reads before the signature
to the answer: withdrawals on the server's route (which resolves the entity
again) or straight to the facilitator, with the balances read from the subgraph
or from the server's `available-funds` route, and every action of the buyer on an
exchange straight to the facilitator. `seen` is the subgraph's copy of accounts
and balances.

`Checkout` is the two example agents against a terminal that may answer anything, a
2xx without a commit included, and commit, or not, what it was handed at any
time. The scripts look at the status and the id only, so what they say after a 2xx
is the terminal's word, and no property is stated about it.

`EscrowChain` adds the exchange: `history` is the sequence of states it has gone
through and `seen` how many of them the reader has indexed (0 is "no such
exchange"). The contract is taken to obey the shared state machine. Voucher and
dispute timeouts and the resolver's decision are not actions of the repository
and do not occur.

`RedeemServer` is the server after Flow A's commit, for one exchange.
`queue` is the exchange's mutex (its head runs), `pc[r]` the point of the handler
request `r` has reached (each label is the code up to the next await),
`optionStore` and `recovery` are the two stores' values for the exchange,
`target` what each channel has stored, `delivered` what was dispatched, `rpc` and
`rentry` the replay calls and the entry each read. Buyer data is represented by
the request that brought it, so that "whose data" can be asked. The constant
`Environment` says what may go wrong around the server:

| member | meaning |
|---|---|
| `elsewhere` | the exchange is acted on without this server |
| `lostAnswer` | a meta-transaction executes although the call failed |
| `ioFault` | one store or reader call rejects |
| `crash` | the process restarts once, perhaps with other adapters |
| `volatileStores`, `volatileChannels` | these are in-memory Maps |
| `anytimeReplay` | operators replay while requests are in flight |
| `ambiguousFailure` | a dispatch that reports failure may have arrived |
| `unseeded` | the commit handler answered 502 before it stored the options |

`CommitServer` is the commit route for one signed payment of either flow, with any
number of requests that carry it (their fulfillment choices travel beside the
signature and may differ), settlements outside the server and the redeem of the
exchange it creates. It goes on where `Payment`'s server ends: stores, channels and
recovery entries. Its facilitator is `RelayContract`.

`RelayContract` says what a handler may rely on when it relays a payload: it is
executed at most once, on behalf of one call; only that call is told "ok", and
only afterwards; any other answer says nothing. `Relay` is the code behind it:
`post`/`postOnce` with their attempts, the facilitator working on each attempt
even after the client has given up, transactions and the nonce. `Relay` is shown
to implement `RelayContract`; `CommitServer`, `Submit`, `Payment` and `Actions` use the
contract. `RedeemServer` has the promise in its own `Land`, `ReplyAccepted` and
`ReplyFailed`, which are shown to be steps of `RelayContract` as well
(`ServerKeepsRelayContract` in `RedeemServer_proofs`).

`KeyedMutex` is `createKeyedMutex` at the granularity of promise reactions: the
Map (`chains`), each call's `prev`, and how far its `run` and `tracked` promises
have settled. `FifoMutex` is its contract, and the queue of `RedeemServer` is
that contract for one key.

`Submit` is `submitAction`: the walk over an advertised entry's channels, with
the server and the facilitator as callers of one `RelayContract` that go on
working after the buyer has given up.

Operators whose comment starts with "Mutant:" are not part of the model. Each is a
plausible bug; `PROJECT.json` says which definition it replaces and which property
then fails.

## The runs

| run | what is put together | what it shows |
|---|---|---|
| `Payment` | 25 setups: every strategy, skewed clocks, policies, a pinned route, no fallback, negotiated and picked fulfillment, a busy, a failing and a wrongly set up server, clients of another make (677,000 states) | `TypeOK`, `AnswerTellsTheTruth`, `RefusedMeansUnpaid`, `FacilitatorNoLooser`, `SessionKeepsItsOffer`, `NoHonestRefusal`, `LandsInTime` |
| `Actions` | 19 setups, two attempts each: withdrawals by id, address and role, a second account or role that turns up, sales in between, every action on an exchange, an escalation with a deposit and skewed clocks (390,000 states) | `TypeOK`, `AnsweredAsLanded`, `WithdrawsAll`, `SubmitsWhatItSimulated`, `NoHonestRefusal` |
| `Checkout` | both scripts, dry and for real, twice, six session offers, three balances | `TypeOK`, `NothingMovedIsTrue`, `SpendsWithinGuardrails` |
| `RedeemServer_hostile` | two redeems, one replay at any time, elsewhere, lost answers, one I/O fault, a restart into another configuration (2.9M states) | `TypeOK`, `OneRedeemersData`, `DeliveryEntryPersisted`, `OnlyAdvertisedChannels` |
| `RedeemServer_failing` | the same without replays, with ambiguous dispatches, in-memory channels, no seeded options, one store or reader call that rejects (680,000 states) | `EntryMovesForward`, `AnswersTellTheTruth`, `EveryRequestAnswered` |
| `RedeemServer_calm` | two redeems, one other action, replays when nothing is in flight, nothing else goes wrong but the lagging reader and failing relay calls or adapters | `NeverOvertaken`, `DispatchedOnce` |
| `KeyedMutex` | three calls, two keys | `OneAtATime`, `NoStaleEntry`, `RunsInOrder`, `EveryCallRuns` |
| `Relay` | two calls with one payload, two attempts each | `OneCallAccepted`, `KeepsContract`, `CallsEndOrStall` |
| `CommitServer` | two requests with one payment, one direct settlement, three options (dispatching, host-delivered, no adapter), a restart, two I/O faults | `TypeOK`, `OnePayersData`, `DeliveryEntryPersisted`, `GateIsSeeded`, `AnswersTellTheTruth` |
| `Submit` | every subset of endpoints for six channel lists | `ResultIsTheChannelsOwn`, `OneChannelSucceeds`, `WalkEndsOrStalls` |

Two runs look for a violation of something the repository says, and find it:

| run | what the repository says | what the code does |
|---|---|---|
| `RedeemServer_v_replay` | docs: after a successful replay the redeem flow is fully complete | a commit-phase replay runs `onCommit` only and deletes the entry; `onFulfill` is never run |
| `Payment_v_state` | `client-fetch/src/wrap.ts:30-38`: the fallback looks up the endpoint "for the chosen commit action" | it takes the first commit entry with a facilitator endpoint and reports that entry's post-state; a Flow B payment is reported COMMITTED although the exchange is REDEEMED |

`AnswerTellsTheTruth` therefore speaks of the state only in the server's own 200.

### Observations from reading, without a run

* `config.ts:120-121` says the recovery store holds the work that reached REDEEMED
  but did not complete. A redeem that landed but was not verified in time is a 502
  without an entry (`perform-action.ts:133-147`, the entry comes at 250-272).
* `facilitator/client.ts:17-18`: every request enforces a per-attempt timeout. The
  timer is cleared at the headers (186-188), before `res.text()` (192): a body that
  never ends is awaited for ever. `CallsEndOrStall` shows that nothing else is. The
  wrapper's fallback (`client-fetch/src/wrap.ts:274`) and `submitAction`
  (`client/src/submit.ts:230`, `WalkEndsOrStalls`) clear their timers at the same place.
* `docs/boson-impl-07-facilitator.md:163`: the nonce "already pins idempotency" of
  perform-action. It does on chain; the retry after a lost answer is rejected although the first
  attempt executed (`facilitator/client.ts:257-270`).
* `client/src/submit.ts:178`: a 4xx is a buyer-payload error. The facilitator's route
  answers every failure, its own included, with 400 (`facilitator-express/src/mount.ts:102`),
  also when the receipt could not be awaited (`facilitator/src/perform-action/index.ts:289-300`)
  and the transaction lands later. `submitAction` throws on it, so an exception of an
  action sent straight to the facilitator does not mean that nothing was executed;
  `AnsweredAsLanded` claims that of the server's own 4xx and of the signing helpers only.
* With `commitFallback` "off", the default, the wrapper rethrows the retry's network error
  (`client-fetch/src/wrap.ts:149-151`) after X-PAYMENT was sent: the program gets an
  exception for a payment that may still settle. `RefusedMeansUnpaid` leaves it out.
* `examples/facet-store/src/purchase-ucp.ts:728-737` says "The commit stands" after any
  2xx without an id, before a commit is known (`purchase.ts:329-330` says the same in an
  exception), and advises to re-run when the order does not confirm in time. A re-run
  signs a new payment; both may commit. `Checkout` calls neither wrong: only
  "nothing moved" is a statement the script can vouch for. A `MAX_USDC` that is not a
  number makes the cap NaN and disables it; the model's cap is a number.
* A payment by allowance (strategy "none") has no deadline of its own; `LandsInTime`
  is about the signed ones. It allows the deadline itself, which the token contracts take for
  a permit and not for an ERC-3009 authorization; with a timeout of one second
  the margin is 0 and the deadline is the timeout.
* The paywall has no way to ask for buyer data (`EvmEscrowPaywall.tsx:157-159`): an
  option with a schema, picked there, is refused by its own client before
  anything is signed.
* `negotiateFulfillment` looks at the keys of the data only; data it accepts may
  still fail the schema in `handle402`, although another option would have done.
* The outer catch of Flow B writes a "commit" entry back also when a store call
  rejects after `onCommit` persisted, so `phase` then understates the progress.
* A missing option entry switches the redeem gate off, which `config.ts` says of
  restarts and which also follows a commit that was answered 502 after it settled.
* A delivery entry behind an in-memory channel Map cannot be replayed after a
  restart, although the stores may survive it.
* The branch of `handleCommitImpl` for a missing adapter is unreachable after
  validation.

### Bounds

`Payment`: a timeout of 3 ticks with a margin of 1 is the least at which the margin,
the deadline and the horizon are three different times; the clocks are off by
one (within the margin) and by two; time runs to at most one tick past the last
deadline, or 6 where an offer has to expire (`SESSION_CACHE_TTL` is 4, longer than an
authorization lives). The cache has room for 2, with one other session and the
shared slot of requests without an id, so that it overflows; `MaxBuilds = 4` lets
each session build once and one of them again. One buyer and one meta-transaction:
what two payments do to each other is `PaysElsewhere` (the funds or the permit
nonce are gone). Each setup has one trouble of its own, and in all of them two
callers, the broken connection and the lagging indexer; in most of them time
stands still. `Tampered` lists the payloads of other clients and a malformed
one, each one field away from an honest one and signed anew where the signature
covers it.
`Actions`: two attempts are the tab and its double; two accounts make an address
ambiguous, and one is found by a role (of a seller's four) that may not withdraw from it;
two tokens tell "all" from "the first"; balances up to 2 (`MaxFunds`). A program that has
`signWithdrawFunds` sign is taken to ask for all it was shown, zeros included, as the
helper signs the lists it is given; the contract is taken to refuse a zero amount, which is
why "withdraw all" drops them.
`Checkout`: two runs are the least at which a run finds the wallet spent.
`MAX_ATOMIC = 3` with offers below, at and beyond it; two confirmation polls.

Two redeems are the least at which one can pass off its data as another's, and
the third request is what can overtake them. One replay is enough to race a
handler: two replays of one entry differ from one only in how often they
dispatch, which `anytimeReplay` excludes from `DispatchedOnce` anyway. Two
options, one advertised; configurations differ in which adapters they register
and whether these dispatch. `VerifyAttempts = 2` has a retry and a last attempt.
One restart and one I/O fault in `RedeemServer` (`crashed`, `faulted`), `MaxFaults = 2`
in `CommitServer`, where a rejection inside a catch block reaches the outer
catch, so that two in a row are a case of their own. Three mutex calls are the
least at which one runs, one waits and one arrives during the cleanup. Two
attempts have a first and a retry; the two calls with one payload are the
duplicated request. Every history is finite because no action leads back to an
earlier exchange state. Redeems (and commit requests) are interchangeable, which
is why their permutations are used as symmetry in runs without liveness.

What the runs' environments leave out: `RedeemServer_failing` has no replays, so that
`EntryMovesForward` says nothing of a replay that overwrites what a handler wrote
(`server.ts:260`), and no run replays over a channel's lost Map; `AnswersTellTheTruth` is
proved where replays wait for requests. In `RedeemServer_calm` replays wait, so that a
replay beside a handler may dispatch a second time there. `CommitServer`'s channels
survive its restart.

Systems that have nothing left to do are not deadlocked here: requests end, and
TLC is told not to report it (`CHECK_DEADLOCK FALSE`). Being stuck half-way is
what the liveness properties exclude.

### Fairness

`RedeemServer`: a handler's own steps (`OwnStep`) and a replay's are eventually taken,
which is the event loop, and store, reader and adapter calls that settle, one way or the
other. A relay call owes no answer, since a body may never end (`CallsEndOrStall` of
`Relay` shows that nothing else stands in the way): `EveryRequestAnswered` says that every
request is answered or some request waits for its relay call for ever. Arrivals,
landings, the reader and everything that goes wrong are not fair.
`KeyedMutex`: due promise reactions run and the work ends. `Relay`: the client's
own steps only; the facilitator may stop anywhere. `Submit`: the buyer's own steps and timer up to a response's headers; its body
(`ReadResponse`) may never end. `Payment`, `Actions`, `Checkout`: no fairness and no
liveness. The wallet, the servers, the chain and the wrapper's retry, which is under no timer,
may take for ever, and so may the program.

## The proofs

TLAPS checks these for every value of the constants that satisfies the named
assumptions in the modules (a finite number of requests is not one of them). Every
invariant and every action property of every passing run is among them, some for a part
of the environments only (the table below); what is left to TLC is listed at the end.

* `KeyedMutex_proofs`. `Exclusion`, `MapStaysClean`, `Implementation`. The
  inductive invariant orders the calls of a key by `ticket`: the call stored in the Map
  is the latest that is not cleaned up, and every other unfinished call is the
  `prev` of exactly one later call. Exclusion alone is not inductive: it needs to
  know that a call which found no entry has nobody unfinished before it.
* `Relay_proofs`. `OneAccepted`, `RelayImplementsContract`. The invariant ties an
  attempt's "ok" result to the nonce it used and a call's reply to the attempt it
  was reading; each step of `Relay` is then a step of `RelayContract` or stutters.
* `RedeemServer_proofs`. Four invariants, each on top of the ones before, and a refinement.
  - `TypeCorrect` and `HandlersExclude` share the first (a handler past "queued" is the
    head of the queue, which has no repetitions).
  - `OneRedeemer` adds `DataInv`: a redeem that has landed found the exchange COMMITTED and
    the state machine never returns there, so no second one lands; and whoever holds
    data has landed. `DeliveryEntries` relates the entry, the entries
    replays have read and the stored targets; `AdvertisedChannels` says that
    a handler past the gate either names an advertised option or its redeem can no
    longer land, which is why dropping the options after a redeem is harmless.
  - `TruthfulAnswers` and `EntriesMoveForward` add `EntryInv`, the ledger of one redeem:
    from "record" on the entry in the store is its own, in the phase its place in the
    handler says, and what that phase claims (stored, dispatched) is so; a replay only
    works on the entry of a request that has ended. Without this last part a
    replay could take the entry away between the handler's `set` and its answer.
  - `MutexKeepsTurns` has `TurnInv`: the exchange is still in the state the running handler's own
    action left it in. `SentOnce` has `SentInv`: once something was dispatched, nobody
    else is at a dispatch, and an entry is left only while its deletion is under way.
  - `ServerKeepsRelayContract` maps the server to `RelayContract`. Once a handler has ended
    the server cannot tell a rejected call from a failed verification, so the mapping needs
    a history variable: `told` is set beside the unchanged actions (`ToldSpec`) and holds
    what each handler heard. `CallInv` says that a handler short of "await" has neither
    called nor heard anything. The theorem covers every environment: after a crash a call
    is never answered, and may still land.
* `CommitServer_proofs`. `OnePayer`: a request past settlement is the one the
  payment landed by, and everything that holds data is past settlement. That makes
  the other results possible, although the route has no lock: `RouteInv` describes
  each request alone (`PlaceOK`, `AnswerOK`), because only one of them ever
  writes. `TypeCorrect`, `DeliveryEntries`, `TruthfulAnswers` and `SeededGate` follow from it.
* `Submit_proofs`. `ChannelsOwnResult`, `SingleSuccess`: a 2xx vouches for an
  execution that is never undone.
* `Payment_proofs`. `SafeToPayAgain` and `TruthfulAnswer`: the invariant says by which phase
  of the program, and by which state of the server's job, a call can have been made; a caller
  that has called cannot answer with a refusal any more. Of the exception after X-PAYMENT was
  sent nothing is claimed. `FacilitatorAsStrict` has
  nothing to do with steps: each of the facilitator's checks is matched with the
  server's rules it implies, for any payload, requirements and clock.
  `LandsBeforeTimeout` is arithmetic over `computeTokenAuthDeadline`, once the invariant
  has tied the payload on the wire to what the client signed.
  - `HonestIsTaken` goes through both checkers, rule by rule, with the payload that
    `assemblePayload` builds (`ServerTakes`, `FacilitatorTakes`): every rule holds or its failure
    is one of the reasons `NoHonestRefusal` allows. `HonestInv` adds what the rules compare:
    the signature is no older than the purchase, and what the server has relayed it settled
    against the offer of the challenge. `ClientAssumption` says what a client's configuration
    looks like (a valid redeem mode, at most one fulfillment choice, clocks past the epoch).
  - `TypeCorrect` and `OfferKept` rest on the session cache, for any room, lifetime and number of
    sessions. Its entries form a Map in insertion order (`MapOK`: of two entries, one
    comes after the other and after everything that one comes after), so that those
    with fewer than n after them are at most n (`RecentAreFew`): `set` never exceeds the room
    (`SetOK`). `OfferInv` says when the offer of the challenge is `Remembered`: it is in the map,
    everything after it belongs to the crowd that came since, and it expires no earlier than
    its lifetime from the asking. Each step keeps that or makes one of the reasons
    true under which `SessionKeepsItsOffer` lets it go. `SessionAssumption`: the
    buyer's session id is well-formed and his own, as a fresh UUID is.
* `Actions_proofs`. `SendsTheSimulated` compares the two builders of the call for every request
  that is accepted. `TypeCorrect`, `AnswersOwnExecution` and `AllIsWithdrawn` share
  an invariant that follows one signed call through the wire: the
  request carries the call that was signed, the facilitator has matched its key with
  the call's, and what was signed is what was shown, with or without its zeros. A landed withdrawal has
  paid that much, and `paid` only grows. `HonestIsTaken` adds `HonestInv`: accounts do not
  disappear, and a request stays the one that the client's helper signed for the account it
  knew; each check of `performAction` and of the route then holds or names what overtook it.
  `SignerAssumption` is what the helpers require of their caller.
* `Checkout_proofs`. `TypeCorrect`, `NothingMovedForGood`, `WithinTheGuardrails`: every payment handed
  over went through the guard, and nothing is handed over by a run that ends with
  "nothing moved", and at most one by any other. That the commits are among what was handed over is what makes
  both hold for a terminal that commits at any later time.

Some theorems speak of a part of the environments. The hypotheses are on
`Environment` (or say there are no replays) and are those the code needs:

| theorem | hypothesis | otherwise |
|---|---|---|
| `RedeemServer`: `DeliveryEntries` | no `volatileChannels` | an entry outlives the channel's Map |
| `AdvertisedChannels` | no `unseeded`, no `volatileStores` | a missing option entry switches the gate off |
| `TruthfulAnswers` | replays wait for requests | a replay deletes the entry the answer is about to name |
| `EntriesMoveForward` | no replays, no `volatileStores` | a commit-phase replay deletes the entry before the dispatch (run `RedeemServer_v_replay`); a restart forgets it |
| `MutexKeepsTurns` | no `elsewhere`, `lostAnswer`, `crash` | the next request of the mutex, or somebody else, acts while the handler still verifies |
| `SentOnce` | replays wait; no `crash`, `ioFault`, `ambiguousFailure` | the entry of a dispatch that arrived survives and is replayed |
| `CommitServer`: `DeliveryEntries` | channels as durable as the stores | as above |
| `SeededGate` | no `volatileStores` | a restart forgets the options |

Model-checked only:

* all liveness (`EveryRequestAnswered`, `EveryCallRuns`, `CallsEndOrStall`,
  `WalkEndsOrStalls`): TLAPS 1.4.5 does not reason about fairness or ENABLED.

## What is not modelled, and the plan

Left out for good: hashing, ABI and EIP-712 encoding (a signature or a call is a
record, so two encodings of different things never coincide), patterns of ids
and addresses, HTML, wallets and their adapters, gas and the relayer's error
classes, health probes, logging and the end-to-end harness (no protocol state),
`FulfillmentRegistry` (no source uses it), several server instances on one store,
and stores whose calls are not atomic. RPC failures at the facilitator are not
told apart from a refusal in `Relay` and do not occur in `Payment`, where they would
be a further reason of its own for `NoHonestRefusal`.

Next: properties for the hazards that have none yet, above all the open gate after a
restart, the refusal of a used nonce after a timeout, and the redeem that falls back
without its data (the others are a replay over a lost channel Map, `next[]` listing
`withdrawFunds` in a dispute, and the wrapper's wait for a body). The first two are where the hypotheses of `AdvertisedChannels` and the
words of `submitAction` stop; they need a statement of what the code should answer there.
