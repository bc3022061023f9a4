------------------------------ MODULE Checkout ------------------------------
(***************************************************************************)
(* The buyer agents of examples/facet-store: purchase-ucp.ts ("ucp") and   *)
(* the shorter purchase.ts ("plain"). A run browses, creates a checkout    *)
(* session at a store's terminal, signs a payment for the session's offer  *)
(* within its own guardrails, hands it over in COMPLETE, waits for the id  *)
(* of the exchange and stores a signed redeem. The terminal is external:   *)
(* it answers COMPLETE and the polls as it likes, and may commit what it   *)
(* was handed at any time or never, whatever it answered. The scripts keep *)
(* no state from one run to the next.                                      *)
(***************************************************************************)
EXTENDS BuyerClient

CONSTANTS
  Setups,      \* see MC_Checkout
  Chain, USDC, Escrow, Buyer, Agent,
  MAX_ATOMIC,
  CONFIRM_ATTEMPTS,
  Runs         \* 1 .. a bound on the runs of the script

(* Amounts are unsigned integers of the token's smallest unit.             *)
ASSUME CheckoutAssumption ==
  /\ Runs \subseteq Nat /\ 1 \in Runs
  /\ CONFIRM_ATTEMPTS \in Nat
  /\ \A s \in Setups : s.balance \in Nat /\ s.offered.amount \in Nat

VARIABLES
  setup,       \* script, quoted and offered (requirements), settle
  current,     \* the run under way
  step,
  balance,
  polls,
  session,     \* CREATE's answer: the requirements, a set of at most one
  payment,     \* what handle402 signed
  verdict,     \* per run, its last words
  handed,      \* [run, request] of what COMPLETE has handed over
  commits      \* and of the exchanges the contract has opened with it

vars == <<setup, current, step, balance, polls, session, payment, verdict, handed, commits>>

Config ==
  [account |-> Buyer, redeemMode |-> "commit-only", maxAmount |-> {}, forcedStrategy |-> {"erc3009"},
   tokenDomainResolver |-> TRUE, publicClient |-> FALSE, fulfillment |-> {}]

(* RFC 9421: a request's signature covers its target, its idempotency key  *)
(* and the digest of its body; the agent's key is another than the         *)
(* wallet's. Keys are drawn anew for every request.                        *)
signRequest(path, idempotencyKey, body) ==
  [path |-> path, key |-> idempotencyKey, body |-> body,
   sig |-> Sign(Agent, <<path, idempotencyKey, body>>)]

TerminalReads(request) ==
  Recover(request.sig, <<request.path, request.key, request.body>>) = Agent

CompleteRequests == {signRequest("complete", current, p) : p \in payment}

Init ==
  /\ setup \in Setups
  /\ current = 1 /\ step = "browse" /\ balance = setup.balance /\ polls = 0
  /\ session = {} /\ payment = {} /\ verdict = [r \in Runs |-> "none"]
  /\ handed = {} /\ commits = {}

Says(words) == step' = "ended" /\ verdict' = [verdict EXCEPT ![current] = words]

Offer == CHOOSE o \in session : TRUE

-----------------------------------------------------------------------------
(* Search and quotes; their prices are compared with the offer's only to   *)
(* warn. An empty catalog or a failed call ends the run.                   *)
Browse ==
  /\ step = "browse"
  /\ (step' = "create" /\ UNCHANGED verdict) \/ Says("nothing moved")
  /\ UNCHANGED <<setup, current, balance, polls, session, payment, handed, commits>>

Create ==
  /\ step = "create"
  /\ \/ Says("nothing moved") /\ UNCHANGED session
     \/ session' = {setup.offered} /\ step' = "guard" /\ UNCHANGED verdict
  /\ UNCHANGED <<setup, current, balance, polls, payment, handed, commits>>

(* Mutant: the payments/quote offer is held against the guardrails.        *)
WithinGuardrailsAsQuoted(offer) ==
  /\ setup.quoted.network = Chain /\ setup.quoted.asset = USDC
  /\ "erc3009" \in setup.quoted.tokenAuthStrategies
  /\ 0 < setup.quoted.amount /\ setup.quoted.amount <= MAX_ATOMIC

WithinGuardrails(offer) ==
  /\ offer.network = Chain /\ offer.asset = USDC
  /\ "erc3009" \in offer.tokenAuthStrategies
  /\ 0 < offer.amount /\ offer.amount <= MAX_ATOMIC

(* Refused, or the reads that the wallet's prompt needs have failed.       *)
Authorize ==
  /\ step = "guard"
  /\ \/ /\ WithinGuardrails(Offer) /\ CanPay(Offer, Config)
        /\ payment' = {assemblePayload(Offer, Config, [metaTx |-> current, tokenAuth |-> current], 0)}
        /\ step' = "settle" /\ UNCHANGED verdict
     \/ Says("nothing moved") /\ UNCHANGED payment
  /\ UNCHANGED <<setup, current, balance, polls, session, handed, commits>>

(* Mutant: the balance is looked at when COMPLETE has been sent.           *)
CompleteUnchecked ==
  /\ step = "settle"
  /\ handed' = handed \cup {[run |-> current, request |-> q] : q \in CompleteRequests}
  /\ IF setup.settle /\ Offer.amount <= balance THEN step' = "answer" /\ UNCHANGED verdict
     ELSE Says("nothing moved")
  /\ UNCHANGED <<setup, current, balance, polls, session, payment, commits>>

(* The dry run and a balance that is too low, or cannot be read, end       *)
(* before COMPLETE.                                                        *)
Complete ==
  /\ step = "settle"
  /\ \/ /\ setup.settle /\ Offer.amount <= balance
        /\ handed' = handed \cup {[run |-> current, request |-> q] : q \in CompleteRequests}
        /\ step' = "answer" /\ UNCHANGED verdict
     \/ Says("nothing moved") /\ UNCHANGED handed
  /\ UNCHANGED <<setup, current, balance, polls, session, payment, commits>>

(* 2xx with an id of an exchange; 2xx without it; anything else. Only the  *)
(* status and the id are looked at, the chain is not.                      *)
CompleteAnswered ==
  /\ step = "answer"
  /\ \/ step' = "redeem" /\ UNCHANGED verdict
     \/ setup.script = "ucp" /\ step' = "confirm" /\ UNCHANGED verdict
     \/ setup.script = "plain" /\ Says("commit stands")
     \/ Says("failed")
  /\ polls' = 0
  /\ UNCHANGED <<setup, current, balance, session, payment, handed, commits>>

(* Mutant: one poll too many.                                              *)
resolveExchangeIdOnceMore ==
  /\ step = "confirm"
  /\ \/ polls <= CONFIRM_ATTEMPTS /\ step' = "redeem" /\ UNCHANGED <<polls, verdict>>
     \/ polls <= CONFIRM_ATTEMPTS /\ polls' = polls + 1 /\ UNCHANGED <<step, verdict>>
     \/ polls > CONFIRM_ATTEMPTS /\ Says("commit stands") /\ UNCHANGED polls
  /\ UNCHANGED <<setup, current, balance, session, payment, handed, commits>>

(* Polls the session for the id; a poll that rejects ends the run.         *)
resolveExchangeId ==
  /\ step = "confirm"
  /\ \/ polls < CONFIRM_ATTEMPTS /\ step' = "redeem" /\ UNCHANGED <<polls, verdict>>
     \/ polls < CONFIRM_ATTEMPTS /\ polls' = polls + 1 /\ UNCHANGED <<step, verdict>>
     \/ polls = CONFIRM_ATTEMPTS /\ Says("commit stands") /\ UNCHANGED polls
     \/ polls < CONFIRM_ATTEMPTS /\ Says("failed") /\ UNCHANGED polls
  /\ UNCHANGED <<setup, current, balance, session, payment, handed, commits>>

(* A signed boson-redeem is left with the terminal; it moves no funds, and *)
(* when it is refused the commit stands.                                   *)
doRedeem ==
  /\ step = "redeem"
  /\ Says("redeem stored") \/ Says("commit stands") \/ Says("failed")
  /\ UNCHANGED <<setup, current, balance, polls, session, payment, handed, commits>>

-----------------------------------------------------------------------------
(* The terminal relays; the contract takes a payment once. Between runs    *)
(* the wallet may be filled up, and the script started again.              *)
TerminalCommits ==
  /\ \E h \in handed \ commits :
       /\ TerminalReads(h.request)
       /\ h.request.body.tokenAuth.data.value <= balance
       /\ commits' = commits \cup {h}
       /\ balance' = balance - h.request.body.tokenAuth.data.value
  /\ UNCHANGED <<setup, current, step, polls, session, payment, verdict, handed>>

Rerun ==
  /\ step = "ended" /\ current + 1 \in Runs
  /\ current' = current + 1 /\ step' = "browse" /\ polls' = 0
  /\ session' = {} /\ payment' = {}
  /\ UNCHANGED <<setup, balance, verdict, handed, commits>>

Next ==
  \/ Browse \/ Create \/ Authorize \/ Complete \/ CompleteAnswered \/ resolveExchangeId
  \/ doRedeem \/ TerminalCommits \/ Rerun

Spec == Init /\ [][Next]_vars

-----------------------------------------------------------------------------
(* The shape of the state.                                                 *)
TypeOK ==
  /\ setup \in Setups /\ current \in Runs
  /\ step \in {"browse", "create", "guard", "settle", "answer", "confirm", "redeem", "ended"}
  /\ balance \in 0 .. setup.balance /\ polls \in 0 .. CONFIRM_ATTEMPTS
  /\ Cardinality(session) <= 1 /\ Cardinality(payment) <= 1
  /\ verdict \in [Runs -> {"none", "nothing moved", "failed", "commit stands",
                            "redeem stored"}]
  /\ commits \subseteq handed

(* A run that ends with "nothing moved", a refusal or a dry run has handed *)
(* out nothing that is or will ever be committed, by this run or a later   *)
(* one; and no run is committed twice. The other last words are the        *)
(* terminal's: "the commit stands" and a stored redeem need no commit, and *)
(* "failed" may yet have one.                                              *)
NothingMovedIsTrue ==
  \A r \in Runs :
    LET mine == {c \in commits : c.run = r}
    IN  /\ verdict[r] = "nothing moved" => mine = {}
        /\ \A c, d \in mine : c = d

(* Whatever is committed is on the configured chain, in USDC and within    *)
(* the cap, whatever was quoted before the session's offer.                *)
SpendsWithinGuardrails ==
  \A c \in commits :
    LET authorized == c.request.body.tokenAuth.sig.over
    IN  /\ authorized.chainId = Chain /\ authorized.token = USDC
        /\ 0 < authorized.value /\ authorized.value <= MAX_ATOMIC
=============================================================================
