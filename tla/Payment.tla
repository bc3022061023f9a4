------------------------------- MODULE Payment -------------------------------
(***************************************************************************)
(* One purchase, from the first request to the answer the buyer's program  *)
(* gets: the 402 challenge, the signing in the buyer's wallet, the retry   *)
(* with X-PAYMENT, the server's validation and relay, and the wrapper's    *)
(* own way to the facilitator when the server fails. The offer both        *)
(* requests must agree on comes from SessionCache, what each party signs   *)
(* and checks from PaymentRules, what the two relayed calls may come to    *)
(* from RelayContract. The clocks of server and facilitator may be off.    *)
(***************************************************************************)
EXTENDS PaymentRules, SessionCache, Integers

CONSTANTS
  Setups,        \* see MC_Payment
  Chain, Escrow, Token, Buyer, Seller,
  Amount, MaxTimeoutSeconds,
  MySession, NoCaller,
  MaxBuilds      \* a bound on the offers built

Callers == {"server", "wrapper"}

(* A cancellation goes to the facilitator or the contract.                 *)
ROUTE_FOR_ACTION == ACTION_IDS \ {"boson-cancelVoucher", "boson-revokeVoucher"}

(* What the server is configured with.                                     *)
ServerConfig(s) ==
  [network |-> Chain, chainId |-> Chain, escrow |-> Escrow, mode |-> "production",
   fulfillmentChannels |-> [i \in DOMAIN s.catalog |-> s.catalog[i].id],
   exchangeReader |-> TRUE, coreSdkRead |-> TRUE, subgraphUrl |-> FALSE,
   exchangeFulfillmentOptionStore |-> TRUE, fulfillmentRecoveryStore |-> TRUE,
   channelRegistry |->
     [escrow |-> Escrow, channels |-> s.channels, xmtp |-> Absent, mcp |-> Absent,
      endpoints |-> [a \in ROUTE_FOR_ACTION |-> "server"]]]

(* createX402bServer throws on any other configuration.                    *)
ASSUME ConfigAssumption == \A s \in Setups : ValidConfig(ServerConfig(s))

(* Times are whole seconds; no call is named like the absence of one.      *)
ASSUME PaymentAssumption ==
  /\ MaxTimeoutSeconds \in Nat /\ NoCaller \notin Callers
  /\ \A s \in Setups : s.start \in Nat /\ s.end \in Nat /\ s.start <= s.end

(* The buyer's session id is well-formed and fresh.                        *)
ASSUME SessionAssumption ==
  MySession \in SessionIds /\ \A s \in Setups : MySession \notin s.others

Optional(S) == \A x, y \in S : x = y

(* The parties' clocks are whole seconds past the epoch by more than the   *)
(* margin, a buyer's configuration has one of the redeem modes and at most *)
(* one fulfillment choice, its own or the negotiated one.                  *)
ASSUME ClientAssumption ==
  /\ Amount \in Nat
  /\ \A s \in Setups :
       /\ s.start > TOKEN_AUTH_DEADLINE_SAFETY_MARGIN_SECONDS
       /\ s.serverSkew \in Int /\ s.facilitatorSkew \in Int
       /\ {"redeemMode", "fulfillment"} \subseteq DOMAIN s.buyer
       /\ s.buyer.redeemMode \in DOMAIN AllowedActions
       /\ Optional(s.buyer.fulfillment)
       /\ Optional(s.negotiation) /\ (s.negotiation = {} \/ s.buyer.fulfillment = {})
       /\ \A n \in s.negotiation : Optional(n.collectInteractive)

VARIABLES
  setup,       \* buyer, strategies, channels, fulfillment, flow, skews, ...
  now,         \* the time of the chain and of the buyer
  phase,       \* the buyer's program
  challenge,   \* the build of the offer in the 402, 0 before it
  askedAt,     \* when it was asked for
  signedAt,    \* when the authorization's deadline was computed
  nonceRead,   \* the token's nonce for the buyer at that time
  payment,     \* the payload, once assembled: a set of at most one
  outcome,     \* what the program is told: [status, channel, state, next]
  job,         \* the server's handling of the retry
  answer,      \* its response, once there is one
  settling,    \* the build of the offer it validates against
  checked,     \* per caller: the facilitator's verdicts so far
  tokenNonce, funded, visible,   \* on chain, and seen by the reader
  crowd,       \* the other sessions the server has seen since the challenge,
               \* and this one if it has restarted
  called, landedBy, reply        \* the relay

buyerVars == <<phase, challenge, askedAt, signedAt, nonceRead, payment, outcome>>
serverVars == <<job, answer, settling>>
chainVars == <<tokenNonce, funded, visible>>
relayVars == <<called, landedBy, reply>>
vars == <<setup, now, buyerVars, serverVars, cacheVars, crowd, checked, chainVars, relayVars>>

Relay ==
  INSTANCE RelayContract WITH
    Calls <- Callers, Payloads <- {MySession},
    PayloadOf <- [c \in Callers |-> MySession], NoCall <- NoCaller

Landed == landedBy[MySession] # NoCaller

P == CHOOSE p \in payment : TRUE

-----------------------------------------------------------------------------
(* The requirements an offer goes out with.                                *)
FullOffer(build) ==
  [creator |-> Seller, price |-> Amount, token |-> Token, terms |-> build,
   committer |-> Absent, signature |-> Absent]

(* The channels are fixed for the server's lifetime.                       *)
Fulfillment ==
  [required |-> setup.required,
   options  |-> [i \in DOMAIN setup.catalog |-> describe(setup.catalog[i])]]

Requirements(build) ==
  buildPaymentRequirements(
    [offer |-> [fullOffer |-> FullOffer(build),
                sellerSig |-> OfferSignature(Seller, Chain, Escrow, FullOffer(build))],
     asset |-> Token, amount |-> Amount, tokenAuthStrategies |-> setup.strategies,
     maxTimeoutSeconds |-> MaxTimeoutSeconds, fulfillment |-> Fulfillment],
    ServerConfig(setup))

Facilitator == [network |-> Chain, escrow |-> Escrow]
ServerClock == now + setup.serverSkew
FacilitatorClock == now + setup.facilitatorSkew

(* The paywall's client: the visitor picks an option, but has no data to   *)
(* give; and a permit's nonce it could not read.                           *)
PaywallClient ==
  [account |-> Buyer, redeemMode |-> "auto", maxAmount |-> {}, forcedStrategy |-> {},
   tokenDomainResolver |-> TRUE, publicClient |-> FALSE,
   fulfillment |-> {[option |-> o.id, data |-> Null]
                      : o \in {p \in ToSet(Fulfillment.options) :
                                 Fulfillment.required /\ p.id = setup.selected}}]

(* The buyer's configuration; a program may negotiate what its client is   *)
(* to ask for.                                                             *)
Client ==
  IF setup.front = "paywall" THEN PaywallClient
  ELSE [setup.buyer EXCEPT !.fulfillment =
          @ \cup UNION {negotiateFulfillment(Fulfillment.options, n) : n \in setup.negotiation}]

NoAnswer == [status |-> "none", body |-> {}]
NoOutcome == [status |-> "none", channel |-> Absent, state |-> {}, next |-> {}]

Init ==
  /\ setup \in Setups
  /\ now = setup.start
  /\ phase = "idle" /\ challenge = 0 /\ askedAt = 0 /\ signedAt = 0 /\ nonceRead = 0
  /\ payment = {} /\ outcome = NoOutcome
  /\ job = "none" /\ answer = NoAnswer /\ settling = 0
  /\ checked = [c \in Callers |-> {}]
  /\ tokenNonce = 0 /\ funded = TRUE /\ visible = FALSE
  /\ crowd = {}
  /\ CacheInit
  /\ Relay!Init

-----------------------------------------------------------------------------
(* The buyer's program: fetchWithPayment, or the Pay button of the paywall *)
(* (setup.front), which takes the same steps without a fallback.           *)
End(status, channel, body) ==
  /\ phase' = "done"
  /\ outcome' = [status |-> status, channel |-> channel,
                  state |-> UNION {parsePaymentResponse(n) : n \in body},
                  next |-> UNION {n.next : n \in body}]

(* The request that is stamped with the fresh session id.                  *)
Ask ==
  /\ phase = "idle"
  /\ phase' = "asked"
  /\ challenge' = OfferFor(MySession, now)
  /\ resolveRequirements(MySession, now)
  /\ askedAt' = now /\ crowd' = {}
  /\ UNCHANGED <<setup, now, signedAt, nonceRead, payment, outcome, serverVars,
                 checked, chainVars, relayVars>>

(* A response that is no 402 with an escrow entry is handed back as it is. *)
AskFails ==
  /\ phase = "asked" /\ builds[challenge] = "failed"
  /\ End("5xx", "initial", {})
  /\ UNCHANGED <<setup, now, challenge, askedAt, signedAt, nonceRead, payment, serverVars,
                 cacheVars, crowd, checked, chainVars, relayVars>>

(* handle402 up to the first prompt of the wallet: the deadline counts     *)
(* from here.                                                              *)
handle402 ==
  /\ phase = "asked" /\ builds[challenge] = "built"
  /\ IF CanPay(Requirements(challenge), Client)
       THEN /\ phase' = "signing" /\ signedAt' = now /\ nonceRead' = tokenNonce
            /\ UNCHANGED outcome
       ELSE End("threw", "initial", {}) /\ UNCHANGED <<signedAt, nonceRead>>
  /\ UNCHANGED <<setup, now, challenge, askedAt, payment, serverVars, cacheVars, crowd, checked,
                 chainVars, relayVars>>

HonestPayload ==
  assemblePayload(Requirements(challenge), Client,
                  [metaTx |-> MySession,
                   tokenAuth |-> IF pickStrategy(Requirements(challenge), Client) = "permit"
                                   THEN nonceRead ELSE MySession],
                  signedAt)

(* What a client of another make may send: its own choice of one field,    *)
(* signed anew where a signature covers it.                                *)
Resigned(p, data) ==
  [p EXCEPT !.tokenAuth.data = data,
            !.tokenAuth.sig = Sign(p.buyer, Erc3009Message(Token, Chain, data))]

Tampered(p) ==
  LET data == p.tokenAuth.data
      other == [p.metaTx EXCEPT !.functionSignature =
                  CommitCalldata(p.action, [@.offer EXCEPT !.price = 0])]
  IN  {Resigned(p, [data EXCEPT !.value = Amount + 1]),
       Resigned(p, [data EXCEPT !.to = Seller]),
       Resigned(p, [data EXCEPT !.from = Seller]),
       Resigned(p, [data EXCEPT !.validBefore = signedAt]),
       Resigned(p, [data EXCEPT !.validBefore = signedAt + MaxTimeoutSeconds + 1]),
       Resigned(p, [data EXCEPT !.validBefore = -1]),
       [p EXCEPT !.scheme = "exact"],
       [p EXCEPT !.metaTxSig.v = 0],
       [p EXCEPT !.tokenAuth.sig.v = 0],
       [p EXCEPT !.offerRef.sellerSig.spelling = "upper"],
       [p EXCEPT !.tokenAuthStrategy = "none", !.tokenAuth = NoTokenAuth],
       [p EXCEPT !.metaTx = other,
                 !.metaTxSig = Sign(p.buyer, MetaTransaction(Chain, Escrow, other))]}

Sent(p) == IF setup.sdk THEN {p} ELSE Tampered(p)

(* The wallet has signed the authorization. A permit is signed over a      *)
(* nonce that must not have moved meanwhile.                               *)
SignTokenAuth ==
  /\ phase = "signing"
  /\ IF HonestPayload.tokenAuthStrategy = "permit" /\ tokenNonce # nonceRead
       THEN End("threw", "initial", {}) /\ UNCHANGED payment
       ELSE /\ phase' = "sealing"
            /\ \E p \in Sent(HonestPayload) : payment' = {p}
            /\ UNCHANGED outcome
  /\ UNCHANGED <<setup, now, challenge, askedAt, signedAt, nonceRead, serverVars, cacheVars, crowd,
                 checked, chainVars, relayVars>>

(* The second prompt, for the meta-transaction, is answered; the retry is  *)
(* under no timer.                                                         *)
SendRetry ==
  /\ phase = "sealing"
  /\ phase' = "sent"
  /\ UNCHANGED <<setup, now, challenge, askedAt, signedAt, nonceRead, payment, outcome, serverVars,
                 cacheVars, crowd, checked, chainVars, relayVars>>

(* The actions of the entries that the fallback may take.                  *)
CommitEntries ==
  {e.id : e \in {n \in Requirements(challenge).next :
                   /\ n.id \in COMMIT_ACTION_IDS
                   /\ "facilitator" \in n.channels \cap DOMAIN n.endpoints}}

(* The server has failed. With the fallback on, and an entry to take it    *)
(* to, the same payload goes to the facilitator.                           *)
Recover5xx ==
  IF setup.front = "wrapper" /\ setup.commitFallback = "auto" /\ CommitEntries # {}
     /\ decodeXPaymentHeader(P)
    THEN phase' = "direct" /\ Relay!Call("wrapper") /\ UNCHANGED outcome
    ELSE End("5xx", "server", {}) /\ UNCHANGED relayVars

RetryResponse ==
  /\ phase = "sent" /\ job = "answered"
  /\ IF answer.status = "5xx" THEN Recover5xx
     ELSE End(answer.status, "server", answer.body) /\ UNCHANGED relayVars
  /\ UNCHANGED <<setup, now, challenge, askedAt, signedAt, nonceRead, payment, serverVars, cacheVars,
                 crowd, checked, chainVars>>

(* The connection breaks, wherever the server is. Without the fallback the *)
(* error is rethrown: an exception after the payment has been sent.        *)
RetryBreaks ==
  /\ phase = "sent"
  /\ IF setup.front = "wrapper" /\ setup.commitFallback = "auto" THEN Recover5xx
     ELSE End("threw", "server", {}) /\ UNCHANGED relayVars
  /\ UNCHANGED <<setup, now, challenge, askedAt, signedAt, nonceRead, payment, serverVars, cacheVars,
                 crowd, checked, chainVars>>

(* Mutant: the body of any response is read.                               *)
DirectAnsweredAnyhow ==
  /\ phase = "direct"
  /\ Relay!Accept("wrapper") \/ Relay!Fail("wrapper")
  /\ phase' = "reading" /\ UNCHANGED outcome
  /\ UNCHANGED <<setup, now, challenge, askedAt, signedAt, nonceRead, payment, serverVars,
                 cacheVars, crowd, checked, chainVars>>

(* tryFacilitatorFallback: a 2xx has its body read, which no timer limits; *)
(* after anything else, and after the timeout, the server's error stands.  *)
DirectAnswered ==
  /\ phase = "direct"
  /\ \/ Relay!Accept("wrapper") /\ phase' = "reading" /\ UNCHANGED outcome
     \/ Relay!Fail("wrapper") /\ End("5xx", "server", {})
  /\ UNCHANGED <<setup, now, challenge, askedAt, signedAt, nonceRead, payment, serverVars, cacheVars,
                 crowd, checked, chainVars>>

DirectTimesOut ==
  /\ phase = "direct"
  /\ End("5xx", "server", {})
  /\ UNCHANGED <<setup, now, challenge, askedAt, signedAt, nonceRead, payment, serverVars, cacheVars,
                 crowd, checked, chainVars, relayVars>>

synthesizeCommitFallbackResponse ==
  End("200", "wrapper",
      {[state |-> [exchangeState |->
                    ACTION_POST_STATE[Preferred(COMMIT_ORDER, CommitEntries)].exchange,
                   disputeState |-> Absent],
        next |-> {}]})

DirectRead ==
  /\ phase = "reading"
  /\ synthesizeCommitFallbackResponse \/ End("5xx", "server", {})
  /\ UNCHANGED <<setup, now, challenge, askedAt, signedAt, nonceRead, payment, serverVars, cacheVars,
                 crowd, checked, chainVars, relayVars>>

-----------------------------------------------------------------------------
(* The server: expressMiddleware and handleCommitImpl. A request may reach *)
(* it after the buyer's side has given the connection up.                  *)
ServerReceives ==
  /\ payment # {} /\ phase # "sealing" /\ job = "none"
  /\ job' = "resolving"
  /\ settling' = OfferFor(MySession, now)
  /\ resolveRequirements(MySession, now)
  /\ UNCHANGED <<setup, now, buyerVars, answer, crowd, checked, chainVars, relayVars>>

(* Only a success has the X-PAYMENT-RESPONSE stamped on it, with its body. *)
stampXPaymentResponseIfOk(state) ==
  {emitNextActions(s, ServerConfig(setup).channelRegistry) : s \in state}

Respond(status, state) ==
  job' = "answered" /\ answer' = [status |-> status, body |-> stampXPaymentResponseIfOk(state)]

(* The handler: the route may be pinned to one, else detectFlowFromHeader. *)
HandlerAction == IF setup.flow # Absent THEN setup.flow ELSE P.action

Settles ==
  /\ decodeXPaymentHeader(P)
  /\ P.action = HandlerAction
  /\ validatePaymentPayload(P, Requirements(settling), ServerClock, setup.catalog)

ServerValidates ==
  /\ job = "resolving"
  /\ \/ builds[settling] = "failed" /\ Respond("5xx", {}) /\ UNCHANGED relayVars
     \/ builds[settling] = "built" /\ ~Settles /\ Respond("4xx", {}) /\ UNCHANGED relayVars
     \/ /\ builds[settling] = "built" /\ Settles
        /\ Relay!Call("server")
        /\ job' = "relayed" /\ UNCHANGED answer
  /\ UNCHANGED <<setup, now, buyerVars, settling, cacheVars, crowd, checked, chainVars>>

(* Mutant: what the facilitator rejects is the buyer's error.              *)
ServerRepliesBuyersError ==
  /\ job = "relayed"
  /\ \/ Relay!Accept("server") /\ visible /\ Respond("200", {ACTION_POST_STATE[HandlerAction]})
     \/ Relay!Accept("server") /\ ~visible /\ Respond("5xx", {})
     \/ Relay!Fail("server") /\ Respond(IF reply'["server"] = "rejected" THEN "4xx" ELSE "5xx", {})
  /\ UNCHANGED <<setup, now, buyerVars, settling, cacheVars, crowd, checked, chainVars>>

(* An accepted settlement is verified against the reader; not verified,    *)
(* rejected and unreachable are a 502. CommitServer has what follows.      *)
ServerReplies ==
  /\ job = "relayed"
  /\ \/ Relay!Accept("server") /\ visible /\ Respond("200", {ACTION_POST_STATE[HandlerAction]})
     \/ Relay!Accept("server") /\ ~visible /\ Respond("5xx", {})
     \/ Relay!Fail("server") /\ Respond("5xx", {})
  /\ UNCHANGED <<setup, now, buyerVars, settling, cacheVars, crowd, checked, chainVars>>

(* A restart loses the request and every offer.                            *)
ServerRestarts ==
  /\ setup.restarts /\ MySession \notin crowd
  /\ crowd' = crowd \cup {MySession}
  /\ CacheRestart
  /\ job' = IF job \in {"resolving", "relayed"} THEN "lost" ELSE job
  /\ UNCHANGED <<setup, now, buyerVars, answer, settling, checked, chainVars, relayVars>>

-----------------------------------------------------------------------------
(* The contract, called through the calldata the facilitator builds. It    *)
(* takes one payment per meta-transaction nonce (Relay!Land), funded by    *)
(* the queue's authorization for the pull of the price, or by allowance.   *)
ContractAccepts(call) ==
  LET offer == call.metaTx.functionSignature.offer
  IN  /\ Recover(call.sig, MetaTransaction(Chain, Escrow, call.metaTx)) = call.user
      /\ LegacyV(call.sig)
      /\ offer.signature.over = FullOfferMessage(Chain, Escrow, offer)
      /\ offer.signature.by = offer.creator
      /\ offer.committer = call.user
      /\ funded
      /\ IF call.entrypoint = "executeMetaTransaction" THEN call.queue = <<>>
         ELSE /\ Len(call.queue) = 2 /\ call.queue[1] = EmptySlot
              /\ EntryPays(call.queue[2],
                   [from |-> call.user, to |-> Escrow, value |-> offer.price,
                    token |-> offer.token, permitNonce |-> tokenNonce], Chain, now)

-----------------------------------------------------------------------------
(* The facilitator. A caller's client may ask more than once (Relay); each *)
(* time the payload is verified and simulated before it is sent, and what  *)
(* has passed may land at any later time.                                  *)
RequirementsOf(c) == Requirements(IF c = "server" THEN settling ELSE challenge)

Passes(c) ==
  /\ verify(P, RequirementsOf(c), Facilitator, FacilitatorClock)
  /\ ~Landed /\ ContractAccepts(buildSettleCalldata(P))

Check(c) ==
  /\ c \in called
  /\ checked' = [checked EXCEPT ![c] = @ \cup {IF Passes(c) THEN "passed" ELSE "refused"}]
  /\ UNCHANGED <<setup, now, buyerVars, serverVars, cacheVars, crowd, chainVars, relayVars>>

Land(c) ==
  /\ "passed" \in checked[c]
  /\ ContractAccepts(buildSettleCalldata(P))
  /\ Relay!Land(c)
  /\ UNCHANGED <<setup, now, buyerVars, serverVars, cacheVars, crowd, checked, chainVars>>

-----------------------------------------------------------------------------
(* The world: time, the buyer's other dealings, the indexer, the server's  *)
(* other visitors, and the ends of the builds it has begun.                *)
Tick ==
  /\ phase # "idle" /\ now < setup.end /\ now' = now + 1
  /\ UNCHANGED <<setup, buyerVars, serverVars, cacheVars, crowd, checked, chainVars, relayVars>>

PaysElsewhere ==
  /\ ~Landed
  /\ \/ setup.rival = "nonce" /\ tokenNonce = 0 /\ tokenNonce' = 1 /\ UNCHANGED <<funded, visible>>
     \/ setup.rival = "funds" /\ funded /\ funded' = FALSE /\ UNCHANGED <<tokenNonce, visible>>
  /\ UNCHANGED <<setup, now, buyerVars, serverVars, cacheVars, crowd, checked, relayVars>>

Index ==
  /\ Landed /\ ~visible /\ visible' = TRUE
  /\ UNCHANGED <<setup, now, buyerVars, serverVars, cacheVars, crowd, checked, tokenNonce,
                 funded, relayVars>>

(* What others ask of the cache after the retry has its offer, no one here *)
(* can tell.                                                               *)
OthersAsk ==
  /\ setup.others # {} /\ job = "none" /\ phase # "done" /\ Len(builds) < MaxBuilds
  /\ \E header \in setup.others :
       /\ resolveRequirements(header, now)
       /\ crowd' = crowd \cup {normalizeSessionId(header)}
  /\ UNCHANGED <<setup, now, buyerVars, serverVars, checked, chainVars, relayVars>>

(* Requirements out of form fail the build, however long the signer took.  *)
BuildEnds ==
  /\ IF escrowPaymentRequirementsSchema(Requirements(Len(builds)))
       THEN BuildSucceeds(now) \/ (setup.signerFails /\ BuildFails)
       ELSE BuildFails
  /\ UNCHANGED <<setup, now, buyerVars, serverVars, crowd, checked, chainVars, relayVars>>

BuyerStep ==
  \/ Ask \/ AskFails \/ handle402 \/ SignTokenAuth \/ SendRetry \/ RetryResponse \/ RetryBreaks
  \/ DirectAnswered \/ DirectTimesOut \/ DirectRead

Next ==
  \/ BuyerStep
  \/ ServerReceives \/ ServerValidates \/ ServerReplies \/ ServerRestarts
  \/ \E c \in Callers : Check(c) \/ Land(c)
  \/ Tick \/ PaysElsewhere \/ Index \/ OthersAsk \/ BuildEnds

Spec == Init /\ [][Next]_vars

-----------------------------------------------------------------------------
(* The shape of the state.                                                 *)
TypeOK ==
  /\ setup \in Setups /\ now \in setup.start .. setup.end
  /\ phase \in {"idle", "asked", "signing", "sealing", "sent", "direct", "reading", "done"}
  /\ challenge \in 0 .. Len(builds) /\ settling \in 0 .. Len(builds)
  /\ askedAt \in 0 .. now /\ signedAt \in 0 .. now /\ nonceRead \in 0 .. tokenNonce
  /\ Cardinality(payment) <= 1
  /\ job \in {"none", "resolving", "relayed", "answered", "lost"}
  /\ answer.status \in {"none", "200", "4xx", "5xx"}
  /\ outcome.status \in {"none", "200", "4xx", "5xx", "threw"}
  /\ checked \in [Callers -> SUBSET {"passed", "refused"}]
  /\ tokenNonce \in {0, 1} /\ funded \in BOOLEAN /\ visible \in BOOLEAN
  /\ Cardinality(sessionCache) <= MAX_SESSION_CACHE_ENTRIES

(* A 200 is a payment that landed through the channel it names, however    *)
(* many times and through whom the payload was submitted; the server's own *)
(* reports the state that the exchange is in and that its reader has seen, *)
(* and names as the next actions such as the exchange then takes from the  *)
(* buyer, each of which he can take without the seller.                    *)
AnswerTellsTheTruth ==
  outcome.status = "200" =>
    /\ landedBy[MySession] = outcome.channel
    /\ outcome.channel = "server" =>
         /\ visible /\ outcome.state = {ACTION_POST_STATE[P.action]}
         /\ \A entry \in outcome.next :
              /\ isLegalTransition(ACTION_POST_STATE[P.action], entry.id, "client")
              /\ hasBuyerOnchainFallback(entry)

(* A 4xx, and an end that comes before X-PAYMENT is sent - a failed first  *)
(* request, an exception of handle402 or of the wallet - mean that nothing *)
(* was paid, and that nothing will be: the buyer can safely pay again. An  *)
(* exception of the retry itself, like a 5xx, says nothing.                *)
RefusedMeansUnpaid ==
  (outcome.status = "4xx" \/ outcome.channel = "initial") => ~Landed

(* The facilitator's checks are no weaker than the server's: what it takes *)
(* straight from a buyer the server would have taken too, but for the      *)
(* spelling of the seller's signature.                                     *)
FacilitatorNoLooser ==
  \A p \in payment : \A build \in {challenge, settling} \ {0} :
    /\ verify(p, Requirements(build), Facilitator, now)
    /\ p.offerRef.sellerSig = Requirements(build).offer.sellerSig
    => PaymentAcceptedByServer(p, Requirements(build), now)

(* The retry is settled against the offer of the challenge, unless the     *)
(* buyer took longer than the cache keeps it, the server restarted, or as  *)
(* many other sessions as the cache has room for came in between.          *)
SessionKeepsItsOffer ==
  [][settling' # settling =>
       \/ settling' = challenge
       \/ now >= askedAt + SESSION_CACHE_TTL
       \/ MySession \in crowd
       \/ Cardinality(crowd) >= MAX_SESSION_CACHE_ENTRIES]_vars

Margin ==
  IF TOKEN_AUTH_DEADLINE_SAFETY_MARGIN_SECONDS < MaxTimeoutSeconds
    THEN TOKEN_AUTH_DEADLINE_SAFETY_MARGIN_SECONDS ELSE MaxTimeoutSeconds - 1

LastSecond == signedAt + MaxTimeoutSeconds - Margin

(* A clock on which the buyer's authorization is neither due nor too long. *)
InTime(clock) ==
  P.tokenAuthStrategy # "none" => signedAt - Margin <= clock /\ clock < LastSecond

(* What the buyer's own client signed is refused for reasons outside the   *)
(* payload only: it has landed already, the funds or the permit's nonce    *)
(* went elsewhere, a clock is more than the margin behind the buyer's or   *)
(* past the deadline, the offer was replaced, the route takes the other    *)
(* flow, or the adapter does not take data its schema advertises.          *)
NoHonestRefusal ==
  [][setup.sdk =>
       /\ \A c \in Callers : "refused" \in checked'[c] \ checked[c] =>
            \/ Landed \/ ~funded \/ tokenNonce # nonceRead
            \/ ~InTime(FacilitatorClock) \/ ~InTime(now)
       /\ answer.status # "4xx" /\ answer'.status = "4xx" =>
            \/ settling # challenge \/ setup.flow # Absent
            \/ \E f \in Client.fulfillment :
                 ~validateFulfillmentData(setup.catalog, f.option, f.data)
            \/ ~InTime(ServerClock)]_vars

(* A payment authorized by signature lands at least the margin before the  *)
(* buyer's timeout is over, on the chain's clock, whoever submits it and   *)
(* however late.                                                           *)
LandsInTime ==
  [][setup.sdk /\ ~Landed /\ Landed' /\ P.tokenAuthStrategy # "none" =>
       now <= LastSecond]_vars

(* "for the chosen commit action": the synthesized response reports the    *)
(* state that the buyer's own action leaves the exchange in.               *)
FallbackReportsChosenAction ==
  outcome.status = "200" => outcome.state = {ACTION_POST_STATE[P.action]}
=============================================================================
