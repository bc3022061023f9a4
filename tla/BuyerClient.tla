----------------------------- MODULE BuyerClient -----------------------------
(***************************************************************************)
(* What the buyer's client decides and signs when it is asked to pay: the  *)
(* action, the token authorization and its deadline, the meta-transaction, *)
(* and the X-PAYMENT payload. Pure functions of the 402's requirements     *)
(* (Envelope!buildPaymentRequirements), the client's configuration and its *)
(* clock; nonces are drawn by the caller.                                  *)
(*                                                                         *)
(* A configuration is [account, redeemMode, maxAmount, forcedStrategy,     *)
(* tokenDomainResolver, publicClient, fulfillment]: the second to last two *)
(* say what is wired in, an optional value is a set of at most one.        *)
(*                                                                         *)
(* Buyer data for a fulfillment option is a function from keys to values,  *)
(* or null. A schema asks for such data: [required, accepts], accepts with *)
(* the values of each property; or it is null too.                         *)
(***************************************************************************)
EXTENDS Envelope

CONSTANT
  TOKEN_AUTH_DEADLINE_SAFETY_MARGIN_SECONDS

ASSUME MarginAssumption == TOKEN_AUTH_DEADLINE_SAFETY_MARGIN_SECONDS \in Nat

FLOW_A == "boson-createOfferAndCommit"
FLOW_B == "boson-createOfferCommitAndRedeem"

(* The actions a redeem mode allows, in order of preference.               *)
AllowedActions ==
  [mode \in {"auto", "commit-only", "commit-and-redeem"} |->
     CASE mode = "auto"              -> <<FLOW_A, FLOW_B>>
       [] mode = "commit-only"       -> <<FLOW_A>>
       [] mode = "commit-and-redeem" -> <<FLOW_B>>]

OfferedByServer(action, requirements) ==
  \E entry \in requirements.next : entry.id = action /\ "server" \in entry.channels

PossibleActions(requirements, config) ==
  {a \in ToSet(AllowedActions[config.redeemMode]) : OfferedByServer(a, requirements)}

pickAction(requirements, config) ==
  Preferred(AllowedActions[config.redeemMode], PossibleActions(requirements, config))

STRATEGY_PREFERENCE == <<"erc3009", "permit2", "permit">>

strategyIsAvailable(strategy, config) ==
  CASE strategy = "erc3009" -> config.tokenDomainResolver
    [] strategy = "permit"  -> config.tokenDomainResolver /\ config.publicClient
    [] strategy = "permit2" -> TRUE
    [] strategy = "none"    -> FALSE

(* A forced strategy must be advertised, and "none" is only ever forced.   *)
PossibleStrategies(requirements, config) ==
  {s \in STRATEGIES \cap requirements.tokenAuthStrategies :
     /\ config.forcedStrategy = {} \/ s \in config.forcedStrategy
     /\ strategyIsAvailable(s, config) \/ config.forcedStrategy = {"none"}}

pickStrategy(requirements, config) ==
  IF config.forcedStrategy = {"none"} THEN "none"
  ELSE Preferred(STRATEGY_PREFERENCE, PossibleStrategies(requirements, config))

Null == {}   \* anything else is a set of exactly one

SatisfiesSchema(schema, data) ==
  /\ schema = Null <=> data = Null
  /\ \A s \in schema : \A d \in data :
       /\ s.required \subseteq DOMAIN d
       /\ \A key \in DOMAIN d \cap DOMAIN s.accepts : d[key] \in s.accepts[key]

(* The option must be advertised and take the configured data; a payment   *)
(* that requires no fulfillment carries none.                              *)
FulfillmentResolves(requirements, config) ==
  requirements.fulfillment.required =>
    \E f \in config.fulfillment : \E o \in ToSet(requirements.fulfillment.options) :
       o.id = f.option /\ SatisfiesSchema(o.schema, f.data)

(* negotiateFulfillment, a program's way to that choice. Options are tried *)
(* in the order of prefer, then as advertised (ids are distinct); data is  *)
(* what the program knows already or its user enters, as far as required   *)
(* keys tell. The first option that can be satisfied, if there is one.     *)
orderOptions(options, prefer) ==
  FlattenSeq([i \in DOMAIN prefer |-> SelectSeq(options, LAMBDA o : o.id = prefer[i])])
    \o SelectSeq(options, LAMBDA o : ~Contains(prefer, o.id))

matchesRequiredKeys(schema, data) == schema.required \subseteq DOMAIN data

extractFromAgentContext(schema, context) ==
  IF matchesRequiredKeys(schema, context)
    THEN {Restrict(context, DOMAIN context \cap (schema.required \cup DOMAIN schema.accepts))}
    ELSE {}

DataFor(option, negotiation) ==
  IF option.schema = Null THEN {Null}
  ELSE LET schema == CHOOSE s \in option.schema : TRUE
           known == extractFromAgentContext(schema, negotiation.agentContext)
           entered == {d \in negotiation.collectInteractive : matchesRequiredKeys(schema, d)}
       IN  {{d} : d \in IF known # {} THEN known ELSE entered}

negotiateFulfillment(options, negotiation) ==
  LET able == SelectSeq(orderOptions(options, negotiation.prefer),
                        LAMBDA o : o.id \in negotiation.supports /\ DataFor(o, negotiation) # {})
  IN  IF able = <<>> THEN {}
      ELSE {[option |-> Head(able).id, data |-> data] : data \in DataFor(Head(able), negotiation)}

enforceMaxAmount(requirements, config) ==
  \A m \in config.maxAmount : requirements.amount <= m

(* handle402 throws on anything else before it signs.                      *)
CanPay(requirements, config) ==
  /\ escrowPaymentRequirementsSchema(requirements)
  /\ PossibleActions(requirements, config) # {}
  /\ FulfillmentResolves(requirements, config)
  /\ enforceMaxAmount(requirements, config)
  /\ PossibleStrategies(requirements, config) # {}

-----------------------------------------------------------------------------
(* Mutant: the deadline is the latest the requirements allow.              *)
computeTokenAuthDeadlineAtTheLimit(maxTimeoutSeconds, now) == now + maxTimeoutSeconds

computeTokenAuthDeadline(maxTimeoutSeconds, now) ==
  LET margin == IF TOKEN_AUTH_DEADLINE_SAFETY_MARGIN_SECONDS < maxTimeoutSeconds - 1
                  THEN TOKEN_AUTH_DEADLINE_SAFETY_MARGIN_SECONDS ELSE maxTimeoutSeconds - 1
  IN  now + maxTimeoutSeconds - margin

signErc3009(requirements, buyer, nonce, now) ==
  LET data == [from |-> buyer, to |-> requirements.escrowAddress,
               value |-> requirements.amount, validAfter |-> 0,
               validBefore |-> computeTokenAuthDeadline(requirements.maxTimeoutSeconds, now),
               nonce |-> nonce]
  IN  [kind |-> "erc3009", data |-> data,
       sig |-> Sign(buyer, Erc3009Message(requirements.asset, requirements.network, data))]

(* nonce is the token's own for this owner, read before signing.           *)
signPermit(requirements, buyer, nonce, now) ==
  LET data == [owner |-> buyer, spender |-> requirements.escrowAddress,
               value |-> requirements.amount, nonce |-> nonce,
               deadline |-> computeTokenAuthDeadline(requirements.maxTimeoutSeconds, now)]
  IN  [kind |-> "permit", data |-> data,
       sig |-> Sign(buyer, PermitMessage(requirements.asset, requirements.network, data))]

signPermit2(requirements, buyer, nonce, now) ==
  LET data == [token |-> requirements.asset, amount |-> requirements.amount,
               spender |-> requirements.escrowAddress, nonce |-> nonce,
               deadline |-> computeTokenAuthDeadline(requirements.maxTimeoutSeconds, now)]
  IN  [kind |-> "permit2", data |-> data,
       sig |-> Sign(buyer, Permit2Message(requirements.network, data))]

NoTokenAuth == [kind |-> Absent]

buildAndSignTokenAuth(strategy, requirements, buyer, nonce, now) ==
  CASE strategy = "none"    -> NoTokenAuth
    [] strategy = "erc3009" -> signErc3009(requirements, buyer, nonce, now)
    [] strategy = "permit"  -> signPermit(requirements, buyer, nonce, now)
    [] strategy = "permit2" -> signPermit2(requirements, buyer, nonce, now)

(* signCreateOfferAndCommit and signCreateOfferCommitAndRedeem.            *)
signMetaTx(action, requirements, buyer, nonce) ==
  LET unsigned == [from |-> buyer, nonce |-> nonce, functionName |-> FUNCTION_NAME[action],
                   functionSignature |->
                     CommitCalldata(action,
                       WithSellerSignatureAndCommitter(requirements.offer.fullOffer,
                                                       requirements.offer.sellerSig, buyer))]
  IN  [metaTx |-> unsigned,
       sig |-> Sign(buyer, MetaTransaction(requirements.network, requirements.escrowAddress,
                                           unsigned))]

(* Only the atomic flow has no later round trip for the delivery data.     *)
fulfillmentSlot(action, requirements, config) ==
  IF ~requirements.fulfillment.required THEN {}
  ELSE {[option |-> f.option, data |-> IF action = FLOW_B THEN {f.data} ELSE {}]
          : f \in config.fulfillment}

assemblePayload(requirements, config, nonces, now) ==
  LET action == pickAction(requirements, config)
      strategy == pickStrategy(requirements, config)
      signed == signMetaTx(action, requirements, config.account, nonces.metaTx)
  IN  [scheme |-> "escrow", network |-> requirements.network,
       action |-> action, tokenAuthStrategy |-> strategy,
       offerRef |-> [fullOffer |-> requirements.offer.fullOffer,
                     sellerSig |-> requirements.offer.sellerSig],
       buyer |-> config.account, metaTx |-> signed.metaTx, metaTxSig |-> signed.sig,
       tokenAuth |-> buildAndSignTokenAuth(strategy, requirements, config.account,
                                           nonces.tokenAuth, now),
       fulfillment |-> fulfillmentSlot(action, requirements, config)]

-----------------------------------------------------------------------------
(* The state that the X-PAYMENT-RESPONSE of a settled payment gives; one   *)
(* that says DISPUTED and not how gives none.                              *)
parsePaymentResponse(nextActions) ==
  {s \in {[exchange |-> nextActions.state.exchangeState,
           dispute  |-> IF nextActions.state.exchangeState = "DISPUTED"
                          THEN nextActions.state.disputeState ELSE NoDispute]} :
     s.dispute # Absent}
=============================================================================
