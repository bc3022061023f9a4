---------------------------- MODULE PaymentRules ----------------------------
(***************************************************************************)
(* Who accepts a payment payload. The server (validatePaymentPayload, by   *)
(* rule number) and the facilitator (verify, by step) check the same       *)
(* payload with code of their own, each against the requirements it was    *)
(* given and its own clock. What each rejects it with is left out: a rule  *)
(* is what must hold.                                                      *)
(***************************************************************************)
EXTENDS BuyerClient

(* The server's channel adapters, in order: [id, schema, validates], the   *)
(* last the data that the adapter's own validation takes.                  *)
describe(channel) == [id |-> channel.id, schema |-> channel.schema]

validateFulfillmentData(channels, option, data) ==
  \E i \in DOMAIN channels : channels[i].id = option /\ data \in channels[i].validates

(* checkFulfillment: the option the buyer picked, its data in the atomic   *)
(* flow only.                                                              *)
Rule13(payload, requirements, channels) ==
  /\ requirements.fulfillment.required => payload.fulfillment # {}
  /\ \A f \in payload.fulfillment :
       /\ \E o \in ToSet(requirements.fulfillment.options) : o.id = f.option
       /\ IF payload.action = FLOW_B
            THEN /\ f.data # {}
                 /\ \A d \in f.data : validateFulfillmentData(channels, f.option, d)
            ELSE f.data = {}

(* checkFunctionSignatureAndCalldataEquality rebuilds the call from the    *)
(* payload's own offer.                                                    *)
Rule7(payload) ==
  /\ payload.action \in COMMIT_ACTION_IDS
  /\ payload.metaTx.functionName = FUNCTION_NAME[payload.action]
  /\ payload.metaTx.functionSignature =
       CommitCalldata(payload.action,
         WithSellerSignatureAndCommitter(payload.offerRef.fullOffer,
                                         payload.offerRef.sellerSig, payload.buyer))

Rule8(payload, requirements) ==
  /\ payload.buyer = payload.metaTx.from
  /\ NormalizableV(payload.metaTxSig)
  /\ Recover(payload.metaTxSig,
       MetaTransaction(requirements.network, requirements.escrowAddress, payload.metaTx))
       = payload.buyer

(* Rules 9 to 11: amounts, recipients and the horizon, not who signed.     *)
checkTokenAuthRules(payload, requirements, now) ==
  LET auth == payload.tokenAuth
      horizon == now + requirements.maxTimeoutSeconds
  IN  /\ auth.kind = IF payload.tokenAuthStrategy = "none" THEN Absent
                                                         ELSE payload.tokenAuthStrategy
      /\ auth.kind = "erc3009" =>
           /\ auth.data.value = requirements.amount
           /\ auth.data.to = requirements.escrowAddress
           /\ auth.data.validBefore <= horizon
      /\ auth.kind = "permit" =>
           /\ auth.data.value = requirements.amount
           /\ auth.data.spender = requirements.escrowAddress
           /\ auth.data.deadline <= horizon
      /\ auth.kind = "permit2" =>
           /\ auth.data.amount = requirements.amount
           /\ auth.data.token = requirements.asset
           /\ auth.data.spender = requirements.escrowAddress
           /\ auth.data.deadline <= horizon

Advertised(action, requirements) ==
  \E entry \in requirements.next : entry.id = action

(* What the server checks of the payment itself: all but rule 13.          *)
PaymentAcceptedByServer(payload, requirements, now) ==
  /\ payload.scheme = "escrow" /\ requirements.scheme = "escrow"
  /\ payload.network = requirements.network
  /\ payload.offerRef.fullOffer = requirements.offer.fullOffer
  /\ payload.offerRef.sellerSig = requirements.offer.sellerSig
  /\ Advertised(payload.action, requirements)
  /\ payload.tokenAuthStrategy \in requirements.tokenAuthStrategies
  /\ Rule7(payload)
  /\ Rule8(payload, requirements)
  /\ checkTokenAuthRules(payload, requirements, now)

validatePaymentPayload(payload, requirements, now, channels) ==
  /\ PaymentAcceptedByServer(payload, requirements, now)
  /\ Rule13(payload, requirements, channels)

(* The wire format of a payload.                                           *)
tokenAuthSchema(auth) ==
  /\ auth.kind \in {"erc3009", "permit", "permit2"}
  /\ auth.kind = "erc3009" =>
       auth.data.value >= 0 /\ auth.data.validAfter >= 0 /\ auth.data.validBefore >= 0
  /\ auth.kind = "permit" => auth.data.value >= 0 /\ auth.data.deadline >= 0
  /\ auth.kind = "permit2" => auth.data.amount >= 0 /\ auth.data.deadline >= 0

escrowPaymentPayloadSchema(payload) ==
  /\ payload.scheme = "escrow" /\ payload.tokenAuthStrategy \in STRATEGIES
  /\ payload.tokenAuth.kind = Absent \/ tokenAuthSchema(payload.tokenAuth)

(* The wrapper's fallback parses the header it has sent the same way.      *)
decodeXPaymentHeader(payload) == escrowPaymentPayloadSchema(payload)

-----------------------------------------------------------------------------
(* The facilitator's configuration is [network, escrow]: the one network   *)
(* its relayer is set up for and the contract allowed there.               *)
validateOfferRefMatchesRequirements(payload, requirements) ==
  /\ payload.offerRef.fullOffer = requirements.offer.fullOffer
  /\ SameHex(payload.offerRef.sellerSig, requirements.offer.sellerSig)

(* Mutant: the function signature is taken as it comes.                    *)
validateMetaTxFunctionNameOnly(payload, requirements) ==
  /\ payload.action \in COMMIT_ACTION_IDS
  /\ payload.metaTx.functionName = FUNCTION_NAME[payload.action]

(* The call is rebuilt from the offer of the requirements.                 *)
validateMetaTxCalldataMatchesRequirements(payload, requirements) ==
  /\ payload.action \in COMMIT_ACTION_IDS
  /\ payload.metaTx.functionName = FUNCTION_NAME[payload.action]
  /\ payload.metaTx.functionSignature =
       CommitCalldata(payload.action,
         WithSellerSignatureAndCommitter(requirements.offer.fullOffer,
                                         requirements.offer.sellerSig, payload.buyer))

validateTokenAuthStrategyInRequirements(payload, requirements) ==
  /\ payload.tokenAuthStrategy \in requirements.tokenAuthStrategies
  /\ payload.tokenAuth.kind = IF payload.tokenAuthStrategy = "none" THEN Absent
                                                     ELSE payload.tokenAuthStrategy

verifyMetaTxSignature(payload, network, escrow) ==
  /\ LegacyV(payload.metaTxSig)
  /\ Recover(payload.metaTxSig, MetaTransaction(network, escrow, payload.metaTx)) = payload.buyer
  /\ payload.metaTx.from = payload.buyer

validateDeadlineWindow(deadline, maxTimeoutSeconds, now) ==
  /\ deadline > now
  /\ deadline - now <= maxTimeoutSeconds

verifyErc3009(auth, requirements, buyer, escrow, now) ==
  /\ LegacyV(auth.sig)
  /\ auth.data.from = buyer /\ auth.data.to = escrow
  /\ auth.data.value = requirements.amount
  /\ auth.data.validAfter < now
  /\ validateDeadlineWindow(auth.data.validBefore, requirements.maxTimeoutSeconds, now)
  /\ Recover(auth.sig, Erc3009Message(requirements.asset, requirements.network, auth.data)) = buyer

verifyPermit(auth, requirements, buyer, escrow, now) ==
  /\ LegacyV(auth.sig)
  /\ auth.data.owner = buyer /\ auth.data.spender = escrow
  /\ auth.data.value = requirements.amount
  /\ validateDeadlineWindow(auth.data.deadline, requirements.maxTimeoutSeconds, now)
  /\ Recover(auth.sig, PermitMessage(requirements.asset, requirements.network, auth.data)) = buyer

verifyPermit2(auth, requirements, buyer, escrow, now) ==
  /\ auth.data.token = requirements.asset /\ auth.data.spender = escrow
  /\ auth.data.amount = requirements.amount
  /\ validateDeadlineWindow(auth.data.deadline, requirements.maxTimeoutSeconds, now)
  /\ Recover(auth.sig, Permit2Message(requirements.network, auth.data)) = buyer

verifyTokenAuthSignature(auth, requirements, buyer, escrow, now) ==
  /\ auth.kind = "erc3009" => verifyErc3009(auth, requirements, buyer, escrow, now)
  /\ auth.kind = "permit"  => verifyPermit(auth, requirements, buyer, escrow, now)
  /\ auth.kind = "permit2" => verifyPermit2(auth, requirements, buyer, escrow, now)

validateScheme(payload, requirements) ==
  payload.scheme = "escrow" /\ requirements.scheme = "escrow"

validateNetworkMatch(payload, requirements, network) ==
  payload.network = network /\ requirements.network = network

(* verify up to the simulation.                                            *)
verify(payload, requirements, config, now) ==
  /\ escrowPaymentPayloadSchema(payload)
  /\ escrowPaymentRequirementsSchema(requirements)
  /\ validateScheme(payload, requirements)
  /\ validateNetworkMatch(payload, requirements, config.network)
  /\ Advertised(payload.action, requirements)
  /\ validateOfferRefMatchesRequirements(payload, requirements)
  /\ validateMetaTxCalldataMatchesRequirements(payload, requirements)
  /\ validateTokenAuthStrategyInRequirements(payload, requirements)
  /\ requirements.escrowAddress = config.escrow
  /\ verifyMetaTxSignature(payload, config.network, config.escrow)
  /\ verifyTokenAuthSignature(payload.tokenAuth, requirements, payload.buyer, config.escrow, now)

-----------------------------------------------------------------------------
(* The call the relayer simulates and sends. In the BPIP-12 queue an empty *)
(* entry stands for the seller's deposit, pulled before the buyer's funds. *)
(* (Mutant: one before any funds.)                                         *)
preBuyerSkipSlotsAlways(action) == 1

preBuyerSkipSlots(action) == IF action \in COMMIT_ACTION_IDS THEN 1 ELSE 0

EmptySlot == [strategy |-> "fallback"]

(* Who pays whom, how much and in which token is not in the entry: the     *)
(* contract takes it from what it is about to pull.                        *)
encodeAuthEntry(auth) ==
  CASE auth.kind = "erc3009" ->
         [strategy |-> "erc3009", validAfter |-> auth.data.validAfter,
          validBefore |-> auth.data.validBefore, nonce |-> auth.data.nonce, sig |-> auth.sig]
    [] auth.kind = "permit" ->
         [strategy |-> "permit", deadline |-> auth.data.deadline, sig |-> auth.sig]
    [] auth.kind = "permit2" ->
         [strategy |-> "permit2", nonce |-> auth.data.nonce, deadline |-> auth.data.deadline,
          sig |-> auth.sig]

buildBpip12Queue(action, tokenAuth) ==
  Append([i \in 1 .. preBuyerSkipSlots(action) |-> EmptySlot], encodeAuthEntry(tokenAuth))

buildBpip12Calldata(user, metaTx, sig, queue) ==
  [entrypoint |-> "executeMetaTransactionWithTokenTransferAuthorization",
   user |-> user, metaTx |-> metaTx, sig |-> sig, queue |-> queue]

buildSettleCalldata(payload) ==
  IF payload.tokenAuthStrategy = "none"
    THEN [entrypoint |-> "executeMetaTransaction", user |-> payload.buyer,
          metaTx |-> payload.metaTx, sig |-> payload.metaTxSig, queue |-> <<>>]
    ELSE buildBpip12Calldata(payload.buyer, payload.metaTx, payload.metaTxSig,
                             buildBpip12Queue(payload.action, payload.tokenAuth))

(* What the token contracts make of an entry when the escrow contract      *)
(* pulls this payment with it: [from, to, value, token, permitNonce].      *)
EntryPays(entry, pull, chainId, now) ==
  /\ entry.strategy = "erc3009" =>
       /\ entry.validAfter < now /\ now < entry.validBefore
       /\ Recover(entry.sig,
            Erc3009Message(pull.token, chainId,
              [from |-> pull.from, to |-> pull.to, value |-> pull.value,
               validAfter |-> entry.validAfter, validBefore |-> entry.validBefore,
               nonce |-> entry.nonce])) = pull.from
  /\ entry.strategy = "permit" =>
       /\ now <= entry.deadline
       /\ Recover(entry.sig,
            PermitMessage(pull.token, chainId,
              [owner |-> pull.from, spender |-> pull.to, value |-> pull.value,
               nonce |-> pull.permitNonce, deadline |-> entry.deadline])) = pull.from
  /\ entry.strategy = "permit2" =>
       /\ now <= entry.deadline
       /\ Recover(entry.sig,
            Permit2Message(chainId,
              [token |-> pull.token, amount |-> pull.value, spender |-> pull.to,
               nonce |-> entry.nonce, deadline |-> entry.deadline])) = pull.from
=============================================================================
