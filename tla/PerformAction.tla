---------------------------- MODULE PerformAction ----------------------------
(***************************************************************************)
(* The signed actions after the commit: what the buyer's client signs for  *)
(* them, and the facilitator's perform-action route, which dispatches on   *)
(* the kind of key: an exchange, or for withdrawFunds an account (entity). *)
(*                                                                         *)
(* A request is [network, escrow, action, key, metaTx, sig, strategy,      *)
(* tokenAuth, terms]; key is the exchangeId or entityId of its body, the   *)
(* rest of the body is metadata beside the signed meta-transaction. terms  *)
(* holds the asset, amount and maxTimeoutSeconds, when they are there.     *)
(***************************************************************************)
EXTENDS PaymentRules

(* The typed data that core-sdk signs and the contract recovers: one       *)
(* primary type per kind of call.                                          *)
ContractMessage(network, escrow, metaTx) ==
  LET call == metaTx.functionSignature
  IN  CASE call.function \in {"createOfferAndCommit", "createOfferCommitAndRedeem",
                              "revokeVoucher"} ->
             MetaTransaction(network, escrow, metaTx)
        [] call.function = "resolveDispute" ->
             MetaTransactionDisputeResolution(network, escrow, metaTx, call)
        [] call.function = "withdrawFunds" -> MetaTransactionFund(network, escrow, metaTx, call)
        [] OTHER -> MetaTransactionExchange(network, escrow, metaTx, call.exchangeId)

SignedCall(action, call, network, escrow, signer, nonce) ==
  LET metaTx == [from |-> signer, nonce |-> nonce, functionName |-> FUNCTION_NAME[action],
                 functionSignature |-> call]
  IN  [metaTx |-> metaTx, sig |-> Sign(signer, ContractMessage(network, escrow, metaTx))]

(* client.signAction: the buyer's own actions on an exchange.              *)
signPostCommitAction(args, network, escrow, buyer, nonce) ==
  SignedCall(args.action,
             IF args.action = "boson-resolveDispute"
               THEN ResolveCalldata(args.exchangeId, args.percent, args.counterpartySig)
               ELSE ExchangeCalldata(args.action, args.exchangeId),
             network, escrow, buyer, nonce)

signWithdrawFundsInternal(entityId, tokenAmounts, network, escrow, from, nonce) ==
  SignedCall("boson-withdrawFunds", WithdrawCalldata(entityId, tokenAmounts),
             network, escrow, from, nonce)

(* Mutant: the first token only.                                           *)
firstNonZero(snapshot) ==
  [t \in {CHOOSE t \in DOMAIN snapshot : TRUE} \cap {t \in DOMAIN snapshot : snapshot[t] > 0}
     |-> snapshot[t]]

(* The snapshot, an available amount per token, less its zeros.            *)
nonZero(snapshot) == [t \in {t \in DOMAIN snapshot : snapshot[t] > 0} |-> snapshot[t]]

(* The exactly-one rule that client and server resolve an address by. An   *)
(* account is found by the address that may withdraw for it, a seller also *)
(* by those of its other roles.                                            *)
EntitiesOf(index, selector) ==
  {e \in index : /\ selector.address \in {e.address} \cup e.otherRoles
                 /\ selector.role \in {Absent, e.role}}

(* Mutant: the first match is taken, though there may be none.             *)
resolveEntityIdUnchecked(index, selector) ==
  IF selector.by = "entityId" THEN {selector.entityId}
  ELSE {IF EntitiesOf(index, selector) = {} THEN Absent
        ELSE (CHOOSE e \in index : e \in EntitiesOf(index, selector)).id}

resolveEntityIdClientSide(index, selector) ==
  IF selector.by = "entityId" THEN {selector.entityId}
  ELSE {e.id : e \in {m \in EntitiesOf(index, selector) : EntitiesOf(index, selector) = {m}}}

resolveEntityId(index, selector) ==
  IF selector.by = "entityId" THEN {selector.entityId}
  ELSE {e.id : e \in {m \in EntitiesOf(index, selector) : EntitiesOf(index, selector) = {m}}}

-----------------------------------------------------------------------------
(* The facilitator.                                                        *)
validatePerformExchangeActionMetaTx(request) ==
  LET call == request.metaTx.functionSignature
  IN  /\ request.action \in POST_COMMIT_ACTION_IDS
      /\ request.metaTx.functionName = FUNCTION_NAME[request.action]
      /\ call.function = FUNCTION_NAME[request.action]
      /\ call.exchangeId = request.key

(* Mutant: the body's entityId is taken as it comes.                       *)
validatePerformEntityActionAnyKey(request) ==
  /\ request.action \in ENTITY_ACTION_IDS
  /\ request.metaTx.functionName = FUNCTION_NAME[request.action]
  /\ request.metaTx.functionSignature.function = FUNCTION_NAME[request.action]

validatePerformEntityActionMetaTx(request) ==
  LET call == request.metaTx.functionSignature
  IN  /\ request.action \in ENTITY_ACTION_IDS
      /\ request.metaTx.functionName = FUNCTION_NAME[request.action]
      /\ call.function = FUNCTION_NAME[request.action]
      /\ call.entityId = request.key

validatePerformActionMetaTx(request) ==
  IF request.action \in ENTITY_ACTION_IDS
    THEN validatePerformEntityActionMetaTx(request)
    ELSE validatePerformExchangeActionMetaTx(request)

CoherentTokenAuth(request) ==
  /\ request.action \in ENTITY_ACTION_IDS => request.strategy = "none"
  /\ IF request.strategy = "none"
       THEN request.tokenAuth.kind = Absent /\ request.terms = {}
       ELSE request.tokenAuth.kind = request.strategy /\ request.terms # {}

(* Mutant: every action is signed as the basic MetaTransaction.            *)
recoverBasicMetaTxSigner(request) ==
  IF ~LegacyV(request.sig) THEN Nobody
  ELSE Recover(request.sig, MetaTransaction(request.network, request.escrow, request.metaTx))

recoverActionMetaTxSigner(request) ==
  LET tx == request.metaTx
      call == tx.functionSignature
  IN  IF ~LegacyV(request.sig) THEN Nobody
      ELSE Recover(request.sig,
             CASE request.action \in COMMIT_ACTION_IDS \cup {"boson-revokeVoucher"} ->
                    MetaTransaction(request.network, request.escrow, tx)
               [] request.action = "boson-resolveDispute" ->
                    MetaTransactionDisputeResolution(request.network, request.escrow, tx, call)
               [] request.action = "boson-withdrawFunds" ->
                    MetaTransactionFund(request.network, request.escrow, tx, call)
               [] OTHER ->
                    MetaTransactionExchange(request.network, request.escrow, tx, call.exchangeId))

(* performAction up to the simulation. The token authorization is held     *)
(* against the terms that came with it.                                    *)
performActionAccepts(request, config, now) ==
  /\ request.network = config.network
  /\ validatePerformActionMetaTx(request)
  /\ CoherentTokenAuth(request)
  /\ request.escrow = config.escrow
  /\ recoverActionMetaTxSigner(request) = request.metaTx.from
  /\ \A terms \in request.terms :
       verifyTokenAuthSignature(request.tokenAuth,
         [asset |-> terms.asset, amount |-> terms.amount, network |-> request.network,
          maxTimeoutSeconds |-> terms.maxTimeoutSeconds],
         request.metaTx.from, config.escrow, now)

(* What is simulated, and what coreSdk.executeMetaTransaction then sends:  *)
(* the entry point follows from the queue's length.                        *)
simulateExecuteMetaTransaction(request) ==
  buildSettleCalldata(
    [action |-> request.action, buyer |-> request.metaTx.from, metaTx |-> request.metaTx,
     metaTxSig |-> request.sig, tokenAuthStrategy |-> request.strategy,
     tokenAuth |-> request.tokenAuth])

(* The authorization as core-sdk takes it, and then encodes it.            *)
bosonTokenAuthToTransferAuthorization(auth) ==
  CASE auth.kind = "erc3009" ->
         [strategy |-> "erc3009", validAfter |-> auth.data.validAfter,
          validBefore |-> auth.data.validBefore, nonce |-> auth.data.nonce, sig |-> auth.sig]
    [] auth.kind = "permit" ->
         [strategy |-> "permit", deadline |-> auth.data.deadline, sig |-> auth.sig]
    [] auth.kind = "permit2" ->
         [strategy |-> "permit2", nonce |-> auth.data.nonce, deadline |-> auth.data.deadline,
          sig |-> auth.sig]

executeMetaTransaction(request) ==
  LET queue == IF request.strategy = "none" THEN <<>>
               ELSE <<bosonTokenAuthToTransferAuthorization(request.tokenAuth)>>
  IN  [entrypoint |-> IF queue = <<>> THEN "executeMetaTransaction"
                      ELSE "executeMetaTransactionWithTokenTransferAuthorization",
       user |-> request.metaTx.from, metaTx |-> request.metaTx, sig |-> request.sig,
       queue |-> queue]
=============================================================================
