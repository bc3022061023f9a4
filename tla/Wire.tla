-------------------------------- MODULE Wire --------------------------------
(***************************************************************************)
(* What the parties of an escrow payment put on the wire: full offers,     *)
(* meta-transactions and token authorizations, with the EIP-712 messages   *)
(* their signatures are over. A signature is a record of who signed and    *)
(* what: recovering it from any other message yields nobody's address.     *)
(* ABI-encoded calldata is the record of the call it encodes. Addresses    *)
(* and hex strings that the code compares in lower case are plain values;  *)
(* the one compared as it is spelled, the seller's signature, carries its  *)
(* spelling.                                                               *)
(***************************************************************************)
EXTENDS Naturals, StateMachine

CONSTANTS
  Nobody   \* what recovery from the wrong message yields; not an account

STRATEGIES == {"none", "erc3009", "permit", "permit2"}

Absent == "absent"   \* an optional field that is left out

Sign(account, message) == [by |-> account, over |-> message, v |-> 27]

Recover(sig, message) == IF sig.over = message THEN sig.by ELSE Nobody

(* LibSignature.recover of the contract, and the facilitator, take only    *)
(* the legacy form of v; viem and the server also take 0 and 1.            *)
LegacyV(sig) == sig.v \in {27, 28}
NormalizableV(sig) == sig.v \in {0, 1, 27, 28}

-----------------------------------------------------------------------------
(* The seller's offer. committer and signature are arguments of the call   *)
(* that creates it, not of the typed data the seller signs.                *)
FullOfferMessage(chainId, escrow, offer) ==
  [primaryType |-> "FullOffer", chainId |-> chainId, contract |-> escrow,
   creator |-> offer.creator, price |-> offer.price, token |-> offer.token,
   terms |-> offer.terms]

OfferSignature(account, chainId, escrow, offer) ==
  [by |-> account, over |-> FullOfferMessage(chainId, escrow, offer), spelling |-> "lower"]

SameHex(sig1, sig2) == sig1.by = sig2.by /\ sig1.over = sig2.over

WithSellerSignatureAndCommitter(offer, sellerSig, committer) ==
  [offer EXCEPT !.committer = committer, !.signature = [sellerSig EXCEPT !.spelling = "bytes"]]

-----------------------------------------------------------------------------
(* Inner calldata.                                                         *)
FUNCTION_NAME ==
  [a \in ACTION_IDS |->
     CASE a = "boson-createOfferAndCommit"       -> "createOfferAndCommit"
       [] a = "boson-createOfferCommitAndRedeem" -> "createOfferCommitAndRedeem"
       [] a = "boson-redeem"                     -> "redeemVoucher"
       [] a = "boson-cancelVoucher"              -> "cancelVoucher"
       [] a = "boson-revokeVoucher"              -> "revokeVoucher"
       [] a = "boson-completeExchange"           -> "completeExchange"
       [] a = "boson-raiseDispute"               -> "raiseDispute"
       [] a = "boson-resolveDispute"             -> "resolveDispute"
       [] a = "boson-escalateDispute"            -> "escalateDispute"
       [] a = "boson-retractDispute"             -> "retractDispute"
       [] a = "boson-withdrawFunds"              -> "withdrawFunds"]

CommitCalldata(action, offer) ==
  [function |-> FUNCTION_NAME[action], offer |-> offer]

ExchangeCalldata(action, exchangeId) ==
  [function |-> FUNCTION_NAME[action], exchangeId |-> exchangeId]

ResolveCalldata(exchangeId, percent, counterpartySig) ==
  [function |-> FUNCTION_NAME["boson-resolveDispute"], exchangeId |-> exchangeId,
   buyerPercent |-> percent, counterpartySig |-> counterpartySig]

(* tokenList and tokenAmounts, parallel lists, are one function.           *)
WithdrawCalldata(entityId, tokenAmounts) ==
  [function |-> FUNCTION_NAME["boson-withdrawFunds"], entityId |-> entityId,
   tokenAmounts |-> tokenAmounts]

-----------------------------------------------------------------------------
(* Meta-transaction typed data, one per primary type.                      *)
MetaTransaction(chainId, escrow, metaTx) ==
  [primaryType |-> "MetaTransaction", chainId |-> chainId, contract |-> escrow,
   nonce |-> metaTx.nonce, from |-> metaTx.from, functionName |-> metaTx.functionName,
   functionSignature |-> metaTx.functionSignature]

MetaTransactionExchange(chainId, escrow, metaTx, exchangeId) ==
  [primaryType |-> "MetaTxExchange", chainId |-> chainId, contract |-> escrow,
   nonce |-> metaTx.nonce, from |-> metaTx.from, functionName |-> metaTx.functionName,
   exchangeId |-> exchangeId]

MetaTransactionDisputeResolution(chainId, escrow, metaTx, call) ==
  [primaryType |-> "MetaTxDisputeResolution", chainId |-> chainId, contract |-> escrow,
   nonce |-> metaTx.nonce, from |-> metaTx.from, exchangeId |-> call.exchangeId,
   buyerPercent |-> call.buyerPercent, counterpartySig |-> call.counterpartySig]

MetaTransactionFund(chainId, escrow, metaTx, call) ==
  [primaryType |-> "MetaTxFund", chainId |-> chainId, contract |-> escrow,
   nonce |-> metaTx.nonce, from |-> metaTx.from, entityId |-> call.entityId,
   tokenAmounts |-> call.tokenAmounts]

-----------------------------------------------------------------------------
(* Token authorizations. The domain of the first two is the token's own    *)
(* (fetchTokenDomain); Permit2's is the Permit2 contract's.                *)
Erc3009Message(token, chainId, data) ==
  [primaryType |-> "ReceiveWithAuthorization", token |-> token, chainId |-> chainId,
   from |-> data.from, to |-> data.to, value |-> data.value,
   validAfter |-> data.validAfter, validBefore |-> data.validBefore, nonce |-> data.nonce]

PermitMessage(token, chainId, data) ==
  [primaryType |-> "Permit", token |-> token, chainId |-> chainId, owner |-> data.owner,
   spender |-> data.spender, value |-> data.value, nonce |-> data.nonce,
   deadline |-> data.deadline]

Permit2Message(chainId, data) ==
  [primaryType |-> "PermitTransferFrom", chainId |-> chainId, token |-> data.token,
   amount |-> data.amount, spender |-> data.spender, nonce |-> data.nonce,
   deadline |-> data.deadline]
=============================================================================
