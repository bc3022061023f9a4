----------------------------- MODULE MC_Checkout -----------------------------
(***************************************************************************)
(* Two runs of either script, dry or for real, against a terminal whose    *)
(* session offer may differ from the quote in any one respect, with a      *)
(* wallet that pays for none, one or two.                                  *)
(***************************************************************************)
EXTENDS Checkout

CONSTANTS Seller, otherChain, otherToken

Requirements(network, asset, amount, strategies) ==
  buildPaymentRequirements(
    [offer |-> [fullOffer |-> [creator |-> Seller, price |-> amount, token |-> asset,
                               terms |-> 1, committer |-> Absent, signature |-> Absent],
                sellerSig |-> [by |-> Seller, over |-> "offer", spelling |-> "lower"]],
     asset |-> asset, amount |-> amount, tokenAuthStrategies |-> strategies,
     maxTimeoutSeconds |-> 3, fulfillment |-> [required |-> FALSE, options |-> <<>>]],
    [network |-> network, escrow |-> Escrow,
     channelRegistry |->
       [escrow |-> Escrow, channels |-> <<"server">>, xmtp |-> Absent, mcp |-> Absent,
        endpoints |-> [a \in COMMIT_ACTION_IDS |-> "server"]]])

Good == Requirements(Chain, USDC, 2, STRATEGIES)

Offers ==
  {Good, Requirements(otherChain, USDC, 2, STRATEGIES),
   Requirements(Chain, otherToken, 2, STRATEGIES), Requirements(Chain, USDC, 2, {"permit2"}),
   Requirements(Chain, USDC, 0, STRATEGIES), Requirements(Chain, USDC, MAX_ATOMIC + 1, STRATEGIES)}

MCSetups ==
  [script : {"ucp", "plain"}, settle : BOOLEAN, balance : {1, 2, 6}, quoted : {Good},
   offered : Offers]

TwoRuns == 1 .. 2
=============================================================================
