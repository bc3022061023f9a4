------------------------------ MODULE Envelope ------------------------------
(***************************************************************************)
(* The next-actions envelope: which actions the server tells the buyer it  *)
(* may take next, over which channels and at which endpoints. The same     *)
(* derivation serves the 402 challenge (from PRE_COMMIT) and every         *)
(* response after the commit.                                              *)
(***************************************************************************)
EXTENDS Wire, SequencesExt

CHANNELS == {"server", "facilitator", "onchain", "xmtp", "mcp"}

(* The order in which the transition tables list the actions matters for   *)
(* the two that open an exchange only; entries are kept as a set.          *)
COMMIT_ORDER == <<"boson-createOfferAndCommit", "boson-createOfferCommitAndRedeem">>

(* The first of a list that is in a set.                                   *)
Preferred(order, S) ==
  order[CHOOSE i \in DOMAIN order :
          order[i] \in S /\ \A j \in DOMAIN order : order[j] \in S => i <= j]

clientLegalActions(s) == legalActions(s, "client")

BUYER_ONCHAIN_FALLBACK ==
  [a \in EXCHANGE_ACTION_IDS |-> a \notin {"boson-resolveDispute", "boson-revokeVoucher"}]

hasBuyerOnchainFallback(entry) ==
  /\ entry.id \in EXCHANGE_ACTION_IDS /\ BUYER_ONCHAIN_FALLBACK[entry.id]
  /\ "onchain" \in entry.channels

(* Legacy BPIP-9 entry point, or the BPIP-12 one that takes a queue of     *)
(* token-transfer authorizations.                                          *)
META_TX_ENTRYPOINTS ==
  [s \in STRATEGIES |->
     IF s = "none" THEN "executeMetaTransaction"
                   ELSE "executeMetaTransactionWithTokenTransferAuthorization"]

-----------------------------------------------------------------------------
(* A channel registry is [escrow, channels, xmtp, mcp, endpoints], the last *)
(* a function from the actions the server has a route for to their URLs.   *)
buildChannelRegistry(options) ==
  /\ options.escrow # Absent
  /\ options.channels # <<>> /\ ToSet(options.channels) \subseteq CHANNELS
  /\ IsInjective(options.channels)
  /\ DOMAIN options.endpoints \subseteq ACTION_IDS

effectiveChannels(registry) == ToSet(registry.channels) \cup {"onchain"}

isUsableChannel(channel, action, registry) ==
  CASE channel = "server"      -> action \in DOMAIN registry.endpoints
    [] channel = "mcp"         -> registry.mcp # Absent
    [] channel = "xmtp"        -> registry.xmtp # Absent
    [] channel = "onchain"     -> registry.escrow # Absent
    [] channel = "facilitator" -> TRUE

buildEntry(action, registry) ==
  [id        |-> action,
   channels  |-> {c \in effectiveChannels(registry) : isUsableChannel(c, action, registry)},
   endpoints |-> [c \in {r \in {"server"} : action \in DOMAIN registry.endpoints} |->
                    registry.endpoints[action]]]

buildEnvelope(actions, registry) ==
  [next     |-> {buildEntry(a, registry) : a \in actions},
   fallback |-> [escrow |-> registry.escrow, xmtp |-> registry.xmtp, mcp |-> registry.mcp,
                 metaTxEntrypoints |-> META_TX_ENTRYPOINTS,
                 actionFacets |-> actions]]

deriveInitialNextActions(registry) ==
  buildEnvelope(clientLegalActions(InState(PRE_COMMIT)), registry)

deriveNextActions(state, registry) ==
  buildEnvelope(clientLegalActions(state), registry)

-----------------------------------------------------------------------------
(* The server's half: the facilitator's URL, unless the entry has one.     *)
facilitatorEndpointFor(action) ==
  IF action \in COMMIT_ACTION_IDS THEN "settle" ELSE "perform-action"

stampEntry(entry) ==
  IF "facilitator" \in entry.channels /\ "facilitator" \notin DOMAIN entry.endpoints
    THEN [entry EXCEPT !.endpoints =
            [c \in DOMAIN @ \cup {"facilitator"} |->
               IF c = "facilitator" THEN facilitatorEndpointFor(entry.id) ELSE @[c]]]
    ELSE entry

stampFacilitatorEndpoints(next) == {stampEntry(entry) : entry \in next}

(* nextActions names the state beside the entries: the dispute's only      *)
(* while there is one.                                                     *)
StateFields(state) ==
  [exchangeState |-> state.exchange,
   disputeState  |-> IF state.exchange = "DISPUTED" THEN state.dispute ELSE Absent]

emitNextActions(state, registry) ==
  [state |-> StateFields(state),
   next  |-> stampFacilitatorEndpoints(deriveNextActions(state, registry).next)]

(* x402bServerConfigSchema and assertChannelRegistryEscrowMatch.           *)
ValidConfig(config) ==
  /\ config.network = config.chainId
  /\ IsInjective(config.fulfillmentChannels)
  /\ buildChannelRegistry(config.channelRegistry)
  /\ config.escrow = config.channelRegistry.escrow
  /\ config.mode = "production" =>
       /\ config.exchangeReader /\ (config.coreSdkRead \/ config.subgraphUrl)
       /\ config.exchangeFulfillmentOptionStore /\ config.fulfillmentRecoveryStore

(* The wire format of requirements, as far as their values can break it:   *)
(* the server builds, the client signs and the facilitator takes no other. *)
escrowPaymentRequirementsSchema(requirements) ==
  /\ requirements.scheme = "escrow" /\ requirements.maxTimeoutSeconds > 0
  /\ requirements.tokenAuthStrategies # {} /\ requirements.next # {}
  /\ \A entry \in requirements.next : entry.channels # {}

(* The body of accepts[i]; order is [offer, asset, amount, strategies,     *)
(* maxTimeoutSeconds, fulfillment], what the host asks of the server.      *)
buildPaymentRequirements(order, config) ==
  [scheme |-> "escrow", network |-> config.network, asset |-> order.asset,
   amount |-> order.amount, escrowAddress |-> config.escrow,
   maxTimeoutSeconds |-> order.maxTimeoutSeconds, offer |-> order.offer,
   tokenAuthStrategies |-> order.tokenAuthStrategies, fulfillment |-> order.fulfillment,
   next |-> stampFacilitatorEndpoints(deriveInitialNextActions(config.channelRegistry).next)]
=============================================================================
