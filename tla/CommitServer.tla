---------------------------- MODULE CommitServer ----------------------------
(***************************************************************************)
(* The resource server's commit route for one signed payment: Flow A       *)
(* (createOfferAndCommit, which leaves the exchange COMMITTED) and Flow B  *)
(* (createOfferCommitAndRedeem, which leaves it REDEEMED and delivers).    *)
(* Nothing serialises this route: requests that carry the same X-PAYMENT   *)
(* run side by side, next to a buyer who posts the payload to a relayer    *)
(* directly and to a redeem of the exchange the payment created. The       *)
(* facilitator is the contract of RelayContract, which Relay implements.   *)
(*                                                                         *)
(* The fulfillment choice travels beside the signed payload, so requests   *)
(* with one payment may ask for different things: buyer data is named by   *)
(* the request that brought it. Environment is as in RedeemServer.         *)
(***************************************************************************)
EXTENDS EscrowChain

CONSTANTS
  Requests,        \* HTTP requests carrying the payment
  Direct,          \* settlements of the payment outside this server
  Payment,
  Options,         \* fulfillment option ids
  Advertised,      \* those of the payment requirements
  Registered,      \* those with a channel adapter here
  Delivering,      \* those whose adapter has an onFulfill
  VerifyAttempts,  \* reads verifyExchange makes
  MaxFaults,       \* bound: store or reader calls that reject
  Environment,
  NoOption, NoOne, NoEntry

Calls == Requests \cup Direct

RecoveryEntry ==
  [option : Options, from : Requests, phase : {"commit", "delivery"},
   error : BOOLEAN]

ASSUME CallsAssumption ==
  /\ Requests \cap Direct = {}
  /\ NoOne \notin Calls
  /\ NoOption \notin Options
  /\ NoEntry \notin RecoveryEntry
ASSUME OptionsAssumption ==
  /\ Advertised \subseteq Options /\ Advertised # NoEntry
  /\ Delivering \subseteq Registered
ASSUME BoundsAssumption == VerifyAttempts \in Nat \ {0} /\ MaxFaults \in Nat

VARIABLES
  flow,        \* the commit action the payment signs
  pc, option, tries, answer,
  called, landedBy, reply,  \* the relay's side of the calls
  optionStore, \* exchangeFulfillmentOptionStore.get(exchangeId)
  recovery,    \* fulfillmentRecoveryStore.get(exchangeId)
  target,      \* per option, the channel's stored buyer data
  delivered,   \* <<option, data>> pairs the channels have dispatched
  redeem, gate,     \* the redeem route: where it is, the options it read
  crashed, faults

requestVars == <<flow, pc, option, tries, answer>>
relayVars   == <<called, landedBy, reply>>
storeVars   == <<optionStore, recovery>>
channelVars == <<target, delivered>>
redeemVars  == <<redeem, gate>>
envVars     == <<crashed, faults>>
vars == <<chainVars, requestVars, relayVars, storeVars, channelVars, redeemVars,
          envVars>>

Relay ==
  INSTANCE RelayContract WITH
    Payloads <- {Payment}, PayloadOf <- [c \in Calls |-> Payment], NoCall <- NoOne

FlowA == flow = "boson-createOfferAndCommit"
FlowB == flow = "boson-createOfferCommitAndRedeem"

InFlight ==
  {"settle", "verify", "storeOptions", "record", "onCommit", "onCommitFailed",
   "markDelivery", "onFulfill", "fulfillFailed", "clear", "clearDelivered"}

Answers ==
  [status : {"none", "ok", "bad", "gateway", "threw", "lost"},
   deferred : SUBSET {"COMMIT", "DELIVERY"}, fulfillment : BOOLEAN]

TypeOK ==
  /\ ChainTypeOK
  /\ flow \in COMMIT_ACTION_IDS
  /\ pc \in [Requests -> InFlight \cup {"idle", "done"}]
  /\ option \in [Requests -> Options \cup {NoOption}]
  /\ tries \in [Requests -> 1 .. VerifyAttempts]
  /\ answer \in [Requests -> Answers]
  /\ called \subseteq Calls
  /\ landedBy \in [{Payment} -> Calls \cup {NoOne}]
  /\ reply \in [Calls -> {"none", "ok", "rejected", "threw"}]
  /\ optionStore = NoEntry \/ optionStore \in SUBSET Options
  /\ recovery \in RecoveryEntry \cup {NoEntry}
  /\ target \in [Options -> Requests \cup {NoOne}]
  /\ delivered \subseteq Options \X Requests
  /\ redeem \in {"idle", "gated", "landed", "done"}
  /\ gate = NoEntry \/ gate \in SUBSET Options
  /\ crashed \in BOOLEAN
  /\ faults \in 0 .. MaxFaults

Init ==
  /\ history = <<>> /\ seen = 0
  /\ flow \in COMMIT_ACTION_IDS
  /\ pc = [r \in Requests |-> "idle"]
  /\ option = [r \in Requests |-> NoOption]
  /\ tries = [r \in Requests |-> 1]
  /\ answer = [r \in Requests |->
                 [status |-> "none", deferred |-> {}, fulfillment |-> FALSE]]
  /\ Relay!Init
  /\ optionStore = NoEntry /\ recovery = NoEntry
  /\ target = [o \in Options |-> NoOne]
  /\ delivered = {}
  /\ redeem = "idle" /\ gate = NoEntry
  /\ crashed = FALSE /\ faults = 0

Goto(r, label) == pc' = [pc EXCEPT ![r] = label]

Answer(r, status) ==
  /\ Goto(r, "done")
  /\ answer' = [answer EXCEPT ![r].status = status]
  /\ UNCHANGED <<flow, option, tries>>

Proceed(r, label) ==
  /\ Goto(r, label)
  /\ UNCHANGED <<flow, option, tries, answer>>

-----------------------------------------------------------------------------
(* Decoding, the route's action check and validatePaymentPayload, of which *)
(* only rule 13 looks at more than the payload: the option is advertised,  *)
(* and Flow B's data passes the option's adapter.                          *)
Refused(o, wellFormed) ==
  \/ ~wellFormed
  \/ o # NoOption /\ o \notin Advertised
  \/ FlowB /\ o # NoOption /\ o \notin Registered

Arrive(r, o, wellFormed) ==
  /\ pc[r] = "idle"
  /\ option' = [option EXCEPT ![r] = o]
  /\ \/ /\ Refused(o, wellFormed)
        /\ Goto(r, "done")
        /\ answer' = [answer EXCEPT ![r].status = "bad"]
        /\ UNCHANGED relayVars
     \/ /\ ~Refused(o, wellFormed)
        /\ Goto(r, "settle")
        /\ Relay!Call(r)
        /\ UNCHANGED answer
  /\ UNCHANGED <<flow, tries, chainVars, storeVars, channelVars, redeemVars, envVars>>

(* The contract executes the payment, on behalf of a request or elsewhere. *)
Land(c) ==
  /\ Relay!Land(c)
  /\ history' = <<ACTION_POST_STATE[flow]>>
  /\ UNCHANGED <<seen, requestVars, storeVars, channelVars, redeemVars, envVars>>

DirectCall(d) ==
  /\ Relay!Call(d)
  /\ UNCHANGED <<chainVars, requestVars, storeVars, channelVars, redeemVars, envVars>>

(* Mutant: a rejected result is taken for a settled one.                   *)
SettleRepliedAnyhow(r) ==
  /\ pc[r] = "settle"
  /\ \/ (Relay!Accept(r) \/ Relay!Fail(r)) /\ Proceed(r, "verify")
     \/ Relay!Fail(r) /\ Answer(r, "gateway")
  /\ UNCHANGED <<chainVars, storeVars, channelVars, redeemVars, envVars>>

(* FACILITATOR_REJECTED and FACILITATOR_UNREACHABLE: both are a 502.       *)
SettleReplied(r) ==
  /\ pc[r] = "settle"
  /\ \/ Relay!Accept(r) /\ Proceed(r, "verify")
     \/ Relay!Fail(r) /\ Answer(r, "gateway")
  /\ UNCHANGED <<chainVars, storeVars, channelVars, redeemVars, envVars>>

-----------------------------------------------------------------------------
(* verifyExchange: the snapshot must show the state the flow leads to, and *)
(* nothing later than it.                                                  *)
Confirmed == Visible /\ Snapshot = ACTION_POST_STATE[flow]

(* Mutant: one attempt too many.                                           *)
MayRetryAgain(r) == tries[r] <= VerifyAttempts

MayRetry(r) == tries[r] < VerifyAttempts

Verify(r) ==
  /\ pc[r] = "verify"
  /\ \/ /\ Confirmed
        /\ \/ FlowA /\ Proceed(r, "storeOptions")
           \/ FlowB /\ option[r] # NoOption /\ Proceed(r, "record")
           \/ FlowB /\ option[r] = NoOption /\ Answer(r, "ok")
     \/ /\ ~Confirmed /\ MayRetry(r)
        /\ tries' = [tries EXCEPT ![r] = @ + 1]
        /\ UNCHANGED <<flow, pc, option, answer>>
     \/ ~Confirmed /\ ~MayRetry(r) /\ Answer(r, "gateway")
  /\ UNCHANGED <<chainVars, relayVars, storeVars, channelVars, redeemVars, envVars>>

(* Mutant: the options of the buyer's own payload are stored.              *)
StoreChosenOption(r) ==
  /\ pc[r] = "storeOptions"
  /\ optionStore' = {option[r]} \ {NoOption}
  /\ Answer(r, "ok")
  /\ UNCHANGED <<recovery, chainVars, relayVars, channelVars, redeemVars, envVars>>

(* Flow A: the options advertised by the 402, for the redeem route's gate. *)
StoreOptions(r) ==
  /\ pc[r] = "storeOptions"
  /\ optionStore' = Advertised
  /\ Answer(r, "ok")
  /\ UNCHANGED <<recovery, chainVars, relayVars, channelVars, redeemVars, envVars>>

-----------------------------------------------------------------------------
(* Flow B: the buyer's data is kept, stored by the channel and dispatched. *)
Entry(r, phase, err) ==
  [option |-> option[r], from |-> r, phase |-> phase, error |-> err]

SetRecovery(r, phase, err, label) ==
  /\ recovery' = Entry(r, phase, err)
  /\ Goto(r, label)
  /\ UNCHANGED <<flow, option, tries, optionStore, chainVars, relayVars, channelVars,
                 redeemVars, envVars>>

RecordPending(r) ==
  pc[r] = "record" /\ SetRecovery(r, "commit", FALSE, "onCommit") /\ UNCHANGED answer

Persist(r) == target' = [target EXCEPT ![option[r]] = r]

OnCommit(r) ==
  /\ pc[r] = "onCommit"
  /\ \/ /\ Persist(r)
        /\ Proceed(r, IF option[r] \in Delivering THEN "markDelivery" ELSE "clear")
     \/ /\ UNCHANGED target \/ ("ambiguousFailure" \in Environment /\ Persist(r))
        /\ Proceed(r, "onCommitFailed")
  /\ UNCHANGED <<delivered, chainVars, relayVars, storeVars, redeemVars, envVars>>

Defer(r, warning) == answer' = [answer EXCEPT ![r].deferred = @ \cup {warning}]

Finish(r, status, deferral) ==
  answer' = [answer EXCEPT ![r].status = status, ![r].deferred = @ \cup deferral]

(* Mutant: the retained entry is recorded for a delivery.                  *)
OnCommitFailedAsDelivery(r) ==
  /\ pc[r] = "onCommitFailed"
  /\ SetRecovery(r, "delivery", TRUE, "done")
  /\ Finish(r, "ok", {"COMMIT"})

(* The outer catch, which a rejected store call below reaches as well.     *)
OnCommitFailed(r) ==
  /\ pc[r] = "onCommitFailed"
  /\ SetRecovery(r, "commit", TRUE, "done")
  /\ Finish(r, "ok", {"COMMIT"})

MarkDelivery(r) ==
  /\ pc[r] = "markDelivery"
  /\ SetRecovery(r, "delivery", FALSE, "onFulfill")
  /\ UNCHANGED answer

Dispatch(o) ==
  /\ target[o] # NoOne
  /\ delivered' = delivered \cup {<<o, target[o]>>}

OnFulfill(r) ==
  /\ pc[r] = "onFulfill"
  /\ \/ /\ Dispatch(option[r])
        /\ Goto(r, "clearDelivered")
        /\ answer' = [answer EXCEPT ![r].fulfillment = TRUE]
     \/ /\ \/ UNCHANGED delivered
           \/ "ambiguousFailure" \in Environment /\ Dispatch(option[r])
        /\ Goto(r, "fulfillFailed")
        /\ UNCHANGED answer
  /\ UNCHANGED <<flow, option, tries, target, chainVars, relayVars, storeVars,
                 redeemVars, envVars>>

(* Mutant: the failed dispatch is only logged.                             *)
FulfillFailedSilently(r) ==
  /\ pc[r] = "fulfillFailed"
  /\ SetRecovery(r, "delivery", TRUE, "done")
  /\ Finish(r, "ok", {})

FulfillFailed(r) ==
  /\ pc[r] = "fulfillFailed"
  /\ SetRecovery(r, "delivery", TRUE, "done")
  /\ Finish(r, "ok", {"DELIVERY"})

ClearEntry(r) ==
  /\ pc[r] \in {"clear", "clearDelivered"}
  /\ recovery' = NoEntry
  /\ Answer(r, "ok")
  /\ UNCHANGED <<optionStore, chainVars, relayVars, channelVars, redeemVars, envVars>>

(* A store or reader call rejects. Inside the try blocks a catch takes     *)
(* over: the inner one after a dispatch, else the outer one; outside them  *)
(* the handler throws.                                                     *)
Caught ==
  [label \in {"markDelivery", "clear", "fulfillFailed", "clearDelivered"} |->
     IF label = "clearDelivered" THEN "fulfillFailed" ELSE "onCommitFailed"]

IOFault(r) ==
  /\ faults < MaxFaults
  /\ faults' = faults + 1
  /\ \/ /\ pc[r] \in {"verify", "storeOptions", "record", "onCommitFailed"}
        /\ Answer(r, "threw")
     \/ /\ pc[r] \in DOMAIN Caught
        /\ Proceed(r, Caught[pc[r]])
  /\ UNCHANGED <<crashed, chainVars, relayVars, storeVars, channelVars, redeemVars>>

-----------------------------------------------------------------------------
(* The redeem route of the same exchange (module RedeemServer), as far as  *)
(* it shares the option store: the gate, the redeem, the entry's deletion. *)
RedeemGate ==
  /\ redeem = "idle"
  /\ FlowA /\ Visible
  /\ redeem' = "gated" /\ gate' = optionStore
  /\ UNCHANGED <<chainVars, requestVars, relayVars, storeVars, channelVars, envVars>>

RedeemLands ==
  /\ redeem = "gated"
  /\ Execute("boson-redeem")
  /\ redeem' = "landed"
  /\ UNCHANGED <<gate, requestVars, relayVars, storeVars, channelVars, envVars>>

RedeemDrops ==
  /\ redeem = "landed"
  /\ optionStore' = NoEntry
  /\ redeem' = "done"
  /\ UNCHANGED <<gate, recovery, chainVars, requestVars, relayVars, channelVars, envVars>>

(* The process restarts: requests in flight are gone, and so is what was   *)
(* kept in memory.                                                         *)
Crash ==
  /\ "crash" \in Environment /\ ~crashed
  /\ crashed' = TRUE
  /\ pc' = [r \in Requests |-> IF pc[r] \in InFlight THEN "done" ELSE pc[r]]
  /\ answer' = [r \in Requests |->
                  IF pc[r] \in InFlight THEN [answer[r] EXCEPT !.status = "lost"]
                                        ELSE answer[r]]
  /\ redeem' = IF redeem = "idle" THEN "idle" ELSE "done"
  /\ IF "volatileStores" \in Environment
       THEN optionStore' = NoEntry /\ recovery' = NoEntry
       ELSE UNCHANGED storeVars
  /\ target' = IF "volatileChannels" \in Environment
                 THEN [o \in Options |-> NoOne] ELSE target
  /\ UNCHANGED <<flow, option, tries, delivered, gate, faults, chainVars, relayVars>>

Elsewhere(a) ==
  /\ "elsewhere" \in Environment
  /\ Execute(a)
  /\ UNCHANGED <<requestVars, relayVars, storeVars, channelVars, redeemVars, envVars>>

ReaderCatchesUp ==
  /\ Index
  /\ UNCHANGED <<requestVars, relayVars, storeVars, channelVars, redeemVars, envVars>>

HandlerStep(r) ==
  \/ SettleReplied(r) \/ Verify(r) \/ StoreOptions(r)
  \/ RecordPending(r) \/ OnCommit(r) \/ OnCommitFailed(r)
  \/ MarkDelivery(r) \/ OnFulfill(r) \/ FulfillFailed(r) \/ ClearEntry(r)

Next ==
  \/ \E r \in Requests, o \in Options \cup {NoOption}, wellFormed \in BOOLEAN :
       Arrive(r, o, wellFormed)
  \/ \E r \in Requests : HandlerStep(r) \/ IOFault(r)
  \/ \E d \in Direct : DirectCall(d)
  \/ \E c \in Calls : Land(c)
  \/ RedeemGate \/ RedeemLands \/ RedeemDrops
  \/ \E a \in POST_COMMIT_ACTION_IDS : Elsewhere(a)
  \/ ReaderCatchesUp
  \/ Crash

Spec == Init /\ [][Next]_vars

-----------------------------------------------------------------------------
(* What the server holds on account of a request: its data, or a grant.    *)
DataHolders ==
  {r \in Requests :
     \/ recovery # NoEntry /\ recovery.from = r
     \/ \E o \in Options : target[o] = r \/ <<o, r>> \in delivered
     \/ answer[r].status = "ok"}

(* One payment buys one thing: of all the requests that carry it, side by  *)
(* side or one after the other, only the one whose own settlement created  *)
(* the exchange is granted, and only its data is kept or delivered, also   *)
(* when the others asked for something else (the commit route has no       *)
(* mutex; the contract's nonce is what it leans on).                       *)
OnePayersData == \A r \in DataHolders : landedBy[Payment] = r

(* A redeem that starts once a buyer has been answered 200 by Flow A is    *)
(* held to the options its offer advertised: the entry is stored before    *)
(* the answer, and no request that shares the payment disturbs it.         *)
GateIsSeeded ==
  [][ redeem = "idle" /\ redeem' = "gated" /\ (\E r \in Requests : answer[r].status = "ok")
        => gate' = Advertised ]_vars

Complete(r) ==
  IF option[r] \in Delivering THEN <<option[r], r>> \in delivered
                              ELSE target[option[r]] = r

(* A Flow B 200 tells the buyer the truth, whichever store calls rejected  *)
(* on the way: a fulfillment body was dispatched, silence means the data   *)
(* is taken care of, and a DEFERRED warning means the store has the entry. *)
AnswersTellTheTruth ==
  [][ \A r \in Requests :
        FlowB /\ pc[r] # "done" /\ answer'[r].status = "ok" /\ option[r] # NoOption
          => /\ answer'[r].fulfillment => <<option[r], r>> \in delivered
             /\ answer'[r].deferred = {} => Complete(r)
             /\ answer'[r].deferred # {} => recovery' # NoEntry /\ recovery'.from = r ]_vars

(* A "delivery" entry means onCommit persisted (phase's comment), so its   *)
(* replay finds the data to dispatch.                                      *)
DeliveryEntryPersisted ==
  recovery # NoEntry /\ recovery.phase = "delivery"
    => target[recovery.option] = recovery.from
=============================================================================
