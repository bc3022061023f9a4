---------------------------- MODULE RedeemServer ----------------------------
(***************************************************************************)
(* The resource server's post-commit routes for one exchange: the redeem   *)
(* handler, the generic perform-action handler behind complete and         *)
(* dispute/*, the per-exchange mutex both run under, the recovery store    *)
(* with the operator's recovery.replay (which does not take the mutex),    *)
(* and a restart of the process.                                           *)
(*                                                                         *)
(* Every await of the code ends a step, so other requests, replays and the *)
(* chain can move in between. Buyer data is named by the request that      *)
(* brought it. Environment lists what may go wrong around the server:      *)
(*   "elsewhere"  somebody acts on the exchange without this server        *)
(*   "lostAnswer" an action lands although the facilitator call failed     *)
(*   "ioFault"    one store or reader call rejects                         *)
(*   "crash"      the process restarts once, with any of Configs           *)
(*   "volatileStores", "volatileChannels"  they are in-memory Maps         *)
(*   "anytimeReplay"    operators replay while requests are in flight      *)
(*   "ambiguousFailure" a dispatch that reports failure may have arrived   *)
(*   "unseeded"   the commit handler gave up before it stored the options  *)
(***************************************************************************)
EXTENDS EscrowChain

CONSTANTS
  Redeems,         \* POST /redeem requests, one signed payload each
  Others,          \* the other requests of the exchange's mutex
  OtherActions,    \* the actions those may carry
  Replays,         \* calls of recovery.replay
  Options,         \* fulfillment option ids a buyer may name
  Advertised,      \* the ones the offer advertised
  Configs,         \* deployments: [registered, delivering : SUBSET Options]
  VerifyAttempts,  \* reads verifyExchange makes
  Environment,
  NoOption,
  NoOne,           \* no request
  NoEntry          \* what a store answers for a key it does not have

Requests == Redeems \cup Others

RecoveryEntry ==
  [option : Options, from : Redeems, phase : {"commit", "delivery"},
   error : BOOLEAN]

ASSUME RequestsAssumption ==
  /\ Redeems \cap Others = {}
  /\ NoOne \notin Requests
  /\ NoOption \notin Options
  /\ NoEntry \notin RecoveryEntry
ASSUME ActionsAssumption == OtherActions \subseteq POST_COMMIT_ACTION_IDS \ {"boson-redeem"}
ASSUME OptionsAssumption ==
  /\ Advertised \subseteq Options /\ Advertised # NoEntry
  /\ Configs \subseteq [registered : SUBSET Options, delivering : SUBSET Options]
ASSUME AttemptsAssumption == VerifyAttempts \in Nat \ {0}

VARIABLES
  queue,       \* the requests holding or awaiting the exchange's mutex, in order
  pc, req, tries, answer,
  called,      \* requests whose meta-transaction reached the facilitator
  landed,      \* requests whose meta-transaction the contract executed
  optionStore, \* exchangeFulfillmentOptionStore.get(exchangeId)
  recovery,    \* fulfillmentRecoveryStore.get(exchangeId)
  target,      \* per option, the channel's stored buyer data
  delivered,   \* <<option, data>> pairs the channels have dispatched
  dispatches,  \* how many dispatches that took
  config,      \* the running deployment
  rpc, rentry, \* the replay calls and the entry each read
  crashed, faulted

handlerVars  == <<queue, pc, req, tries, answer>>
relayVars    == <<called, landed>>
storeVars    == <<optionStore, recovery>>
channelVars  == <<target, delivered, dispatches>>
operatorVars == <<rpc, rentry>>
envVars      == <<config, crashed, faulted>>
vars == <<chainVars, handlerVars, relayVars, storeVars, channelVars,
          operatorVars, envVars>>

Entry(r, phase, err) ==
  [option |-> req[r].option, from |-> r, phase |-> phase, error |-> err]

RedeemInput == [action : {"boson-redeem"}, option : Options \cup {NoOption},
                form : {"ok", "undecodable", "badData"}]
OtherInput == [action : OtherActions, option : {NoOption}, form : {"ok"}]

Answers ==
  [status : {"none", "ok", "bad", "gateway", "threw", "lost"},
   deferred : SUBSET {"UPDATE", "DELIVERY"}, fulfillment : BOOLEAN]

AwaitingIO == {"gate", "preRead", "verify", "record", "onCommitFailed",
               "markDelivery", "fulfillFailed", "clear", "dropOption"}
InFlight == AwaitingIO \cup {"queued", "call", "await", "onCommit",
                             "onFulfill", "clearDelivered"}
ReplayInFlight == {"onCommit", "onFulfill", "noAdapter", "clear", "fail"}

TypeOK ==
  /\ ChainTypeOK
  /\ queue \in Seq(Requests)
  /\ pc \in [Requests -> InFlight \cup {"idle", "done"}]
  /\ req \in [Requests -> RedeemInput \cup OtherInput]
  /\ \A r \in Redeems : req[r] \in RedeemInput
  /\ tries \in [Requests -> 1 .. VerifyAttempts]
  /\ answer \in [Requests -> Answers]
  /\ called \subseteq Requests
  /\ landed \subseteq called
  /\ optionStore = NoEntry \/ optionStore \in SUBSET Options
  /\ recovery \in RecoveryEntry \cup {NoEntry}
  /\ target \in [Options -> Redeems \cup {NoOne}]
  /\ delivered \subseteq Options \X Redeems
  /\ dispatches \in Nat
  /\ config \in Configs
  /\ rpc \in [Replays -> ReplayInFlight \cup {"idle", "ok", "failed", "lost"}]
  /\ rentry \in [Replays -> RecoveryEntry \cup {NoEntry}]
  /\ crashed \in BOOLEAN
  /\ faulted \in BOOLEAN

-----------------------------------------------------------------------------
(* The exchange was committed by Flow A: it is COMMITTED, perhaps not yet  *)
(* indexed, and the commit handler has stored the advertised options.      *)
Init ==
  /\ history = <<InState("COMMITTED")>>
  /\ seen \in {0, 1}
  /\ queue = <<>>
  /\ pc = [r \in Requests |-> "idle"]
  /\ req = [r \in Requests |-> [action |-> "boson-redeem", option |-> NoOption,
                                form |-> "ok"]]
  /\ tries = [r \in Requests |-> 1]
  /\ answer = [r \in Requests |->
                 [status |-> "none", deferred |-> {}, fulfillment |-> FALSE]]
  /\ called = {} /\ landed = {}
  /\ optionStore = IF "unseeded" \in Environment THEN NoEntry ELSE Advertised
  /\ recovery = NoEntry
  /\ target = [o \in Options |-> NoOne]
  /\ delivered = {} /\ dispatches = 0
  /\ config \in Configs
  /\ rpc = [p \in Replays |-> "idle"]
  /\ rentry = [p \in Replays |-> NoEntry]
  /\ crashed = FALSE /\ faulted = FALSE

Goto(r, label) == pc' = [pc EXCEPT ![r] = label]

(* Leaving the handler settles the mutex's promise, whatever the outcome.  *)
Answer(r, status) ==
  /\ Goto(r, "done")
  /\ answer' = [answer EXCEPT ![r].status = status]
  /\ queue' = Tail(queue)
  /\ UNCHANGED <<req, tries>>

-----------------------------------------------------------------------------
(* exchangeMutex.runExclusive: the request queues on the exchange's chain. *)
Arrive(r, input) ==
  /\ pc[r] = "idle"
  /\ req' = [req EXCEPT ![r] = input]
  /\ Goto(r, "queued")
  /\ queue' = Append(queue, r)
  /\ UNCHANGED <<tries, answer, chainVars, relayVars, storeVars, channelVars,
                 operatorVars, envVars>>

(* Mutant: the handler starts without waiting for its turn.                *)
HoldsNoMutex(r) == \E i \in 1 .. Len(queue) : queue[i] = r

(* The mutex runs the handler once the requests before it have settled.    *)
HoldsMutex(r) == Head(queue) = r

(* handleRedeem decodes the payload first; the generic handler does not.   *)
Enter(r) ==
  /\ pc[r] = "queued"
  /\ HoldsMutex(r)
  /\ IF req[r].form = "undecodable"
       THEN Answer(r, "bad")
       ELSE /\ Goto(r, IF req[r].option = NoOption THEN "preRead" ELSE "gate")
            /\ UNCHANGED <<queue, req, tries, answer>>
  /\ UNCHANGED <<chainVars, relayVars, storeVars, channelVars, operatorVars,
                 envVars>>

(* Mutant: the advertised-option check is left out.                        *)
OptionRefusedUnlessRegistered(r) ==
  \/ req[r].option \notin config.registered
  \/ req[r].form = "badData"

(* The buyer's option must be one the offer advertised (unless the store   *)
(* has no entry), must have an adapter, and its data must validate.        *)
OptionRefused(r) ==
  \/ optionStore # NoEntry /\ req[r].option \notin optionStore
  \/ req[r].option \notin config.registered
  \/ req[r].form = "badData"

Gate(r) ==
  /\ pc[r] = "gate"
  /\ \/ OptionRefused(r) /\ Answer(r, "bad")
     \/ /\ ~OptionRefused(r)
        /\ Goto(r, "preRead")
        /\ UNCHANGED <<queue, req, tries, answer>>
  /\ UNCHANGED <<chainVars, relayVars, storeVars, channelVars, operatorVars,
                 envVars>>

(* handlePerformAction's reference read is made once, without retry.       *)
PreRead(r) ==
  /\ pc[r] = "preRead"
  /\ \/ ~Visible /\ Answer(r, "gateway")
     \/ Visible /\ Goto(r, "call") /\ UNCHANGED <<queue, req, tries, answer>>
  /\ UNCHANGED <<chainVars, relayVars, storeVars, channelVars, operatorVars,
                 envVars>>

CallFacilitator(r) ==
  /\ pc[r] = "call"
  /\ Goto(r, "await")
  /\ called' = called \cup {r}
  /\ UNCHANGED <<queue, req, tries, answer, landed, chainVars, storeVars,
                 channelVars, operatorVars, envVars>>

(* What the relay promises (module Relay): the meta-transaction lands at   *)
(* most once; a good answer means it landed; a bad answer, under           *)
(* "lostAnswer", means nothing, and it may still land afterwards.          *)
Land(r) ==
  /\ r \in called \ landed
  /\ pc[r] = "await" \/ answer[r].status = "lost" \/ "lostAnswer" \in Environment
  /\ Execute(req[r].action)
  /\ landed' = landed \cup {r}
  /\ UNCHANGED <<handlerVars, called, storeVars, channelVars, operatorVars,
                 envVars>>

(* Mutant: a rejected result is taken for a settled one.                   *)
FacilitatorReplied(r) == r \in called

FacilitatorAccepted(r) == r \in landed

ReplyAccepted(r) ==
  /\ pc[r] = "await"
  /\ FacilitatorAccepted(r)
  /\ Goto(r, "verify")
  /\ UNCHANGED <<queue, req, tries, answer, chainVars, relayVars, storeVars,
                 channelVars, operatorVars, envVars>>

(* FACILITATOR_REJECTED and FACILITATOR_UNREACHABLE: both are a 502.       *)
ReplyFailed(r) ==
  /\ pc[r] = "await"
  /\ r \notin landed \/ "lostAnswer" \in Environment
  /\ Answer(r, "gateway")
  /\ UNCHANGED <<chainVars, relayVars, storeVars, channelVars, operatorVars,
                 envVars>>

-----------------------------------------------------------------------------
(* verifyExchange re-reads up to VerifyAttempts times until the snapshot   *)
(* shows the action's post-state, and nothing later than it.               *)
Confirmed(r) == Visible /\ Snapshot = ACTION_POST_STATE[req[r].action]

(* Mutant: one attempt too many.                                           *)
MayRetryAgain(r) == tries[r] <= VerifyAttempts

MayRetry(r) == tries[r] < VerifyAttempts

Verify(r) ==
  /\ pc[r] = "verify"
  /\ \/ /\ Confirmed(r)
        /\ \/ r \in Others /\ Answer(r, "ok")
           \/ /\ r \in Redeems
              /\ Goto(r, IF req[r].option = NoOption THEN "dropOption"
                                                     ELSE "record")
              /\ UNCHANGED <<queue, req, tries, answer>>
     \/ /\ ~Confirmed(r) /\ MayRetry(r)
        /\ tries' = [tries EXCEPT ![r] = @ + 1]
        /\ UNCHANGED <<queue, pc, req, answer>>
     \/ ~Confirmed(r) /\ ~MayRetry(r) /\ Answer(r, "gateway")
  /\ UNCHANGED <<chainVars, relayVars, storeVars, channelVars, operatorVars,
                 envVars>>

SetRecovery(r, phase, err) ==
  /\ recovery' = Entry(r, phase, err)
  /\ UNCHANGED <<optionStore, queue, req, tries, chainVars, relayVars,
                 channelVars, operatorVars, envVars>>

(* Mutant: the pending entry already claims that onCommit persisted.       *)
RecordAsDelivery(r) ==
  /\ pc[r] = "record"
  /\ SetRecovery(r, "delivery", FALSE)
  /\ Goto(r, "onCommit")
  /\ UNCHANGED answer

RecordPending(r) ==
  /\ pc[r] = "record"
  /\ SetRecovery(r, "commit", FALSE)
  /\ Goto(r, "onCommit")
  /\ UNCHANGED answer

Persist(r) == target' = [target EXCEPT ![req[r].option] = r]

(* An adapter that throws may have stored the data before it threw.        *)
OnCommit(r) ==
  /\ pc[r] = "onCommit"
  /\ \/ /\ Persist(r)
        /\ Goto(r, IF req[r].option \in config.delivering THEN "markDelivery"
                                                          ELSE "clear")
     \/ /\ Persist(r) \/ UNCHANGED target
        /\ Goto(r, "onCommitFailed")
  /\ UNCHANGED <<queue, req, tries, answer, delivered, dispatches, chainVars,
                 relayVars, storeVars, operatorVars, envVars>>

(* Mutant: the deferral is only logged.                                    *)
DeferSilently(r, warning) == UNCHANGED answer

Defer(r, warning) ==
  answer' = [answer EXCEPT ![r].deferred = @ \cup {warning}]

OnCommitFailed(r) ==
  /\ pc[r] = "onCommitFailed"
  /\ SetRecovery(r, "commit", TRUE)
  /\ Defer(r, "UPDATE")
  /\ Goto(r, "dropOption")

MarkDelivery(r) ==
  /\ pc[r] = "markDelivery"
  /\ SetRecovery(r, "delivery", FALSE)
  /\ Goto(r, "onFulfill")
  /\ UNCHANGED answer

(* onFulfill throws when the channel holds no data for the exchange;       *)
(* otherwise it dispatches what it holds.                                  *)
Dispatch(o) ==
  /\ target[o] # NoOne
  /\ delivered' = delivered \cup {<<o, target[o]>>}
  /\ dispatches' = dispatches + 1

DispatchFails(o) ==
  \/ UNCHANGED <<delivered, dispatches>>
  \/ "ambiguousFailure" \in Environment /\ Dispatch(o)

OnFulfill(r) ==
  /\ pc[r] = "onFulfill"
  /\ \/ /\ Dispatch(req[r].option)
        /\ Goto(r, "clearDelivered")
        /\ answer' = [answer EXCEPT ![r].fulfillment = TRUE]
     \/ /\ DispatchFails(req[r].option)
        /\ Goto(r, "fulfillFailed")
        /\ UNCHANGED answer
  /\ UNCHANGED <<queue, req, tries, target, chainVars, relayVars, storeVars,
                 operatorVars, envVars>>

FulfillFailed(r) ==
  /\ pc[r] = "fulfillFailed"
  /\ SetRecovery(r, "delivery", TRUE)
  /\ Defer(r, "DELIVERY")
  /\ Goto(r, "dropOption")

(* Mutant: the entry is deleted in a finally block.                        *)
ClearEntryAlways(r) ==
  /\ pc[r] \in {"clear", "clearDelivered", "onCommitFailed", "fulfillFailed"}
  /\ recovery' = NoEntry
  /\ Goto(r, "dropOption")
  /\ UNCHANGED <<queue, req, tries, answer, optionStore, chainVars, relayVars,
                 channelVars, operatorVars, envVars>>

(* Mutant: the entry is not deleted.                                       *)
KeepEntry(r) ==
  /\ pc[r] \in {"clear", "clearDelivered"}
  /\ Goto(r, "dropOption")
  /\ UNCHANGED <<queue, req, tries, answer, storeVars, chainVars, relayVars,
                 channelVars, operatorVars, envVars>>

(* The entry is deleted after the dispatch, or after an onCommit of a      *)
(* channel that delivers out of band.                                      *)
ClearEntry(r) ==
  /\ pc[r] \in {"clear", "clearDelivered"}
  /\ recovery' = NoEntry
  /\ Goto(r, "dropOption")
  /\ UNCHANGED <<queue, req, tries, answer, optionStore, chainVars, relayVars,
                 channelVars, operatorVars, envVars>>

DropOption(r) ==
  /\ pc[r] = "dropOption"
  /\ optionStore' = NoEntry
  /\ Answer(r, "ok")
  /\ UNCHANGED <<recovery, chainVars, relayVars, channelVars, operatorVars,
                 envVars>>

(* Mutant: the mutex's promise is settled by a handler that returns only.  *)
IOFaultPinningTheKey(r) ==
  /\ "ioFault" \in Environment /\ ~faulted
  /\ \/ /\ pc[r] \in AwaitingIO /\ Goto(r, "done")
        /\ answer' = [answer EXCEPT ![r].status = "threw"]
        /\ UNCHANGED <<queue, req, tries>>
     \/ /\ pc[r] = "clearDelivered"
        /\ Goto(r, "fulfillFailed")
        /\ UNCHANGED <<queue, req, tries, answer>>
  /\ faulted' = TRUE
  /\ UNCHANGED <<config, crashed, chainVars, relayVars, storeVars, channelVars,
                 operatorVars>>

(* A rejected store or reader call escapes the handler, except the delete  *)
(* after a dispatch, whose catch treats it as a failed delivery.           *)
IOFault(r) ==
  /\ "ioFault" \in Environment /\ ~faulted
  /\ \/ pc[r] \in AwaitingIO /\ Answer(r, "threw")
     \/ /\ pc[r] = "clearDelivered"
        /\ Goto(r, "fulfillFailed")
        /\ UNCHANGED <<queue, req, tries, answer>>
  /\ faulted' = TRUE
  /\ UNCHANGED <<config, crashed, chainVars, relayVars, storeVars, channelVars,
                 operatorVars>>

-----------------------------------------------------------------------------
(* recovery.replay(exchangeId). It works on the entry it read, whatever    *)
(* becomes of the store meanwhile.                                         *)
Quiet ==
  /\ \A r \in Requests : pc[r] \notin InFlight
  /\ \A p \in Replays : rpc[p] \notin ReplayInFlight

RGoto(p, label) == rpc' = [rpc EXCEPT ![p] = label]

ReplayStart(p) ==
  /\ rpc[p] = "idle"
  /\ Quiet \/ "anytimeReplay" \in Environment
  /\ rentry' = [rentry EXCEPT ![p] = recovery]
  /\ RGoto(p, CASE recovery = NoEntry                           -> "failed"
                [] recovery # NoEntry
                     /\ recovery.option \notin config.registered -> "noAdapter"
                [] recovery # NoEntry
                     /\ recovery.option \in config.registered
                     /\ recovery.phase = "commit"               -> "onCommit"
                [] recovery # NoEntry
                     /\ recovery.option \in config.registered
                     /\ recovery.phase = "delivery" ->
                       IF recovery.option \in config.delivering
                         THEN "onFulfill" ELSE "noAdapter")
  /\ UNCHANGED <<chainVars, handlerVars, relayVars, storeVars, channelVars,
                 envVars>>

ReplayOnCommit(p) ==
  /\ rpc[p] = "onCommit"
  /\ \/ /\ target' = [target EXCEPT ![rentry[p].option] = rentry[p].from]
        /\ RGoto(p, "clear")
     \/ /\ \/ target' = [target EXCEPT ![rentry[p].option] = rentry[p].from]
           \/ UNCHANGED target
        /\ RGoto(p, "fail")
  /\ UNCHANGED <<rentry, delivered, dispatches, chainVars, handlerVars,
                 relayVars, storeVars, envVars>>

ReplayOnFulfill(p) ==
  /\ rpc[p] = "onFulfill"
  /\ \/ Dispatch(rentry[p].option) /\ RGoto(p, "clear")
     \/ DispatchFails(rentry[p].option) /\ RGoto(p, "fail")
  /\ UNCHANGED <<rentry, target, chainVars, handlerVars, relayVars, storeVars,
                 envVars>>

ReplayClear(p) ==
  /\ rpc[p] = "clear"
  /\ recovery' = NoEntry
  /\ RGoto(p, "ok")
  /\ UNCHANGED <<optionStore, rentry, chainVars, handlerVars, relayVars,
                 channelVars, envVars>>

(* Every failing branch writes back the entry it read, with its error.     *)
ReplayFail(p) ==
  /\ rpc[p] \in {"fail", "noAdapter"}
  /\ recovery' = [rentry[p] EXCEPT !.error = TRUE]
  /\ RGoto(p, "failed")
  /\ UNCHANGED <<optionStore, rentry, chainVars, handlerVars, relayVars,
                 channelVars, envVars>>

(* A rejected call leaves replay, except the delete inside its try block.  *)
ReplayIOFault(p) ==
  /\ "ioFault" \in Environment /\ ~faulted
  /\ \/ rpc[p] \in {"fail", "noAdapter"} /\ RGoto(p, "failed")
     \/ rpc[p] = "clear" /\ RGoto(p, "fail")
  /\ faulted' = TRUE
  /\ UNCHANGED <<config, crashed, rentry, chainVars, handlerVars, relayVars,
                 storeVars, channelVars>>

-----------------------------------------------------------------------------
(* The process restarts: requests and replays in flight are gone, and so   *)
(* is what was kept in memory.                                             *)
Crash ==
  /\ "crash" \in Environment /\ ~crashed
  /\ crashed' = TRUE
  /\ config' \in Configs
  /\ queue' = <<>>
  /\ pc' = [r \in Requests |-> IF pc[r] \in InFlight THEN "done" ELSE pc[r]]
  /\ answer' = [r \in Requests |->
                  IF pc[r] \in InFlight
                    THEN [answer[r] EXCEPT !.status = "lost"]
                    ELSE answer[r]]
  /\ rpc' = [p \in Replays |->
               IF rpc[p] \in ReplayInFlight THEN "lost" ELSE rpc[p]]
  /\ IF "volatileStores" \in Environment
       THEN optionStore' = NoEntry /\ recovery' = NoEntry
       ELSE UNCHANGED storeVars
  /\ target' = IF "volatileChannels" \in Environment
                 THEN [o \in Options |-> NoOne] ELSE target
  /\ UNCHANGED <<req, tries, delivered, dispatches, rentry, faulted, chainVars,
                 relayVars>>

(* Somebody acts on the exchange directly or through another relayer.      *)
Elsewhere(a) ==
  /\ "elsewhere" \in Environment
  /\ Execute(a)
  /\ UNCHANGED <<handlerVars, relayVars, storeVars, channelVars, operatorVars,
                 envVars>>

ReaderCatchesUp ==
  /\ Index
  /\ UNCHANGED <<handlerVars, relayVars, storeVars, channelVars, operatorVars,
                 envVars>>

(* All but the answer of the relay, which may not come.                    *)
OwnStep(r) ==
  \/ Enter(r) \/ Gate(r) \/ PreRead(r) \/ CallFacilitator(r) \/ Verify(r)
  \/ RecordPending(r) \/ OnCommit(r) \/ OnCommitFailed(r)
  \/ MarkDelivery(r) \/ OnFulfill(r) \/ FulfillFailed(r)
  \/ ClearEntry(r) \/ DropOption(r)

HandlerStep(r) == OwnStep(r) \/ ReplyAccepted(r) \/ ReplyFailed(r)

ReplayStep(p) ==
  \/ ReplayOnCommit(p) \/ ReplayOnFulfill(p) \/ ReplayClear(p) \/ ReplayFail(p)

Next ==
  \/ \E r \in Redeems, input \in RedeemInput : Arrive(r, input)
  \/ \E r \in Others, input \in OtherInput : Arrive(r, input)
  \/ \E r \in Requests : HandlerStep(r) \/ Land(r) \/ IOFault(r)
  \/ \E p \in Replays : ReplayStart(p) \/ ReplayStep(p) \/ ReplayIOFault(p)
  \/ \E a \in POST_COMMIT_ACTION_IDS : Elsewhere(a)
  \/ ReaderCatchesUp
  \/ Crash

Spec == Init /\ [][Next]_vars

(* The event loop runs, and what the host's stores, reader and adapters    *)
(* promise settles, one way or the other. A relay call owes nothing.       *)
Fairness ==
  /\ \A r \in Requests : WF_vars(OwnStep(r))
  /\ \A p \in Replays : WF_vars(ReplayStep(p))

FairSpec == Spec /\ Fairness

-----------------------------------------------------------------------------
(* Where a handler is once the facilitator has accepted its action.        *)
Accepted == {"verify", "record", "onCommit", "onCommitFailed", "markDelivery",
             "onFulfill", "fulfillFailed", "clear", "clearDelivered",
             "dropOption"}

(* What the server holds of a request: its data in the recovery store, in  *)
(* a channel or already dispatched, or its confirmation to the buyer.      *)
DataHolders ==
  {r \in Redeems :
     \/ recovery # NoEntry /\ recovery.from = r
     \/ \E o \in Options : target[o] = r \/ <<o, r>> \in delivered
     \/ \E p \in Replays : rentry[p] # NoEntry /\ rentry[p].from = r
     \/ pc[r] \in Accepted
     \/ answer[r].status = "ok"}

(* The delivery data the server keeps, sends or confirms is always that of *)
(* the one wallet whose own boson-redeem the contract executed: a voucher  *)
(* holder who loses the race for it never leaves a trace, whatever the     *)
(* interleaving of requests, replays, restarts and lost answers            *)
(* (handleRedeem's deferral of onCommit until after the redeem).           *)
OneRedeemersData ==
  /\ DataHolders \subseteq landed
  /\ \A r, s \in DataHolders : r = s

(* A "delivery" entry means onCommit persisted: the channel still holds    *)
(* the data its replay will dispatch (FulfillmentRecoveryEntry.phase).     *)
DeliveryEntryPersisted ==
  recovery # NoEntry /\ recovery.phase = "delivery"
    => target[recovery.option] = recovery.from

(* A redeem never reaches a channel the offer did not advertise, although  *)
(* the gate is read before the mutex-held redeem and dropped after it      *)
(* (exchangeFulfillmentOptionStore).                                       *)
OnlyAdvertisedChannels ==
  \A o \in Options : target[o] # NoOne => o \in Advertised

(* The work an entry stands for: delivered, or stored by a channel whose   *)
(* host delivers out of band.                                              *)
Complete(e) ==
  IF e.option \in config.delivering
    THEN <<e.option, e.from>> \in delivered
    ELSE target[e.option] = e.from

(* The recovery entry of an exchange only moves forward: it appears as a   *)
(* pending commit, may turn into a pending delivery, and disappears only   *)
(* when the buyer's data has really been taken care of.                    *)
EntryMovesForward ==
  [][ recovery' # recovery =>
        \/ /\ recovery = NoEntry
           /\ recovery'.phase = "commit"
        \/ /\ recovery # NoEntry /\ recovery' # NoEntry
           /\ recovery'.from = recovery.from
           /\ recovery.phase = "delivery" => recovery'.phase = "delivery"
        \/ recovery # NoEntry /\ recovery' = NoEntry /\ Complete(recovery) ]_vars

(* A 200 of the redeem route tells the buyer the truth: a fulfillment body *)
(* or a silent 200 means the data is taken care of, and a DEFERRED warning *)
(* means the entry an operator needs is in the store.                      *)
AnswersTellTheTruth ==
  [][ \A r \in Redeems :
        pc[r] # "done" /\ answer'[r].status = "ok" /\ req[r].option # NoOption
          => /\ answer'[r].fulfillment => <<req[r].option, r>> \in delivered
             /\ answer'[r].deferred = {} => Complete(Entry(r, "commit", FALSE))
             /\ answer'[r].deferred # {} =>
                  recovery' # NoEntry /\ recovery'.from = r ]_vars

(* When nobody else touches the exchange and answers are not lost, the     *)
(* mutex keeps the server out of its own way: the state a handler is       *)
(* verifying cannot be overtaken by another handler's action.              *)
NeverOvertaken ==
  \A r \in Requests : pc[r] = "verify" => Now = ACTION_POST_STATE[req[r].action]

(* Without restarts, rejected stores and ambiguous adapters, no buyer is   *)
(* sent the resource twice: not by a handler, a replay, or both.           *)
DispatchedOnce == dispatches <= 1

(* No failure pins the exchange: a request that waits for the mutex behind *)
(* handlers that throw, are refused, or whose process restarts, is         *)
(* answered or lost with its process, unless the handler that holds the    *)
(* mutex hangs for ever on a relay call whose response body does not end.  *)
EveryRequestAnswered ==
  \A r \in Requests :
    pc[r] = "queued" ~> pc[r] = "done" \/ \E s \in Requests : [](pc[s] = "await")

(* Replay's promise: once it reports success the redeem is complete.       *)
ReplayCompletes ==
  [][ \A p \in Replays :
        rpc[p] # "ok" /\ rpc'[p] = "ok" => Complete(rentry[p]) ]_vars
=============================================================================
