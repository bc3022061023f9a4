------------------------- MODULE CommitServer_proofs -------------------------
(***************************************************************************)
(* One payment buys one thing, for any number of requests that carry it,   *)
(* any options and adapters, and any environment. The commit route has no  *)
(* lock: what keeps the requests apart is that only the call that landed   *)
(* the payment is ever accepted, that it stays the one that did, and that  *)
(* nothing is kept, delivered or granted before the acceptance.            *)
(***************************************************************************)
EXTENDS CommitServer, TLAPS

Own(r) == landedBy[Payment] = r

Past(r) == pc[r] \in InFlight \ {"settle"}

(* What the server has done for a request, or is about to.                 *)
Holds(r) == Past(r) \/ r \in DataHolders

StatesOK ==
  /\ landedBy \in [{Payment} -> Calls \cup {NoOne}]
  /\ pc \in [Requests -> InFlight \cup {"idle", "done"}]
  /\ answer \in [Requests -> Answers]
  /\ target \in [Options -> Requests \cup {NoOne}]

Inv == StatesOK /\ \A r \in Requests : Holds(r) => Own(r)

-----------------------------------------------------------------------------
LEMMA InitInv == Init => Inv
<1>1. SUFFICES ASSUME Init PROVE Inv
  OBVIOUS
<1>2. StatesOK
  BY <1>1 DEF Init, Relay!Init, StatesOK, Answers
<1>3. ASSUME NEW r \in Requests PROVE ~Holds(r)
  BY <1>1, CallsAssumption DEF Init, Holds, Past, DataHolders, InFlight, Calls
<1>4. QED
  BY <1>2, <1>3 DEF Inv

(* The one who landed the payment never changes.                           *)
LEMMA OwnStays ==
  ASSUME Inv, NEW r \in Requests, Own(r),
         UNCHANGED landedBy \/ \E c \in Calls : Relay!Land(c)
  PROVE  Own(r)'
BY CallsAssumption DEF Own, Relay!Land, Inv, StatesOK, Calls

(* A step is harmless when whoever it makes a holder already was one, or   *)
(* has landed the payment.                                                 *)
LEMMA HarmlessStep ==
  ASSUME Inv, StatesOK',
         UNCHANGED landedBy \/ \E c \in Calls : Relay!Land(c),
         \A q \in Requests : Holds(q)' => Holds(q) \/ Own(q)
  PROVE  Inv'
<1>1. ASSUME NEW q \in Requests, Holds(q)' PROVE Own(q)'
  BY <1>1, OwnStays DEF Inv
<1>2. QED
  BY <1>1 DEF Inv

(* How one request's step may change what the others hold: not at all, but *)
(* for a dispatch of data that was theirs.                                 *)
OthersAlone(r) ==
  \A q \in Requests \ {r} :
    /\ pc'[q] = pc[q] /\ answer'[q].status = answer[q].status
    /\ recovery' # NoEntry /\ recovery'.from = q
         => recovery # NoEntry /\ recovery.from = q
    /\ \A o \in Options :
         /\ target'[o] = q => target[o] = q
         /\ <<o, q>> \in delivered' => <<o, q>> \in delivered \/ target[o] = q

LEMMA OwnersStep ==
  ASSUME Inv, StatesOK', NEW r \in Requests, Own(r), UNCHANGED landedBy, OthersAlone(r)
  PROVE  Inv'
<1>1. ASSUME NEW q \in Requests, q # r, Holds(q)' PROVE Holds(q)
  BY <1>1 DEF OthersAlone, Holds, Past, DataHolders
<1>2. QED
  BY <1>1, HarmlessStep

-----------------------------------------------------------------------------
(* How the handler's pieces change the request's own records.              *)
LEMMA AnswerTypes ==
  ASSUME Inv, NEW r \in Requests,
         NEW status \in {"ok", "bad", "gateway", "threw", "lost"}, Answer(r, status)
  PROVE  /\ pc' \in [Requests -> InFlight \cup {"idle", "done"}]
         /\ answer' \in [Requests -> Answers]
         /\ ~Past(r)' /\ answer'[r].status = status
         /\ \A q \in Requests \ {r} : pc'[q] = pc[q] /\ answer'[q] = answer[q]
<1>1. [answer[r] EXCEPT !.status = status] \in Answers
  BY DEF Inv, StatesOK, Answers
<1>2. answer' \in [Requests -> Answers]
  BY <1>1 DEF Answer, Inv, StatesOK
<1>3. answer'[r].status = status
  BY DEF Answer, Inv, StatesOK, Answers
<1>4. QED
  BY <1>2, <1>3 DEF Answer, Goto, Past, InFlight, Inv, StatesOK

LEMMA GotoTypes ==
  ASSUME Inv, NEW r \in Requests, NEW label \in InFlight \cup {"done"}, Goto(r, label)
  PROVE  /\ pc' \in [Requests -> InFlight \cup {"idle", "done"}]
         /\ pc'[r] = label
         /\ \A q \in Requests \ {r} : pc'[q] = pc[q]
BY DEF Goto, Inv, StatesOK

LEMMA ProceedTypes ==
  ASSUME Inv, NEW r \in Requests, NEW label \in InFlight, Proceed(r, label)
  PROVE  /\ pc' \in [Requests -> InFlight \cup {"idle", "done"}]
         /\ answer' \in [Requests -> Answers]
         /\ \A q \in Requests \ {r} : pc'[q] = pc[q] /\ answer'[q] = answer[q]
BY GotoTypes DEF Proceed, Inv, StatesOK

(* A step of an owner that changes nothing but its own place and answer.   *)
LEMMA PlaceStep ==
  ASSUME Inv, NEW r \in Requests, Own(r),
         \/ \E status \in {"ok", "gateway", "threw"} : Answer(r, status)
         \/ \E label \in InFlight : Proceed(r, label)
         \/ UNCHANGED <<pc, answer>>,
         UNCHANGED landedBy, UNCHANGED <<recovery, target, delivered>>
           \/ (recovery' = NoEntry /\ UNCHANGED <<target, delivered>>)
  PROVE  Inv'
<1>1. /\ pc' \in [Requests -> InFlight \cup {"idle", "done"}]
      /\ answer' \in [Requests -> Answers]
      /\ \A q \in Requests \ {r} : pc'[q] = pc[q] /\ answer'[q] = answer[q]
  BY AnswerTypes, ProceedTypes DEF Inv, StatesOK
<1>2. StatesOK'
  BY <1>1 DEF Inv, StatesOK
<1>3. OthersAlone(r)
  BY <1>1 DEF OthersAlone
<1>4. QED
  BY <1>2, <1>3, OwnersStep

LEMMA PastOwns ==
  ASSUME Inv, NEW r \in Requests, pc[r] \in InFlight \ {"settle"} PROVE Own(r)
BY DEF Inv, Holds, Past

(* The recovery entry, the answer and the place of an owner.               *)
LEMMA RecoveryStep ==
  ASSUME Inv, NEW r \in Requests, Own(r), UNCHANGED landedBy,
         NEW phase, NEW err, NEW label \in InFlight \cup {"done"},
         SetRecovery(r, phase, err, label),
         UNCHANGED answer \/ \E deferral \in SUBSET {"COMMIT", "DELIVERY"} :
                               Finish(r, "ok", deferral)
  PROVE  Inv'
<1>1. answer' \in [Requests -> Answers]
      /\ \A q \in Requests \ {r} : answer'[q] = answer[q]
  <2>1. CASE UNCHANGED answer
    BY <2>1 DEF Inv, StatesOK
  <2>2. ASSUME NEW deferral \in SUBSET {"COMMIT", "DELIVERY"}, Finish(r, "ok", deferral)
        PROVE  answer' \in [Requests -> Answers]
               /\ \A q \in Requests \ {r} : answer'[q] = answer[q]
    <3>1. answer[r] \in Answers
      BY DEF Inv, StatesOK
    <3>2. [answer[r] EXCEPT !.status = "ok", !.deferred = @ \cup deferral] \in Answers
      BY <3>1 DEF Answers
    <3>3. QED
      BY <2>2, <3>2 DEF Finish, Inv, StatesOK
  <2>3. QED
    BY <2>1, <2>2
<1>2. pc' \in [Requests -> InFlight \cup {"idle", "done"}]
      /\ \A q \in Requests \ {r} : pc'[q] = pc[q]
  BY GotoTypes DEF SetRecovery
<1>3. UNCHANGED <<target, delivered>> /\ recovery'.from = r
  BY DEF SetRecovery, channelVars, Entry
<1>4. StatesOK'
  BY <1>1, <1>2, <1>3 DEF Inv, StatesOK
<1>5. OthersAlone(r)
  BY <1>1, <1>2, <1>3 DEF OthersAlone
<1>6. QED
  BY <1>4, <1>5, OwnersStep

LEMMA OnCommitInv == ASSUME Inv, NEW r \in Requests, OnCommit(r) PROVE Inv'
<1>1. Own(r)
  BY PastOwns DEF OnCommit, InFlight
<1>2. \E label \in InFlight : Proceed(r, label)
  BY DEF OnCommit, InFlight
<1>3. /\ pc' \in [Requests -> InFlight \cup {"idle", "done"}]
      /\ answer' \in [Requests -> Answers]
      /\ \A q \in Requests \ {r} : pc'[q] = pc[q] /\ answer'[q] = answer[q]
  BY <1>2, ProceedTypes
<1>4. UNCHANGED target \/ Persist(r)
  BY DEF OnCommit
<1>5. /\ target' \in [Options -> Requests \cup {NoOne}]
      /\ \A q \in Requests \ {r}, o \in Options : target'[o] = q => target[o] = q
  BY <1>4 DEF Persist, Inv, StatesOK
<1>6. UNCHANGED <<landedBy, recovery, delivered>>
  BY DEF OnCommit, relayVars, storeVars
<1>7. StatesOK'
  BY <1>3, <1>5, <1>6 DEF Inv, StatesOK
<1>8. OthersAlone(r)
  BY <1>3, <1>5, <1>6 DEF OthersAlone
<1>9. QED
  BY <1>1, <1>6, <1>7, <1>8, OwnersStep

(* What a channel dispatches is what it holds, whoever asked for it.       *)
LEMMA OnFulfillInv == ASSUME Inv, NEW r \in Requests, OnFulfill(r) PROVE Inv'
<1>1. Own(r)
  BY PastOwns DEF OnFulfill, InFlight
<1>2. \E label \in InFlight : Goto(r, label)
  BY DEF OnFulfill, InFlight
<1>3. /\ pc' \in [Requests -> InFlight \cup {"idle", "done"}]
      /\ \A q \in Requests \ {r} : pc'[q] = pc[q]
  BY <1>2, GotoTypes
<1>4. answer' \in [Requests -> Answers]
      /\ \A q \in Requests \ {r} : answer'[q] = answer[q]
  <2>1. [answer[r] EXCEPT !.fulfillment = TRUE] \in Answers
    BY DEF Inv, StatesOK, Answers
  <2>2. QED
    BY <2>1 DEF OnFulfill, Inv, StatesOK
<1>5. UNCHANGED <<landedBy, recovery, target>>
  BY DEF OnFulfill, relayVars, storeVars
<1>6. UNCHANGED delivered \/ Dispatch(option[r])
  BY DEF OnFulfill
<1>7. \A q \in Requests, o \in Options :
        <<o, q>> \in delivered' => <<o, q>> \in delivered \/ target[o] = q
  BY <1>6 DEF Dispatch
<1>8. StatesOK'
  BY <1>3, <1>4, <1>5 DEF Inv, StatesOK
<1>9. OthersAlone(r)
  BY <1>3, <1>4, <1>5, <1>7 DEF OthersAlone
<1>10. QED
  BY <1>1, <1>5, <1>8, <1>9, OwnersStep

(* The answer that makes a request an owner.                               *)
LEMMA SettleRepliedInv == ASSUME Inv, NEW r \in Requests, SettleReplied(r) PROVE Inv'
<1>1. UNCHANGED <<landedBy, recovery, target, delivered>>
  BY DEF SettleReplied, Relay!Accept, Relay!Fail, storeVars, channelVars
<1>2. CASE Relay!Accept(r) /\ Proceed(r, "verify")
  <2>1. Own(r)
    BY <1>2 DEF Relay!Accept, Own, Calls
  <2>2. QED
    BY <1>1, <1>2, <2>1, PlaceStep DEF InFlight
<1>3. CASE Relay!Fail(r) /\ Answer(r, "gateway")
  <2>1. StatesOK'
    BY <1>1, <1>3, AnswerTypes DEF Inv, StatesOK
  <2>2. ASSUME NEW q \in Requests, Holds(q)' PROVE Holds(q)
    BY <1>1, <1>3, <2>2, AnswerTypes DEF Holds, Past, DataHolders
  <2>3. QED
    BY <1>1, <2>1, <2>2, HarmlessStep
<1>4. QED
  BY <1>2, <1>3 DEF SettleReplied

LEMMA HandlerStepInv == ASSUME Inv, NEW r \in Requests, HandlerStep(r) PROVE Inv'
<1>1. CASE SettleReplied(r)
  BY <1>1, SettleRepliedInv
<1>2. CASE Verify(r)
  <2>1. Own(r)
    BY <1>2, PastOwns DEF Verify, InFlight
  <2>2. UNCHANGED <<landedBy, recovery, target, delivered>>
    BY <1>2 DEF Verify, relayVars, storeVars, channelVars
  <2>3. \/ \E status \in {"ok", "gateway", "threw"} : Answer(r, status)
        \/ \E label \in InFlight : Proceed(r, label)
        \/ UNCHANGED <<pc, answer>>
    BY <1>2 DEF Verify, InFlight
  <2>4. QED
    BY <2>1, <2>2, <2>3, PlaceStep
<1>3. CASE StoreOptions(r)
  <2>1. Own(r)
    BY <1>3, PastOwns DEF StoreOptions, InFlight
  <2>2. QED
    BY <1>3, <2>1, PlaceStep DEF StoreOptions, relayVars, channelVars
<1>4. CASE RecordPending(r)
  <2>1. Own(r) /\ UNCHANGED landedBy
    BY <1>4, PastOwns DEF RecordPending, InFlight, SetRecovery, relayVars
  <2>2. QED
    BY <1>4, <2>1, RecoveryStep DEF RecordPending, InFlight
<1>5. CASE OnCommit(r)
  BY <1>5, OnCommitInv
<1>6. CASE OnCommitFailed(r)
  <2>1. Own(r) /\ UNCHANGED landedBy
    BY <1>6, PastOwns DEF OnCommitFailed, InFlight, SetRecovery, relayVars
  <2>2. QED
    BY <1>6, <2>1, RecoveryStep DEF OnCommitFailed
<1>7. CASE MarkDelivery(r)
  <2>1. Own(r) /\ UNCHANGED landedBy
    BY <1>7, PastOwns DEF MarkDelivery, InFlight, SetRecovery, relayVars
  <2>2. QED
    BY <1>7, <2>1, RecoveryStep DEF MarkDelivery, InFlight
<1>8. CASE OnFulfill(r)
  BY <1>8, OnFulfillInv
<1>9. CASE FulfillFailed(r)
  <2>1. Own(r) /\ UNCHANGED landedBy
    BY <1>9, PastOwns DEF FulfillFailed, InFlight, SetRecovery, relayVars
  <2>2. QED
    BY <1>9, <2>1, RecoveryStep DEF FulfillFailed
<1>10. CASE ClearEntry(r)
  <2>1. Own(r)
    BY <1>10, PastOwns DEF ClearEntry, InFlight
  <2>2. QED
    BY <1>10, <2>1, PlaceStep DEF ClearEntry, relayVars, channelVars
<1>11. QED
  BY <1>1, <1>2, <1>3, <1>4, <1>5, <1>6, <1>7, <1>8, <1>9, <1>10 DEF HandlerStep

LEMMA IOFaultInv == ASSUME Inv, NEW r \in Requests, IOFault(r) PROVE Inv'
<1>1. Own(r)
  BY PastOwns DEF IOFault, InFlight, Caught
<1>2. UNCHANGED <<landedBy, recovery, target, delivered>>
  BY DEF IOFault, relayVars, storeVars, channelVars
<1>3. Answer(r, "threw") \/ \E label \in InFlight : Proceed(r, label)
  BY DEF IOFault, InFlight, Caught
<1>4. QED
  BY <1>1, <1>2, <1>3, PlaceStep

LEMMA ArriveInv ==
  ASSUME Inv, NEW r \in Requests, NEW o, NEW wellFormed, Arrive(r, o, wellFormed)
  PROVE  Inv'
<1>1. UNCHANGED <<landedBy, recovery, target, delivered>>
  BY DEF Arrive, relayVars, storeVars, channelVars, Relay!Call
<1>2. \E label \in {"done", "settle"} : Goto(r, label)
  BY DEF Arrive
<1>3. /\ pc' \in [Requests -> InFlight \cup {"idle", "done"}]
      /\ \A q \in Requests : Past(q)' => Past(q)
  BY <1>2 DEF Goto, Past, InFlight, Inv, StatesOK
<1>4. /\ answer' \in [Requests -> Answers]
      /\ \A q \in Requests : answer'[q].status = "ok" => answer[q].status = "ok"
  <2>1. [answer[r] EXCEPT !.status = "bad"] \in Answers
    BY DEF Inv, StatesOK, Answers
  <2>2. [answer[r] EXCEPT !.status = "bad"].status # "ok"
    BY DEF Inv, StatesOK, Answers
  <2>3. QED
    BY <2>1, <2>2 DEF Arrive, Inv, StatesOK
<1>5. StatesOK'
  BY <1>1, <1>3, <1>4 DEF Inv, StatesOK
<1>6. ASSUME NEW q \in Requests, Holds(q)' PROVE Holds(q)
  BY <1>1, <1>3, <1>4, <1>6 DEF Holds, DataHolders
<1>7. QED
  BY <1>1, <1>5, <1>6, HarmlessStep

LEMMA CrashInv == ASSUME Inv, Crash PROVE Inv'
<1>1. UNCHANGED <<landedBy, delivered>>
  BY DEF Crash, relayVars
<1>2. /\ pc' \in [Requests -> InFlight \cup {"idle", "done"}]
      /\ \A q \in Requests : ~Past(q)'
  BY DEF Crash, Past, InFlight, Inv, StatesOK
<1>3. /\ answer' \in [Requests -> Answers]
      /\ \A q \in Requests : answer'[q].status = "ok" => answer[q].status = "ok"
  <2>1. \A q \in Requests : [answer[q] EXCEPT !.status = "lost"] \in Answers
                            /\ [answer[q] EXCEPT !.status = "lost"].status # "ok"
    BY DEF Inv, StatesOK, Answers
  <2>2. QED
    BY <2>1 DEF Crash, Inv, StatesOK
<1>4. /\ target' \in [Options -> Requests \cup {NoOne}]
      /\ \A q \in Requests, o \in Options : target'[o] = q => target[o] = q
  BY CallsAssumption DEF Crash, Inv, StatesOK, Calls
<1>5. recovery' = NoEntry \/ UNCHANGED recovery
  BY DEF Crash, storeVars
<1>6. StatesOK'
  BY <1>1, <1>2, <1>3, <1>4 DEF Inv, StatesOK
<1>7. ASSUME NEW q \in Requests, Holds(q)' PROVE Holds(q)
  BY <1>1, <1>2, <1>3, <1>4, <1>5, <1>7 DEF Holds, DataHolders
<1>8. QED
  BY <1>1, <1>6, <1>7, HarmlessStep

(* The steps outside the handlers leave what the server holds alone.       *)
LEMMA OutsideInv ==
  ASSUME Inv, UNCHANGED <<pc, answer, recovery, target, delivered>>,
         UNCHANGED landedBy \/ \E c \in Calls : Relay!Land(c)
  PROVE  Inv'
<1>1. StatesOK'
  BY CallsAssumption DEF Inv, StatesOK, Relay!Land, Calls
<1>2. \A q \in Requests : Holds(q)' => Holds(q)
  BY DEF Holds, Past, DataHolders
<1>3. QED
  BY <1>1, <1>2, HarmlessStep

LEMMA StepInv == Inv /\ [Next]_vars => Inv'
<1>1. SUFFICES ASSUME Inv, [Next]_vars PROVE Inv'
  OBVIOUS
<1>2. ASSUME NEW r \in Requests, NEW o, NEW wellFormed, Arrive(r, o, wellFormed)
      PROVE  Inv'
  BY <1>1, <1>2, ArriveInv
<1>3. ASSUME NEW r \in Requests, HandlerStep(r) \/ IOFault(r) PROVE Inv'
  BY <1>1, <1>3, HandlerStepInv, IOFaultInv
<1>4. ASSUME NEW d \in Direct, DirectCall(d) PROVE Inv'
  BY <1>1, <1>4, OutsideInv
  DEF DirectCall, Relay!Call, requestVars, storeVars, channelVars
<1>5. ASSUME NEW c \in Calls, Land(c) PROVE Inv'
  BY <1>1, <1>5, OutsideInv DEF Land, requestVars, storeVars, channelVars
<1>6. CASE RedeemGate \/ RedeemLands \/ RedeemDrops \/ ReaderCatchesUp
           \/ \E a \in POST_COMMIT_ACTION_IDS : Elsewhere(a)
  BY <1>1, <1>6, OutsideInv
  DEF RedeemGate, RedeemLands, RedeemDrops, ReaderCatchesUp, Elsewhere, requestVars,
      relayVars, storeVars, channelVars
<1>7. CASE Crash
  BY <1>1, <1>7, CrashInv
<1>8. CASE UNCHANGED vars
  BY <1>1, <1>8, OutsideInv DEF vars, requestVars, relayVars, storeVars, channelVars
<1>9. QED
  BY <1>1, <1>2, <1>3, <1>4, <1>5, <1>6, <1>7, <1>8 DEF Next

(* Of all the requests that carry one payment, only the one whose own      *)
(* settlement created the exchange is granted, and only its data is kept   *)
(* or delivered (handleCommit and handleCommitAndRedeem).                  *)
THEOREM OnePayer == Spec => []OnePayersData
<1>1. Inv => OnePayersData
  BY DEF Inv, Holds, Own, OnePayersData, DataHolders
<1>2. QED
  BY <1>1, InitInv, StepInv, PTL DEF Spec
-----------------------------------------------------------------------------
(* Types, and what the place of a request says of its flow, its answer and *)
(* its data. Only an owner gets past "settle", so the data of a request    *)
(* that is being fulfilled cannot be replaced by another's.                *)
World ==
  /\ ChainTypeOK
  /\ landedBy[Payment] = NoOne => history = <<>>
  /\ flow \in COMMIT_ACTION_IDS
  /\ option \in [Requests -> Options \cup {NoOption}]
  /\ tries \in [Requests -> 1 .. VerifyAttempts]
  /\ called \subseteq Calls
  /\ reply \in [Calls -> {"none", "ok", "rejected", "threw"}]
  /\ optionStore = NoEntry \/ optionStore \in SUBSET Options
  /\ recovery \in RecoveryEntry \cup {NoEntry}
  /\ delivered \subseteq Options \X Requests
  /\ redeem \in {"idle", "gated", "landed", "done"}
  /\ gate = NoEntry \/ gate \in SUBSET Options
  /\ crashed \in BOOLEAN
  /\ faults \in 0 .. MaxFaults

Fulfilling ==
  {"record", "onCommit", "onCommitFailed", "markDelivery", "onFulfill",
   "fulfillFailed", "clear", "clearDelivered"}

Persisted == {"markDelivery", "onFulfill", "fulfillFailed", "clear", "clearDelivered"}

PlaceOK(r) ==
  /\ pc[r] = "storeOptions" => FlowA
  /\ pc[r] \in Fulfilling => FlowB /\ option[r] \in Options
  /\ pc[r] \in Persisted => target[option[r]] = r
  /\ pc[r] = "clear" => option[r] \notin Delivering
  /\ pc[r] = "clearDelivered" => <<option[r], r>> \in delivered

AnswerOK(r) ==
  /\ pc[r] # "done" => answer[r].deferred = {} /\ answer[r].status = "none"
  /\ answer[r].fulfillment => pc[r] # "idle" /\ <<option[r], r>> \in delivered

RequestOK(r) == PlaceOK(r) /\ AnswerOK(r)

RouteInv == Inv /\ World /\ \A r \in Requests : RequestOK(r)

LEMMA PostStates ==
  ASSUME NEW a \in EXCHANGE_ACTION_IDS PROVE ACTION_POST_STATE[a] \in ClientState
BY DEF EXCHANGE_ACTION_IDS, POST_COMMIT_ACTION_IDS, COMMIT_ACTION_IDS, ACTION_POST_STATE,
       ClientState, ExchangeState, DisputeState, NoDispute, InState, InDispute, PRE_COMMIT

LEMMA ExecuteType ==
  ASSUME ChainTypeOK, NEW a \in EXCHANGE_ACTION_IDS, Execute(a)
  PROVE  ChainTypeOK' /\ history # <<>>
<1>1. ACTION_POST_STATE[a] \in ClientState
  BY PostStates
<1>2. QED
  BY <1>1 DEF ChainTypeOK, Execute, Executable

LEMMA IndexType == ASSUME ChainTypeOK, Index PROVE ChainTypeOK' /\ UNCHANGED history
BY DEF ChainTypeOK, Index

(* Accepted or not, a reply changes nothing but its call's.                *)
LEMMA ReplyType ==
  ASSUME World, NEW c \in Calls, Relay!Accept(c) \/ Relay!Fail(c)
  PROVE  /\ reply' \in [Calls -> {"none", "ok", "rejected", "threw"}]
         /\ UNCHANGED <<called, landedBy>>
BY DEF World, Relay!Accept, Relay!Fail

(* What a step of one request leaves to the others.                        *)
Frame(r) ==
  /\ UNCHANGED flow
  /\ \A q \in Requests \ {r} :
       pc'[q] = pc[q] /\ option'[q] = option[q] /\ answer'[q] = answer[q]
  /\ delivered \subseteq delivered'
  /\ UNCHANGED target \/ (pc[r] = "onCommit" /\ Persist(r))

LEMMA OthersOK ==
  ASSUME RouteInv, NEW r \in Requests, Frame(r), NEW q \in Requests \ {r}
  PROVE  RequestOK(q)'
<1>1. ASSUME pc[q] \in Persisted PROVE target'[option[q]] = q
  <2>1. Own(q) /\ target[option[q]] = q
    BY <1>1, PastOwns DEF RouteInv, RequestOK, PlaceOK, Persisted, InFlight
  <2>2. ASSUME pc[r] = "onCommit" PROVE FALSE
    BY <2>1, <2>2, PastOwns DEF RouteInv, InFlight, Own
  <2>3. QED
    BY <2>1, <2>2 DEF Frame
<1>2. PlaceOK(q)'
  BY <1>1 DEF RouteInv, RequestOK, PlaceOK, Frame, FlowA, FlowB
<1>3. AnswerOK(q)'
  BY DEF RouteInv, RequestOK, AnswerOK, Frame
<1>4. QED
  BY <1>2, <1>3 DEF RequestOK

(* Leaving the handler.                                                    *)
LEMMA AnswerKeeps ==
  ASSUME RouteInv, NEW r \in Requests, pc[r] # "idle",
         NEW status \in {"ok", "gateway", "threw"}, Answer(r, status),
         UNCHANGED <<target, delivered>>
  PROVE  /\ Frame(r) /\ RequestOK(r)'
         /\ UNCHANGED <<flow, option, tries>>
         /\ pc'[r] = "done" /\ answer'[r].status = status
         /\ answer'[r].deferred = answer[r].deferred
         /\ answer'[r].fulfillment = answer[r].fulfillment
<1>1. /\ answer[r] \in Answers
      /\ answer' = [answer EXCEPT ![r] = [answer[r] EXCEPT !.status = status]]
      /\ answer'[r] = [answer[r] EXCEPT !.status = status]
      /\ UNCHANGED <<flow, option, tries>>
  BY DEF Answer, RouteInv, Inv, StatesOK
<1>2. /\ answer'[r].status = status
      /\ answer'[r].deferred = answer[r].deferred
      /\ answer'[r].fulfillment = answer[r].fulfillment
  BY <1>1 DEF Answers
<1>3. pc'[r] = "done" /\ \A q \in Requests \ {r} : pc'[q] = pc[q]
  BY DEF Answer, Goto, RouteInv, Inv, StatesOK
<1>4. PlaceOK(r)'
  BY <1>3 DEF PlaceOK, Fulfilling, Persisted
<1>5. AnswerOK(r)'
  BY <1>1, <1>2, <1>3 DEF AnswerOK, RouteInv, RequestOK
<1>6. \A q \in Requests \ {r} : answer'[q] = answer[q]
  BY <1>1 DEF RouteInv, Inv, StatesOK
<1>7. QED
  BY <1>1, <1>2, <1>3, <1>4, <1>5, <1>6 DEF Frame, RequestOK

(* Moving on inside it.                                                    *)
LEMMA GotoKeeps ==
  ASSUME RouteInv, NEW r \in Requests, pc[r] \in InFlight, NEW label \in InFlight,
         Goto(r, label), UNCHANGED <<flow, option, answer, delivered>>
  PROVE  /\ pc'[r] = label
         /\ \A q \in Requests \ {r} : pc'[q] = pc[q]
         /\ AnswerOK(r)'
<1>1. pc'[r] = label /\ \A q \in Requests \ {r} : pc'[q] = pc[q]
  BY DEF Goto, RouteInv, Inv, StatesOK
<1>2. pc[r] \notin {"idle", "done"} /\ label \notin {"idle", "done"}
  BY DEF InFlight
<1>3. QED
  BY <1>1, <1>2 DEF AnswerOK, RouteInv, RequestOK

-----------------------------------------------------------------------------
(* What each step of a request's handler does to the world and to itself.  *)
Kept(r) == World' /\ Frame(r) /\ RequestOK(r)'

LEMMA SettleRepliedKeeps ==
  ASSUME RouteInv, NEW r \in Requests, SettleReplied(r) PROVE Kept(r)
<1>1. /\ UNCHANGED <<chainVars, storeVars, channelVars, redeemVars, envVars>>
      /\ pc[r] = "settle"
  BY DEF SettleReplied
<1>2. /\ reply' \in [Calls -> {"none", "ok", "rejected", "threw"}]
      /\ UNCHANGED <<called, landedBy>>
  BY ReplyType DEF SettleReplied, RouteInv, Calls
<1>3. /\ Frame(r) /\ RequestOK(r)' /\ UNCHANGED <<flow, option, tries>>
  <2>1. CASE Proceed(r, "verify")
    <3>1. pc'[r] = "verify" /\ AnswerOK(r)'
          /\ \A q \in Requests \ {r} : pc'[q] = pc[q]
      BY <1>1, <2>1, GotoKeeps DEF Proceed, InFlight, channelVars
    <3>2. QED
      BY <1>1, <2>1, <3>1
      DEF Proceed, Frame, RequestOK, PlaceOK, Fulfilling, Persisted, channelVars
  <2>2. CASE Answer(r, "gateway")
    BY <1>1, <2>2, AnswerKeeps DEF channelVars
  <2>3. QED
    BY <2>1, <2>2 DEF SettleReplied
<1>4. World'
  BY <1>1, <1>2, <1>3
  DEF World, RouteInv, ChainTypeOK, chainVars, storeVars, channelVars, redeemVars, envVars
<1>5. QED
  BY <1>3, <1>4 DEF Kept

LEMMA VerifyKeeps == ASSUME RouteInv, NEW r \in Requests, Verify(r) PROVE Kept(r)
<1>1. /\ UNCHANGED <<chainVars, relayVars, storeVars, channelVars, redeemVars, envVars>>
      /\ pc[r] = "verify"
  BY DEF Verify
<1>2. CASE \E label \in {"storeOptions", "record"} :
             /\ Proceed(r, label)
             /\ label = "storeOptions" => FlowA
             /\ label = "record" => FlowB /\ option[r] # NoOption
  <2>1. PICK label \in {"storeOptions", "record"} :
             /\ Proceed(r, label)
             /\ label = "storeOptions" => FlowA
             /\ label = "record" => FlowB /\ option[r] # NoOption
    BY <1>2
  <2>2. pc'[r] = label /\ AnswerOK(r)' /\ \A q \in Requests \ {r} : pc'[q] = pc[q]
    BY <1>1, <2>1, GotoKeeps DEF Proceed, InFlight, channelVars
  <2>3. PlaceOK(r)'
    BY <2>1, <2>2
    DEF Proceed, PlaceOK, Fulfilling, Persisted, FlowA, FlowB, RouteInv, World
  <2>4. Frame(r) /\ UNCHANGED <<flow, option, tries>>
    BY <1>1, <2>1, <2>2 DEF Proceed, Frame, channelVars
  <2>5. World'
    BY <1>1, <2>4
    DEF World, RouteInv, ChainTypeOK, chainVars, relayVars, storeVars, channelVars,
        redeemVars, envVars
  <2>6. QED
    BY <2>2, <2>3, <2>4, <2>5 DEF Kept, RequestOK
<1>3. CASE \E status \in {"ok", "gateway"} : Answer(r, status)
  <2>1. Frame(r) /\ RequestOK(r)' /\ UNCHANGED <<flow, option, tries>>
    BY <1>1, <1>3, AnswerKeeps DEF channelVars
  <2>2. World'
    BY <1>1, <2>1
    DEF World, RouteInv, ChainTypeOK, chainVars, relayVars, storeVars, channelVars,
        redeemVars, envVars
  <2>3. QED
    BY <2>1, <2>2 DEF Kept
<1>4. CASE /\ MayRetry(r)
           /\ tries' = [tries EXCEPT ![r] = @ + 1]
           /\ UNCHANGED <<flow, pc, option, answer>>
  <2>1. tries' \in [Requests -> 1 .. VerifyAttempts]
    BY <1>4, BoundsAssumption DEF MayRetry, RouteInv, World
  <2>2. World'
    BY <1>1, <1>4, <2>1
    DEF World, RouteInv, ChainTypeOK, chainVars, relayVars, storeVars, channelVars,
        redeemVars, envVars
  <2>3. Frame(r) /\ RequestOK(r)'
    BY <1>1, <1>4
    DEF Frame, RouteInv, RequestOK, PlaceOK, AnswerOK, FlowA, FlowB, channelVars
  <2>4. QED
    BY <2>2, <2>3 DEF Kept
<1>5. QED
  BY <1>2, <1>3, <1>4 DEF Verify

LEMMA StoreOptionsKeeps ==
  ASSUME RouteInv, NEW r \in Requests, StoreOptions(r) PROVE Kept(r)
<1>1. /\ UNCHANGED <<recovery, chainVars, relayVars, channelVars, redeemVars, envVars>>
      /\ optionStore' = Advertised
  BY DEF StoreOptions
<1>2. Frame(r) /\ RequestOK(r)' /\ UNCHANGED <<flow, option, tries>>
  BY <1>1, AnswerKeeps DEF StoreOptions, channelVars
<1>3. World'
  BY <1>1, <1>2, OptionsAssumption
  DEF World, RouteInv, ChainTypeOK, chainVars, relayVars, channelVars, redeemVars, envVars
<1>4. QED
  BY <1>2, <1>3 DEF Kept

LEMMA ClearEntryKeeps ==
  ASSUME RouteInv, NEW r \in Requests, ClearEntry(r) PROVE Kept(r)
<1>1. /\ UNCHANGED <<optionStore, chainVars, relayVars, channelVars, redeemVars, envVars>>
      /\ recovery' = NoEntry
  BY DEF ClearEntry
<1>2. Frame(r) /\ RequestOK(r)' /\ UNCHANGED <<flow, option, tries>>
  BY <1>1, AnswerKeeps DEF ClearEntry, channelVars
<1>3. World'
  BY <1>1, <1>2
  DEF World, RouteInv, ChainTypeOK, chainVars, relayVars, channelVars, redeemVars, envVars
<1>4. QED
  BY <1>2, <1>3 DEF Kept

(* A written entry is well formed, because whoever writes one has named an *)
(* option.                                                                 *)
LEMMA SetRecoveryWorld ==
  ASSUME RouteInv, NEW r \in Requests, pc[r] \in Fulfilling,
         NEW phase \in {"commit", "delivery"}, NEW err \in BOOLEAN,
         NEW label \in InFlight \cup {"done"}, SetRecovery(r, phase, err, label)
  PROVE  /\ World'
         /\ UNCHANGED <<flow, option, target, delivered>>
         /\ pc'[r] = label /\ \A q \in Requests \ {r} : pc'[q] = pc[q]
         /\ recovery' # NoEntry /\ recovery'.from = r /\ recovery'.phase = phase
         /\ recovery'.option = option[r]
<1>1. /\ UNCHANGED <<flow, option, tries, optionStore, chainVars, relayVars, channelVars,
                     redeemVars, envVars>>
      /\ recovery' = Entry(r, phase, err)
  BY DEF SetRecovery
<1>2. recovery' \in RecoveryEntry
  BY <1>1 DEF Entry, RecoveryEntry, RouteInv, RequestOK, PlaceOK
<1>3. /\ recovery' # NoEntry /\ recovery'.from = r /\ recovery'.phase = phase
      /\ recovery'.option = option[r]
  BY <1>1, <1>2, CallsAssumption DEF Entry
<1>4. World'
  BY <1>1, <1>2
  DEF World, RouteInv, ChainTypeOK, chainVars, relayVars, channelVars, redeemVars, envVars
<1>5. pc'[r] = label /\ \A q \in Requests \ {r} : pc'[q] = pc[q]
  BY GotoTypes DEF SetRecovery, RouteInv
<1>6. QED
  BY <1>1, <1>3, <1>4, <1>5 DEF channelVars

LEMMA RecordPendingKeeps ==
  ASSUME RouteInv, NEW r \in Requests, RecordPending(r) PROVE Kept(r)
<1>1. /\ World' /\ UNCHANGED <<flow, option, target, delivered, answer>>
      /\ pc'[r] = "onCommit" /\ \A q \in Requests \ {r} : pc'[q] = pc[q]
  BY SetRecoveryWorld DEF RecordPending, Fulfilling, InFlight
<1>2. AnswerOK(r)'
  BY <1>1, GotoKeeps DEF RecordPending, SetRecovery, InFlight
<1>3. PlaceOK(r)'
  BY <1>1
  DEF RecordPending, PlaceOK, Fulfilling, Persisted, FlowA, FlowB, RouteInv, RequestOK
<1>4. Frame(r)
  BY <1>1 DEF Frame
<1>5. QED
  BY <1>1, <1>2, <1>3, <1>4 DEF Kept, RequestOK

LEMMA MarkDeliveryKeeps ==
  ASSUME RouteInv, NEW r \in Requests, MarkDelivery(r)
  PROVE  /\ Kept(r) /\ recovery'.from = r /\ recovery'.option = option[r]
         /\ target'[option[r]] = r /\ UNCHANGED target
<1>1. /\ World' /\ UNCHANGED <<flow, option, target, delivered, answer>>
      /\ pc'[r] = "onFulfill" /\ \A q \in Requests \ {r} : pc'[q] = pc[q]
      /\ recovery'.from = r /\ recovery'.option = option[r]
  BY SetRecoveryWorld DEF MarkDelivery, Fulfilling, InFlight
<1>2. AnswerOK(r)'
  BY <1>1, GotoKeeps DEF MarkDelivery, SetRecovery, InFlight
<1>3. PlaceOK(r)' /\ target[option[r]] = r
  BY <1>1
  DEF MarkDelivery, PlaceOK, Fulfilling, Persisted, FlowA, FlowB, RouteInv, RequestOK
<1>4. Frame(r)
  BY <1>1 DEF Frame
<1>5. QED
  BY <1>1, <1>2, <1>3, <1>4 DEF Kept, RequestOK

(* A handler that gives up on the data says so, and leaves the entry.      *)
LEMMA DeferredKeeps ==
  ASSUME RouteInv, NEW r \in Requests,
         NEW phase \in {"commit", "delivery"}, NEW warning \in {"COMMIT", "DELIVERY"},
         pc[r] \in Fulfilling, SetRecovery(r, phase, TRUE, "done"),
         Finish(r, "ok", {warning})
  PROVE  /\ Kept(r)
         /\ UNCHANGED <<option, target, delivered>>
         /\ recovery' # NoEntry /\ recovery'.from = r /\ recovery'.phase = phase
         /\ recovery'.option = option[r]
         /\ answer'[r].deferred # {}
         /\ answer'[r].fulfillment => <<option[r], r>> \in delivered
<1>1. /\ World' /\ UNCHANGED <<flow, option, target, delivered>>
      /\ pc'[r] = "done" /\ \A q \in Requests \ {r} : pc'[q] = pc[q]
      /\ recovery' # NoEntry /\ recovery'.from = r /\ recovery'.phase = phase
      /\ recovery'.option = option[r]
  BY SetRecoveryWorld
<1>2. /\ answer[r] \in Answers
      /\ answer'[r] = [answer[r] EXCEPT !.status = "ok", !.deferred = @ \cup {warning}]
      /\ \A q \in Requests \ {r} : answer'[q] = answer[q]
  BY DEF Finish, RouteInv, Inv, StatesOK
<1>3. /\ answer'[r].deferred # {}
      /\ answer'[r].fulfillment = answer[r].fulfillment
  BY <1>2 DEF Answers
<1>4. answer[r].fulfillment => <<option[r], r>> \in delivered
  BY DEF RouteInv, RequestOK, AnswerOK
<1>5. RequestOK(r)'
  BY <1>1, <1>3, <1>4 DEF RequestOK, PlaceOK, AnswerOK, Fulfilling, Persisted
<1>6. Frame(r)
  BY <1>1, <1>2 DEF Frame
<1>7. QED
  BY <1>1, <1>3, <1>4, <1>5, <1>6 DEF Kept

LEMMA OnCommitKeeps ==
  ASSUME RouteInv, NEW r \in Requests, OnCommit(r) PROVE Kept(r)
<1>1. /\ UNCHANGED <<delivered, chainVars, relayVars, storeVars, redeemVars, envVars>>
      /\ pc[r] = "onCommit"
      /\ UNCHANGED target \/ Persist(r)
  BY DEF OnCommit
<1>2. FlowB /\ option[r] \in Options
  BY <1>1 DEF RouteInv, RequestOK, PlaceOK, Fulfilling
<1>3. PICK label \in {"markDelivery", "clear", "onCommitFailed"} :
        /\ Proceed(r, label)
        /\ label \in {"markDelivery", "clear"} => Persist(r)
        /\ label = "clear" => option[r] \notin Delivering
  BY DEF OnCommit
<1>4. pc'[r] = label /\ AnswerOK(r)' /\ \A q \in Requests \ {r} : pc'[q] = pc[q]
  BY <1>1, <1>3, GotoKeeps DEF Proceed, InFlight
<1>5. Persist(r) => target'[option[r]] = r
  BY <1>2 DEF Persist, RouteInv, Inv, StatesOK
<1>6. PlaceOK(r)'
  BY <1>2, <1>3, <1>4, <1>5 DEF Proceed, PlaceOK, Fulfilling, Persisted, FlowA, FlowB
<1>7. Frame(r) /\ UNCHANGED <<flow, option, tries>>
  BY <1>1, <1>3, <1>4 DEF Frame, Proceed
<1>8. World'
  BY <1>1, <1>7
  DEF World, RouteInv, ChainTypeOK, chainVars, relayVars, storeVars, redeemVars, envVars
<1>9. QED
  BY <1>4, <1>6, <1>7, <1>8 DEF Kept, RequestOK

LEMMA OnFulfillKeeps ==
  ASSUME RouteInv, NEW r \in Requests, OnFulfill(r) PROVE Kept(r)
<1>1. /\ UNCHANGED <<flow, option, tries, target, chainVars, relayVars, storeVars,
                     redeemVars, envVars>>
      /\ pc[r] = "onFulfill"
      /\ UNCHANGED delivered \/ Dispatch(option[r])
  BY DEF OnFulfill
<1>2. FlowB /\ option[r] \in Options /\ target[option[r]] = r
  BY <1>1 DEF RouteInv, RequestOK, PlaceOK, Fulfilling, Persisted
<1>3. Dispatch(option[r]) => delivered' = delivered \cup {<<option[r], r>>}
  BY <1>2 DEF Dispatch
<1>4. PICK label \in {"clearDelivered", "fulfillFailed"} :
        /\ Goto(r, label)
        /\ label = "clearDelivered" =>
             Dispatch(option[r]) /\ answer' = [answer EXCEPT ![r].fulfillment = TRUE]
        /\ label = "fulfillFailed" => UNCHANGED answer
  BY DEF OnFulfill
<1>5. pc'[r] = label /\ \A q \in Requests \ {r} : pc'[q] = pc[q]
  BY <1>4 DEF Goto, RouteInv, Inv, StatesOK
<1>6. /\ answer'[r].deferred = answer[r].deferred
      /\ answer'[r].status = answer[r].status
      /\ answer'[r].fulfillment => answer[r].fulfillment \/ Dispatch(option[r])
      /\ \A q \in Requests \ {r} : answer'[q] = answer[q]
  <2>1. CASE UNCHANGED answer
    BY <2>1
  <2>2. CASE Dispatch(option[r]) /\ answer' = [answer EXCEPT ![r].fulfillment = TRUE]
    <3>1. answer[r] \in Answers /\ answer'[r] = [answer[r] EXCEPT !.fulfillment = TRUE]
          /\ \A q \in Requests \ {r} : answer'[q] = answer[q]
      BY <2>2 DEF RouteInv, Inv, StatesOK
    <3>2. /\ answer'[r].deferred = answer[r].deferred
          /\ answer'[r].status = answer[r].status
      BY <3>1 DEF Answers
    <3>3. QED
      BY <2>2, <3>1, <3>2
  <2>3. QED
    BY <1>4, <2>1, <2>2
<1>7. AnswerOK(r)'
  BY <1>1, <1>3, <1>5, <1>6 DEF AnswerOK, RouteInv, RequestOK
<1>8. PlaceOK(r)'
  BY <1>1, <1>2, <1>3, <1>4, <1>5 DEF PlaceOK, Fulfilling, Persisted, FlowA, FlowB
<1>9. Frame(r)
  BY <1>1, <1>3, <1>5, <1>6 DEF Frame
<1>10. delivered' \subseteq Options \X Requests
  BY <1>1, <1>2, <1>3 DEF RouteInv, World
<1>11. World'
  BY <1>1, <1>10
  DEF World, RouteInv, ChainTypeOK, chainVars, relayVars, storeVars, redeemVars, envVars
<1>12. QED
  BY <1>7, <1>8, <1>9, <1>11 DEF Kept, RequestOK

LEMMA IOFaultKeeps ==
  ASSUME RouteInv, NEW r \in Requests, IOFault(r) PROVE Kept(r)
<1>1. /\ UNCHANGED <<crashed, chainVars, relayVars, storeVars, channelVars, redeemVars>>
      /\ faults' = faults + 1 /\ faults < MaxFaults
  BY DEF IOFault
<1>2. Frame(r) /\ RequestOK(r)' /\ UNCHANGED <<flow, option, tries>>
  <2>1. CASE /\ pc[r] \in {"verify", "storeOptions", "record", "onCommitFailed"}
             /\ Answer(r, "threw")
    BY <1>1, <2>1, AnswerKeeps DEF channelVars
  <2>2. CASE pc[r] \in DOMAIN Caught /\ Proceed(r, Caught[pc[r]])
    <3>1. /\ pc[r] \in {"markDelivery", "clear", "fulfillFailed", "clearDelivered"}
          /\ Caught[pc[r]] \in {"fulfillFailed", "onCommitFailed"}
          /\ Caught[pc[r]] = "fulfillFailed" => pc[r] = "clearDelivered"
      BY <2>2 DEF Caught
    <3>2. pc[r] \in InFlight /\ Caught[pc[r]] \in InFlight
      BY <3>1 DEF InFlight
    <3>3. /\ pc'[r] = Caught[pc[r]] /\ AnswerOK(r)'
          /\ \A q \in Requests \ {r} : pc'[q] = pc[q]
      BY <1>1, <2>2, <3>2, GotoKeeps DEF Proceed, channelVars
    <3>4. PlaceOK(r)'
      BY <1>1, <2>2, <3>1, <3>3
      DEF Proceed, channelVars, RouteInv, RequestOK, PlaceOK, Fulfilling, Persisted,
          FlowA, FlowB
    <3>5. QED
      BY <1>1, <2>2, <3>3, <3>4 DEF Proceed, Frame, RequestOK, channelVars
  <2>3. QED
    BY <2>1, <2>2 DEF IOFault
<1>3. faults' \in 0 .. MaxFaults
  BY <1>1, BoundsAssumption DEF RouteInv, World
<1>4. World'
  BY <1>1, <1>2, <1>3
  DEF World, RouteInv, ChainTypeOK, chainVars, relayVars, storeVars, channelVars, redeemVars
<1>5. QED
  BY <1>2, <1>4 DEF Kept

LEMMA HandlerStepKeeps ==
  ASSUME RouteInv, NEW r \in Requests, HandlerStep(r) PROVE Kept(r)
<1>1. CASE OnCommitFailed(r)
  BY <1>1, DeferredKeeps DEF OnCommitFailed, Fulfilling
<1>2. CASE FulfillFailed(r)
  BY <1>2, DeferredKeeps DEF FulfillFailed, Fulfilling
<1>3. QED
  BY <1>1, <1>2, SettleRepliedKeeps, VerifyKeeps, StoreOptionsKeeps, RecordPendingKeeps,
     OnCommitKeeps, MarkDeliveryKeeps, OnFulfillKeeps, ClearEntryKeeps DEF HandlerStep

LEMMA ArriveKeeps ==
  ASSUME RouteInv, NEW r \in Requests, NEW o \in Options \cup {NoOption},
         NEW wellFormed \in BOOLEAN, Arrive(r, o, wellFormed)
  PROVE  Kept(r)
<1>1. /\ UNCHANGED <<flow, tries, chainVars, storeVars, channelVars, redeemVars, envVars>>
      /\ pc[r] = "idle"
      /\ option' = [option EXCEPT ![r] = o]
  BY DEF Arrive
<1>2. ~answer[r].fulfillment /\ answer[r].deferred = {} /\ answer[r].status = "none"
  BY <1>1 DEF RouteInv, RequestOK, AnswerOK
<1>3. /\ option' \in [Requests -> Options \cup {NoOption}]
      /\ \A q \in Requests \ {r} : option'[q] = option[q]
  BY <1>1 DEF RouteInv, World
<1>4. PICK label \in {"done", "settle"} :
        /\ Goto(r, label)
        /\ \/ label = "done" /\ answer' = [answer EXCEPT ![r].status = "bad"]
           \/ UNCHANGED answer
  BY DEF Arrive
<1>5. pc'[r] = label /\ \A q \in Requests \ {r} : pc'[q] = pc[q]
  BY <1>4 DEF Goto, RouteInv, Inv, StatesOK
<1>6. /\ answer'[r].fulfillment = answer[r].fulfillment
      /\ answer'[r].deferred = answer[r].deferred
      /\ label = "done" \/ answer'[r].status = answer[r].status
      /\ \A q \in Requests \ {r} : answer'[q] = answer[q]
  <2>1. CASE UNCHANGED answer
    BY <2>1
  <2>2. CASE label = "done" /\ answer' = [answer EXCEPT ![r].status = "bad"]
    <3>1. answer[r] \in Answers /\ answer'[r] = [answer[r] EXCEPT !.status = "bad"]
          /\ \A q \in Requests \ {r} : answer'[q] = answer[q]
      BY <2>2 DEF RouteInv, Inv, StatesOK
    <3>2. QED
      BY <2>2, <3>1 DEF Answers
  <2>3. QED
    BY <1>4, <2>1, <2>2
<1>7. PlaceOK(r)'
  BY <1>5 DEF PlaceOK, Fulfilling, Persisted
<1>8. AnswerOK(r)'
  BY <1>2, <1>5, <1>6 DEF AnswerOK
<1>9. Frame(r)
  BY <1>1, <1>3, <1>5, <1>6 DEF Frame, channelVars
<1>10. called' \subseteq Calls /\ UNCHANGED <<reply, landedBy>>
  BY DEF Arrive, Relay!Call, relayVars, RouteInv, World, Calls
<1>11. World'
  BY <1>1, <1>3, <1>10
  DEF World, RouteInv, ChainTypeOK, chainVars, storeVars, channelVars, redeemVars, envVars
<1>12. QED
  BY <1>7, <1>8, <1>9, <1>11 DEF Kept, RequestOK

LEMMA CrashKeeps == ASSUME RouteInv, Crash PROVE World' /\ \A r \in Requests : RequestOK(r)'
<1>1. UNCHANGED <<flow, option, tries, delivered, gate, faults, chainVars, relayVars>>
  BY DEF Crash
<1>2. ASSUME NEW r \in Requests PROVE RequestOK(r)'
  <2>1. pc'[r] = IF pc[r] \in InFlight THEN "done" ELSE pc[r]
    BY DEF Crash
  <2>2. pc'[r] \in {"idle", "done"} /\ (pc'[r] = "idle" => pc[r] = "idle")
    BY <2>1 DEF RouteInv, Inv, StatesOK
  <2>3. answer'[r] = IF pc[r] \in InFlight THEN [answer[r] EXCEPT !.status = "lost"]
                                           ELSE answer[r]
    BY DEF Crash
  <2>4. answer[r] \in Answers
    BY DEF RouteInv, Inv, StatesOK
  <2>5. answer'[r].fulfillment = answer[r].fulfillment
    BY <2>3, <2>4 DEF Answers
  <2>6. pc'[r] = "idle" => answer'[r] = answer[r]
    BY <2>1, <2>3
  <2>7. PlaceOK(r)'
    BY <2>2 DEF PlaceOK, Fulfilling, Persisted
  <2>8. AnswerOK(r)'
    BY <1>1, <2>1, <2>2, <2>5, <2>6 DEF AnswerOK, RouteInv, RequestOK
  <2>9. QED
    BY <2>7, <2>8 DEF RequestOK
<1>3. /\ optionStore' \in {optionStore, NoEntry} /\ recovery' \in {recovery, NoEntry}
      /\ redeem' \in {"idle", "done"} /\ crashed' \in BOOLEAN
  BY DEF Crash, storeVars
<1>4. World'
  BY <1>1, <1>3 DEF World, RouteInv, ChainTypeOK, chainVars, relayVars
<1>5. QED
  BY <1>2, <1>4

(* The contract, the reader and the redeem route leave the requests alone. *)
LEMMA OutsideKeeps ==
  ASSUME RouteInv,
         UNCHANGED <<flow, pc, option, answer, target, delivered>>
  PROVE  \A r \in Requests : RequestOK(r)'
BY DEF RouteInv, RequestOK, PlaceOK, AnswerOK, FlowA, FlowB

LEMMA LandKeeps ==
  ASSUME RouteInv, NEW c \in Calls, Land(c)
  PROVE  World' /\ \A r \in Requests : RequestOK(r)'
<1>1. /\ UNCHANGED <<seen, requestVars, storeVars, channelVars, redeemVars, envVars>>
      /\ history' = <<ACTION_POST_STATE[flow]>>
      /\ UNCHANGED <<called, reply>> /\ landedBy[Payment] = NoOne
  BY DEF Land, Relay!Land
<1>2. landedBy'[Payment] = c
  BY DEF Land, Relay!Land, RouteInv, Inv, StatesOK
<1>3. ACTION_POST_STATE[flow] \in ClientState
  BY PostStates DEF RouteInv, World, EXCHANGE_ACTION_IDS
<1>4. seen = 0
  BY <1>1 DEF RouteInv, World, ChainTypeOK
<1>5. ChainTypeOK'
  BY <1>1, <1>3, <1>4 DEF ChainTypeOK
<1>6. World'
  BY <1>1, <1>2, <1>5, CallsAssumption
  DEF World, RouteInv, requestVars, storeVars, channelVars, redeemVars, envVars
<1>7. QED
  BY <1>1, <1>6, OutsideKeeps DEF requestVars, channelVars

LEMMA ChainKeeps ==
  ASSUME RouteInv, NEW a \in POST_COMMIT_ACTION_IDS, Index \/ Execute(a),
         UNCHANGED <<requestVars, relayVars, optionStore, recovery, delivered, gate, envVars>>,
         redeem' \in {"idle", "gated", "landed", "done"}
  PROVE  World'
<1>1. ChainTypeOK' /\ (history # <<>> \/ UNCHANGED history)
  BY ExecuteType, IndexType DEF RouteInv, World, EXCHANGE_ACTION_IDS
<1>2. QED
  BY <1>1 DEF World, RouteInv, requestVars, relayVars, envVars

LEMMA InitKeeps == ASSUME Init PROVE RouteInv
<1>1. World
  <2>1. ChainTypeOK
    BY DEF Init, ChainTypeOK
  <2>2. 1 \in 1 .. VerifyAttempts /\ 0 \in 0 .. MaxFaults
    BY BoundsAssumption
  <2>3. QED
    BY <2>1, <2>2 DEF Init, World, Relay!Init
<1>2. ASSUME NEW r \in Requests PROVE RequestOK(r)
  BY DEF Init, RequestOK, PlaceOK, AnswerOK, Fulfilling, Persisted
<1>3. QED
  BY <1>1, <1>2, InitInv DEF RouteInv

LEMMA RouteStep == RouteInv /\ [Next]_vars => RouteInv'
<1>1. SUFFICES ASSUME RouteInv, [Next]_vars PROVE World' /\ \A r \in Requests : RequestOK(r)'
  BY StepInv DEF RouteInv
<1>2. ASSUME NEW r \in Requests, Kept(r)
      PROVE  World' /\ \A q \in Requests : RequestOK(q)'
  BY <1>1, <1>2, OthersOK DEF Kept
<1>3. ASSUME NEW r \in Requests, NEW o \in Options \cup {NoOption},
             NEW wellFormed \in BOOLEAN, Arrive(r, o, wellFormed)
      PROVE  World' /\ \A q \in Requests : RequestOK(q)'
  BY <1>1, <1>2, <1>3, ArriveKeeps
<1>4. ASSUME NEW r \in Requests, HandlerStep(r) \/ IOFault(r)
      PROVE  World' /\ \A q \in Requests : RequestOK(q)'
  BY <1>1, <1>2, <1>4, HandlerStepKeeps, IOFaultKeeps
<1>5. ASSUME NEW d \in Direct, DirectCall(d)
      PROVE  World' /\ \A q \in Requests : RequestOK(q)'
  <2>1. /\ UNCHANGED <<chainVars, requestVars, storeVars, channelVars, redeemVars, envVars>>
        /\ called' \subseteq Calls /\ UNCHANGED <<reply, landedBy>>
    BY <1>1, <1>5 DEF DirectCall, Relay!Call, RouteInv, World, Calls
  <2>2. World'
    BY <1>1, <2>1
    DEF World, RouteInv, ChainTypeOK, chainVars, requestVars, storeVars, channelVars,
        redeemVars, envVars
  <2>3. QED
    BY <1>1, <2>1, <2>2, OutsideKeeps DEF requestVars, channelVars
<1>6. ASSUME NEW c \in Calls, Land(c)
      PROVE  World' /\ \A q \in Requests : RequestOK(q)'
  BY <1>1, <1>6, LandKeeps
<1>7. CASE RedeemGate
  <2>1. World'
    BY <1>1, <1>7
    DEF RedeemGate, World, RouteInv, ChainTypeOK, chainVars, requestVars, relayVars,
        storeVars, channelVars, envVars
  <2>2. QED
    BY <1>1, <1>7, <2>1, OutsideKeeps DEF RedeemGate, requestVars, channelVars
<1>8. CASE RedeemLands
  <2>1. World'
    BY <1>1, <1>8, ChainKeeps
    DEF RedeemLands, POST_COMMIT_ACTION_IDS, storeVars, channelVars
  <2>2. QED
    BY <1>1, <1>8, <2>1, OutsideKeeps DEF RedeemLands, requestVars, channelVars
<1>9. CASE RedeemDrops
  <2>1. World'
    BY <1>1, <1>9
    DEF RedeemDrops, World, RouteInv, ChainTypeOK, chainVars, requestVars, relayVars,
        channelVars, envVars
  <2>2. QED
    BY <1>1, <1>9, <2>1, OutsideKeeps DEF RedeemDrops, requestVars, channelVars
<1>10. ASSUME NEW a \in POST_COMMIT_ACTION_IDS, Elsewhere(a) \/ ReaderCatchesUp
       PROVE  World' /\ \A q \in Requests : RequestOK(q)'
  <2>1. /\ Index \/ Execute(a)
        /\ UNCHANGED <<requestVars, relayVars, storeVars, channelVars, redeemVars, envVars>>
    BY <1>10 DEF Elsewhere, ReaderCatchesUp
  <2>2. redeem' \in {"idle", "gated", "landed", "done"}
    BY <1>1, <2>1 DEF redeemVars, RouteInv, World
  <2>3. World'
    BY <1>1, <2>1, <2>2, ChainKeeps DEF storeVars, channelVars, redeemVars
  <2>4. QED
    BY <1>1, <2>1, <2>3, OutsideKeeps DEF requestVars, channelVars
<1>11. CASE Crash
  BY <1>1, <1>11, CrashKeeps
<1>12. CASE UNCHANGED vars
  <2>1. World'
    BY <1>1, <1>12
    DEF vars, World, RouteInv, ChainTypeOK, chainVars, requestVars, relayVars, storeVars,
        channelVars, redeemVars, envVars
  <2>2. QED
    BY <1>1, <1>12, <2>1, OutsideKeeps DEF vars, requestVars, channelVars
<1>13. "boson-redeem" \in POST_COMMIT_ACTION_IDS
  BY DEF POST_COMMIT_ACTION_IDS
<1>14. QED
  BY <1>1, <1>3, <1>4, <1>5, <1>6, <1>7, <1>8, <1>9, <1>10, <1>11, <1>12, <1>13 DEF Next

LEMMA AlwaysRoute == Spec => []RouteInv
<1>1. Init => RouteInv
  BY InitKeeps
<1>2. QED
  BY <1>1, RouteStep, PTL DEF Spec

(* The commit route's state is well-typed: a recovery entry always names   *)
(* an option and a request, an attempt count stays within the reads        *)
(* verifyExchange makes, and a settled payment has one exchange.           *)
THEOREM TypeCorrect == Spec => []TypeOK
<1>1. RouteInv => TypeOK
  BY DEF RouteInv, Inv, StatesOK, World, TypeOK
<1>2. QED
  BY <1>1, AlwaysRoute, PTL

-----------------------------------------------------------------------------
(* The recovery entry, against the channel that holds the data.            *)
LEMMA OnCommitDelivery ==
  ASSUME RouteInv, DeliveryEntryPersisted, NEW r \in Requests, OnCommit(r)
  PROVE  DeliveryEntryPersisted'
<1>1. UNCHANGED recovery /\ (UNCHANGED target \/ Persist(r))
  BY DEF OnCommit, storeVars
<1>2. Own(r)
  BY PastOwns DEF OnCommit, InFlight, RouteInv
<1>3. CASE recovery # NoEntry /\ recovery.phase = "delivery"
  <2>1. recovery \in RecoveryEntry
    BY <1>3 DEF RouteInv, World
  <2>2. recovery.from \in Requests /\ recovery.option \in Options
    BY <2>1 DEF RecoveryEntry
  <2>3. Own(recovery.from)
    BY <1>3, <2>2 DEF RouteInv, Inv, Holds, DataHolders
  <2>4. recovery.from = r
    BY <1>2, <2>3 DEF Own
  <2>5. target[recovery.option] = r
    BY <1>3, <2>4 DEF DeliveryEntryPersisted
  <2>6. target'[recovery.option] = r
    BY <1>1, <2>2, <2>5 DEF Persist, RouteInv, Inv, StatesOK
  <2>7. QED
    BY <1>1, <2>4, <2>6 DEF DeliveryEntryPersisted
<1>4. CASE ~(recovery # NoEntry /\ recovery.phase = "delivery")
  BY <1>1, <1>4 DEF DeliveryEntryPersisted
<1>5. QED
  BY <1>3, <1>4

LEMMA QuietDelivery ==
  ASSUME DeliveryEntryPersisted, UNCHANGED target, recovery' \in {recovery, NoEntry}
  PROVE  DeliveryEntryPersisted'
BY DEF DeliveryEntryPersisted

LEMMA HandlerDelivery ==
  ASSUME RouteInv, DeliveryEntryPersisted, NEW r \in Requests, HandlerStep(r)
  PROVE  DeliveryEntryPersisted'
<1>1. CASE SettleReplied(r) \/ Verify(r) \/ StoreOptions(r) \/ ClearEntry(r) \/ OnFulfill(r)
  <2>1. UNCHANGED target /\ recovery' \in {recovery, NoEntry}
    BY <1>1
    DEF SettleReplied, Verify, StoreOptions, ClearEntry, OnFulfill, channelVars, storeVars
  <2>2. QED
    BY <2>1, QuietDelivery
<1>2. CASE RecordPending(r)
  <2>1. recovery'.phase = "commit"
    BY <1>2, SetRecoveryWorld DEF RecordPending, Fulfilling, InFlight
  <2>2. QED
    BY <2>1 DEF DeliveryEntryPersisted
<1>3. CASE OnCommitFailed(r)
  <2>1. recovery'.phase = "commit"
    BY <1>3, DeferredKeeps DEF OnCommitFailed, Fulfilling
  <2>2. QED
    BY <2>1 DEF DeliveryEntryPersisted
<1>4. CASE MarkDelivery(r)
  BY <1>4, MarkDeliveryKeeps DEF DeliveryEntryPersisted
<1>5. CASE FulfillFailed(r)
  <2>1. recovery'.from = r /\ recovery'.option = option[r] /\ UNCHANGED target
    BY <1>5, DeferredKeeps DEF FulfillFailed, Fulfilling
  <2>2. target[option[r]] = r
    BY <1>5 DEF FulfillFailed, RouteInv, RequestOK, PlaceOK, Persisted
  <2>3. QED
    BY <2>1, <2>2 DEF DeliveryEntryPersisted
<1>6. QED
  BY <1>1, <1>2, <1>3, <1>4, <1>5, OnCommitDelivery DEF HandlerStep

LEMMA DeliveryStep ==
  ASSUME "volatileChannels" \in Environment => "volatileStores" \in Environment,
         RouteInv, DeliveryEntryPersisted, [Next]_vars
  PROVE  DeliveryEntryPersisted'
<1>1. ASSUME NEW r \in Requests, HandlerStep(r) PROVE DeliveryEntryPersisted'
  BY <1>1, HandlerDelivery
<1>2. CASE \/ \E r \in Requests : IOFault(r)
           \/ \E r \in Requests, o \in Options \cup {NoOption}, wellFormed \in BOOLEAN :
                Arrive(r, o, wellFormed)
           \/ \E d \in Direct : DirectCall(d)
           \/ \E c \in Calls : Land(c)
           \/ RedeemGate \/ RedeemLands \/ RedeemDrops \/ ReaderCatchesUp
           \/ \E a \in POST_COMMIT_ACTION_IDS : Elsewhere(a)
           \/ UNCHANGED vars
  <2>1. UNCHANGED <<target, recovery>>
    BY <1>2
    DEF IOFault, Arrive, DirectCall, Land, RedeemGate, RedeemLands, RedeemDrops,
        ReaderCatchesUp, Elsewhere, vars, channelVars, storeVars
  <2>2. QED
    BY <2>1, QuietDelivery
<1>3. CASE Crash
  <2>1. recovery' = NoEntry \/ (UNCHANGED target /\ recovery' = recovery)
    BY <1>3 DEF Crash, storeVars
  <2>2. QED
    BY <2>1, QuietDelivery DEF DeliveryEntryPersisted
<1>4. QED
  BY <1>1, <1>2, <1>3 DEF Next

(* What "delivery" says of a recovery entry holds at all times, so that a  *)
(* replay may skip onCommit: the channel has the data of the entry's own   *)
(* request. It is lost only by channels that forget what the recovery      *)
(* store remembers, hence the hypothesis.                                  *)
THEOREM DeliveryEntries ==
  ASSUME "volatileChannels" \in Environment => "volatileStores" \in Environment
  PROVE  Spec => []DeliveryEntryPersisted
<1>1. Init => RouteInv /\ DeliveryEntryPersisted
  BY InitKeeps DEF Init, DeliveryEntryPersisted
<1>2. RouteInv /\ DeliveryEntryPersisted /\ [Next]_vars
        => RouteInv' /\ DeliveryEntryPersisted'
  BY RouteStep, DeliveryStep
<1>3. QED
  BY <1>1, <1>2, PTL DEF Spec

-----------------------------------------------------------------------------
(* What the 200 of Flow B tells the buyer, at the step that sends it.      *)
Granted(r) == answer[r].status # "ok" /\ answer'[r].status = "ok"

(* Only five steps grant, and Verify only when no option was named.        *)
LEMMA WhoGrants ==
  ASSUME RouteInv, [Next]_vars, NEW r \in Requests, Granted(r)
  PROVE  \/ Verify(r) /\ option[r] = NoOption /\ FlowB
         \/ StoreOptions(r) \/ OnCommitFailed(r) \/ FulfillFailed(r) \/ ClearEntry(r)
<1>1. answer[r].status # "ok" /\ answer[r] \in Answers
  BY DEF Granted, RouteInv, Inv, StatesOK
<1>2. ~UNCHANGED answer
  BY <1>1 DEF Granted
<1>3. ASSUME NEW q \in Requests, q # r, Frame(q) PROVE FALSE
  BY <1>1, <1>3 DEF Frame, Granted
<1>4. ASSUME NEW status \in {"bad", "gateway", "threw"},
             answer' = [answer EXCEPT ![r].status = status] \/ UNCHANGED answer
      PROVE  FALSE
  BY <1>1, <1>4 DEF Granted, RouteInv, Inv, StatesOK, Answers
<1>5. ASSUME NEW q \in Requests, NEW o \in Options \cup {NoOption},
             NEW wellFormed \in BOOLEAN, Arrive(q, o, wellFormed)
      PROVE  FALSE
  <2>1. q = r
    BY <1>3, <1>5, ArriveKeeps DEF Kept
  <2>2. answer' = [answer EXCEPT ![r].status = "bad"] \/ UNCHANGED answer
    BY <1>5, <2>1 DEF Arrive
  <2>3. QED
    BY <1>4, <2>2
<1>6. ASSUME NEW q \in Requests, IOFault(q) PROVE FALSE
  <2>1. q = r
    BY <1>3, <1>6, IOFaultKeeps DEF Kept
  <2>2. answer' = [answer EXCEPT ![r].status = "threw"] \/ UNCHANGED answer
    BY <1>6, <2>1 DEF IOFault, Answer, Proceed
  <2>3. QED
    BY <1>4, <2>2
<1>7. ASSUME NEW q \in Requests, HandlerStep(q)
      PROVE  \/ Verify(r) /\ option[r] = NoOption /\ FlowB
             \/ StoreOptions(r) \/ OnCommitFailed(r) \/ FulfillFailed(r) \/ ClearEntry(r)
  <2>1. q = r
    BY <1>3, <1>7, HandlerStepKeeps DEF Kept
  <2>2. CASE SettleReplied(r)
    BY <1>4, <2>2 DEF SettleReplied, Answer, Proceed
  <2>3. CASE Verify(r)
    BY <1>4, <2>3 DEF Verify, Answer, Proceed
  <2>4. CASE RecordPending(r) \/ OnCommit(r) \/ MarkDelivery(r)
    BY <1>2, <2>4 DEF RecordPending, OnCommit, MarkDelivery, Proceed
  <2>5. CASE OnFulfill(r)
    <3>1. answer' = [answer EXCEPT ![r].fulfillment = TRUE]
      BY <1>2, <2>5 DEF OnFulfill
    <3>2. answer'[r].status = answer[r].status
      BY <1>1, <3>1 DEF RouteInv, Inv, StatesOK, Answers
    <3>3. QED
      BY <1>1, <3>2 DEF Granted
  <2>6. QED
    BY <1>7, <2>1, <2>2, <2>3, <2>4, <2>5 DEF HandlerStep
<1>8. ASSUME Crash PROVE FALSE
  <2>1. answer'[r] = [answer[r] EXCEPT !.status = "lost"] \/ answer'[r] = answer[r]
    BY <1>8 DEF Crash
  <2>2. QED
    BY <1>1, <2>1 DEF Granted, Answers
<1>9. ASSUME \/ \E d \in Direct : DirectCall(d)
             \/ \E c \in Calls : Land(c)
             \/ RedeemGate \/ RedeemLands \/ RedeemDrops \/ ReaderCatchesUp
             \/ \E a \in POST_COMMIT_ACTION_IDS : Elsewhere(a)
             \/ UNCHANGED vars
      PROVE  FALSE
  BY <1>2, <1>9
  DEF DirectCall, Land, RedeemGate, RedeemLands, RedeemDrops, ReaderCatchesUp, Elsewhere,
      vars, requestVars
<1>10. QED
  BY <1>5, <1>6, <1>7, <1>8, <1>9 DEF Next

TellsTheTruth(r) ==
  /\ answer'[r].fulfillment => <<option[r], r>> \in delivered
  /\ answer'[r].deferred = {} => Complete(r)
  /\ answer'[r].deferred # {} => recovery' # NoEntry /\ recovery'.from = r

LEMMA GrantTells ==
  ASSUME RouteInv, [Next]_vars, NEW r \in Requests, FlowB, Granted(r),
         option[r] # NoOption
  PROVE  TellsTheTruth(r)
<1>1. CASE StoreOptions(r)
  <2>1. FlowA
    BY <1>1 DEF StoreOptions, RouteInv, RequestOK, PlaceOK
  <2>2. QED
    BY <2>1 DEF FlowA, FlowB
<1>2. CASE OnCommitFailed(r) \/ FulfillFailed(r)
  <2>1. /\ recovery' # NoEntry /\ recovery'.from = r
        /\ answer'[r].deferred # {}
        /\ answer'[r].fulfillment => <<option[r], r>> \in delivered
    BY <1>2, DeferredKeeps DEF OnCommitFailed, FulfillFailed, Fulfilling
  <2>2. QED
    BY <2>1 DEF TellsTheTruth
<1>3. CASE ClearEntry(r)
  <2>1. /\ pc[r] \in {"clear", "clearDelivered"} /\ Answer(r, "ok")
        /\ UNCHANGED <<target, delivered>>
    BY <1>3 DEF ClearEntry, channelVars
  <2>2. /\ answer'[r].deferred = answer[r].deferred
        /\ answer'[r].fulfillment = answer[r].fulfillment
    BY <2>1, AnswerKeeps
  <2>3. /\ answer[r].deferred = {}
        /\ answer[r].fulfillment => <<option[r], r>> \in delivered
    BY <2>1 DEF RouteInv, RequestOK, AnswerOK
  <2>4. Complete(r)
    BY <2>1 DEF Complete, RouteInv, RequestOK, PlaceOK, Persisted
  <2>5. QED
    BY <2>2, <2>3, <2>4 DEF TellsTheTruth
<1>4. QED
  BY <1>1, <1>2, <1>3, WhoGrants

(* Every Flow B 200 tells its buyer the truth, whichever store calls were  *)
(* rejected on the way and whoever shares the payment: a fulfillment body  *)
(* was dispatched, silence means the data is taken care of, a DEFERRED     *)
(* warning means the entry is there (handleCommitAndRedeem).               *)
THEOREM TruthfulAnswers == Spec => AnswersTellTheTruth
<1>0. ASSUME RouteInv, NEW r \in Requests, pc[r] # "done" PROVE answer[r].status # "ok"
  BY <1>0 DEF RouteInv, RequestOK, AnswerOK
<1>1. RouteInv /\ [Next]_vars =>
        [ \A r \in Requests :
            FlowB /\ pc[r] # "done" /\ answer'[r].status = "ok" /\ option[r] # NoOption
              => /\ answer'[r].fulfillment => <<option[r], r>> \in delivered
                 /\ answer'[r].deferred = {} => Complete(r)
                 /\ answer'[r].deferred # {} =>
                      recovery' # NoEntry /\ recovery'.from = r ]_vars
  BY <1>0, GrantTells DEF Granted, TellsTheTruth
<1>2. QED
  BY <1>1, AlwaysRoute, PTL DEF Spec, AnswersTellTheTruth

-----------------------------------------------------------------------------
(* The entry the redeem route's gate reads. Answers of Flow A come from    *)
(* StoreOptions only, and every one of them stores the same options.       *)
SeededInv ==
  redeem = "idle" /\ FlowA /\ (\E r \in Requests : answer[r].status = "ok")
    => optionStore = Advertised

LEMMA SeededStep ==
  ASSUME "volatileStores" \notin Environment, RouteInv, SeededInv, [Next]_vars
  PROVE  SeededInv'
<1>1. SUFFICES ASSUME redeem' = "idle", FlowA', NEW r \in Requests, answer'[r].status = "ok"
               PROVE  optionStore' = Advertised
  BY DEF SeededInv
<1>2. redeem = "idle" /\ UNCHANGED flow
  BY <1>1
  DEF Next, Arrive, HandlerStep, SettleReplied, Verify, StoreOptions, RecordPending, OnCommit,
      OnCommitFailed, MarkDelivery, OnFulfill, FulfillFailed, ClearEntry, SetRecovery,
      Proceed, Answer, IOFault, DirectCall, Land, RedeemGate, RedeemLands, RedeemDrops,
      Elsewhere, ReaderCatchesUp, Crash, vars, requestVars, redeemVars
<1>3. FlowA /\ ~FlowB
  BY <1>1, <1>2 DEF FlowA, FlowB
<1>4. CASE answer[r].status = "ok"
  <2>1. optionStore = Advertised
    BY <1>2, <1>3, <1>4 DEF SeededInv
  <2>2. optionStore' \in {optionStore, Advertised}
    BY <1>1, <1>2
    DEF Next, Arrive, HandlerStep, SettleReplied, Verify, StoreOptions, RecordPending,
        OnCommit, OnCommitFailed, MarkDelivery, OnFulfill, FulfillFailed, ClearEntry,
        SetRecovery, IOFault, DirectCall, Land, RedeemGate, RedeemLands, RedeemDrops,
        Elsewhere, ReaderCatchesUp, Crash, vars, storeVars
  <2>3. QED
    BY <2>1, <2>2
<1>5. CASE answer[r].status # "ok"
  <2>1. CASE StoreOptions(r)
    BY <2>1 DEF StoreOptions
  <2>2. CASE OnCommitFailed(r) \/ FulfillFailed(r)
    BY <1>3, <2>2
    DEF OnCommitFailed, FulfillFailed, RouteInv, RequestOK, PlaceOK, Fulfilling
  <2>3. CASE ClearEntry(r)
    BY <1>3, <2>3 DEF ClearEntry, RouteInv, RequestOK, PlaceOK, Fulfilling
  <2>4. QED
    BY <1>1, <1>3, <1>5, <2>1, <2>2, <2>3, WhoGrants DEF Granted
<1>6. QED
  BY <1>4, <1>5

(* Once a buyer of Flow A has been answered 200, a redeem that starts is   *)
(* held to the options the offer advertised, for any number of requests    *)
(* that share the payment, if the option store is durable: the entry is    *)
(* written before the answer (handleCommit).                               *)
THEOREM SeededGate ==
  ASSUME "volatileStores" \notin Environment
  PROVE  Spec => GateIsSeeded
<1>1. Init => SeededInv
  BY DEF Init, SeededInv
<1>2. RouteInv /\ SeededInv /\ [Next]_vars => SeededInv'
  BY SeededStep
<1>3. ASSUME SeededInv, [Next]_vars, redeem = "idle", redeem' = "gated",
             \E r \in Requests : answer[r].status = "ok"
      PROVE  gate' = Advertised
  <2>1. RedeemGate
    BY <1>3
    DEF Next, Arrive, HandlerStep, SettleReplied, Verify, StoreOptions, RecordPending,
        OnCommit, OnCommitFailed, MarkDelivery, OnFulfill, FulfillFailed, ClearEntry,
        SetRecovery, IOFault, DirectCall, Land, RedeemLands, RedeemDrops, Elsewhere,
        ReaderCatchesUp, Crash, vars, redeemVars
  <2>2. QED
    BY <1>3, <2>1 DEF RedeemGate, SeededInv
<1>4. SeededInv /\ [Next]_vars =>
        [ redeem = "idle" /\ redeem' = "gated" /\ (\E r \in Requests : answer[r].status = "ok")
            => gate' = Advertised ]_vars
  BY <1>3
<1>5. QED
  BY <1>1, <1>2, <1>4, AlwaysRoute, PTL DEF Spec, GateIsSeeded
=============================================================================
