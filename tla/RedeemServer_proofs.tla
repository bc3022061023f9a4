------------------------ MODULE RedeemServer_proofs ------------------------
(***************************************************************************)
(* What RedeemServer promises for any number of requests and replays, any  *)
(* options, deployments and reader delays. MutexInv and RouteInv make the  *)
(* type invariant inductive; the data invariants are built on them.        *)
(***************************************************************************)
EXTENDS RedeemServer, TLAPS

Running == InFlight \ {"queued"}

(* The requests in the queue are those in flight, each once, and the one   *)
(* whose handler runs is at its head.                                      *)
MutexInv ==
  /\ \A i \in 1 .. Len(queue) : pc[queue[i]] \in InFlight
  /\ \A i, j \in 1 .. Len(queue) : queue[i] = queue[j] => i = j
  /\ \A r \in Requests :
       pc[r] \in InFlight => \E i \in 1 .. Len(queue) : queue[i] = r
  /\ \A r \in Requests : pc[r] \in Running => queue # <<>> /\ queue[1] = r

(* Where only a redeem that named an option gets to.                       *)
Fulfilling == {"record", "onCommit", "onCommitFailed", "markDelivery",
               "onFulfill", "fulfillFailed", "clear", "clearDelivered"}

RouteInv ==
  /\ \A r \in Requests :
       pc[r] \in Fulfilling => r \in Redeems /\ req[r].option \in Options
  /\ \A r \in Requests : pc[r] = "dropOption" => r \in Redeems
  /\ \A p \in Replays : rpc[p] \in ReplayInFlight => rentry[p] \in RecoveryEntry
  /\ history # <<>>

Inv == TypeOK /\ MutexInv /\ RouteInv

(* Every action of the exchange's routes is one the contract knows.        *)
LEMMA InputActions ==
  ASSUME NEW input \in RedeemInput \cup OtherInput
  PROVE  /\ input.action \in POST_COMMIT_ACTION_IDS
         /\ input.option \in Options \cup {NoOption}
BY ActionsAssumption DEF RedeemInput, OtherInput, POST_COMMIT_ACTION_IDS

(* A post-commit action never leaves the exchange COMMITTED.               *)
LEMMA PostState ==
  ASSUME NEW a \in POST_COMMIT_ACTION_IDS
  PROVE  /\ ACTION_POST_STATE[a] \in ClientState
         /\ ACTION_POST_STATE[a].exchange # "COMMITTED"
BY DEF POST_COMMIT_ACTION_IDS, COMMIT_ACTION_IDS, EXCHANGE_ACTION_IDS,
       ACTION_POST_STATE, ClientState, ExchangeState, DisputeState, NoDispute,
       InState, InDispute, PRE_COMMIT

(* Only a COMMITTED exchange can be redeemed.                              *)
LEMMA RedeemNeedsCommitted ==
  ASSUME NEW s \in ClientState, NEW side \in Side,
         isLegalTransition(s, "boson-redeem", side)
  PROVE  s.exchange = "COMMITTED"
<1>1. CASE s.exchange = "DISPUTED"
  <2>1. s.dispute \in DisputeState
    BY <1>1 DEF ClientState, NoDispute, ExchangeState, PRE_COMMIT, DisputeState
  <2> QED
    BY <1>1, <2>1 DEF isLegalTransition, legalActions, CLIENT_BY_DISPUTE,
       SERVER_BY_DISPUTE, DisputeState
<1>2. CASE s.exchange # "DISPUTED"
  <2>1. s.exchange \in (ExchangeState \ {"DISPUTED"}) \cup {PRE_COMMIT}
    BY <1>2 DEF ClientState
  <2> QED
    BY <1>2, <2>1 DEF isLegalTransition, legalActions, CLIENT_BY_EXCHANGE,
       SERVER_BY_EXCHANGE, ExchangeState, PRE_COMMIT, COMMIT_ACTION_IDS
<1> QED BY <1>1, <1>2

(* Executing an action keeps the chain well-typed.                         *)
LEMMA ExecuteType ==
  ASSUME ChainTypeOK, NEW a \in POST_COMMIT_ACTION_IDS, Execute(a)
  PROVE  /\ ChainTypeOK' /\ history' # <<>>
         /\ Now' = ACTION_POST_STATE[a]
BY PostState DEF ChainTypeOK, Execute, Executable, Now

(* Leaving the handler hands the exchange to the next request in line.     *)
LEMMA AnswerType ==
  ASSUME Inv, NEW r \in Requests, pc[r] \in InFlight, queue # <<>>, queue[1] = r,
         NEW status \in {"ok", "bad", "gateway", "threw"}, Answer(r, status),
         UNCHANGED <<chainVars, operatorVars>>
  PROVE  /\ queue' \in Seq(Requests)
         /\ pc' \in [Requests -> InFlight \cup {"idle", "done"}]
         /\ req' = req
         /\ tries' = tries
         /\ answer' \in [Requests -> Answers]
         /\ MutexInv'
         /\ RouteInv'
<1>1. queue # <<>> /\ queue[1] = r /\ queue \in Seq(Requests)
  BY DEF Inv, TypeOK
<1>2. /\ queue' \in Seq(Requests)
      /\ Len(queue') = Len(queue) - 1
      /\ \A i \in 1 .. Len(queue') : queue'[i] = queue[i + 1]
  BY <1>1 DEF Answer
<1>3. /\ pc' \in [Requests -> InFlight \cup {"idle", "done"}]
      /\ pc'[r] = "done"
      /\ \A s \in Requests \ {r} : pc'[s] = pc[s]
  BY DEF Answer, Goto, Inv, TypeOK
<1>4. "done" \notin InFlight /\ "queued" \notin Running /\ Running \subseteq InFlight
  BY DEF Running, InFlight, AwaitingIO
<1>5. ASSUME NEW i \in 1 .. Len(queue')
      PROVE  /\ i + 1 \in 1 .. Len(queue) /\ queue[i + 1] \in Requests
             /\ queue[i + 1] # r
             /\ pc'[queue'[i]] \in InFlight
  BY <1>1, <1>2, <1>3 DEF Inv, MutexInv
<1>6. \A i, j \in 1 .. Len(queue') : queue'[i] = queue'[j] => i = j
  BY <1>1, <1>2, <1>5 DEF Inv, MutexInv
<1>7. ASSUME NEW s \in Requests, pc'[s] \in InFlight
      PROVE  \E i \in 1 .. Len(queue') : queue'[i] = s
  <2>1. PICK j \in 1 .. Len(queue) : queue[j] = s
    BY <1>3, <1>4, <1>7 DEF Inv, MutexInv
  <2>2. j # 1
    BY <1>1, <1>3, <1>4, <1>7, <2>1
  <2>3. j - 1 \in 1 .. Len(queue') /\ queue'[j - 1] = s
    BY <1>1, <1>2, <2>1, <2>2
  <2> QED BY <2>3
<1>8. \A s \in Requests : pc'[s] \notin Running
  BY <1>1, <1>3, <1>4 DEF Inv, MutexInv
<1>9. MutexInv'
  BY <1>5, <1>6, <1>7, <1>8 DEF MutexInv
<1>10. answer' \in [Requests -> Answers]
  <2>1. answer' = [answer EXCEPT ![r] = [answer[r] EXCEPT !.status = status]]
    BY DEF Answer
  <2>2. answer[r] \in Answers
    BY DEF Inv, TypeOK
  <2>3. [answer[r] EXCEPT !.status = status] \in Answers
    BY <2>2 DEF Answers
  <2> QED BY <2>1, <2>3 DEF Inv, TypeOK
<1>11. RouteInv'
  BY <1>3 DEF Answer, Inv, RouteInv, Fulfilling, chainVars, operatorVars
<1> QED
  BY <1>2, <1>3, <1>9, <1>10, <1>11 DEF Answer

(* A running handler moving on keeps the mutex and its route.              *)
LEMMA GotoType ==
  ASSUME Inv, NEW r \in Requests, NEW label \in Running,
         pc[r] \in InFlight, queue # <<>>, queue[1] = r,
         label \in Fulfilling => r \in Redeems /\ req[r].option \in Options,
         label = "dropOption" => r \in Redeems,
         Goto(r, label), UNCHANGED <<queue, req, chainVars, operatorVars>>
  PROVE  /\ pc' \in [Requests -> InFlight \cup {"idle", "done"}]
         /\ MutexInv'
         /\ RouteInv'
<1>1. label \in InFlight
  BY DEF Running
<1>2. /\ pc' \in [Requests -> InFlight \cup {"idle", "done"}]
      /\ pc'[r] = label
      /\ \A s \in Requests \ {r} : pc'[s] = pc[s]
  BY <1>1 DEF Goto, Inv, TypeOK
<1>3. \A i \in 1 .. Len(queue) : queue[i] \in Requests
  BY DEF Inv, TypeOK
<1>4. MutexInv'
  BY <1>1, <1>2, <1>3 DEF Inv, MutexInv
<1>5. RouteInv'
  BY <1>2 DEF Inv, RouteInv, chainVars, operatorVars
<1> QED BY <1>2, <1>4, <1>5

(* The handler that runs is at the head of the queue.                      *)
LEMMA RunningHead ==
  ASSUME Inv, NEW r \in Requests, pc[r] \in Running
  PROVE  pc[r] \in InFlight /\ queue # <<>> /\ queue[1] = r
BY DEF Inv, MutexInv, Running

LEMMA ArriveStep ==
  ASSUME Inv, NEW r \in Requests, NEW input \in RedeemInput \cup OtherInput,
         r \in Redeems => input \in RedeemInput, Arrive(r, input)
  PROVE  Inv'
<1>1. /\ queue' \in Seq(Requests)
      /\ Len(queue') = Len(queue) + 1
      /\ queue'[Len(queue) + 1] = r
      /\ \A i \in 1 .. Len(queue) : queue'[i] = queue[i] /\ queue[i] \in Requests
      /\ Len(queue) \in Nat
      /\ queue = <<>> <=> Len(queue) = 0
  BY DEF Arrive, Inv, TypeOK
<1>2. /\ pc' \in [Requests -> InFlight \cup {"idle", "done"}]
      /\ pc'[r] = "queued"
      /\ \A s \in Requests \ {r} : pc'[s] = pc[s]
      /\ pc[r] = "idle"
  BY DEF Arrive, Goto, Inv, TypeOK, InFlight
<1>3. "queued" \in InFlight /\ "queued" \notin Running /\ "idle" \notin InFlight
      /\ Running \subseteq InFlight
  BY DEF InFlight, Running, AwaitingIO
<1>4. MutexInv'
  <2>1. \A i \in 1 .. Len(queue) : queue[i] # r
    BY <1>2, <1>3 DEF Inv, MutexInv
  <2>2. \A i \in 1 .. Len(queue') : pc'[queue'[i]] \in InFlight
    BY <1>1, <1>2, <1>3, <2>1 DEF Inv, MutexInv
  <2>3. \A i, j \in 1 .. Len(queue') : queue'[i] = queue'[j] => i = j
    BY <1>1, <2>1 DEF Inv, MutexInv
  <2>4. \A s \in Requests :
          pc'[s] \in InFlight => \E i \in 1 .. Len(queue') : queue'[i] = s
    BY <1>1, <1>2 DEF Inv, MutexInv
  <2>5. \A s \in Requests : pc'[s] \in Running => queue' # <<>> /\ queue'[1] = s
    BY <1>1, <1>2, <1>3 DEF Inv, MutexInv
  <2> QED BY <2>2, <2>3, <2>4, <2>5 DEF MutexInv
<1>5. req' \in [Requests -> RedeemInput \cup OtherInput]
      /\ \A s \in Redeems : req'[s] \in RedeemInput
  BY DEF Arrive, Inv, TypeOK, Requests
<1>6. TypeOK'
  BY <1>1, <1>2, <1>5 DEF Arrive, Inv, TypeOK, ChainTypeOK, chainVars, relayVars,
     storeVars, channelVars, operatorVars, envVars
<1>7. RouteInv'
  BY <1>2 DEF Arrive, Inv, RouteInv, Fulfilling, chainVars, operatorVars
<1> QED BY <1>4, <1>6, <1>7 DEF Inv

LEMMA EntryType ==
  ASSUME Inv, NEW r \in Redeems, req[r].option \in Options,
         NEW phase \in {"commit", "delivery"}, NEW err \in BOOLEAN
  PROVE  Entry(r, phase, err) \in RecoveryEntry
BY DEF Entry, RecoveryEntry

LEMMA AnswerKept ==
  ASSUME NEW a \in Answers
  PROVE  [a EXCEPT !.fulfillment = TRUE] \in Answers /\ [a EXCEPT !.status = "lost"] \in Answers
  BY DEF Answers

LEMMA DeferType ==
  ASSUME Inv, NEW r \in Requests, NEW warning \in {"UPDATE", "DELIVERY"},
         Defer(r, warning)
  PROVE  answer' \in [Requests -> Answers]
<1>1. answer[r] \in Answers
  BY DEF Inv, TypeOK
<1>2. [answer[r] EXCEPT !.deferred = @ \cup {warning}] \in Answers
  BY <1>1 DEF Answers
<1> QED
  BY <1>1, <1>2 DEF Defer, Inv, TypeOK

(* A handler's steps keep the types, the mutex and the route.              *)
LEMMA HandlerTypes ==
  ASSUME Inv, NEW r \in Requests, HandlerStep(r)
  PROVE  Inv'
<1> USE DEF chainVars, relayVars, storeVars, channelVars, operatorVars, envVars
<1>a. /\ {"queued"} \cup Running = InFlight
      /\ {"gate", "preRead", "call", "await", "verify", "dropOption"} \cup Fulfilling
           \subseteq Running
  BY DEF Running, InFlight, AwaitingIO, Fulfilling
<1>b. pc[r] \in InFlight => queue # <<>>
  BY DEF Inv, MutexInv, TypeOK
<1>c. r \in Redeems => req[r].option \in Options \cup {NoOption}
  BY DEF Inv, TypeOK, RedeemInput
<1>d. ASSUME NEW status \in {"ok", "bad", "gateway", "threw"}, Answer(r, status),
             pc[r] \in InFlight, queue[1] = r,
             UNCHANGED <<chainVars, relayVars, recovery, channelVars,
                         operatorVars, envVars>>,
             optionStore' \in {optionStore, NoEntry}
      PROVE  Inv'
  BY <1>b, <1>d, AnswerType DEF Inv, TypeOK, ChainTypeOK
<1>e. ASSUME NEW label \in Running, Goto(r, label),
             label \in Fulfilling => r \in Redeems /\ req[r].option \in Options,
             label = "dropOption" => r \in Redeems,
             pc[r] \in InFlight, queue[1] = r,
             UNCHANGED <<queue, req, tries, chainVars, landed, optionStore,
                         operatorVars, envVars>>,
             answer' \in [Requests -> Answers],
             called' \in {called, called \cup {r}},
             recovery' \in RecoveryEntry \cup {NoEntry},
             target' \in [Options -> Redeems \cup {NoOne}],
             delivered' \subseteq Options \X Redeems,
             dispatches' \in Nat
      PROVE  Inv'
  BY <1>b, <1>e, GotoType DEF Inv, TypeOK, ChainTypeOK
<1>1. CASE Enter(r)
  <2>1. queue[1] = r /\ pc[r] \in InFlight
    BY <1>1, <1>a, <1>b DEF Enter, HoldsMutex, Inv, TypeOK
  <2>2. CASE req[r].form = "undecodable"
    BY <1>1, <1>d, <2>1, <2>2 DEF Enter
  <2>3. CASE req[r].form # "undecodable"
    BY <1>1, <1>a, <1>e, <2>1, <2>3 DEF Enter, Inv, TypeOK, Fulfilling
  <2> QED BY <2>2, <2>3
<1>f. r \in Redeems => req[r] \in RedeemInput
  BY DEF Inv, TypeOK
<1>2. CASE Gate(r)
  <2>1. queue[1] = r /\ pc[r] \in InFlight
    BY <1>2, <1>a, RunningHead DEF Gate
  <2>2. CASE Answer(r, "bad")
    BY <1>2, <1>d, <2>1, <2>2 DEF Gate
  <2>3. CASE Goto(r, "preRead") /\ UNCHANGED <<queue, req, tries, answer>>
    BY <1>2, <1>a, <1>e, <2>1, <2>3 DEF Gate, Inv, TypeOK, Fulfilling
  <2> QED BY <1>2, <2>2, <2>3 DEF Gate
<1>3. CASE PreRead(r)
  <2>1. queue[1] = r /\ pc[r] \in InFlight
    BY <1>3, <1>a, RunningHead DEF PreRead
  <2>2. CASE Answer(r, "gateway")
    BY <1>3, <1>d, <2>1, <2>2 DEF PreRead
  <2>3. CASE Goto(r, "call") /\ UNCHANGED <<queue, req, tries, answer>>
    BY <1>3, <1>a, <1>e, <2>1, <2>3 DEF PreRead, Inv, TypeOK, Fulfilling
  <2> QED BY <1>3, <2>2, <2>3 DEF PreRead
<1>4. CASE CallFacilitator(r)
  <2>1. queue[1] = r /\ pc[r] \in InFlight
    BY <1>4, <1>a, RunningHead DEF CallFacilitator
  <2> QED
    BY <1>4, <1>a, <1>e, <2>1 DEF CallFacilitator, Inv, TypeOK, Fulfilling
<1>5. CASE ReplyAccepted(r)
  <2>1. queue[1] = r /\ pc[r] \in InFlight
    BY <1>5, <1>a, RunningHead DEF ReplyAccepted
  <2> QED
    BY <1>5, <1>a, <1>e, <2>1 DEF ReplyAccepted, Inv, TypeOK, Fulfilling
<1>6. CASE ReplyFailed(r)
  <2>1. queue[1] = r /\ pc[r] \in InFlight
    BY <1>6, <1>a, RunningHead DEF ReplyFailed
  <2> QED
    BY <1>6, <1>d, <2>1 DEF ReplyFailed
<1>7. CASE Verify(r)
  <2>1. queue[1] = r /\ pc[r] \in InFlight
    BY <1>7, <1>a, RunningHead DEF Verify
  <2>2. CASE Answer(r, "ok") \/ Answer(r, "gateway")
    BY <1>7, <1>d, <2>1, <2>2 DEF Verify
  <2>3. CASE /\ r \in Redeems
             /\ Goto(r, IF req[r].option = NoOption THEN "dropOption"
                                                    ELSE "record")
             /\ UNCHANGED <<queue, req, tries, answer>>
    BY <1>7, <1>a, <1>c, <1>e, <2>1, <2>3 DEF Verify, Inv, TypeOK, Fulfilling
  <2>4. CASE /\ MayRetry(r)
             /\ tries' = [tries EXCEPT ![r] = @ + 1]
             /\ UNCHANGED <<queue, pc, req, answer>>
    <3>1. tries' \in [Requests -> 1 .. VerifyAttempts]
      BY <2>4, AttemptsAssumption DEF MayRetry, Inv, TypeOK
    <3> QED
      BY <1>7, <2>4, <3>1 DEF Verify, Inv, TypeOK, ChainTypeOK, MutexInv, RouteInv
  <2> QED BY <1>7, <2>2, <2>3, <2>4 DEF Verify
<1>8. CASE RecordPending(r)
  <2>1. queue[1] = r /\ pc[r] \in InFlight /\ r \in Redeems /\ req[r].option \in Options
    BY <1>8, <1>a, RunningHead DEF RecordPending, Inv, RouteInv, Fulfilling
  <2> QED
    BY <1>8, <1>a, <1>e, <2>1, EntryType
       DEF RecordPending, SetRecovery, Inv, TypeOK, Fulfilling
<1>9. CASE OnCommit(r)
  <2>1. queue[1] = r /\ pc[r] \in InFlight /\ r \in Redeems /\ req[r].option \in Options
    BY <1>9, <1>a, RunningHead DEF OnCommit, Inv, RouteInv, Fulfilling
  <2>2. target' \in [Options -> Redeems \cup {NoOne}]
    BY <1>9, <2>1 DEF OnCommit, Persist, Inv, TypeOK
  <2>3. PICK label \in {"markDelivery", "clear", "onCommitFailed"} : Goto(r, label)
    BY <1>9 DEF OnCommit
  <2> QED
    BY <1>9, <1>a, <1>e, <2>1, <2>2, <2>3 DEF OnCommit, Inv, TypeOK, Fulfilling
<1>10. CASE OnCommitFailed(r)
  <2>1. queue[1] = r /\ pc[r] \in InFlight /\ r \in Redeems /\ req[r].option \in Options
    BY <1>10, <1>a, RunningHead DEF OnCommitFailed, Inv, RouteInv, Fulfilling
  <2>2. answer' \in [Requests -> Answers]
    BY <1>10, DeferType DEF OnCommitFailed
  <2> QED
    BY <1>10, <1>a, <1>e, <2>1, <2>2, EntryType
       DEF OnCommitFailed, SetRecovery, Inv, TypeOK, Fulfilling
<1>11. CASE MarkDelivery(r)
  <2>1. queue[1] = r /\ pc[r] \in InFlight /\ r \in Redeems /\ req[r].option \in Options
    BY <1>11, <1>a, RunningHead DEF MarkDelivery, Inv, RouteInv, Fulfilling
  <2> QED
    BY <1>11, <1>a, <1>e, <2>1, EntryType
       DEF MarkDelivery, SetRecovery, Inv, TypeOK, Fulfilling
<1>12. CASE OnFulfill(r)
  <2>1. queue[1] = r /\ pc[r] \in InFlight /\ r \in Redeems /\ req[r].option \in Options
    BY <1>12, <1>a, RunningHead DEF OnFulfill, Inv, RouteInv, Fulfilling
  <2>2. answer' \in [Requests -> Answers]
    <3>1. answer[r] \in Answers
      BY DEF Inv, TypeOK
    <3>2. [answer[r] EXCEPT !.fulfillment = TRUE] \in Answers
      BY <3>1, AnswerKept
    <3> QED BY <1>12, <3>2 DEF OnFulfill, Inv, TypeOK
  <2>3. delivered' \subseteq Options \X Redeems /\ dispatches' \in Nat
    BY <1>12, <2>1 DEF OnFulfill, Dispatch, DispatchFails, Inv, TypeOK
  <2>4. PICK label \in {"clearDelivered", "fulfillFailed"} : Goto(r, label)
    BY <1>12 DEF OnFulfill
  <2> QED
    BY <1>12, <1>a, <1>e, <2>1, <2>2, <2>3, <2>4 DEF OnFulfill, Inv, TypeOK, Fulfilling
<1>13. CASE FulfillFailed(r)
  <2>1. queue[1] = r /\ pc[r] \in InFlight /\ r \in Redeems /\ req[r].option \in Options
    BY <1>13, <1>a, RunningHead DEF FulfillFailed, Inv, RouteInv, Fulfilling
  <2>2. answer' \in [Requests -> Answers]
    BY <1>13, DeferType DEF FulfillFailed
  <2> QED
    BY <1>13, <1>a, <1>e, <2>1, <2>2, EntryType
       DEF FulfillFailed, SetRecovery, Inv, TypeOK, Fulfilling
<1>14. CASE ClearEntry(r)
  <2>1. queue[1] = r /\ pc[r] \in InFlight /\ r \in Redeems
    BY <1>14, <1>a, RunningHead DEF ClearEntry, Inv, RouteInv, Fulfilling
  <2> QED
    BY <1>14, <1>a, <1>e, <2>1 DEF ClearEntry, Inv, TypeOK, Fulfilling
<1>15. CASE DropOption(r)
  <2>1. queue[1] = r /\ pc[r] \in InFlight
    BY <1>15, <1>a, RunningHead DEF DropOption
  <2> QED
    BY <1>15, <1>d, <2>1 DEF DropOption
<1> QED
  BY <1>1, <1>2, <1>3, <1>4, <1>5, <1>6, <1>7, <1>8, <1>9, <1>10, <1>11, <1>12,
     <1>13, <1>14, <1>15 DEF HandlerStep, OwnStep

(* So do the replays'.                                                     *)
LEMMA ReplayTypes ==
  ASSUME Inv, NEW p \in Replays,
         ReplayStart(p) \/ ReplayStep(p) \/ ReplayIOFault(p)
  PROVE  Inv'
<1> USE DEF chainVars, handlerVars, relayVars, storeVars, channelVars,
            operatorVars, envVars
<1>a. ASSUME NEW label \in ReplayInFlight \cup {"ok", "failed"}, RGoto(p, label),
             label \in ReplayInFlight => rentry'[p] \in RecoveryEntry,
             rentry' = rentry \/ rentry' = [rentry EXCEPT ![p] = recovery],
             UNCHANGED <<chainVars, handlerVars, relayVars, optionStore, config,
                         crashed>>,
             faulted' \in BOOLEAN,
             recovery' \in RecoveryEntry \cup {NoEntry},
             target' \in [Options -> Redeems \cup {NoOne}],
             delivered' \subseteq Options \X Redeems,
             dispatches' \in Nat
      PROVE  Inv'
  <2>1. rpc' \in [Replays -> ReplayInFlight \cup {"idle", "ok", "failed", "lost"}]
        /\ rentry' \in [Replays -> RecoveryEntry \cup {NoEntry}]
    BY <1>a DEF RGoto, Inv, TypeOK
  <2>2. TypeOK'
    BY <1>a, <2>1 DEF Inv, TypeOK, ChainTypeOK
  <2>3. MutexInv'
    BY <1>a DEF Inv, MutexInv
  <2>4. RouteInv'
    BY <1>a DEF RGoto, Inv, TypeOK, RouteInv
  <2> QED BY <2>2, <2>3, <2>4 DEF Inv
<1>b. rpc[p] \in ReplayInFlight => rentry[p] \in RecoveryEntry
  BY DEF Inv, RouteInv
<1>1. CASE ReplayStart(p)
  <2>1. CASE recovery = NoEntry
    <3>1. RGoto(p, "failed")
      BY <1>1, <2>1 DEF ReplayStart
    <3> QED
      BY <1>1, <1>a, <2>1, <3>1 DEF ReplayStart, Inv, TypeOK, ReplayInFlight
  <2>2. CASE recovery # NoEntry
    <3>1. recovery \in RecoveryEntry /\ recovery.phase \in {"commit", "delivery"}
      BY <2>2 DEF Inv, TypeOK, RecoveryEntry
    <3>2. PICK label \in {"noAdapter", "onCommit", "onFulfill"} : RGoto(p, label)
      BY <1>1, <2>2, <3>1 DEF ReplayStart
    <3>3. rentry'[p] \in RecoveryEntry
      BY <1>1, <3>1 DEF ReplayStart, Inv, TypeOK
    <3> QED
      BY <1>1, <1>a, <3>2, <3>3 DEF ReplayStart, Inv, TypeOK, ReplayInFlight
  <2> QED BY <2>1, <2>2
<1>2. CASE ReplayOnCommit(p)
  <2>1. rentry[p] \in RecoveryEntry /\ rentry[p].option \in Options
        /\ rentry[p].from \in Redeems
    BY <1>2, <1>b DEF ReplayOnCommit, ReplayInFlight, RecoveryEntry
  <2>2. target' \in [Options -> Redeems \cup {NoOne}]
    BY <1>2, <2>1 DEF ReplayOnCommit, Inv, TypeOK
  <2>3. PICK label \in {"clear", "fail"} : RGoto(p, label)
    BY <1>2 DEF ReplayOnCommit
  <2> QED
    BY <1>2, <1>a, <2>1, <2>2, <2>3 DEF ReplayOnCommit, Inv, TypeOK, ReplayInFlight
<1>3. CASE ReplayOnFulfill(p)
  <2>1. rentry[p] \in RecoveryEntry /\ rentry[p].option \in Options
    BY <1>3, <1>b DEF ReplayOnFulfill, ReplayInFlight, RecoveryEntry
  <2>2. delivered' \subseteq Options \X Redeems /\ dispatches' \in Nat
    BY <1>3, <2>1 DEF ReplayOnFulfill, Dispatch, DispatchFails, Inv, TypeOK
  <2>3. PICK label \in {"clear", "fail"} : RGoto(p, label)
    BY <1>3 DEF ReplayOnFulfill
  <2> QED
    BY <1>3, <1>a, <2>1, <2>2, <2>3 DEF ReplayOnFulfill, Inv, TypeOK, ReplayInFlight
<1>4. CASE ReplayClear(p)
  BY <1>4, <1>a DEF ReplayClear, Inv, TypeOK, ReplayInFlight
<1>5. CASE ReplayFail(p)
  <2>1. rentry[p] \in RecoveryEntry
    BY <1>5, <1>b DEF ReplayFail, ReplayInFlight
  <2>2. [rentry[p] EXCEPT !.error = TRUE] \in RecoveryEntry
    BY <2>1 DEF RecoveryEntry
  <2> QED
    BY <1>5, <1>a, <2>2 DEF ReplayFail, Inv, TypeOK, ReplayInFlight
<1>6. CASE ReplayIOFault(p)
  <2>1. rentry[p] \in RecoveryEntry
    BY <1>6, <1>b DEF ReplayIOFault, ReplayInFlight
  <2> QED
    BY <1>6, <1>a, <2>1 DEF ReplayIOFault, Inv, TypeOK, ReplayInFlight
<1> QED
  BY <1>1, <1>2, <1>3, <1>4, <1>5, <1>6 DEF ReplayStep

(* A restart empties the queue and the memory of the process.              *)
LEMMA CrashTypes == ASSUME Inv, Crash PROVE Inv'
<1> USE DEF chainVars, relayVars, storeVars
<1>1. "done" \notin InFlight \cup Fulfilling \cup {"dropOption"}
      /\ Fulfilling \cup {"dropOption"} \subseteq InFlight
      /\ Running \subseteq InFlight
      /\ "lost" \notin ReplayInFlight
  BY DEF InFlight, AwaitingIO, Fulfilling, Running, ReplayInFlight
<1>2. /\ pc' \in [Requests -> InFlight \cup {"idle", "done"}]
      /\ \A r \in Requests : pc'[r] \notin InFlight
  BY <1>1 DEF Crash, Inv, TypeOK
<1>3. answer' \in [Requests -> Answers]
  <2>1. \A r \in Requests : [answer[r] EXCEPT !.status = "lost"] \in Answers
    BY AnswerKept DEF Inv, TypeOK
  <2> QED BY <2>1 DEF Crash, Inv, TypeOK
<1>4. rpc' \in [Replays -> ReplayInFlight \cup {"idle", "ok", "failed", "lost"}]
      /\ \A p \in Replays : rpc'[p] \notin ReplayInFlight
  BY <1>1 DEF Crash, Inv, TypeOK
<1>5. target' \in [Options -> Redeems \cup {NoOne}]
      /\ (optionStore' = NoEntry \/ optionStore' \in SUBSET Options)
      /\ recovery' \in RecoveryEntry \cup {NoEntry}
  BY DEF Crash, Inv, TypeOK
<1>6. queue' = <<>> /\ queue' \in Seq(Requests)
  BY DEF Crash
<1>7. TypeOK'
  BY <1>2, <1>3, <1>4, <1>5, <1>6 DEF Crash, Inv, TypeOK, ChainTypeOK
<1>8. MutexInv'
  BY <1>1, <1>2, <1>6 DEF MutexInv
<1>9. RouteInv'
  BY <1>1, <1>2, <1>4 DEF RouteInv, Inv, Crash
<1> QED BY <1>7, <1>8, <1>9 DEF Inv

LEMMA InitTypes == ASSUME Init PROVE Inv
<1> USE DEF Init
<1>1. queue \in Seq(Requests)
  OBVIOUS
<1>2. \A r \in Requests : req[r] \in RedeemInput
  BY DEF RedeemInput
<1>3. answer \in [Requests -> Answers]
  BY DEF Answers
<1>4. ChainTypeOK /\ history # <<>>
  BY DEF ChainTypeOK, ClientState, InState, ExchangeState, PRE_COMMIT, NoDispute
<1>5. optionStore = NoEntry \/ optionStore \in SUBSET Options
  BY OptionsAssumption
<1>6. TypeOK
  <2>1. /\ pc \in [Requests -> InFlight \cup {"idle", "done"}]
        /\ tries \in [Requests -> 1 .. VerifyAttempts]
        /\ req \in [Requests -> RedeemInput \cup OtherInput]
        /\ \A r \in Redeems : req[r] \in RedeemInput
    BY <1>2, AttemptsAssumption DEF Requests
  <2>2. /\ target \in [Options -> Redeems \cup {NoOne}]
        /\ rpc \in [Replays -> ReplayInFlight \cup {"idle", "ok", "failed", "lost"}]
        /\ rentry \in [Replays -> RecoveryEntry \cup {NoEntry}]
    OBVIOUS
  <2>3. /\ called \subseteq Requests /\ landed \subseteq called
        /\ recovery \in RecoveryEntry \cup {NoEntry}
        /\ delivered \subseteq Options \X Redeems /\ dispatches \in Nat
        /\ config \in Configs /\ crashed \in BOOLEAN /\ faulted \in BOOLEAN
    OBVIOUS
  <2> QED BY <1>1, <1>3, <1>4, <1>5, <2>1, <2>2, <2>3 DEF TypeOK
<1>7. MutexInv
  BY DEF MutexInv, InFlight, AwaitingIO, Running
<1>8. RouteInv
  BY <1>4 DEF RouteInv, Fulfilling, ReplayInFlight
<1> QED BY <1>6, <1>7, <1>8 DEF Inv

LEMMA StepTypes == ASSUME Inv, [Next]_vars PROVE Inv'
<1> USE DEF chainVars, handlerVars, relayVars, storeVars, channelVars,
            operatorVars, envVars
<1>a. ASSUME UNCHANGED <<handlerVars, called, storeVars, channelVars,
                         operatorVars, envVars>>,
             ChainTypeOK', history' # <<>>, landed' \subseteq called
      PROVE  Inv'
  BY <1>a DEF Inv, TypeOK, MutexInv, RouteInv
<1>1. ASSUME NEW r \in Redeems, NEW input \in RedeemInput, Arrive(r, input)
      PROVE  Inv'
  BY <1>1, ArriveStep DEF Requests
<1>2. ASSUME NEW r \in Others, NEW input \in OtherInput, Arrive(r, input)
      PROVE  Inv'
  BY <1>2, ArriveStep, RequestsAssumption DEF Requests
<1>3. ASSUME NEW r \in Requests, HandlerStep(r) PROVE Inv'
  BY <1>3, HandlerTypes
<1>4. ASSUME NEW r \in Requests, Land(r) PROVE Inv'
  <2>1. req[r].action \in POST_COMMIT_ACTION_IDS
    BY InputActions DEF Inv, TypeOK
  <2>2. ChainTypeOK' /\ history' # <<>>
    BY <1>4, <2>1, ExecuteType DEF Land, Inv, TypeOK
  <2> QED
    BY <1>4, <1>a, <2>2 DEF Land, Inv, TypeOK
<1>5. ASSUME NEW r \in Requests, IOFault(r) PROVE Inv'
  <2>1. pc[r] \in Running /\ "fulfillFailed" \in Running
    BY <1>5 DEF IOFault, AwaitingIO, Running, InFlight
  <2>2. queue # <<>> /\ queue[1] = r /\ pc[r] \in InFlight
    BY <2>1, RunningHead
  <2>3. CASE Answer(r, "threw")
    BY <1>5, <2>2, <2>3, AnswerType DEF IOFault, Inv, TypeOK, ChainTypeOK
  <2>4. CASE /\ pc[r] = "clearDelivered" /\ Goto(r, "fulfillFailed")
             /\ UNCHANGED <<queue, req, tries, answer>>
    <3>1. r \in Redeems /\ req[r].option \in Options
      BY <2>4 DEF Inv, RouteInv, Fulfilling
    <3>2. UNCHANGED <<queue, req, chainVars, operatorVars>> /\ Goto(r, "fulfillFailed")
      BY <1>5, <2>4 DEF IOFault
    <3>3. /\ pc' \in [Requests -> InFlight \cup {"idle", "done"}]
          /\ MutexInv' /\ RouteInv'
      BY <2>1, <2>2, <3>1, <3>2, GotoType
    <3> QED
      BY <1>5, <2>4, <3>3 DEF IOFault, Inv, TypeOK, ChainTypeOK
  <2> QED BY <1>5, <2>3, <2>4 DEF IOFault
<1>6. ASSUME NEW p \in Replays,
             ReplayStart(p) \/ ReplayStep(p) \/ ReplayIOFault(p)
      PROVE  Inv'
  BY <1>6, ReplayTypes
<1>7. ASSUME NEW a \in POST_COMMIT_ACTION_IDS, Elsewhere(a) PROVE Inv'
  <2>1. ChainTypeOK' /\ history' # <<>>
    BY <1>7, ExecuteType DEF Elsewhere, Inv, TypeOK
  <2> QED
    BY <1>7, <1>a, <2>1 DEF Elsewhere, Inv, TypeOK
<1>8. CASE ReaderCatchesUp
  BY <1>8, <1>a DEF ReaderCatchesUp, Index, Inv, TypeOK, RouteInv, ChainTypeOK
<1>9. CASE Crash
  BY <1>9, CrashTypes
<1>10. CASE UNCHANGED vars
  BY <1>10, <1>a DEF vars, Inv, TypeOK, RouteInv, ChainTypeOK
<1> QED
  BY <1>1, <1>2, <1>3, <1>4, <1>5, <1>6, <1>7, <1>8, <1>9, <1>10 DEF Next

(* Every reachable state is well-typed, for all values of the constants.   *)
THEOREM TypeCorrect == Spec => []TypeOK
<1>1. Init => Inv
  BY InitTypes
<1>2. Inv /\ [Next]_vars => Inv'
  BY StepTypes
<1>3. Inv => TypeOK
  BY DEF Inv
<1> QED BY <1>1, <1>2, <1>3, PTL DEF Spec

(* The per-exchange mutex excludes: of the requests of one exchange at     *)
(* most one handler runs at any time (KeyedMutex.runExclusive around every *)
(* post-commit route).                                                     *)
MutualExclusion ==
  \A r, s \in Requests : pc[r] \in Running /\ pc[s] \in Running => r = s

THEOREM HandlersExclude == Spec => []MutualExclusion
<1>1. Init => Inv
  BY InitTypes
<1>2. Inv /\ [Next]_vars => Inv'
  BY StepTypes
<1>3. Inv => MutualExclusion
  BY DEF Inv, MutexInv, MutualExclusion
<1> QED BY <1>1, <1>2, <1>3, PTL DEF Spec

-----------------------------------------------------------------------------
(* One redeemer: the contract executes boson-redeem once per exchange, so  *)
(* everything the server keeps on the strength of a landed redeem belongs  *)
(* to the same request.                                                    *)
LandingInv ==
  /\ \A r \in landed \cap Redeems : Now.exchange # "COMMITTED"
  /\ \A r, s \in landed \cap Redeems : r = s

HolderInv == DataHolders \subseteq landed

DataInv == LandingInv /\ HolderInv

LEMMA LandingStep ==
  ASSUME Inv, LandingInv, [Next]_vars
  PROVE  LandingInv' /\ landed \subseteq landed'
<1> USE DEF chainVars, handlerVars, relayVars, storeVars, channelVars,
            operatorVars, envVars
<1>a. ASSUME UNCHANGED <<history, landed>>
      PROVE  LandingInv' /\ landed \subseteq landed'
  BY <1>a DEF LandingInv, Now
<1>1. ASSUME NEW r \in Requests, Land(r)
      PROVE  LandingInv' /\ landed \subseteq landed'
  <2>1. /\ req[r].action \in POST_COMMIT_ACTION_IDS
        /\ r \in Redeems => req[r].action = "boson-redeem"
    BY InputActions DEF Inv, TypeOK, RedeemInput
  <2>2. Now'.exchange # "COMMITTED"
    BY <1>1, <2>1, ExecuteType, PostState DEF Land, Inv, TypeOK
  <2>3. CASE r \in Redeems
    <3>1. Now \in ClientState
      BY DEF Inv, TypeOK, ChainTypeOK, RouteInv, Now
    <3>2. Now.exchange = "COMMITTED"
      BY <1>1, <2>1, <2>3, <3>1, RedeemNeedsCommitted DEF Land, Execute, Executable
    <3>3. landed \cap Redeems = {}
      BY <3>2 DEF LandingInv
    <3> QED BY <1>1, <2>2, <3>3 DEF LandingInv, Land
  <2>4. CASE r \notin Redeems
    BY <1>1, <2>2, <2>4 DEF LandingInv, Land
  <2> QED BY <2>3, <2>4
<1>2. ASSUME NEW a \in POST_COMMIT_ACTION_IDS, Elsewhere(a)
      PROVE  LandingInv' /\ landed \subseteq landed'
  <2>1. Now'.exchange # "COMMITTED"
    BY <1>2, ExecuteType, PostState DEF Elsewhere, Inv, TypeOK
  <2> QED BY <1>2, <2>1 DEF LandingInv, Elsewhere
<1>3. ASSUME NEW r \in Requests, NEW input, Arrive(r, input)
      PROVE  LandingInv' /\ landed \subseteq landed'
  BY <1>3, <1>a DEF Arrive
<1>4. ASSUME NEW r \in Requests, HandlerStep(r) \/ IOFault(r)
      PROVE  LandingInv' /\ landed \subseteq landed'
  BY <1>4, <1>a DEF HandlerStep, OwnStep, Enter, Gate, PreRead, CallFacilitator,
     ReplyAccepted, ReplyFailed, Verify, RecordPending, OnCommit, OnCommitFailed,
     MarkDelivery, OnFulfill, FulfillFailed, ClearEntry, DropOption, IOFault,
     SetRecovery
<1>5. ASSUME NEW p \in Replays,
             ReplayStart(p) \/ ReplayStep(p) \/ ReplayIOFault(p)
      PROVE  LandingInv' /\ landed \subseteq landed'
  BY <1>5, <1>a DEF ReplayStart, ReplayStep, ReplayOnCommit, ReplayOnFulfill,
     ReplayClear, ReplayFail, ReplayIOFault
<1>6. CASE ReaderCatchesUp \/ Crash \/ UNCHANGED vars
  BY <1>6, <1>a DEF ReaderCatchesUp, Index, Crash, vars
<1> QED
  BY <1>1, <1>2, <1>3, <1>4, <1>5, <1>6 DEF Next, Requests

(* Ending or moving one handler leaves the others where they are.          *)
LEMMA AnswerFrame ==
  ASSUME Inv, NEW r \in Requests, NEW status, Answer(r, status)
  PROVE  /\ pc'[r] = "done"
         /\ answer'[r].status = status
         /\ \A s \in Requests \ {r} :
              pc'[s] = pc[s] /\ answer'[s].status = answer[s].status
<1>1. answer[r] \in Answers /\ answer \in [Requests -> Answers]
  BY DEF Inv, TypeOK
<1>2. pc'[r] = "done" /\ \A s \in Requests \ {r} : pc'[s] = pc[s]
  BY DEF Answer, Goto, Inv, TypeOK
<1>3. answer' = [answer EXCEPT ![r] = [answer[r] EXCEPT !.status = status]]
  BY DEF Answer
<1>4. answer'[r].status = status
  BY <1>1, <1>3 DEF Answers
<1>5. \A s \in Requests \ {r} : answer'[s] = answer[s]
  BY <1>1, <1>3
<1> QED BY <1>2, <1>4, <1>5

LEMMA GotoFrame ==
  ASSUME Inv, NEW r \in Requests, NEW label, Goto(r, label)
  PROVE  pc'[r] = label /\ \A s \in Requests \ {r} : pc'[s] = pc[s]
BY DEF Goto, Inv, TypeOK

LEMMA HandlerFrame ==
  ASSUME Inv, NEW r \in Requests, HandlerStep(r) \/ IOFault(r)
  PROVE  \A s \in Requests \ {r} :
           pc'[s] = pc[s] /\ answer'[s].status = answer[s].status
<1>a. ASSUME NEW label, Goto(r, label), UNCHANGED answer
      PROVE  \A s \in Requests \ {r} :
               pc'[s] = pc[s] /\ answer'[s].status = answer[s].status
  BY <1>a, GotoFrame
<1>1. CASE \E status : Answer(r, status)
  BY <1>1, AnswerFrame
<1>2. CASE (\E label : Goto(r, label)) /\ UNCHANGED answer
  BY <1>2, <1>a
<1>3. CASE UNCHANGED <<pc, answer>>
  BY <1>3
<1>4. CASE OnCommitFailed(r) \/ FulfillFailed(r)
  <2>1. \A s \in Requests \ {r} : pc'[s] = pc[s]
    BY <1>4, GotoFrame DEF OnCommitFailed, FulfillFailed
  <2>2. \A s \in Requests \ {r} : answer'[s] = answer[s]
    BY <1>4 DEF OnCommitFailed, FulfillFailed, Defer, Inv, TypeOK
  <2> QED BY <2>1, <2>2
<1>5. CASE OnFulfill(r)
  <2>1. \A s \in Requests \ {r} : pc'[s] = pc[s]
    BY <1>5, GotoFrame DEF OnFulfill
  <2>2. \A s \in Requests \ {r} : answer'[s] = answer[s]
    BY <1>5 DEF OnFulfill, Inv, TypeOK
  <2> QED BY <2>1, <2>2
<1>6. CASE Enter(r) \/ Gate(r) \/ PreRead(r) \/ CallFacilitator(r)
  BY <1>6, <1>1, <1>2 DEF Enter, Gate, PreRead, CallFacilitator
<1>7. CASE ReplyAccepted(r) \/ ReplyFailed(r) \/ Verify(r)
  BY <1>7, <1>1, <1>2, <1>3 DEF ReplyAccepted, ReplyFailed, Verify
<1>8. CASE RecordPending(r) \/ OnCommit(r) \/ MarkDelivery(r)
  BY <1>8, <1>2 DEF RecordPending, OnCommit, MarkDelivery
<1>9. CASE ClearEntry(r) \/ DropOption(r) \/ IOFault(r)
  BY <1>9, <1>1, <1>2 DEF ClearEntry, DropOption, IOFault
<1> QED
  BY <1>4, <1>5, <1>6, <1>7, <1>8, <1>9 DEF HandlerStep, OwnStep

(* A handler only adds its own request to the holders, and only once its   *)
(* redeem has landed.                                                      *)
LEMMA HandlerHolds ==
  ASSUME Inv, HolderInv, NEW r \in Requests, HandlerStep(r) \/ IOFault(r)
  PROVE  HolderInv'
<1> USE DEF chainVars, handlerVars, relayVars, storeVars, channelVars,
            operatorVars, envVars
<1>h. \A s \in Requests \ {r} :
        pc'[s] = pc[s] /\ answer'[s].status = answer[s].status
  BY HandlerFrame
<1>a. ASSUME UNCHANGED <<landed, rentry>>,
             r \in landed,
             \/ recovery' \in {recovery, NoEntry}
             \/ recovery' # NoEntry /\ recovery'.from = r,
             \A o \in Options : target'[o] \in {target[o], r},
             \A o \in Options, s \in Redeems \ {r} :
               <<o, s>> \in delivered' => <<o, s>> \in delivered \/ target[o] = s
      PROVE  HolderInv'
  <2> SUFFICES ASSUME NEW s \in Redeems, s \in DataHolders' PROVE s \in landed
    BY <1>a DEF HolderInv, DataHolders
  <2>1. CASE s # r
    BY <1>a, <1>h, <2>1 DEF HolderInv, DataHolders, Requests
  <2>2. CASE s = r
    BY <1>a, <2>2
  <2> QED BY <2>1, <2>2
<1>b. ASSUME UNCHANGED <<landed, rentry, recovery, target, delivered>>,
             \/ r \in landed
             \/ r \notin Redeems
             \/ pc'[r] \notin Accepted /\ answer'[r].status # "ok"
      PROVE  HolderInv'
  <2> SUFFICES ASSUME NEW s \in Redeems, s \in DataHolders' PROVE s \in landed
    BY <1>b DEF HolderInv, DataHolders
  <2>1. CASE s # r
    BY <1>b, <1>h, <2>1 DEF HolderInv, DataHolders, Requests
  <2>2. CASE s = r
    BY <1>b, <2>2 DEF HolderInv, DataHolders
  <2> QED BY <2>1, <2>2
<1>c. "done" \notin Accepted
  BY DEF Accepted
<1>d. r \in Redeems /\ (pc[r] \in Accepted \/ answer[r].status = "ok") => r \in landed
  BY DEF HolderInv, DataHolders
<1>e. pc[r] \in Fulfilling \cup {"dropOption"} => r \in landed
  BY <1>d DEF Inv, RouteInv, Fulfilling, Accepted
<1>f. ASSUME NEW status \in {"bad", "gateway", "threw"}, Answer(r, status)
      PROVE  pc'[r] \notin Accepted /\ answer'[r].status # "ok"
  BY <1>f, <1>c, AnswerFrame
<1>g. ASSUME NEW label, label \notin Accepted, Goto(r, label), UNCHANGED answer
      PROVE  \/ r \in landed
             \/ r \notin Redeems
             \/ pc'[r] \notin Accepted /\ answer'[r].status # "ok"
  BY <1>d, <1>g, GotoFrame
<1>1. CASE Enter(r) \/ Gate(r) \/ PreRead(r) \/ CallFacilitator(r) \/ ReplyFailed(r)
  <2>1. UNCHANGED <<landed, rentry, recovery, target, delivered>>
    BY <1>1 DEF Enter, Gate, PreRead, CallFacilitator, ReplyFailed
  <2>2. CASE Answer(r, "bad") \/ Answer(r, "gateway")
    BY <1>b, <1>f, <2>1, <2>2
  <2>3. CASE /\ \/ Goto(r, "preRead") \/ Goto(r, "gate")
                \/ Goto(r, "call") \/ Goto(r, "await")
             /\ UNCHANGED answer
    BY <1>b, <1>g, <2>1, <2>3 DEF Accepted
  <2> QED
    BY <1>1, <2>2, <2>3 DEF Enter, Gate, PreRead, CallFacilitator, ReplyFailed
<1>2. CASE ReplyAccepted(r)
  BY <1>2, <1>b DEF ReplyAccepted, FacilitatorAccepted
<1>3. CASE Verify(r)
  <2>1. r \in Redeems => r \in landed
    BY <1>3, <1>d DEF Verify, Accepted
  <2>2. UNCHANGED <<landed, rentry, recovery, target, delivered>>
    BY <1>3 DEF Verify
  <2> QED BY <1>b, <2>1, <2>2
<1>4. CASE RecordPending(r) \/ OnCommitFailed(r) \/ MarkDelivery(r) \/ FulfillFailed(r)
  <2>1. r \in landed /\ r \in Redeems /\ req[r].option \in Options
    BY <1>4, <1>e DEF Inv, RouteInv, RecordPending, OnCommitFailed, MarkDelivery,
       FulfillFailed, Fulfilling
  <2>2. PICK phase \in {"commit", "delivery"}, err \in BOOLEAN :
          SetRecovery(r, phase, err)
    BY <1>4 DEF RecordPending, OnCommitFailed, MarkDelivery, FulfillFailed
  <2>3. recovery'.from = r /\ recovery' # NoEntry
    BY <2>1, <2>2, EntryType, RequestsAssumption DEF SetRecovery, Entry
  <2>4. UNCHANGED <<landed, rentry, target, delivered>>
    BY <2>2 DEF SetRecovery
  <2> QED
    BY <1>a, <2>1, <2>3, <2>4
<1>5. CASE OnCommit(r)
  <2>1. r \in landed
    BY <1>5, <1>e DEF OnCommit, Fulfilling
  <2>2. \A o \in Options : target'[o] \in {target[o], r}
    BY <1>5 DEF OnCommit, Persist, Inv, TypeOK
  <2>3. UNCHANGED <<landed, rentry>> /\ recovery' = recovery /\ delivered' = delivered
    BY <1>5 DEF OnCommit
  <2>4. recovery' \in {recovery, NoEntry}
    BY <2>3
  <2>5. \A o \in Options, s \in Redeems \ {r} :
          <<o, s>> \in delivered' => <<o, s>> \in delivered \/ target[o] = s
    BY <2>3
  <2> QED
    BY <1>a, <2>1, <2>2, <2>3, <2>4, <2>5
<1>6. CASE OnFulfill(r)
  <2>1. r \in landed
    BY <1>6, <1>e DEF OnFulfill, Fulfilling
  <2>2. UNCHANGED <<landed, rentry>> /\ recovery' = recovery /\ target' = target
    BY <1>6 DEF OnFulfill
  <2>4. recovery' \in {recovery, NoEntry} /\ \A o \in Options : target'[o] \in {target[o], r}
    BY <2>2
  <2>3. \A o \in Options, s \in Redeems \ {r} :
          <<o, s>> \in delivered' => <<o, s>> \in delivered \/ target[o] = s
    BY <1>6 DEF OnFulfill, Dispatch, DispatchFails
  <2> QED
    BY <1>a, <2>1, <2>2, <2>3, <2>4
<1>7. CASE ClearEntry(r)
  <2>1. r \in landed
    BY <1>7, <1>e DEF ClearEntry, Fulfilling
  <2>2. /\ UNCHANGED <<landed, rentry>> /\ recovery' = NoEntry
        /\ target' = target /\ delivered' = delivered
    BY <1>7 DEF ClearEntry
  <2>3. recovery' \in {recovery, NoEntry} /\ \A o \in Options : target'[o] \in {target[o], r}
    BY <2>2
  <2>4. \A o \in Options, s \in Redeems \ {r} :
          <<o, s>> \in delivered' => <<o, s>> \in delivered \/ target[o] = s
    BY <2>2
  <2> QED BY <1>a, <2>1, <2>2, <2>3, <2>4
<1>8. CASE DropOption(r)
  BY <1>8, <1>b, <1>e DEF DropOption
<1>9. CASE IOFault(r)
  <2>1. UNCHANGED <<landed, rentry, recovery, target, delivered>>
    BY <1>9 DEF IOFault
  <2>2. CASE Answer(r, "threw")
    BY <1>b, <1>f, <2>1, <2>2
  <2>3. CASE pc[r] = "clearDelivered"
    BY <1>b, <1>e, <2>1, <2>3 DEF Fulfilling
  <2> QED BY <1>9, <2>2, <2>3 DEF IOFault
<1> QED
  BY <1>1, <1>2, <1>3, <1>4, <1>5, <1>6, <1>7, <1>8, <1>9 DEF HandlerStep, OwnStep

(* A replay only moves data between the places that hold it.               *)
LEMMA ReplayHolds ==
  ASSUME Inv, HolderInv, NEW p \in Replays,
         ReplayStart(p) \/ ReplayStep(p) \/ ReplayIOFault(p)
  PROVE  HolderInv'
<1> USE DEF chainVars, handlerVars, relayVars, storeVars, channelVars,
            operatorVars, envVars
<1>a. ASSUME UNCHANGED <<landed, pc, answer>>,
             \/ recovery' \in {recovery, NoEntry}
             \/ rentry[p] # NoEntry /\ recovery'.from = rentry[p].from,
             \A q \in Replays : rentry'[q] \in {rentry[q], recovery},
             \A o \in Options, s \in Redeems :
               target'[o] = s => \/ target[o] = s
                                 \/ rentry[p] # NoEntry /\ rentry[p].from = s,
             \A o \in Options, s \in Redeems :
               <<o, s>> \in delivered' => <<o, s>> \in delivered \/ target[o] = s
      PROVE  HolderInv'
  BY <1>a DEF HolderInv, DataHolders
<1>b. rpc[p] \in ReplayInFlight => rentry[p] # NoEntry
  BY RequestsAssumption DEF Inv, RouteInv
<1>1. CASE ReplayStart(p)
  <2>1. \A q \in Replays : rentry'[q] \in {rentry[q], recovery}
    BY <1>1 DEF ReplayStart, Inv, TypeOK
  <2>2. /\ UNCHANGED <<landed, pc, answer>> /\ recovery' = recovery
        /\ target' = target /\ delivered' = delivered
    BY <1>1 DEF ReplayStart
  <2> QED BY <1>a, <2>1, <2>2
<1>2. CASE ReplayOnCommit(p)
  <2>1. rentry[p] # NoEntry
    BY <1>2, <1>b DEF ReplayOnCommit, ReplayInFlight
  <2>2. \A o \in Options, s \in Redeems :
          target'[o] = s => target[o] = s \/ rentry[p].from = s
    BY <1>2 DEF ReplayOnCommit, Inv, TypeOK
  <2>3. /\ UNCHANGED <<landed, pc, answer>> /\ recovery' = recovery
        /\ rentry' = rentry /\ delivered' = delivered
    BY <1>2 DEF ReplayOnCommit
  <2> QED BY <1>a, <2>1, <2>2, <2>3
<1>3. CASE ReplayOnFulfill(p)
  <2>1. \A o \in Options, s \in Redeems :
          <<o, s>> \in delivered' => <<o, s>> \in delivered \/ target[o] = s
    BY <1>3 DEF ReplayOnFulfill, Dispatch, DispatchFails
  <2>2. /\ UNCHANGED <<landed, pc, answer>> /\ recovery' = recovery
        /\ rentry' = rentry /\ target' = target
    BY <1>3 DEF ReplayOnFulfill
  <2> QED BY <1>a, <2>1, <2>2
<1>4. CASE ReplayClear(p) \/ ReplayFail(p) \/ ReplayIOFault(p)
  <2>1. /\ UNCHANGED <<landed, pc, answer>> /\ rentry' = rentry
        /\ target' = target /\ delivered' = delivered
    BY <1>4 DEF ReplayClear, ReplayFail, ReplayIOFault
  <2>2. \/ recovery' \in {recovery, NoEntry}
        \/ rentry[p] # NoEntry /\ recovery'.from = rentry[p].from
    <3>1. CASE ReplayFail(p)
      <4>1. rentry[p] \in RecoveryEntry /\ rentry[p] # NoEntry
        BY <3>1, <1>b DEF ReplayFail, ReplayInFlight, Inv, RouteInv
      <4> QED BY <3>1, <4>1 DEF ReplayFail, RecoveryEntry
    <3>2. CASE ReplayClear(p) \/ ReplayIOFault(p)
      BY <3>2 DEF ReplayClear, ReplayIOFault
    <3> QED BY <1>4, <3>1, <3>2
  <2> QED BY <1>a, <2>1, <2>2
<1> QED
  BY <1>1, <1>2, <1>3, <1>4 DEF ReplayStep

LEMMA DataStep ==
  ASSUME Inv, DataInv, [Next]_vars
  PROVE  DataInv'
<1> USE DEF chainVars, handlerVars, relayVars, storeVars, channelVars,
            operatorVars, envVars
<1>1. LandingInv' /\ landed \subseteq landed'
  BY LandingStep DEF DataInv
<1>a. ASSUME \A s \in Requests : pc'[s] \in Accepted => pc'[s] = pc[s],
             \A s \in Requests : answer'[s].status = "ok" => answer[s].status = "ok",
             recovery' \in {recovery, NoEntry},
             \A o \in Options : target'[o] \in {target[o], NoOne},
             UNCHANGED <<delivered, rentry>>
      PROVE  HolderInv'
  BY <1>1, <1>a, RequestsAssumption DEF DataInv, HolderInv, DataHolders, Requests
<1>2. ASSUME NEW r \in Requests, NEW input, Arrive(r, input) PROVE HolderInv'
  <2>1. \A s \in Requests : pc'[s] \in Accepted => pc'[s] = pc[s]
    BY <1>2 DEF Arrive, Goto, Accepted, Inv, TypeOK
  <2>2. /\ answer' = answer /\ recovery' = recovery /\ target' = target
        /\ UNCHANGED <<delivered, rentry>>
    BY <1>2 DEF Arrive
  <2> QED BY <1>a, <2>1, <2>2
<1>3. ASSUME NEW r \in Requests, HandlerStep(r) \/ IOFault(r) PROVE HolderInv'
  BY <1>3, HandlerHolds DEF DataInv
<1>4. ASSUME NEW p \in Replays,
             ReplayStart(p) \/ ReplayStep(p) \/ ReplayIOFault(p)
      PROVE  HolderInv'
  BY <1>4, ReplayHolds DEF DataInv
<1>5. CASE \/ \E r \in Requests : Land(r)
           \/ \E a \in POST_COMMIT_ACTION_IDS : Elsewhere(a)
           \/ ReaderCatchesUp
           \/ UNCHANGED vars
  BY <1>1, <1>5 DEF Land, Elsewhere, ReaderCatchesUp, vars, DataInv, HolderInv, DataHolders
<1>6. ASSUME Crash PROVE HolderInv'
  <2>1. "done" \notin Accepted
    BY DEF Accepted
  <2>2. \A s \in Requests : pc'[s] \in Accepted => pc'[s] = pc[s]
    BY <1>6, <2>1 DEF Crash
  <2>3. \A s \in Requests : answer'[s].status = "ok" => answer[s].status = "ok"
    <3> SUFFICES ASSUME NEW s \in Requests, answer'[s].status = "ok"
                 PROVE  answer[s].status = "ok"
      OBVIOUS
    <3>1. answer[s] \in Answers
      BY DEF Inv, TypeOK
    <3>2. answer'[s] = IF pc[s] \in InFlight
                         THEN [answer[s] EXCEPT !.status = "lost"] ELSE answer[s]
      BY <1>6 DEF Crash
    <3> QED BY <3>1, <3>2 DEF Answers
  <2>4. /\ recovery' \in {recovery, NoEntry}
        /\ \A o \in Options : target'[o] \in {target[o], NoOne}
        /\ delivered' = delivered /\ rentry' = rentry
    BY <1>6 DEF Crash
  <2> QED BY <1>a, <2>2, <2>3, <2>4
<1> QED
  BY <1>1, <1>2, <1>3, <1>4, <1>5, <1>6 DEF Next, DataInv, Requests

LEMMA InitData == ASSUME Init PROVE DataInv
<1>1. LandingInv
  BY DEF Init, LandingInv
<1>2. \A o \in Options, r \in Redeems : target[o] # r /\ <<o, r>> \notin delivered
  BY RequestsAssumption DEF Init, Requests
<1>3. \A r \in Requests : pc[r] \notin Accepted /\ answer[r].status # "ok"
  BY DEF Init, Accepted
<1>4. DataHolders = {}
  BY <1>2, <1>3 DEF Init, DataHolders, Requests
<1> QED BY <1>1, <1>4 DEF DataInv, HolderInv

(* The delivery data the server keeps, sends or confirms is that of the    *)
(* one wallet whose own boson-redeem the contract executed.                *)
THEOREM OneRedeemer == Spec => []OneRedeemersData
<1>1. Init => Inv /\ DataInv
  BY InitTypes, InitData
<1>2. Inv /\ DataInv /\ [Next]_vars => Inv' /\ DataInv'
  BY StepTypes, DataStep
<1>3. DataInv => OneRedeemersData
  BY DEF DataInv, LandingInv, HolderInv, DataHolders, OneRedeemersData
<1> QED BY <1>1, <1>2, <1>3, PTL DEF Spec

-----------------------------------------------------------------------------
(* Delivery entries: a handler that got past onCommit, and a replay that   *)
(* read a delivery entry, know their data to be in the channel; nobody     *)
(* else's data can replace it, since it is all of one request.             *)
Stored == {"markDelivery", "onFulfill", "clearDelivered", "fulfillFailed"}

ChannelInv ==
  /\ DeliveryEntryPersisted
  /\ \A r \in Redeems : pc[r] \in Stored => target[req[r].option] = r
  /\ \A p \in Replays : rentry[p] # NoEntry /\ rentry[p].phase = "delivery"
                          => target[rentry[p].option] = rentry[p].from

LEMMA ChannelStep ==
  ASSUME "volatileChannels" \notin Environment, Inv, DataInv, ChannelInv,
         [Next]_vars
  PROVE  ChannelInv'
<1> USE DEF chainVars, handlerVars, relayVars, storeVars, channelVars,
            operatorVars, envVars
<1>0. OneRedeemersData
  BY DEF DataInv, LandingInv, HolderInv, DataHolders, OneRedeemersData
<1>h. ASSUME NEW r \in Redeems, HandlerStep(r) \/ IOFault(r)
      PROVE  \A s \in Requests \ {r} : pc'[s] = pc[s]
  BY <1>h, HandlerFrame DEF Requests
<1>s. \A r \in Redeems : pc[r] \in Stored \cup {"onCommit"} =>
        r \in DataHolders /\ req[r].option \in Options
  BY DEF Stored, DataHolders, Accepted, Inv, RouteInv, Fulfilling, Requests
<1>e. recovery # NoEntry => recovery \in RecoveryEntry
  BY DEF Inv, TypeOK
(* Steps that keep the channels: a new delivery entry is backed.           *)
<1>a. ASSUME target' = target,
             \/ recovery' \in {recovery, NoEntry}
             \/ recovery'.phase # "delivery"
             \/ target[recovery'.option] = recovery'.from,
             \A r \in Redeems : pc'[r] \in Stored =>
               /\ req'[r].option = req[r].option
               /\ pc[r] \in Stored \/ target[req[r].option] = r,
             \A p \in Replays : rentry'[p] \in {rentry[p], recovery}
      PROVE  ChannelInv'
  BY <1>a DEF ChannelInv, DeliveryEntryPersisted
(* Steps that store a holder's data in a channel.                          *)
<1>b. ASSUME NEW h \in DataHolders, NEW o \in Options,
             target' = [target EXCEPT ![o] = h],
             recovery' = recovery, rentry' = rentry, req' = req,
             \A r \in Redeems : pc'[r] \in Stored => \/ pc[r] \in Stored
                                                     \/ r = h /\ req[r].option = o
      PROVE  ChannelInv'
  <2>1. \A r \in DataHolders : r = h
    BY <1>0 DEF OneRedeemersData
  <2>2. recovery # NoEntry => recovery.from = h /\ recovery.option \in Options
    BY <2>1, <1>e DEF DataHolders, RecoveryEntry
  <2>3. \A p \in Replays : rentry[p] # NoEntry =>
          rentry[p].from = h /\ rentry[p].option \in Options
    <3> SUFFICES ASSUME NEW p \in Replays, rentry[p] # NoEntry
                 PROVE  rentry[p].from = h /\ rentry[p].option \in Options
      OBVIOUS
    <3>1. rentry[p] \in RecoveryEntry
      BY DEF Inv, TypeOK
    <3> QED BY <2>1, <3>1 DEF DataHolders, RecoveryEntry
  <2>4. \A q \in Options : target'[q] = IF q = o THEN h ELSE target[q]
    BY <1>b DEF Inv, TypeOK
  <2>5. DeliveryEntryPersisted'
    BY <1>b, <2>2, <2>4 DEF ChannelInv, DeliveryEntryPersisted
  <2>6. \A p \in Replays : rentry'[p] # NoEntry /\ rentry'[p].phase = "delivery"
                          => target'[rentry'[p].option] = rentry'[p].from
    BY <1>b, <2>3, <2>4 DEF ChannelInv
  <2>7. ASSUME NEW r \in Redeems, pc'[r] \in Stored
        PROVE  target'[req'[r].option] = r
    <3>1. CASE pc[r] \in Stored
      <4>1. r = h /\ req[r].option \in Options
        BY <3>1, <2>1, <1>s
      <4> QED BY <1>b, <2>4, <3>1, <4>1 DEF ChannelInv
    <3>2. CASE r = h /\ req[r].option = o
      BY <1>b, <2>4, <3>2
    <3> QED BY <1>b, <2>7, <3>1, <3>2
  <2> QED BY <2>5, <2>6, <2>7 DEF ChannelInv
<1>r. \A r \in Requests : pc[r] \in Fulfilling => r \in Redeems /\ req[r].option \in Options
  BY DEF Inv, RouteInv
<1>c. ASSUME NEW r \in Requests, target' = target, rentry' = rentry, req' = req,
             \A s \in Requests \ {r} : pc'[s] = pc[s],
             \/ pc'[r] \notin Stored
             \/ pc[r] \in Stored,
             \/ recovery' \in {recovery, NoEntry}
             \/ recovery'.phase # "delivery"
             \/ target[recovery'.option] = recovery'.from
      PROVE  ChannelInv'
  BY <1>a, <1>c DEF Requests
<1>1. ASSUME NEW r \in Requests, NEW input, Arrive(r, input) PROVE ChannelInv'
  <2>1. \A s \in Redeems : pc'[s] \in Stored =>
               /\ req'[s].option = req[s].option
               /\ pc[s] \in Stored \/ target[req[s].option] = s
    BY <1>1 DEF Arrive, Goto, Stored, Inv, TypeOK, Requests
  <2>2. target' = target /\ recovery' \in {recovery, NoEntry} /\ rentry' = rentry
    BY <1>1 DEF Arrive
  <2> QED BY <1>a, <2>1, <2>2
<1>2. ASSUME NEW r \in Requests, HandlerStep(r) \/ IOFault(r) PROVE ChannelInv'
  <2>1. \A s \in Requests \ {r} : pc'[s] = pc[s]
    BY <1>2, HandlerFrame
  <2>a. req' = req /\ rentry' = rentry
    BY <1>2 DEF HandlerStep, OwnStep, Enter, Gate, PreRead, CallFacilitator,
     ReplyAccepted, ReplyFailed, Verify, RecordPending, OnCommit, OnCommitFailed,
     MarkDelivery, OnFulfill, FulfillFailed, ClearEntry, DropOption, IOFault,
     SetRecovery, Answer
  <2>b. \A label : Goto(r, label) => pc'[r] = label
    BY GotoFrame
  <2>c. \A status : Answer(r, status) => pc'[r] = "done" /\ "done" \notin Stored
    BY AnswerFrame DEF Stored
  <2>2. CASE Enter(r) \/ Gate(r) \/ PreRead(r) \/ CallFacilitator(r)
             \/ ReplyAccepted(r) \/ ReplyFailed(r) \/ Verify(r)
    <3>1. target' = target /\ recovery' = recovery
      BY <2>2 DEF Enter, Gate, PreRead, CallFacilitator, ReplyAccepted,
         ReplyFailed, Verify
    <3>2. CASE \E status : Answer(r, status)
      BY <1>c, <2>1, <2>a, <2>c, <3>1, <3>2
    <3>3. CASE \E label \in {"preRead", "gate", "call", "await", "verify",
                             "dropOption", "record"} : Goto(r, label)
      <4>1. pc'[r] \notin Stored
        BY <3>3, <2>b DEF Stored
      <4> QED BY <1>c, <2>1, <2>a, <3>1, <4>1
    <3>4. CASE pc' = pc
      BY <1>c, <2>1, <2>a, <3>1, <3>4
    <3> QED
      BY <2>2, <3>2, <3>3, <3>4 DEF Enter, Gate, PreRead, CallFacilitator,
         ReplyAccepted, ReplyFailed, Verify
  <2>3. CASE RecordPending(r) \/ OnCommitFailed(r)
    <3>1. target' = target
      BY <2>3 DEF RecordPending, OnCommitFailed, SetRecovery
    <3>2. recovery'.phase # "delivery"
      BY <2>3 DEF RecordPending, OnCommitFailed, SetRecovery, Entry
    <3>3. pc'[r] \notin Stored
      BY <2>3, <2>b DEF RecordPending, OnCommitFailed, Stored
    <3> QED BY <1>c, <2>1, <2>a, <3>1, <3>2, <3>3
  <2>4. CASE MarkDelivery(r) \/ FulfillFailed(r)
    <3>1. target' = target /\ pc[r] \in Stored
      BY <2>4 DEF MarkDelivery, FulfillFailed, SetRecovery, Stored
    <3>2. r \in Redeems
      BY <2>4, <1>r DEF MarkDelivery, FulfillFailed, Fulfilling
    <3>3. target[recovery'.option] = recovery'.from
      BY <2>4, <3>1, <3>2 DEF MarkDelivery, FulfillFailed, SetRecovery, Entry, ChannelInv
    <3> QED BY <1>c, <2>1, <2>a, <3>1, <3>3
  <2>5. CASE OnCommit(r)
    <3>1. r \in Redeems /\ req[r].option \in Options /\ r \in DataHolders
      BY <2>5, <1>r, <1>s DEF OnCommit, Fulfilling
    <3>2. recovery' = recovery
      BY <2>5 DEF OnCommit
    <3>3. CASE Persist(r)
      BY <1>b, <2>1, <2>a, <3>1, <3>2, <3>3 DEF Persist, Requests
    <3>4. CASE target' = target /\ Goto(r, "onCommitFailed")
      <4>1. pc'[r] \notin Stored /\ recovery' \in {recovery, NoEntry}
        BY <2>b, <3>2, <3>4 DEF Stored
      <4> QED BY <1>c, <2>1, <2>a, <3>4, <4>1
    <3> QED BY <2>5, <3>3, <3>4 DEF OnCommit
  <2>6. CASE OnFulfill(r)
    BY <1>c, <2>1, <2>a, <2>6 DEF OnFulfill, Stored
  <2>7. CASE ClearEntry(r) \/ DropOption(r)
    <3>1. target' = target /\ recovery' \in {recovery, NoEntry}
      BY <2>7 DEF ClearEntry, DropOption
    <3>2. pc'[r] \notin Stored
      BY <2>7, <2>b, <2>c DEF ClearEntry, DropOption, Stored
    <3> QED BY <1>c, <2>1, <2>a, <3>1, <3>2
  <2>8. CASE IOFault(r)
    <3>1. target' = target /\ recovery' \in {recovery, NoEntry}
      BY <2>8 DEF IOFault
    <3>2. pc'[r] \notin Stored \/ pc[r] \in Stored
      BY <2>8, <2>c DEF IOFault, Stored
    <3> QED BY <1>c, <2>1, <2>a, <3>1, <3>2
  <2> QED
    BY <1>2, <2>2, <2>3, <2>4, <2>5, <2>6, <2>7, <2>8 DEF HandlerStep, OwnStep
<1>3. ASSUME NEW p \in Replays,
             ReplayStart(p) \/ ReplayStep(p) \/ ReplayIOFault(p)
      PROVE  ChannelInv'
  <2>1. pc' = pc /\ req' = req
    BY <1>3 DEF ReplayStart, ReplayStep, ReplayOnCommit, ReplayOnFulfill,
       ReplayClear, ReplayFail, ReplayIOFault
  <2>2. \A q \in Replays : rentry'[q] \in {rentry[q], recovery}
    BY <1>3 DEF ReplayStart, ReplayStep, ReplayOnCommit, ReplayOnFulfill,
       ReplayClear, ReplayFail, ReplayIOFault, Inv, TypeOK
  <2>3. CASE ReplayStart(p) \/ ReplayOnFulfill(p) \/ ReplayClear(p) \/ ReplayIOFault(p)
    <3>1. target' = target /\ recovery' \in {recovery, NoEntry}
      BY <2>3 DEF ReplayStart, ReplayOnFulfill, ReplayClear, ReplayIOFault
    <3> QED BY <1>a, <2>1, <2>2, <3>1
  <2>4. CASE ReplayFail(p)
    <3>1. rentry[p] \in RecoveryEntry /\ rentry[p] # NoEntry
      BY <2>4, RequestsAssumption DEF ReplayFail, ReplayInFlight, Inv, RouteInv
    <3>2. target' = target
      BY <2>4 DEF ReplayFail
    <3>3. recovery'.phase # "delivery" \/ target[recovery'.option] = recovery'.from
      BY <2>4, <3>1 DEF ReplayFail, RecoveryEntry, ChannelInv
    <3> QED BY <1>a, <2>1, <2>2, <3>2, <3>3
  <2>5. CASE ReplayOnCommit(p)
    <3>1. rentry[p] \in RecoveryEntry /\ rentry[p] # NoEntry
      BY <2>5, RequestsAssumption DEF ReplayOnCommit, ReplayInFlight, Inv, RouteInv
    <3>2. rentry[p].from \in DataHolders /\ rentry[p].option \in Options
      BY <3>1 DEF DataHolders, RecoveryEntry
    <3>3. recovery' = recovery /\ rentry' = rentry
      BY <2>5 DEF ReplayOnCommit
    <3>4. CASE target' = [target EXCEPT ![rentry[p].option] = rentry[p].from]
      BY <1>b, <2>1, <3>2, <3>3, <3>4
    <3>5. CASE target' = target
      <4>1. recovery' \in {recovery, NoEntry}
        BY <3>3
      <4> QED BY <1>a, <2>1, <2>2, <3>5, <4>1
    <3> QED BY <2>5, <3>4, <3>5 DEF ReplayOnCommit
  <2> QED BY <1>3, <2>3, <2>4, <2>5 DEF ReplayStep
<1>4. CASE \/ \E r \in Requests : Land(r)
           \/ \E a \in POST_COMMIT_ACTION_IDS : Elsewhere(a)
           \/ ReaderCatchesUp
           \/ UNCHANGED vars
  <2>1. UNCHANGED <<pc, req, target, recovery, rentry>>
    BY <1>4 DEF Land, Elsewhere, ReaderCatchesUp, vars
  <2>2. recovery' \in {recovery, NoEntry}
    BY <2>1
  <2> QED BY <1>a, <2>1, <2>2
<1>5. CASE Crash
  <2>1. target' = target /\ recovery' \in {recovery, NoEntry} /\ rentry' = rentry
        /\ req' = req
    BY <1>5 DEF Crash
  <2>2. \A r \in Redeems : pc'[r] \notin Stored
    BY <1>5 DEF Crash, Stored, InFlight, AwaitingIO, Requests
  <2> QED BY <1>a, <2>1, <2>2
<1> QED
  BY <1>1, <1>2, <1>3, <1>4, <1>5 DEF Next, Requests

(* A "delivery" recovery entry really is backed by stored data, whatever   *)
(* handlers, replays and restarts do, if the channels' store is durable.   *)
THEOREM DeliveryEntries ==
  ASSUME "volatileChannels" \notin Environment
  PROVE  Spec => []DeliveryEntryPersisted
<1>1. Init => Inv /\ DataInv /\ ChannelInv
  <2> SUFFICES ASSUME Init PROVE ChannelInv
    BY InitTypes, InitData
  <2> QED
    BY DEF Init, ChannelInv, DeliveryEntryPersisted, Stored, Requests
<1>2. Inv /\ DataInv /\ ChannelInv /\ [Next]_vars => Inv' /\ DataInv' /\ ChannelInv'
  BY StepTypes, DataStep, ChannelStep
<1>3. ChannelInv => DeliveryEntryPersisted
  BY DEF ChannelInv
<1> QED BY <1>1, <1>2, <1>3, PTL DEF Spec

-----------------------------------------------------------------------------
(* The option gate: dropping the stored options only follows a landed      *)
(* redeem, after which no other redeem of the exchange can land.           *)
SomeoneElseLanded(r) == \E s \in landed \cap Redeems : s # r

CalledStates == {"await", "done"} \cup Accepted

PastGate == {"preRead", "call"} \cup CalledStates

GateInv ==
  /\ optionStore = NoEntry \/ optionStore = Advertised
  /\ optionStore = NoEntry => landed \cap Redeems # {}
  /\ \A r \in called : pc[r] \in CalledStates
  /\ \A r \in Redeems :
       (pc[r] \in PastGate \ {"done"} \/ r \in called) /\ req[r].option # NoOption
         => req[r].option \in Advertised \/ SomeoneElseLanded(r)
  /\ OnlyAdvertisedChannels
  /\ recovery # NoEntry => recovery.option \in Advertised
  /\ \A p \in Replays : rentry[p] # NoEntry => rentry[p].option \in Advertised

LEMMA GateStep ==
  ASSUME "unseeded" \notin Environment, "volatileStores" \notin Environment,
         Inv, DataInv, GateInv, [Next]_vars
  PROVE  GateInv'
<1> USE DEF chainVars, handlerVars, relayVars, storeVars, channelVars,
            operatorVars, envVars
<1>l. landed \subseteq landed' /\ \A r \in Requests : SomeoneElseLanded(r) => SomeoneElseLanded(r)'
  BY LandingStep DEF DataInv, SomeoneElseLanded
<1>n. NoOne \notin Redeems /\ NoOption \notin Options /\ \A r \in Redeems : r \in Requests
  BY RequestsAssumption DEF Requests
(* A handler whose redeem landed carries an advertised option.             *)
<1>o. ASSUME NEW r \in Requests, pc[r] \in Fulfilling
      PROVE  /\ r \in landed \cap Redeems
             /\ req[r].option \in Advertised
             /\ req[r].option \in Options
  <2>1. r \in Redeems /\ req[r].option \in Options
    BY <1>o DEF Inv, RouteInv
  <2>2. r \in landed /\ ~SomeoneElseLanded(r)
    BY <1>o, <2>1 DEF DataInv, LandingInv, HolderInv, DataHolders, Accepted,
       Fulfilling, SomeoneElseLanded
  <2>3. r \in called
    BY <2>2 DEF Inv, TypeOK
  <2> QED BY <2>1, <2>2, <2>3, <1>n DEF GateInv
(* The stores and the channels on one side, the handlers on the other.     *)
<1>a. ASSUME optionStore' \in {optionStore, NoEntry},
             optionStore' = NoEntry /\ optionStore # NoEntry
               => landed \cap Redeems # {},
             recovery' # NoEntry => recovery' = recovery \/ recovery'.option \in Advertised,
             \A o \in Options :
               target'[o] \in {target[o], NoOne} \/ o \in Advertised,
             \A p \in Replays : rentry'[p] \in {rentry[p], recovery}
      PROVE  /\ optionStore' = NoEntry \/ optionStore' = Advertised
             /\ optionStore' = NoEntry => landed' \cap Redeems # {}
             /\ OnlyAdvertisedChannels'
             /\ recovery' # NoEntry => recovery'.option \in Advertised
             /\ \A p \in Replays : rentry'[p] # NoEntry => rentry'[p].option \in Advertised
  BY <1>a, <1>l DEF GateInv, OnlyAdvertisedChannels
<1>b. ASSUME NEW r \in Requests,
             req' = req, called' \in {called, called \cup {r}},
             \A s \in Requests \ {r} : pc'[s] = pc[s],
             r \in called' => r \in called \/ pc[r] = "call",
             \/ pc'[r] \notin PastGate \ {"done"}
             \/ pc[r] \in PastGate \ {"done"}
             \/ req[r].option \in Advertised \cup {NoOption}
             \/ SomeoneElseLanded(r),
             r \in called' => pc'[r] \in CalledStates
      PROVE  /\ \A s \in called' : pc'[s] \in CalledStates
             /\ \A s \in Redeems :
                  (pc'[s] \in PastGate \ {"done"} \/ s \in called') /\ req'[s].option # NoOption
                    => req'[s].option \in Advertised \/ SomeoneElseLanded(s)'
  <2>1. \A s \in called' : s \in Requests /\ (s # r => s \in called)
    BY <1>b DEF Inv, TypeOK
  <2>2. \A s \in called' : pc'[s] \in CalledStates
    BY <1>b, <2>1 DEF GateInv
  <2>3. ASSUME NEW s \in Redeems, pc'[s] \in PastGate \ {"done"} \/ s \in called',
               req[s].option # NoOption
        PROVE  req[s].option \in Advertised \/ SomeoneElseLanded(s)
    <3>1. CASE s # r
      BY <1>b, <1>n, <2>1, <2>3, <3>1 DEF GateInv
    <3>2. CASE s = r
      <4>1. pc[r] = "call" => pc[r] \in PastGate \ {"done"}
        BY DEF PastGate
      <4> QED BY <1>b, <2>3, <3>2, <4>1 DEF GateInv
    <3> QED BY <3>1, <3>2
  <2> QED BY <1>b, <1>l, <1>n, <2>2, <2>3
<1>c. ASSUME UNCHANGED <<req, called, pc, optionStore, recovery, target, rentry>>
      PROVE  GateInv'
  BY <1>c, <1>l, <1>n DEF GateInv, OnlyAdvertisedChannels
<1>1. ASSUME NEW r \in Requests, NEW input, Arrive(r, input) PROVE GateInv'
  <2>1. pc[r] = "idle" /\ pc'[r] = "queued" /\ \A s \in Requests \ {r} : pc'[s] = pc[s]
    BY <1>1, GotoFrame DEF Arrive
  <2>2. UNCHANGED <<called, optionStore, recovery, target, rentry>>
        /\ \A s \in Requests \ {r} : req'[s] = req[s]
    BY <1>1 DEF Arrive, Inv, TypeOK
  <2>3. r \notin called
    BY <2>1 DEF GateInv, CalledStates, Accepted
  <2>4. "queued" \notin PastGate
    BY DEF PastGate, CalledStates, Accepted
  <2>5. \A s \in called : s \in Requests \ {r}
    BY <2>3 DEF Inv, TypeOK
  <2>6. \A s \in Redeems :
          (pc'[s] \in PastGate \ {"done"} \/ s \in called') /\ req'[s].option # NoOption
            => req'[s].option \in Advertised \/ SomeoneElseLanded(s)'
    BY <1>l, <1>n, <2>1, <2>2, <2>3, <2>4 DEF GateInv
  <2>7. \A s \in called' : pc'[s] \in CalledStates
    BY <2>1, <2>2, <2>5 DEF GateInv
  <2> QED BY <1>l, <2>2, <2>6, <2>7 DEF GateInv, OnlyAdvertisedChannels
<1>2. ASSUME NEW r \in Requests, HandlerStep(r) \/ IOFault(r) PROVE GateInv'
  <2>1. \A s \in Requests \ {r} : pc'[s] = pc[s]
    BY <1>2, HandlerFrame
  <2>a. req' = req /\ rentry' = rentry
    BY <1>2 DEF HandlerStep, OwnStep, Enter, Gate, PreRead, CallFacilitator,
     ReplyAccepted, ReplyFailed, Verify, RecordPending, OnCommit, OnCommitFailed,
     MarkDelivery, OnFulfill, FulfillFailed, ClearEntry, DropOption, IOFault,
     SetRecovery, Answer
  <2>b. \A label : Goto(r, label) => pc'[r] = label
    BY GotoFrame
  <2>c. \A status : Answer(r, status) => pc'[r] = "done"
    BY AnswerFrame
  <2>d. \A p \in Replays : rentry'[p] \in {rentry[p], recovery}
    BY <2>a
  <2>e. r \in called => pc[r] \in CalledStates
    BY DEF GateInv
  (* Steps that touch neither the stores nor the channels.                 *)
  <2>f. ASSUME UNCHANGED <<optionStore, recovery, target>>
        PROVE  /\ optionStore' = NoEntry \/ optionStore' = Advertised
               /\ optionStore' = NoEntry => landed' \cap Redeems # {}
               /\ OnlyAdvertisedChannels'
               /\ recovery' # NoEntry => recovery'.option \in Advertised
               /\ \A p \in Replays : rentry'[p] # NoEntry => rentry'[p].option \in Advertised
    BY <1>l, <2>a, <2>f DEF GateInv, OnlyAdvertisedChannels
  <2>2. CASE Enter(r)
    <3>1. pc[r] = "queued" /\ UNCHANGED <<called, optionStore, recovery, target>>
      BY <2>2 DEF Enter
    <3>2. r \notin called
      BY <2>e, <3>1 DEF CalledStates, Accepted
    <3>3. pc'[r] \in {"done", "gate"} \/ req[r].option = NoOption
      BY <2>2, <2>b, <2>c DEF Enter
    <3>4. "gate" \notin PastGate
      BY DEF PastGate, CalledStates, Accepted
    <3> QED BY <1>b, <2>1, <2>a, <2>f, <3>1, <3>2, <3>3, <3>4 DEF GateInv
  <2>3. CASE Gate(r)
    <3>1. pc[r] = "gate" /\ UNCHANGED <<called, landed, optionStore, recovery, target>>
      BY <2>3 DEF Gate
    <3>2. r \notin called /\ r \notin landed
      BY <2>e, <3>1 DEF CalledStates, Accepted, Inv, TypeOK
    <3>3. pc'[r] = "done" \/ ~OptionRefused(r)
      BY <2>3, <2>c DEF Gate
    <3>4. ~OptionRefused(r) => req[r].option \in Advertised \/ SomeoneElseLanded(r)
      BY <3>2 DEF OptionRefused, GateInv, SomeoneElseLanded
    <3> QED BY <1>b, <2>1, <2>a, <2>f, <3>1, <3>2, <3>3, <3>4 DEF GateInv
  <2>4. CASE PreRead(r) \/ ReplyAccepted(r) \/ ReplyFailed(r) \/ Verify(r)
    <3>1. UNCHANGED <<called, optionStore, recovery, target>>
      BY <2>4 DEF PreRead, ReplyAccepted, ReplyFailed, Verify
    <3>2. pc[r] \in PastGate \ {"done"}
      BY <2>4 DEF PreRead, ReplyAccepted, ReplyFailed, Verify, PastGate,
         CalledStates, Accepted
    <3>3. r \in called => pc'[r] \in CalledStates
      <4>1. CASE PreRead(r)
        BY <4>1, <2>e DEF PreRead, CalledStates, Accepted
      <4>2. CASE ReplyAccepted(r) \/ ReplyFailed(r)
        BY <4>2, <2>b, <2>c DEF ReplyAccepted, ReplyFailed, CalledStates, Accepted
      <4>3. CASE Verify(r)
        <5>1. pc'[r] \in {"verify", "done", "dropOption", "record"}
          BY <4>3, <2>b, <2>c DEF Verify
        <5> QED BY <5>1 DEF CalledStates, Accepted
      <4> QED BY <2>4, <4>1, <4>2, <4>3
    <3> QED BY <1>b, <2>1, <2>a, <2>f, <3>1, <3>2, <3>3 DEF GateInv
  <2>5. CASE CallFacilitator(r)
    <3>1. pc[r] = "call" /\ pc'[r] = "await" /\ called' = called \cup {r}
          /\ UNCHANGED <<optionStore, recovery, target>>
      BY <2>5, <2>b DEF CallFacilitator
    <3>2. pc[r] \in PastGate \ {"done"} /\ pc'[r] \in CalledStates
      BY <3>1 DEF PastGate, CalledStates
    <3> QED BY <1>b, <2>1, <2>a, <2>f, <3>1, <3>2 DEF GateInv
  <2>6. CASE \/ RecordPending(r) \/ OnCommitFailed(r) \/ MarkDelivery(r)
             \/ FulfillFailed(r) \/ OnCommit(r) \/ OnFulfill(r) \/ ClearEntry(r)
             \/ IOFault(r) /\ pc[r] = "clearDelivered"
    <3>1. called' = called /\ pc[r] \in Fulfilling
      BY <2>6 DEF RecordPending, OnCommitFailed, MarkDelivery, FulfillFailed,
         OnCommit, OnFulfill, ClearEntry, IOFault, SetRecovery, Fulfilling
    <3>2. optionStore' = optionStore
      BY <2>6 DEF RecordPending, OnCommitFailed, MarkDelivery, FulfillFailed,
         OnCommit, OnFulfill, ClearEntry, IOFault, SetRecovery
    <3>3. req[r].option \in Advertised /\ req[r].option \in Options
      BY <1>o, <3>1
    <3>4. recovery' # NoEntry => recovery' = recovery \/ recovery'.option \in Advertised
      BY <2>6, <3>3 DEF RecordPending, OnCommitFailed, MarkDelivery, FulfillFailed,
         OnCommit, OnFulfill, ClearEntry, IOFault, SetRecovery, Entry
    <3>5. \A o \in Options : target'[o] \in {target[o], NoOne} \/ o \in Advertised
      <4>1. CASE OnCommit(r)
        BY <4>1, <3>3 DEF OnCommit, Persist, Inv, TypeOK
      <4>2. CASE target' = target
        BY <4>2
      <4> QED
        BY <2>6, <4>1, <4>2 DEF RecordPending, OnCommitFailed, MarkDelivery,
           FulfillFailed, OnFulfill, ClearEntry, IOFault, SetRecovery
    <3>6. pc'[r] \in CalledStates
      <4>1. PICK label \in {"onCommit", "markDelivery", "clear", "onCommitFailed",
                            "dropOption", "onFulfill", "clearDelivered",
                            "fulfillFailed"} : Goto(r, label) \/ pc'[r] = "done"
        BY <2>6, <2>c DEF RecordPending, OnCommitFailed, MarkDelivery, FulfillFailed,
           OnCommit, OnFulfill, ClearEntry, IOFault, SetRecovery
      <4> QED BY <4>1, <2>b DEF CalledStates, Accepted
    <3>7. /\ optionStore' = NoEntry \/ optionStore' = Advertised
          /\ optionStore' = NoEntry => landed' \cap Redeems # {}
          /\ OnlyAdvertisedChannels'
          /\ recovery' # NoEntry => recovery'.option \in Advertised
          /\ \A p \in Replays : rentry'[p] # NoEntry => rentry'[p].option \in Advertised
      BY <1>a, <2>d, <3>2, <3>4, <3>5
    <3>8. r \in called => r \in called
      OBVIOUS
    <3> QED BY <1>b, <2>1, <2>a, <3>1, <3>3, <3>6, <3>7 DEF GateInv
  <2>7. CASE DropOption(r)
    <3>1. called' = called /\ pc[r] = "dropOption" /\ pc'[r] = "done"
          /\ optionStore' = NoEntry /\ recovery' = recovery /\ target' = target
      BY <2>7, <2>c DEF DropOption
    <3>2. r \in landed \cap Redeems
      BY <3>1 DEF Inv, RouteInv, DataInv, HolderInv, DataHolders, Accepted
    <3>3. /\ optionStore' = NoEntry \/ optionStore' = Advertised
          /\ optionStore' = NoEntry => landed' \cap Redeems # {}
          /\ OnlyAdvertisedChannels'
          /\ recovery' # NoEntry => recovery'.option \in Advertised
          /\ \A p \in Replays : rentry'[p] # NoEntry => rentry'[p].option \in Advertised
      BY <1>l, <2>a, <3>1, <3>2 DEF GateInv, OnlyAdvertisedChannels
    <3>4. pc'[r] \in CalledStates
      BY <3>1 DEF CalledStates
    <3> QED BY <1>b, <2>1, <2>a, <3>1, <3>3, <3>4 DEF GateInv
  <2>8. CASE IOFault(r) /\ Answer(r, "threw")
    <3>1. called' = called /\ pc'[r] = "done"
          /\ UNCHANGED <<optionStore, recovery, target>>
      BY <2>8, <2>c DEF IOFault
    <3>2. pc'[r] \in CalledStates
      BY <3>1 DEF CalledStates
    <3> QED BY <1>b, <2>1, <2>a, <2>f, <3>1, <3>2 DEF GateInv
  <2>9. CASE IOFault(r)
    BY <2>6, <2>8, <2>9 DEF IOFault
  <2> QED
    BY <1>2, <2>2, <2>3, <2>4, <2>5, <2>6, <2>7, <2>9 DEF HandlerStep, OwnStep
<1>3. ASSUME NEW p \in Replays,
             ReplayStart(p) \/ ReplayStep(p) \/ ReplayIOFault(p)
      PROVE  GateInv'
  <2>1. /\ pc' = pc /\ req' = req /\ called' = called /\ landed' = landed
        /\ optionStore' = optionStore
    BY <1>3 DEF ReplayStart, ReplayStep, ReplayOnCommit, ReplayOnFulfill,
       ReplayClear, ReplayFail, ReplayIOFault
  <2>2. \A q \in Replays : rentry'[q] \in {rentry[q], recovery}
    BY <1>3 DEF ReplayStart, ReplayStep, ReplayOnCommit, ReplayOnFulfill,
       ReplayClear, ReplayFail, ReplayIOFault, Inv, TypeOK
  <2>3. rpc[p] \in ReplayInFlight =>
          /\ rentry[p] \in RecoveryEntry /\ rentry[p] # NoEntry
          /\ rentry[p].option \in Advertised
    BY RequestsAssumption DEF Inv, RouteInv, GateInv
  <2>4. recovery' # NoEntry => recovery' = recovery \/ recovery'.option \in Advertised
    <3>1. CASE ReplayFail(p)
      BY <3>1, <2>3 DEF ReplayFail, ReplayInFlight, RecoveryEntry
    <3> QED
      BY <1>3, <3>1 DEF ReplayStart, ReplayStep, ReplayOnCommit, ReplayOnFulfill,
         ReplayClear, ReplayIOFault
  <2>5. \A o \in Options : target'[o] \in {target[o], NoOne} \/ o \in Advertised
    <3>1. CASE ReplayOnCommit(p)
      BY <3>1, <2>3 DEF ReplayOnCommit, ReplayInFlight, RecoveryEntry, Inv, TypeOK
    <3>2. CASE target' = target
      BY <3>2
    <3> QED
      BY <1>3, <3>1, <3>2 DEF ReplayStart, ReplayStep, ReplayFail, ReplayOnFulfill,
         ReplayClear, ReplayIOFault
  <2>6. /\ optionStore' = NoEntry \/ optionStore' = Advertised
        /\ optionStore' = NoEntry => landed' \cap Redeems # {}
        /\ OnlyAdvertisedChannels'
        /\ recovery' # NoEntry => recovery'.option \in Advertised
        /\ \A q \in Replays : rentry'[q] # NoEntry => rentry'[q].option \in Advertised
    BY <1>a, <2>1, <2>2, <2>4, <2>5
  <2> QED BY <1>l, <1>n, <2>1, <2>6 DEF GateInv
<1>4. CASE \/ \E r \in Requests : Land(r)
           \/ \E a \in POST_COMMIT_ACTION_IDS : Elsewhere(a)
           \/ ReaderCatchesUp
           \/ UNCHANGED vars
  BY <1>4, <1>c DEF Land, Elsewhere, ReaderCatchesUp, vars
<1>5. CASE Crash
  <2>1. /\ req' = req /\ called' = called /\ recovery' = recovery
        /\ optionStore' = optionStore /\ rentry' = rentry
    BY <1>5 DEF Crash
  <2>2. \A s \in Requests : pc'[s] = pc[s] \/ pc'[s] = "done"
    BY <1>5 DEF Crash
  <2>3. \A o \in Options : target'[o] \in {target[o], NoOne}
    BY <1>5 DEF Crash
  <2>4. "done" \in CalledStates
    BY DEF CalledStates
  <2>5. \A s \in called' : pc'[s] \in CalledStates
    BY <2>1, <2>2, <2>4 DEF GateInv, Inv, TypeOK
  <2>6. \A s \in Redeems :
          (pc'[s] \in PastGate \ {"done"} \/ s \in called') /\ req'[s].option # NoOption
            => req'[s].option \in Advertised \/ SomeoneElseLanded(s)'
    BY <1>l, <1>n, <2>1, <2>2 DEF GateInv
  <2> QED
    BY <1>l, <2>1, <2>3, <2>5, <2>6 DEF GateInv, OnlyAdvertisedChannels
<1> QED
  BY <1>1, <1>2, <1>3, <1>4, <1>5 DEF Next, Requests

(* No redeem reaches a channel the offer did not advertise: for any number *)
(* of racing redeems the gate, read before the redeem and dropped after    *)
(* one, cannot be passed by a redeem that still lands.                     *)
THEOREM AdvertisedChannels ==
  ASSUME "unseeded" \notin Environment, "volatileStores" \notin Environment
  PROVE  Spec => []OnlyAdvertisedChannels
<1>1. Init => Inv /\ DataInv /\ GateInv
  <2> SUFFICES ASSUME Init PROVE GateInv
    BY InitTypes, InitData
  <2>1. optionStore = Advertised /\ called = {} /\ recovery = NoEntry
    BY DEF Init
  <2>2. \A r \in Redeems : pc[r] \notin PastGate
    BY DEF Init, PastGate, CalledStates, Accepted, Requests
  <2>3. optionStore # NoEntry
    BY <2>1, OptionsAssumption
  <2> QED
    BY <2>1, <2>2, <2>3 DEF Init, GateInv, OnlyAdvertisedChannels
<1>2. Inv /\ DataInv /\ GateInv /\ [Next]_vars => Inv' /\ DataInv' /\ GateInv'
  BY StepTypes, DataStep, GateStep
<1>3. GateInv => OnlyAdvertisedChannels
  BY DEF GateInv
<1> QED BY <1>1, <1>2, <1>3, PTL DEF Spec

-----------------------------------------------------------------------------
(* The recovery entry of a request in flight, when operators replay only   *)
(* between requests: the place of the handler says what the entry is, and  *)
(* no replay is under way, since a replay of the data in flight would have *)
(* had to start after the request was done.                                *)
ReplaysWait == "anytimeReplay" \notin Environment \/ Replays = {}

AfterRecord == (Fulfilling \ {"record"}) \cup {"dropOption"}

CommitPhase == {"onCommit", "onCommitFailed", "markDelivery", "clear"}

DeliveryPhase == {"onFulfill", "clearDelivered", "fulfillFailed"}

Done(r) == Complete(Entry(r, "commit", FALSE))

LedgerOK(r) ==
  /\ pc[r] \in CommitPhase => recovery = Entry(r, "commit", FALSE)
  /\ pc[r] \in DeliveryPhase => recovery = Entry(r, "delivery", FALSE)
  /\ pc[r] \in Stored \cup {"clear"} => target[req[r].option] = r
  /\ pc[r] = "clear" => req[r].option \notin config.delivering
  /\ pc[r] = "clearDelivered" => <<req[r].option, r>> \in delivered
  /\ pc[r] = "dropOption" /\ req[r].option # NoOption =>
       /\ answer[r].deferred = {} => Done(r)
       /\ answer[r].deferred # {} => recovery # NoEntry /\ recovery.from = r

WordsOK(r) ==
  /\ pc[r] # "done" => answer[r].status = "none"
  /\ pc[r] \notin {"dropOption", "done"} => answer[r].deferred = {}
  /\ pc[r] # "done" /\ answer[r].fulfillment =>
       pc[r] # "idle" /\ <<req[r].option, r>> \in delivered

EntryInv ==
  /\ recovery # NoEntry => pc[recovery.from] \in AfterRecord \cup {"done"}
  /\ \A p \in Replays : rpc[p] \in ReplayInFlight => pc[rentry[p].from] = "done"
  /\ \A r \in Redeems : LedgerOK(r) /\ WordsOK(r)

OrderInv == Inv /\ DataInv /\ EntryInv

LEMMA LedgerPlaces ==
  /\ AfterRecord \subseteq Accepted /\ CommitPhase \subseteq AfterRecord
  /\ DeliveryPhase \subseteq AfterRecord /\ Stored \cup {"clear"} \subseteq AfterRecord
  /\ Accepted \subseteq InFlight /\ InFlight \cap {"idle", "done"} = {}
BY DEF AfterRecord, Accepted, CommitPhase, DeliveryPhase, Stored, Fulfilling, InFlight,
       AwaitingIO

(* A redeem whose action has landed has the exchange's data to itself.     *)
LEMMA Alone ==
  ASSUME OrderInv, NEW r \in Redeems, pc[r] \in Accepted
  PROVE  /\ \A s \in Redeems \ {r} : pc[s] \notin Accepted
         /\ \A p \in Replays : rpc[p] \notin ReplayInFlight
         /\ recovery # NoEntry => recovery.from = r
<1>1. r \in DataHolders
  BY DEF DataHolders
<1>2. \A s \in DataHolders : s = r
  BY <1>1 DEF OrderInv, DataInv, LandingInv, HolderInv, DataHolders
<1>3. ASSUME NEW p \in Replays, rpc[p] \in ReplayInFlight PROVE FALSE
  <2>1. rentry[p] \in RecoveryEntry /\ rentry[p] # NoEntry
    BY <1>3, RequestsAssumption DEF OrderInv, Inv, RouteInv
  <2>2. rentry[p].from \in DataHolders
    BY <2>1 DEF DataHolders, RecoveryEntry
  <2>3. pc[r] = "done"
    BY <1>2, <1>3, <2>2 DEF OrderInv, EntryInv
  <2> QED
    BY <2>3 DEF Accepted
<1>4. recovery # NoEntry => recovery.from = r
  <2> SUFFICES ASSUME recovery # NoEntry PROVE recovery.from = r
    OBVIOUS
  <2>1. recovery.from \in DataHolders
    BY DEF DataHolders, OrderInv, Inv, TypeOK, RecoveryEntry
  <2> QED
    BY <1>2, <2>1
<1> QED
  BY <1>2, <1>3, <1>4 DEF DataHolders

LEMMA NoLedger ==
  ASSUME NEW r \in Redeems, pc[r] \notin Accepted PROVE LedgerOK(r)
BY LedgerPlaces DEF LedgerOK, Accepted

(* What a handler's step leaves alone.                                     *)
LEMMA HandlerLeaves ==
  ASSUME Inv, NEW r \in Requests, HandlerStep(r) \/ IOFault(r)
  PROVE  /\ \A s \in Requests \ {r} : pc'[s] = pc[s] /\ answer'[s] = answer[s]
         /\ UNCHANGED <<req, rpc, rentry, config>>
         /\ delivered \subseteq delivered'
         /\ pc[r] \in InFlight
         /\ pc[r] \in Fulfilling \/ UNCHANGED <<recovery, target>>
<1> USE DEF chainVars, handlerVars, relayVars, storeVars, channelVars,
            operatorVars, envVars
<1>1. ASSUME NEW s \in Requests \ {r} PROVE answer'[s] = answer[s]
  BY DEF Inv, TypeOK, HandlerStep, OwnStep, Enter, Gate, PreRead, CallFacilitator,
     ReplyAccepted, ReplyFailed, Verify, RecordPending, OnCommit, OnCommitFailed,
     MarkDelivery, OnFulfill, FulfillFailed, ClearEntry, DropOption, IOFault,
     SetRecovery, Answer, Defer
<1>2. UNCHANGED <<req, rpc, rentry, config>> /\ delivered \subseteq delivered'
  BY DEF HandlerStep, OwnStep, Enter, Gate, PreRead, CallFacilitator,
     ReplyAccepted, ReplyFailed, Verify, RecordPending, OnCommit, OnCommitFailed,
     MarkDelivery, OnFulfill, FulfillFailed, ClearEntry, DropOption, IOFault,
     SetRecovery, Answer, Dispatch, DispatchFails
<1>3. pc[r] \in InFlight
  BY DEF HandlerStep, OwnStep, Enter, Gate, PreRead, CallFacilitator,
     ReplyAccepted, ReplyFailed, Verify, RecordPending, OnCommit, OnCommitFailed,
     MarkDelivery, OnFulfill, FulfillFailed, ClearEntry, DropOption, IOFault,
     InFlight, AwaitingIO
<1>4. pc[r] \in Fulfilling \/ UNCHANGED <<recovery, target>>
  BY DEF HandlerStep, OwnStep, Enter, Gate, PreRead, CallFacilitator,
     ReplyAccepted, ReplyFailed, Verify, RecordPending, OnCommit, OnCommitFailed,
     MarkDelivery, OnFulfill, FulfillFailed, ClearEntry, DropOption, IOFault,
     Fulfilling
<1> QED
  BY <1>1, <1>2, <1>3, <1>4, HandlerFrame

LEMMA HandlerOthers ==
  ASSUME OrderInv, NEW r \in Requests, HandlerStep(r) \/ IOFault(r),
         NEW s \in Redeems \ {r}
  PROVE  LedgerOK(s)' /\ WordsOK(s)'
<1>1. /\ pc'[s] = pc[s] /\ answer'[s] = answer[s] /\ UNCHANGED <<req, config>>
      /\ delivered \subseteq delivered'
      /\ pc[r] \in Fulfilling \/ UNCHANGED <<recovery, target>>
  BY HandlerLeaves DEF OrderInv, Requests
<1>2. LedgerOK(s) /\ WordsOK(s)
  BY DEF OrderInv, EntryInv
<1>3. CASE pc[r] \in Fulfilling
  <2>1. r \in Redeems /\ pc[r] \in Accepted
    BY <1>3 DEF OrderInv, Inv, RouteInv, Fulfilling, Accepted
  <2>2. pc'[s] \notin Accepted
    BY <1>1, <2>1, Alone
  <2>3. LedgerOK(s)'
    BY <2>2, LedgerPlaces DEF LedgerOK, Accepted
  <2> QED
    BY <1>1, <1>2, <2>3 DEF WordsOK
<1>4. CASE UNCHANGED <<recovery, target>>
  BY <1>1, <1>2, <1>4 DEF LedgerOK, WordsOK, Entry, Done, Complete
<1> QED
  BY <1>1, <1>3, <1>4

(* What it does to its own request, and to the entry.                      *)
OwnOK(r) ==
  /\ r \in Redeems => LedgerOK(r)' /\ WordsOK(r)'
  /\ pc[r] \in AfterRecord => pc'[r] \in AfterRecord \cup {"done"}
  /\ \/ recovery' \in {recovery, NoEntry}
     \/ recovery'.from = r /\ pc'[r] \in AfterRecord

LEMMA LeavingOK ==
  ASSUME OrderInv, NEW r \in Requests, NEW status, Answer(r, status), UNCHANGED recovery
  PROVE  OwnOK(r)
<1>1. pc'[r] = "done"
  BY AnswerFrame DEF OrderInv
<1>2. LedgerOK(r)' /\ WordsOK(r)'
  BY <1>1 DEF LedgerOK, WordsOK, CommitPhase, DeliveryPhase, Stored
<1> QED
  BY <1>1, <1>2 DEF OwnOK

(* Up to the entry's creation there is nothing to keep.                    *)
LEMMA EarlyOK ==
  ASSUME OrderInv, NEW r \in Requests, HandlerStep(r),
         NEW label \in {"gate", "preRead", "call", "await", "verify", "record"},
         pc[r] \notin AfterRecord, Goto(r, label), UNCHANGED <<answer, recovery>>
  PROVE  OwnOK(r)
<1>1. pc'[r] = label /\ pc[r] \in InFlight /\ UNCHANGED req /\ delivered \subseteq delivered'
  BY GotoFrame, HandlerLeaves DEF OrderInv
<1>2. LedgerOK(r)'
  BY <1>1 DEF LedgerOK, CommitPhase, DeliveryPhase, Stored
<1>3. pc[r] \notin {"idle", "dropOption", "done"}
  BY <1>1 DEF AfterRecord, InFlight, AwaitingIO
<1>4. r \in Redeems => WordsOK(r)'
  BY <1>1, <1>3 DEF WordsOK, OrderInv, EntryInv
<1> QED
  BY <1>2, <1>4 DEF OwnOK

LEMMA VerifyOK == ASSUME OrderInv, NEW r \in Requests, Verify(r) PROVE OwnOK(r)
<1> USE DEF chainVars, relayVars, storeVars, channelVars, operatorVars, envVars
<1>1. pc[r] = "verify" /\ UNCHANGED <<recovery, target, delivered, config>>
  BY DEF Verify
<1>2. HandlerStep(r)
  BY DEF HandlerStep, OwnStep
<1>3. CASE \E status \in {"ok", "gateway"} : Answer(r, status)
  BY <1>1, <1>3, LeavingOK
<1>4. CASE Goto(r, "record") /\ UNCHANGED answer
  BY <1>1, <1>2, <1>4, EarlyOK DEF AfterRecord, Fulfilling
<1>5. CASE req[r].option = NoOption /\ Goto(r, "dropOption") /\ UNCHANGED <<req, answer>>
  <2>1. pc'[r] = "dropOption"
    BY <1>5, GotoFrame DEF OrderInv
  <2>2. LedgerOK(r)'
    BY <1>5, <2>1 DEF LedgerOK, CommitPhase, DeliveryPhase, Stored
  <2>3. r \in Redeems => WordsOK(r)'
    BY <1>1, <1>5, <2>1 DEF WordsOK, OrderInv, EntryInv
  <2> QED
    BY <1>1, <2>1, <2>2, <2>3 DEF OwnOK, AfterRecord
<1>6. CASE UNCHANGED <<pc, req, answer>>
  BY <1>1, <1>6, LedgerPlaces
  DEF OwnOK, OrderInv, EntryInv, LedgerOK, WordsOK, Entry, Done, Complete
<1> QED
  BY <1>3, <1>4, <1>5, <1>6 DEF Verify

(* A redeem that is being fulfilled, and the facts it starts from.         *)
LEMMA FulfillingRedeem ==
  ASSUME OrderInv, NEW r \in Requests, pc[r] \in Fulfilling
  PROVE  /\ r \in Redeems /\ req[r].option \in Options /\ req[r].option # NoOption
         /\ LedgerOK(r)
         /\ answer[r].status = "none" /\ answer[r].deferred = {}
         /\ answer[r].fulfillment => <<req[r].option, r>> \in delivered
         /\ \A phase \in {"commit", "delivery"}, err \in BOOLEAN :
              Entry(r, phase, err) \in RecoveryEntry
<1>1. r \in Redeems /\ req[r].option \in Options
  BY DEF OrderInv, Inv, RouteInv
<1>2. pc[r] \notin {"idle", "dropOption", "done"}
  BY DEF Fulfilling
<1>3. LedgerOK(r) /\ WordsOK(r)
  BY <1>1 DEF OrderInv, EntryInv
<1> QED
  BY <1>1, <1>2, <1>3, EntryType, RequestsAssumption DEF WordsOK, OrderInv

LEMMA SettingOK ==
  ASSUME OrderInv, NEW r \in Requests, pc[r] \in Fulfilling,
         NEW phase \in {"commit", "delivery"}, SetRecovery(r, phase, FALSE),
         NEW label \in {"onCommit", "onFulfill"}, Goto(r, label), UNCHANGED answer,
         label = "onCommit" => phase = "commit",
         label = "onFulfill" => phase = "delivery" /\ target[req[r].option] = r
  PROVE  OwnOK(r)
<1> USE DEF chainVars, relayVars, channelVars, operatorVars, envVars
<1>1. UNCHANGED <<req, target, delivered, config>> /\ recovery' = Entry(r, phase, FALSE)
  BY DEF SetRecovery
<1>2. pc'[r] = label
  BY GotoFrame DEF OrderInv
<1>3. /\ answer[r].status = "none" /\ answer[r].deferred = {}
      /\ answer[r].fulfillment => <<req[r].option, r>> \in delivered
  BY FulfillingRedeem
<1>4. LedgerOK(r)'
  BY <1>1, <1>2 DEF LedgerOK, CommitPhase, DeliveryPhase, Stored, Entry
<1>5. WordsOK(r)'
  BY <1>1, <1>2, <1>3 DEF WordsOK
<1>6. recovery'.from = r
  BY <1>1 DEF Entry
<1> QED
  BY <1>2, <1>4, <1>5, <1>6 DEF OwnOK, AfterRecord, Fulfilling

LEMMA DeferringOK ==
  ASSUME OrderInv, NEW r \in Requests, pc[r] \in Fulfilling,
         NEW phase \in {"commit", "delivery"}, SetRecovery(r, phase, TRUE),
         NEW warning \in {"UPDATE", "DELIVERY"}, Defer(r, warning), Goto(r, "dropOption")
  PROVE  OwnOK(r)
<1> USE DEF chainVars, relayVars, channelVars, operatorVars, envVars
<1>1. UNCHANGED <<req, target, delivered, config>> /\ recovery' = Entry(r, phase, TRUE)
  BY DEF SetRecovery
<1>2. pc'[r] = "dropOption"
  BY GotoFrame DEF OrderInv
<1>3. /\ recovery' \in RecoveryEntry /\ recovery'.from = r /\ answer[r].status = "none"
      /\ answer[r].fulfillment => <<req[r].option, r>> \in delivered
  BY <1>1, FulfillingRedeem DEF Entry
<1>4. recovery' # NoEntry
  BY <1>3, RequestsAssumption
<1>5. /\ answer'[r].status = answer[r].status /\ answer'[r].deferred # {}
      /\ answer'[r].fulfillment = answer[r].fulfillment
  <2>1. answer[r] \in Answers /\ answer \in [Requests -> Answers]
    BY DEF OrderInv, Inv, TypeOK
  <2>2. answer'[r] = [answer[r] EXCEPT !.deferred = @ \cup {warning}]
    BY <2>1 DEF Defer
  <2> QED
    BY <2>1, <2>2 DEF Answers
<1>6. LedgerOK(r)'
  BY <1>2, <1>3, <1>4, <1>5 DEF LedgerOK, CommitPhase, DeliveryPhase, Stored
<1>7. WordsOK(r)'
  BY <1>1, <1>2, <1>3, <1>5 DEF WordsOK
<1> QED
  BY <1>2, <1>3, <1>6, <1>7 DEF OwnOK, AfterRecord

LEMMA OnCommitOK == ASSUME OrderInv, NEW r \in Requests, OnCommit(r) PROVE OwnOK(r)
<1> USE DEF chainVars, relayVars, storeVars, operatorVars, envVars
<1>1. /\ UNCHANGED <<req, answer, recovery, delivered, config>> /\ pc[r] = "onCommit"
      /\ pc[r] \in Fulfilling
  BY DEF OnCommit, Fulfilling
<1>2. /\ r \in Redeems /\ req[r].option \in Options
      /\ LedgerOK(r) /\ answer[r].status = "none" /\ answer[r].deferred = {}
      /\ answer[r].fulfillment => <<req[r].option, r>> \in delivered
  BY <1>1, FulfillingRedeem
<1>3. recovery = Entry(r, "commit", FALSE)
  BY <1>1, <1>2 DEF LedgerOK, CommitPhase
<1>4. PICK label \in {"markDelivery", "clear", "onCommitFailed"} :
        /\ Goto(r, label)
        /\ label \in {"markDelivery", "clear"} => Persist(r)
        /\ label = "clear" => req[r].option \notin config.delivering
  BY DEF OnCommit
<1>5. pc'[r] = label
  BY <1>4, GotoFrame DEF OrderInv
<1>6. Persist(r) => target'[req[r].option] = r
  BY <1>2 DEF Persist, OrderInv, Inv, TypeOK
<1>7. LedgerOK(r)'
  BY <1>1, <1>3, <1>4, <1>5, <1>6 DEF LedgerOK, CommitPhase, DeliveryPhase, Stored, Entry
<1>8. WordsOK(r)'
  BY <1>1, <1>2, <1>5 DEF WordsOK
<1> QED
  BY <1>1, <1>5, <1>7, <1>8 DEF OwnOK, AfterRecord, Fulfilling

LEMMA OnFulfillOK == ASSUME OrderInv, NEW r \in Requests, OnFulfill(r) PROVE OwnOK(r)
<1> USE DEF chainVars, relayVars, storeVars, operatorVars, envVars
<1>1. /\ UNCHANGED <<req, recovery, target, config>> /\ pc[r] = "onFulfill"
      /\ pc[r] \in Fulfilling
  BY DEF OnFulfill, Fulfilling
<1>2. /\ LedgerOK(r) /\ answer[r].status = "none" /\ answer[r].deferred = {}
      /\ answer[r].fulfillment => <<req[r].option, r>> \in delivered
  BY <1>1, FulfillingRedeem
<1>3. recovery = Entry(r, "delivery", FALSE) /\ target[req[r].option] = r
  BY <1>1, <1>2 DEF LedgerOK, DeliveryPhase, Stored
<1>4. delivered \subseteq delivered'
  BY DEF OnFulfill, Dispatch, DispatchFails
<1>5. Dispatch(req[r].option) => <<req[r].option, r>> \in delivered'
  BY <1>3 DEF Dispatch
<1>6. PICK label \in {"clearDelivered", "fulfillFailed"} :
        /\ Goto(r, label)
        /\ \/ Dispatch(req[r].option) /\ answer' = [answer EXCEPT ![r].fulfillment = TRUE]
           \/ label = "fulfillFailed" /\ UNCHANGED answer
  BY DEF OnFulfill
<1>7. pc'[r] = label
  BY <1>6, GotoFrame DEF OrderInv
<1>8. label = "clearDelivered" => <<req[r].option, r>> \in delivered'
  BY <1>5, <1>6
<1>9. /\ answer'[r].status = answer[r].status /\ answer'[r].deferred = answer[r].deferred
      /\ answer'[r].fulfillment => <<req[r].option, r>> \in delivered'
  <2>1. CASE UNCHANGED answer
    BY <1>2, <1>4, <2>1
  <2>2. CASE Dispatch(req[r].option) /\ answer' = [answer EXCEPT ![r].fulfillment = TRUE]
    <3>1. answer[r] \in Answers /\ answer'[r] = [answer[r] EXCEPT !.fulfillment = TRUE]
      BY <2>2 DEF OrderInv, Inv, TypeOK
    <3>2. answer'[r].status = answer[r].status /\ answer'[r].deferred = answer[r].deferred
      BY <3>1 DEF Answers
    <3> QED
      BY <1>5, <2>2, <3>2
  <2> QED
    BY <1>6, <2>1, <2>2
<1>10. LedgerOK(r)'
  BY <1>1, <1>3, <1>7, <1>8 DEF LedgerOK, CommitPhase, DeliveryPhase, Stored, Entry
<1>11. WordsOK(r)'
  BY <1>1, <1>2, <1>7, <1>9 DEF WordsOK
<1> QED
  BY <1>1, <1>7, <1>10, <1>11 DEF OwnOK, AfterRecord, Fulfilling

LEMMA ClearEntryOK == ASSUME OrderInv, NEW r \in Requests, ClearEntry(r) PROVE OwnOK(r)
<1> USE DEF chainVars, relayVars, channelVars, operatorVars, envVars
<1>1. /\ UNCHANGED <<req, answer, target, delivered, config>> /\ recovery' = NoEntry
      /\ pc[r] \in {"clear", "clearDelivered"} /\ pc[r] \in Fulfilling
  BY DEF ClearEntry, Fulfilling
<1>2. /\ LedgerOK(r) /\ answer[r].status = "none" /\ answer[r].deferred = {}
      /\ answer[r].fulfillment => <<req[r].option, r>> \in delivered
  BY <1>1, FulfillingRedeem
<1>3. Done(r)
  BY <1>1, <1>2 DEF LedgerOK, Stored, Done, Complete, Entry
<1>4. pc'[r] = "dropOption"
  BY GotoFrame DEF ClearEntry, OrderInv
<1>5. LedgerOK(r)'
  BY <1>1, <1>2, <1>3, <1>4
  DEF LedgerOK, CommitPhase, DeliveryPhase, Stored, Done, Complete, Entry
<1>6. WordsOK(r)'
  BY <1>1, <1>2, <1>4 DEF WordsOK
<1> QED
  BY <1>1, <1>4, <1>5, <1>6 DEF OwnOK, AfterRecord

LEMMA IOFaultOK == ASSUME OrderInv, NEW r \in Requests, IOFault(r) PROVE OwnOK(r)
<1> USE DEF chainVars, relayVars, storeVars, channelVars, operatorVars, envVars
<1>1. UNCHANGED <<recovery, target, delivered, config>>
  BY DEF IOFault
<1>2. CASE Answer(r, "threw")
  BY <1>1, <1>2, LeavingOK
<1>3. CASE /\ pc[r] = "clearDelivered" /\ Goto(r, "fulfillFailed")
           /\ UNCHANGED <<queue, req, tries, answer>>
  <2>1. pc'[r] = "fulfillFailed"
    BY <1>3, GotoFrame DEF OrderInv
  <2>2. /\ LedgerOK(r) /\ answer[r].status = "none" /\ answer[r].deferred = {}
        /\ answer[r].fulfillment => <<req[r].option, r>> \in delivered
    BY <1>3, FulfillingRedeem DEF Fulfilling
  <2>3. LedgerOK(r)'
    BY <1>1, <1>3, <2>1, <2>2 DEF LedgerOK, CommitPhase, DeliveryPhase, Stored, Entry
  <2>4. WordsOK(r)'
    BY <1>1, <1>3, <2>1, <2>2 DEF WordsOK
  <2> QED
    BY <1>1, <2>1, <2>3, <2>4 DEF OwnOK, AfterRecord, Fulfilling
<1> QED
  BY <1>2, <1>3 DEF IOFault

LEMMA HandlerOwn ==
  ASSUME OrderInv, NEW r \in Requests, HandlerStep(r) \/ IOFault(r) PROVE OwnOK(r)
<1> USE DEF storeVars
<1>1. CASE Enter(r) \/ Gate(r) \/ PreRead(r) \/ CallFacilitator(r) \/ ReplyAccepted(r)
             \/ ReplyFailed(r)
  <2>1. HandlerStep(r)
    BY <1>1 DEF HandlerStep, OwnStep
  <2>2. pc[r] \notin AfterRecord /\ UNCHANGED recovery
    BY <1>1 DEF Enter, Gate, PreRead, CallFacilitator, ReplyAccepted, ReplyFailed,
       AfterRecord, Fulfilling
  <2>3. CASE \E status \in {"bad", "gateway"} : Answer(r, status)
    BY <2>2, <2>3, LeavingOK
  <2>4. CASE /\ \E label \in {"gate", "preRead", "call", "await", "verify"} : Goto(r, label)
             /\ UNCHANGED answer
    BY <2>1, <2>2, <2>4, EarlyOK
  <2> QED
    BY <1>1, <2>3, <2>4
    DEF Enter, Gate, PreRead, CallFacilitator, ReplyAccepted, ReplyFailed
<1>2. CASE RecordPending(r)
  BY <1>2, SettingOK DEF RecordPending, Fulfilling
<1>3. CASE MarkDelivery(r)
  <2>1. pc[r] \in Fulfilling /\ pc[r] = "markDelivery"
    BY <1>3 DEF MarkDelivery, Fulfilling
  <2>2. target[req[r].option] = r
    BY <2>1, FulfillingRedeem DEF LedgerOK, Stored
  <2> QED
    BY <1>3, <2>1, <2>2, SettingOK DEF MarkDelivery
<1>4. CASE OnCommitFailed(r) \/ FulfillFailed(r)
  BY <1>4, DeferringOK DEF OnCommitFailed, FulfillFailed, Fulfilling
<1>5. CASE DropOption(r)
  BY <1>5, LeavingOK DEF DropOption
<1> QED
  BY <1>1, <1>2, <1>3, <1>4, <1>5, VerifyOK, OnCommitOK, OnFulfillOK, ClearEntryOK,
     IOFaultOK DEF HandlerStep, OwnStep

LEMMA HandlerEntry ==
  ASSUME OrderInv, NEW r \in Requests, HandlerStep(r) \/ IOFault(r) PROVE EntryInv'
<1>1. /\ \A s \in Requests \ {r} : pc'[s] = pc[s]
      /\ UNCHANGED <<rpc, rentry>> /\ pc[r] \in InFlight
  BY HandlerLeaves DEF OrderInv
<1>2. OwnOK(r)
  BY HandlerOwn
<1>3. \A s \in Redeems : LedgerOK(s)' /\ WordsOK(s)'
  BY <1>2, HandlerOthers DEF OwnOK
<1>4. ASSUME recovery' # NoEntry PROVE pc'[recovery'.from] \in AfterRecord \cup {"done"}
  <2>1. CASE recovery' = recovery
    <3>1. recovery.from \in Requests
      BY <1>4, <2>1 DEF OrderInv, Inv, TypeOK, RecoveryEntry, Requests
    <3>2. pc[recovery.from] \in AfterRecord \cup {"done"} /\ "done" \notin InFlight
      BY <1>4, <2>1, LedgerPlaces DEF OrderInv, EntryInv
    <3> QED
      BY <1>1, <1>2, <2>1, <3>1, <3>2 DEF OwnOK
  <2>2. CASE recovery'.from = r /\ pc'[r] \in AfterRecord
    BY <2>2
  <2> QED
    BY <1>2, <1>4, <2>1, <2>2 DEF OwnOK
<1>5. ASSUME NEW p \in Replays, rpc'[p] \in ReplayInFlight
      PROVE  pc'[rentry'[p].from] = "done"
  <2>1. pc[rentry[p].from] = "done" /\ "done" \notin InFlight
    BY <1>1, <1>5, LedgerPlaces DEF OrderInv, EntryInv
  <2>2. rentry[p].from \in Requests
    BY <1>1, <1>5 DEF OrderInv, Inv, RouteInv, RecoveryEntry, Requests
  <2> QED
    BY <1>1, <2>1, <2>2
<1> QED
  BY <1>3, <1>4, <1>5 DEF EntryInv

LEMMA ArriveEntry ==
  ASSUME OrderInv, NEW r \in Requests, NEW input, Arrive(r, input) PROVE EntryInv'
<1> USE DEF chainVars, handlerVars, relayVars, storeVars, channelVars,
            operatorVars, envVars
<1>1. /\ pc[r] = "idle" /\ pc'[r] = "queued" /\ \A s \in Requests \ {r} : pc'[s] = pc[s]
      /\ \A s \in Requests \ {r} : req'[s] = req[s]
      /\ UNCHANGED <<answer, recovery, target, delivered, config, rpc, rentry>>
  BY GotoFrame DEF Arrive, OrderInv, Inv, TypeOK
<1>2. ASSUME NEW s \in Redeems PROVE LedgerOK(s)' /\ WordsOK(s)'
  <2>1. LedgerOK(s) /\ WordsOK(s)
    BY DEF OrderInv, EntryInv
  <2>2. CASE s = r
    BY <1>1, <2>1, <2>2 DEF LedgerOK, WordsOK, CommitPhase, DeliveryPhase, Stored
  <2>3. CASE s # r
    <3>1. pc'[s] = pc[s] /\ req'[s] = req[s]
      BY <1>1, <2>3 DEF Requests
    <3> QED
      BY <1>1, <2>1, <3>1 DEF LedgerOK, WordsOK, Entry, Done, Complete
  <2> QED
    BY <2>2, <2>3
<1>3. ASSUME recovery # NoEntry PROVE pc'[recovery.from] \in AfterRecord \cup {"done"}
  <2>1. recovery.from \in Requests /\ pc[recovery.from] \in AfterRecord \cup {"done"}
    BY <1>3 DEF OrderInv, EntryInv, Inv, TypeOK, RecoveryEntry, Requests
  <2>2. recovery.from # r
    BY <1>1, <2>1 DEF AfterRecord, Fulfilling
  <2> QED
    BY <1>1, <2>1, <2>2
<1>4. ASSUME NEW p \in Replays, rpc[p] \in ReplayInFlight PROVE pc'[rentry[p].from] = "done"
  <2>1. rentry[p].from \in Requests /\ pc[rentry[p].from] = "done"
    BY <1>4 DEF OrderInv, EntryInv, Inv, RouteInv, RecoveryEntry, Requests
  <2> QED
    BY <1>1, <2>1
<1> QED
  BY <1>1, <1>2, <1>3, <1>4 DEF EntryInv

(* Nothing the entry is about moves.                                       *)
LEMMA QuietEntry ==
  ASSUME OrderInv,
         UNCHANGED <<pc, req, answer, recovery, target, delivered, config, rpc, rentry>>
  PROVE  EntryInv'
<1>1. ASSUME NEW s \in Redeems PROVE LedgerOK(s)' /\ WordsOK(s)'
  BY DEF OrderInv, EntryInv, LedgerOK, WordsOK, Entry, Done, Complete
<1> QED
  BY <1>1 DEF OrderInv, EntryInv

LEMMA ReplayStartEntry ==
  ASSUME ReplaysWait, OrderInv, NEW p \in Replays, ReplayStart(p)
  PROVE  EntryInv' /\ \A q \in Replays : rpc'[q] \in ReplayInFlight => q = p
<1> USE DEF chainVars, handlerVars, relayVars, storeVars, channelVars, envVars
<1>1. /\ UNCHANGED <<pc, req, answer, recovery, target, delivered, config>>
      /\ rentry' = [rentry EXCEPT ![p] = recovery]
      /\ \A q \in Replays \ {p} : rpc'[q] = rpc[q]
      /\ Quiet
  BY DEF ReplayStart, RGoto, OrderInv, Inv, TypeOK, ReplaysWait
<1>2. rpc'[p] \in ReplayInFlight => recovery # NoEntry
  BY DEF ReplayStart, RGoto, OrderInv, Inv, TypeOK, ReplayInFlight
<1>3. \A q \in Replays : rpc'[q] \in ReplayInFlight => q = p
  BY <1>1 DEF Quiet
<1>4. ASSUME rpc'[p] \in ReplayInFlight PROVE pc'[rentry'[p].from] = "done"
  <2>1. rentry'[p] = recovery /\ recovery # NoEntry
    BY <1>1, <1>2, <1>4 DEF OrderInv, Inv, TypeOK
  <2>2. recovery.from \in Requests /\ pc[recovery.from] \in AfterRecord \cup {"done"}
    BY <2>1 DEF OrderInv, EntryInv, Inv, TypeOK, RecoveryEntry, Requests
  <2>3. pc[recovery.from] \notin InFlight
    BY <1>1, <2>2 DEF Quiet
  <2> QED
    BY <1>1, <2>1, <2>2, <2>3, LedgerPlaces
<1>5. ASSUME NEW s \in Redeems PROVE LedgerOK(s)' /\ WordsOK(s)'
  BY <1>1 DEF OrderInv, EntryInv, LedgerOK, WordsOK, Entry, Done, Complete
<1>6. recovery' # NoEntry => pc'[recovery'.from] \in AfterRecord \cup {"done"}
  BY <1>1 DEF OrderInv, EntryInv
<1> QED
  BY <1>3, <1>4, <1>5, <1>6 DEF EntryInv

(* A replay under way has the exchange's data to itself as well.           *)
LEMMA ReplayAlone ==
  ASSUME OrderInv, NEW p \in Replays, rpc[p] \in ReplayInFlight
  PROVE  /\ \A s \in Redeems : pc[s] \notin Accepted
         /\ rentry[p] \in RecoveryEntry /\ rentry[p].from \in Redeems
         /\ pc[rentry[p].from] = "done"
BY Alone DEF OrderInv, Inv, RouteInv, RecoveryEntry, EntryInv

LEMMA ReplayEntry ==
  ASSUME OrderInv, NEW p \in Replays, ReplayStep(p) \/ ReplayIOFault(p) PROVE EntryInv'
<1> USE DEF chainVars, handlerVars, relayVars, storeVars, channelVars, envVars
<1>1. /\ UNCHANGED <<pc, req, answer, config, rentry>>
      /\ delivered \subseteq delivered'
      /\ rpc[p] \in ReplayInFlight
      /\ recovery' \in {recovery, NoEntry, [rentry[p] EXCEPT !.error = TRUE]}
      /\ \A q \in Replays \ {p} : rpc'[q] = rpc[q]
  BY DEF ReplayStep, ReplayOnCommit, ReplayOnFulfill, ReplayClear, ReplayFail,
     ReplayIOFault, RGoto, Dispatch, DispatchFails, ReplayInFlight, OrderInv, Inv, TypeOK
<1>2. /\ \A s \in Redeems : pc[s] \notin Accepted
      /\ rentry[p] \in RecoveryEntry /\ pc[rentry[p].from] = "done"
  BY <1>1, ReplayAlone
<1>3. ASSUME NEW s \in Redeems PROVE LedgerOK(s)' /\ WordsOK(s)'
  <2>1. pc'[s] \notin Accepted
    BY <1>1, <1>2
  <2>2. LedgerOK(s)'
    BY <2>1, LedgerPlaces DEF LedgerOK, Accepted
  <2>3. WordsOK(s)'
    BY <1>1 DEF WordsOK, OrderInv, EntryInv
  <2> QED
    BY <2>2, <2>3
<1>4. [rentry[p] EXCEPT !.error = TRUE].from = rentry[p].from
  BY <1>2 DEF RecoveryEntry
<1>5. recovery' # NoEntry => pc'[recovery'.from] \in AfterRecord \cup {"done"}
  BY <1>1, <1>2, <1>4 DEF OrderInv, EntryInv
<1>6. \A q \in Replays : rpc'[q] \in ReplayInFlight => pc'[rentry'[q].from] = "done"
  BY <1>1, <1>2 DEF OrderInv, EntryInv
<1> QED
  BY <1>3, <1>5, <1>6 DEF EntryInv

LEMMA CrashEntry == ASSUME OrderInv, Crash PROVE EntryInv'
<1> USE DEF storeVars
<1>1. /\ UNCHANGED <<req, delivered>>
      /\ recovery' \in {recovery, NoEntry}
      /\ \A p \in Replays : rpc'[p] \notin ReplayInFlight
  BY DEF Crash, ReplayInFlight
<1>2. ASSUME NEW s \in Requests
      PROVE  /\ pc[s] \in InFlight \cup {"done"} => pc'[s] = "done"
             /\ pc'[s] \in {"idle", "done"}
             /\ pc'[s] = "idle" => answer'[s] = answer[s] /\ pc[s] = "idle"
  BY DEF Crash, OrderInv, Inv, TypeOK
<1>3. ASSUME NEW s \in Redeems PROVE LedgerOK(s)' /\ WordsOK(s)'
  <2>1. LedgerOK(s)'
    BY <1>2 DEF LedgerOK, CommitPhase, DeliveryPhase, Stored, Requests
  <2>2. WordsOK(s)'
    BY <1>1, <1>2 DEF WordsOK, OrderInv, EntryInv, Requests
  <2> QED
    BY <2>1, <2>2
<1>4. ASSUME recovery' # NoEntry PROVE pc'[recovery'.from] \in AfterRecord \cup {"done"}
  <2>1. /\ recovery' = recovery /\ recovery.from \in Requests
        /\ pc[recovery.from] \in AfterRecord \cup {"done"}
    BY <1>1, <1>4 DEF OrderInv, EntryInv, Inv, TypeOK, RecoveryEntry, Requests
  <2> QED
    BY <1>2, <2>1, LedgerPlaces
<1> QED
  BY <1>1, <1>3, <1>4 DEF EntryInv

LEMMA EntryStep ==
  ASSUME ReplaysWait, OrderInv, [Next]_vars PROVE EntryInv'
<1> USE DEF chainVars, handlerVars, relayVars, storeVars, channelVars,
            operatorVars, envVars
<1>1. ASSUME NEW r \in Requests, NEW input, Arrive(r, input) PROVE EntryInv'
  BY <1>1, ArriveEntry
<1>2. ASSUME NEW r \in Requests, HandlerStep(r) \/ IOFault(r) PROVE EntryInv'
  BY <1>2, HandlerEntry
<1>3. ASSUME NEW p \in Replays, ReplayStart(p) \/ ReplayStep(p) \/ ReplayIOFault(p)
      PROVE  EntryInv'
  BY <1>3, ReplayStartEntry, ReplayEntry
<1>4. CASE \/ \E r \in Requests : Land(r)
           \/ \E a \in POST_COMMIT_ACTION_IDS : Elsewhere(a)
           \/ ReaderCatchesUp
           \/ UNCHANGED vars
  BY <1>4, QuietEntry DEF Land, Elsewhere, ReaderCatchesUp, vars
<1>5. CASE Crash
  BY <1>5, CrashEntry
<1> QED
  BY <1>1, <1>2, <1>3, <1>4, <1>5 DEF Next, Requests

LEMMA InitOrder == ASSUME Init PROVE OrderInv
<1>1. ASSUME NEW r \in Redeems PROVE LedgerOK(r) /\ WordsOK(r)
  BY DEF Init, LedgerOK, WordsOK, CommitPhase, DeliveryPhase, Stored, Requests
<1>2. EntryInv
  BY <1>1 DEF Init, EntryInv, ReplayInFlight
<1> QED
  BY <1>2, InitTypes, InitData DEF OrderInv

LEMMA AlwaysOrder == ASSUME ReplaysWait PROVE Spec => []OrderInv
<1>1. Init => OrderInv
  BY InitOrder
<1>2. OrderInv /\ [Next]_vars => OrderInv'
  BY StepTypes, DataStep, EntryStep DEF OrderInv
<1> QED
  BY <1>1, <1>2, PTL DEF Spec

-----------------------------------------------------------------------------
(* A redeem's 200 is sent by DropOption, and by nothing else.              *)
LEMMA WhoGrants ==
  ASSUME OrderInv, [Next]_vars, NEW r \in Redeems, pc[r] # "done",
         answer'[r].status = "ok"
  PROVE  DropOption(r)
<1> USE DEF chainVars, handlerVars, relayVars, storeVars, channelVars,
            operatorVars, envVars
<1>1. answer[r].status = "none" /\ answer[r] \in Answers /\ r \in Requests
  BY DEF OrderInv, EntryInv, WordsOK, Inv, TypeOK, Requests
<1>2. ~UNCHANGED answer
  BY <1>1
<1>3. ASSUME NEW status \in {"bad", "gateway", "threw"}, Answer(r, status) PROVE FALSE
  BY <1>1, <1>3, AnswerFrame DEF OrderInv
<1>4. ASSUME NEW q \in Requests, HandlerStep(q) \/ IOFault(q) PROVE DropOption(r)
  <2>1. q = r
    BY <1>1, <1>4, HandlerLeaves DEF OrderInv
  <2>2. CASE Enter(r) \/ Gate(r) \/ PreRead(r) \/ CallFacilitator(r) \/ ReplyAccepted(r)
             \/ ReplyFailed(r) \/ IOFault(r)
    BY <1>2, <1>3, <2>2
    DEF Enter, Gate, PreRead, CallFacilitator, ReplyAccepted, ReplyFailed, IOFault
  <2>3. CASE Verify(r)
    BY <1>2, <1>3, <2>3, RequestsAssumption DEF Verify
  <2>4. CASE RecordPending(r) \/ OnCommit(r) \/ MarkDelivery(r) \/ ClearEntry(r)
    BY <1>2, <2>4 DEF RecordPending, OnCommit, MarkDelivery, ClearEntry
  <2>5. CASE OnCommitFailed(r) \/ FulfillFailed(r) \/ OnFulfill(r)
    <3>1. /\ pc[r] \in Fulfilling
          /\ pc'[r] \in {"dropOption", "clearDelivered", "fulfillFailed"}
      BY <1>1, <2>5, GotoFrame
      DEF OnCommitFailed, FulfillFailed, OnFulfill, Fulfilling, OrderInv
    <3>2. WordsOK(r)'
      BY <1>1, <1>4, <2>1, HandlerOwn DEF OwnOK
    <3> QED
      BY <3>1, <3>2 DEF WordsOK
  <2> QED
    BY <1>4, <2>1, <2>2, <2>3, <2>4, <2>5 DEF HandlerStep, OwnStep
<1>5. ASSUME Crash PROVE FALSE
  <2>1. answer'[r] = [answer[r] EXCEPT !.status = "lost"] \/ answer'[r] = answer[r]
    BY <1>1, <1>5 DEF Crash
  <2> QED
    BY <1>1, <2>1 DEF Answers
<1>6. ASSUME \/ \E q \in Requests, input \in RedeemInput \cup OtherInput : Arrive(q, input)
             \/ \E q \in Requests : Land(q)
             \/ \E p \in Replays : ReplayStart(p) \/ ReplayStep(p) \/ ReplayIOFault(p)
             \/ \E a \in POST_COMMIT_ACTION_IDS : Elsewhere(a)
             \/ ReaderCatchesUp \/ UNCHANGED vars
      PROVE  FALSE
  BY <1>2, <1>6
  DEF Arrive, Land, ReplayStart, ReplayStep, ReplayOnCommit, ReplayOnFulfill, ReplayClear,
      ReplayFail, ReplayIOFault, Elsewhere, ReaderCatchesUp, vars
<1>7. CASE \E q \in Requests, input \in RedeemInput \cup OtherInput : Arrive(q, input)
  BY <1>6, <1>7
<1> QED
  BY <1>4, <1>5, <1>6, <1>7 DEF Next, Requests

LEMMA DropTells ==
  ASSUME OrderInv, NEW r \in Redeems, DropOption(r), req[r].option # NoOption
  PROVE  /\ answer'[r].fulfillment => <<req[r].option, r>> \in delivered
         /\ answer'[r].deferred = {} => Done(r)
         /\ answer'[r].deferred # {} => recovery' # NoEntry /\ recovery'.from = r
<1>1. pc[r] = "dropOption" /\ Answer(r, "ok") /\ UNCHANGED recovery /\ r \in Requests
  BY DEF DropOption, Requests
<1>2. /\ answer'[r].deferred = answer[r].deferred
      /\ answer'[r].fulfillment = answer[r].fulfillment
  <2>1. answer[r] \in Answers /\ answer \in [Requests -> Answers]
    BY <1>1 DEF OrderInv, Inv, TypeOK
  <2>2. answer'[r] = [answer[r] EXCEPT !.status = "ok"]
    BY <1>1, <2>1 DEF Answer
  <2> QED
    BY <2>1, <2>2 DEF Answers
<1>3. LedgerOK(r) /\ WordsOK(r)
  BY DEF OrderInv, EntryInv
<1> QED
  BY <1>1, <1>2, <1>3 DEF LedgerOK, WordsOK

(* A 200 of the redeem route tells its buyer the truth, in any environment *)
(* and after any redeployment, as long as operators replay only between    *)
(* requests: a replay under a request could clear the entry the request's  *)
(* warning promises (handleRedeem).                                        *)
THEOREM TruthfulAnswers == ASSUME ReplaysWait PROVE Spec => AnswersTellTheTruth
<1>1. OrderInv /\ [Next]_vars =>
        [ \A r \in Redeems :
            pc[r] # "done" /\ answer'[r].status = "ok" /\ req[r].option # NoOption
              => /\ answer'[r].fulfillment => <<req[r].option, r>> \in delivered
                 /\ answer'[r].deferred = {} => Complete(Entry(r, "commit", FALSE))
                 /\ answer'[r].deferred # {} =>
                      recovery' # NoEntry /\ recovery'.from = r ]_vars
  BY WhoGrants, DropTells DEF Done
<1> QED
  BY <1>1, AlwaysOrder, PTL DEF Spec, AnswersTellTheTruth

-----------------------------------------------------------------------------
(* The moves of the recovery entry under the handlers alone.               *)
Forward ==
  \/ /\ recovery = NoEntry
     /\ recovery'.phase = "commit"
  \/ /\ recovery # NoEntry /\ recovery' # NoEntry
     /\ recovery'.from = recovery.from
     /\ recovery.phase = "delivery" => recovery'.phase = "delivery"
  \/ recovery # NoEntry /\ recovery' = NoEntry /\ Complete(recovery)

LEMMA HandlerForward ==
  ASSUME OrderInv, NEW r \in Requests, HandlerStep(r) \/ IOFault(r), recovery' # recovery
  PROVE  Forward
<1> USE DEF chainVars, handlerVars, relayVars, storeVars, channelVars,
            operatorVars, envVars
<1>1. pc[r] \in Fulfilling
  BY HandlerLeaves DEF OrderInv
<1>2. /\ r \in Redeems /\ LedgerOK(r)
      /\ \A phase \in {"commit", "delivery"}, err \in BOOLEAN :
           Entry(r, phase, err) \in RecoveryEntry /\ Entry(r, phase, err) # NoEntry
  BY <1>1, FulfillingRedeem, RequestsAssumption
<1>3. CASE RecordPending(r)
  <2>1. pc[r] = "record" /\ recovery' = Entry(r, "commit", FALSE)
    BY <1>3 DEF RecordPending, SetRecovery
  <2>2. pc[r] \in Accepted /\ pc[r] \notin AfterRecord \cup {"done"}
    BY <2>1 DEF Accepted, AfterRecord
  <2>3. recovery = NoEntry
    BY <1>2, <2>2, Alone DEF OrderInv, EntryInv
  <2> QED
    BY <2>1, <2>3 DEF Forward, Entry
<1>4. CASE OnCommitFailed(r) \/ MarkDelivery(r)
  <2>1. recovery = Entry(r, "commit", FALSE)
    BY <1>2, <1>4 DEF LedgerOK, CommitPhase, OnCommitFailed, MarkDelivery
  <2>2. PICK phase \in {"commit", "delivery"}, err \in BOOLEAN :
          recovery' = Entry(r, phase, err)
    BY <1>4 DEF OnCommitFailed, MarkDelivery, SetRecovery
  <2>3. recovery # NoEntry /\ recovery' # NoEntry
    BY <1>2, <2>1, <2>2
  <2>4. recovery.from = r /\ recovery.phase = "commit" /\ recovery'.from = r
    BY <2>1, <2>2 DEF Entry
  <2> QED
    BY <2>3, <2>4 DEF Forward
<1>5. CASE FulfillFailed(r)
  <2>1. recovery = Entry(r, "delivery", FALSE) /\ recovery' = Entry(r, "delivery", TRUE)
    BY <1>2, <1>5 DEF LedgerOK, DeliveryPhase, FulfillFailed, SetRecovery
  <2> QED
    BY <1>2, <2>1 DEF Forward, Entry
<1>6. CASE ClearEntry(r)
  <2>1. /\ recovery' = NoEntry
        /\ recovery \in {Entry(r, "commit", FALSE), Entry(r, "delivery", FALSE)}
    BY <1>2, <1>6 DEF LedgerOK, CommitPhase, DeliveryPhase, ClearEntry
  <2>2. Complete(recovery)
    BY <1>2, <1>6, <2>1 DEF LedgerOK, Stored, Complete, Entry, ClearEntry
  <2> QED
    BY <1>2, <2>1, <2>2 DEF Forward
<1>7. CASE UNCHANGED recovery
  BY <1>7
<1> QED
  BY <1>3, <1>4, <1>5, <1>6, <1>7
  DEF HandlerStep, OwnStep, Enter, Gate, PreRead, CallFacilitator, ReplyAccepted, ReplyFailed, Verify,
      OnCommit, OnFulfill, DropOption, IOFault

(* Under the handlers alone, with a durable store, the recovery entry only *)
(* moves forward: from a pending commit to a pending delivery, and away    *)
(* only when the data is taken care of, whatever fails on the way and      *)
(* whatever is redeployed (recordPending, clearRecovery).                  *)
THEOREM EntriesMoveForward ==
  ASSUME Replays = {}, "volatileStores" \notin Environment
  PROVE  Spec => EntryMovesForward
<1> USE DEF chainVars, handlerVars, relayVars, storeVars, channelVars,
            operatorVars, envVars
<1>1. ReplaysWait
  BY DEF ReplaysWait
<1>2. ASSUME OrderInv, [Next]_vars, recovery' # recovery PROVE Forward
  <2>1. \E r \in Requests : HandlerStep(r) \/ IOFault(r)
    BY <1>2 DEF Next, Arrive, Land, Elsewhere, ReaderCatchesUp, Crash, vars
  <2> QED
    BY <1>2, <2>1, HandlerForward
<1>3. OrderInv /\ [Next]_vars =>
        [ recovery' # recovery =>
            \/ /\ recovery = NoEntry
               /\ recovery'.phase = "commit"
            \/ /\ recovery # NoEntry /\ recovery' # NoEntry
               /\ recovery'.from = recovery.from
               /\ recovery.phase = "delivery" => recovery'.phase = "delivery"
            \/ recovery # NoEntry /\ recovery' = NoEntry /\ Complete(recovery) ]_vars
  BY <1>2 DEF Forward
<1> QED
  BY <1>1, <1>3, AlwaysOrder, PTL DEF Spec, EntryMovesForward

-----------------------------------------------------------------------------
(* The mutex against the server's own handlers: while one waits for the    *)
(* reader to show what its action did, no other's action lands. It takes   *)
(* that nobody else acts and that no meta-transaction lands late.          *)
BeforeCall == {"idle", "queued", "gate", "preRead", "call"}

TurnInv ==
  /\ \A r \in Requests : pc[r] = "verify" => r \in landed
  /\ \A r \in called : pc[r] \notin BeforeCall
  /\ \A r \in landed : pc[r] \in {"await", "verify"} => Now = ACTION_POST_STATE[req[r].action]
  /\ \A r \in Requests : answer[r].status # "lost"

(* Nothing a turn is about moves, or only towards an answer.               *)
LEMMA QuietTurn ==
  ASSUME Inv, TurnInv, UNCHANGED <<history, called, landed, req, pc, answer>>
  PROVE  TurnInv'
BY DEF TurnInv, Now

LEMMA HandlerTurn ==
  ASSUME Inv, TurnInv, NEW r \in Requests, HandlerStep(r) \/ IOFault(r) PROVE TurnInv'
<1> USE DEF chainVars, handlerVars, relayVars, storeVars, channelVars,
            operatorVars, envVars
<1>1. /\ \A s \in Requests \ {r} : pc'[s] = pc[s] /\ answer'[s] = answer[s]
      /\ UNCHANGED req /\ pc[r] \in InFlight
  BY HandlerLeaves
<1>2. UNCHANGED <<history, landed>> /\ called' \in {called, called \cup {r}}
  BY DEF HandlerStep, OwnStep, Enter, Gate, PreRead, CallFacilitator, ReplyAccepted, ReplyFailed,
     Verify, RecordPending, OnCommit, OnCommitFailed, MarkDelivery, OnFulfill, FulfillFailed,
     ClearEntry, DropOption, IOFault, SetRecovery
<1>3. answer'[r].status # "lost"
  <2>1. answer[r] \in Answers /\ answer[r].status # "lost" /\ answer \in [Requests -> Answers]
    BY DEF Inv, TypeOK, TurnInv
  <2>2. CASE \E status \in {"ok", "bad", "gateway", "threw"} : Answer(r, status)
    BY <2>2, AnswerFrame
  <2>3. CASE UNCHANGED answer
    BY <2>1, <2>3
  <2>4. CASE \E warning \in {"UPDATE", "DELIVERY"} : Defer(r, warning)
    <3>1. PICK warning \in {"UPDATE", "DELIVERY"} : Defer(r, warning)
      BY <2>4
    <3>2. answer'[r] = [answer[r] EXCEPT !.deferred = @ \cup {warning}]
      BY <2>1, <3>1 DEF Defer
    <3> QED
      BY <2>1, <3>2 DEF Answers
  <2>5. CASE answer' = [answer EXCEPT ![r].fulfillment = TRUE]
    <3>1. answer'[r] = [answer[r] EXCEPT !.fulfillment = TRUE]
      BY <2>1, <2>5
    <3> QED
      BY <2>1, <3>1 DEF Answers
  <2> QED
    BY <2>2, <2>3, <2>4, <2>5
    DEF HandlerStep, OwnStep, Enter, Gate, PreRead, CallFacilitator, ReplyAccepted, ReplyFailed, Verify,
        RecordPending, OnCommit, OnCommitFailed, MarkDelivery, OnFulfill, FulfillFailed,
        ClearEntry, DropOption, IOFault
<1>4. /\ pc'[r] = "verify" => r \in landed
      /\ r \in called' => pc'[r] \notin BeforeCall
      /\ r \in landed /\ pc'[r] \in {"await", "verify"} => pc[r] \in {"await", "verify"}
  <2>1. CASE CallFacilitator(r)
    <3>1. pc'[r] = "await" /\ r \notin called
      BY <2>1, GotoFrame DEF CallFacilitator, TurnInv, BeforeCall
    <3> QED
      BY <3>1 DEF Inv, TypeOK, BeforeCall
  <2>2. CASE ReplyAccepted(r)
    <3>1. pc'[r] = "verify" /\ pc[r] = "await" /\ r \in landed
      BY <2>2, GotoFrame DEF ReplyAccepted, FacilitatorAccepted
    <3> QED
      BY <3>1 DEF BeforeCall
  <2>3. CASE \E status : Answer(r, status)
    <3>1. pc'[r] = "done"
      BY <2>3, AnswerFrame
    <3> QED
      BY <3>1 DEF BeforeCall
  <2>4. CASE /\ Enter(r) \/ Gate(r)
             /\ \E label \in {"gate", "preRead"} : Goto(r, label)
    <3>1. pc'[r] \in {"gate", "preRead"}
      BY <2>4, GotoFrame
    <3>2. r \notin called'
      BY <2>4 DEF Enter, Gate, TurnInv, BeforeCall
    <3> QED
      BY <3>1, <3>2
  <2>5. CASE PreRead(r) /\ Goto(r, "call")
    <3>1. pc'[r] = "call"
      BY <2>5, GotoFrame
    <3>2. r \notin called'
      BY <2>5 DEF PreRead, TurnInv, BeforeCall
    <3> QED
      BY <3>1, <3>2
  <2>6. CASE Verify(r) /\ UNCHANGED pc
    BY <1>2, <2>6 DEF Verify, TurnInv
  <2>7. CASE \E label \in Accepted \ {"verify"} : Goto(r, label)
    <3>1. pc'[r] \in Accepted \ {"verify"}
      BY <2>7, GotoFrame
    <3> QED
      BY <3>1 DEF Accepted, BeforeCall
  <2>8. "dropOption" \in Accepted \ {"verify"} /\ Fulfilling \subseteq Accepted \ {"verify"}
    BY DEF Accepted, Fulfilling
  <2>9. CASE Verify(r)
    BY <2>3, <2>6, <2>7, <2>8, <2>9 DEF Verify, Fulfilling
  <2>10. CASE RecordPending(r) \/ OnCommit(r) \/ OnCommitFailed(r) \/ MarkDelivery(r)
              \/ OnFulfill(r) \/ FulfillFailed(r) \/ ClearEntry(r) \/ IOFault(r)
    BY <2>3, <2>7, <2>8, <2>10
    DEF RecordPending, OnCommit, OnCommitFailed, MarkDelivery, OnFulfill, FulfillFailed,
        ClearEntry, IOFault, Fulfilling
  <2>11. CASE Enter(r) \/ Gate(r) \/ PreRead(r) \/ ReplyFailed(r) \/ DropOption(r)
    BY <2>3, <2>4, <2>5, <2>11 DEF Enter, Gate, PreRead, ReplyFailed, DropOption
  <2> QED
    BY <2>1, <2>2, <2>9, <2>10, <2>11 DEF HandlerStep, OwnStep
<1>5. called' \subseteq Requests /\ landed \subseteq Requests /\ Now' = Now
  BY <1>2 DEF Inv, TypeOK, Now
<1> QED
  BY <1>1, <1>2, <1>3, <1>4, <1>5 DEF TurnInv

LEMMA ArriveTurn ==
  ASSUME Inv, TurnInv, NEW r \in Requests, NEW input, Arrive(r, input) PROVE TurnInv'
<1> USE DEF chainVars, handlerVars, relayVars, storeVars, channelVars,
            operatorVars, envVars
<1>1. /\ pc[r] = "idle" /\ pc'[r] = "queued" /\ \A s \in Requests \ {r} : pc'[s] = pc[s]
      /\ \A s \in Requests \ {r} : req'[s] = req[s]
      /\ UNCHANGED <<history, called, landed, answer>>
  BY GotoFrame DEF Arrive, Inv, TypeOK
<1>2. r \notin called /\ r \notin landed
  BY <1>1 DEF TurnInv, BeforeCall, Inv, TypeOK
<1>3. called \subseteq Requests /\ landed \subseteq Requests
  BY DEF Inv, TypeOK
<1> QED
  BY <1>1, <1>2, <1>3 DEF TurnInv, Now

LEMMA LandTurn ==
  ASSUME Inv, TurnInv, "lostAnswer" \notin Environment, NEW r \in Requests, Land(r)
  PROVE  TurnInv'
<1> USE DEF handlerVars
<1>1. /\ pc[r] = "await" /\ landed' = landed \cup {r}
      /\ UNCHANGED <<pc, req, answer, called>> /\ Execute(req[r].action)
  BY DEF Land, TurnInv
<1>2. req[r].action \in POST_COMMIT_ACTION_IDS
  BY InputActions DEF Inv, TypeOK
<1>3. Now' = ACTION_POST_STATE[req[r].action]
  BY <1>1, <1>2, ExecuteType DEF Inv, TypeOK
<1>4. ASSUME NEW s \in Requests, pc[s] \in {"await", "verify"} PROVE s = r
  BY <1>1, <1>4 DEF Inv, MutexInv, Running, InFlight, AwaitingIO
<1>5. landed' \subseteq Requests
  BY <1>1 DEF Inv, TypeOK
<1> QED
  BY <1>1, <1>3, <1>4, <1>5 DEF TurnInv

LEMMA TurnStep ==
  ASSUME {"elsewhere", "lostAnswer", "crash"} \cap Environment = {}, Inv, TurnInv, [Next]_vars
  PROVE  TurnInv'
<1> USE DEF chainVars, handlerVars, relayVars, storeVars, channelVars,
            operatorVars, envVars
<1>1. ASSUME NEW r \in Requests, NEW input, Arrive(r, input) PROVE TurnInv'
  BY <1>1, ArriveTurn
<1>2. ASSUME NEW r \in Requests, HandlerStep(r) \/ IOFault(r) PROVE TurnInv'
  BY <1>2, HandlerTurn
<1>3. ASSUME NEW r \in Requests, Land(r) PROVE TurnInv'
  BY <1>3, LandTurn
<1>4. CASE \/ \E p \in Replays : ReplayStart(p) \/ ReplayStep(p) \/ ReplayIOFault(p)
           \/ ReaderCatchesUp \/ UNCHANGED vars
  <2>1. UNCHANGED <<history, called, landed, req, pc, answer>>
    BY <1>4 DEF ReplayStart, ReplayStep, ReplayOnCommit, ReplayOnFulfill, ReplayClear,
       ReplayFail, ReplayIOFault, ReaderCatchesUp, Index, vars
  <2> QED
    BY <2>1, QuietTurn
<1>5. ~Crash /\ \A a \in POST_COMMIT_ACTION_IDS : ~Elsewhere(a)
  BY DEF Crash, Elsewhere
<1> QED
  BY <1>1, <1>2, <1>3, <1>4, <1>5 DEF Next, Requests

(* The state a handler is verifying cannot be overtaken by another         *)
(* handler's action, for any number of requests and with rejecting stores, *)
(* replays at any time and channels of any kind: it only takes that the    *)
(* process lives and that the relay's answers are final (concurrency.ts).  *)
THEOREM MutexKeepsTurns ==
  ASSUME {"elsewhere", "lostAnswer", "crash"} \cap Environment = {}
  PROVE  Spec => []NeverOvertaken
<1>1. Init => Inv /\ TurnInv
  <2> SUFFICES ASSUME Init PROVE TurnInv
    BY InitTypes
  <2> QED
    BY DEF Init, TurnInv
<1>2. Inv /\ TurnInv /\ [Next]_vars => Inv' /\ TurnInv'
  BY StepTypes, TurnStep
<1>3. TurnInv => NeverOvertaken
  BY DEF TurnInv, NeverOvertaken
<1> QED
  BY <1>1, <1>2, <1>3, PTL DEF Spec

-----------------------------------------------------------------------------
(* One dispatch: once the resource has been sent, whoever sent it is on    *)
(* the way to deleting the entry, and only an entry leads to a dispatch.   *)
Steady == ReplaysWait /\ {"crash", "ioFault", "ambiguousFailure"} \cap Environment = {}

SentInv ==
  /\ \A p, q \in Replays :
       rpc[p] \in ReplayInFlight /\ rpc[q] \in ReplayInFlight => p = q
  /\ dispatches # 0 =>
       /\ dispatches = 1
       /\ \E r \in landed \cap Redeems : pc[r] \in {"clearDelivered", "dropOption", "done"}
       /\ recovery # NoEntry => \/ \E r \in Redeems : pc[r] = "clearDelivered"
                                \/ \E p \in Replays : rpc[p] = "clear"
       /\ \A p \in Replays : rpc[p] \notin ReplayInFlight \ {"clear"}

LEMMA AcceptedLanded ==
  ASSUME OrderInv, NEW r \in Redeems, pc[r] \in Accepted
  PROVE  r \in landed /\ \A s \in landed \cap Redeems : s = r
BY DEF OrderInv, DataInv, HolderInv, LandingInv, DataHolders

LEMMA HandlerSent ==
  ASSUME Steady, OrderInv, SentInv, NEW r \in Requests, HandlerStep(r) PROVE SentInv'
<1> USE DEF chainVars, handlerVars, relayVars, storeVars, channelVars,
            operatorVars, envVars
<1>1. /\ \A s \in Requests \ {r} : pc'[s] = pc[s]
      /\ UNCHANGED <<rpc, rentry>> /\ pc[r] \in InFlight
      /\ pc[r] \in Fulfilling \/ UNCHANGED <<recovery, target>>
  BY HandlerLeaves DEF OrderInv
<1>2. UNCHANGED landed
  BY DEF HandlerStep, OwnStep, Enter, Gate, PreRead, CallFacilitator, ReplyAccepted, ReplyFailed,
     Verify, RecordPending, OnCommit, OnCommitFailed, MarkDelivery, OnFulfill, FulfillFailed,
     ClearEntry, DropOption, SetRecovery
<1>3. \/ UNCHANGED dispatches
      \/ /\ pc[r] = "onFulfill" /\ dispatches' = dispatches + 1
         /\ Goto(r, "clearDelivered")
  BY DEF Steady, HandlerStep, OwnStep, Enter, Gate, PreRead, CallFacilitator, ReplyAccepted,
     ReplyFailed, Verify, RecordPending, OnCommit, OnCommitFailed, MarkDelivery, OnFulfill,
     FulfillFailed, ClearEntry, DropOption, SetRecovery, Dispatch, DispatchFails
<1>4. pc[r] \in Fulfilling => r \in Redeems /\ pc[r] \in Accepted
  BY DEF OrderInv, Inv, RouteInv, Fulfilling, Accepted
<1>5. CASE dispatches = 0 /\ UNCHANGED dispatches
  BY <1>1, <1>5 DEF SentInv
<1>6. CASE dispatches # 0
  <2>1. PICK s \in landed \cap Redeems : pc[s] \in {"clearDelivered", "dropOption", "done"}
    BY <1>6 DEF SentInv
  <2>2. pc[r] \in Fulfilling => s = r /\ pc[r] = "clearDelivered"
    BY <1>4, <2>1, AcceptedLanded DEF Fulfilling
  <2>3. UNCHANGED dispatches
    BY <1>3, <2>2 DEF Fulfilling
  <2>4. pc[r] = "clearDelivered" => ClearEntry(r)
    BY DEF HandlerStep, OwnStep, Enter, Gate, PreRead, CallFacilitator, ReplyAccepted, ReplyFailed,
       Verify, RecordPending, OnCommit, OnCommitFailed, MarkDelivery, OnFulfill,
       FulfillFailed, DropOption
  <2>5. CASE pc[r] = "clearDelivered"
    <3>1. recovery' = NoEntry /\ pc'[r] = "dropOption" /\ s = r
      BY <2>2, <2>4, <2>5, GotoFrame DEF ClearEntry, OrderInv, Fulfilling
    <3> QED
      BY <1>1, <1>2, <1>6, <2>1, <2>3, <3>1 DEF SentInv
  <2>6. CASE pc[r] # "clearDelivered"
    <3>1. UNCHANGED recovery
      BY <1>1, <2>2, <2>6
    <3>2. pc'[s] \in {"clearDelivered", "dropOption", "done"}
      <4>1. CASE s # r
        BY <1>1, <2>1, <4>1 DEF Requests
      <4>2. CASE s = r
        <5>1. pc[r] = "dropOption"
          BY <1>1, <2>1, <2>6, <4>2 DEF InFlight, AwaitingIO
        <5>2. DropOption(r)
          BY <5>1 DEF HandlerStep, OwnStep, Enter, Gate, PreRead, CallFacilitator, ReplyAccepted,
             ReplyFailed, Verify, RecordPending, OnCommit, OnCommitFailed, MarkDelivery,
             OnFulfill, FulfillFailed, ClearEntry
        <5> QED
          BY <4>2, <5>2, AnswerFrame DEF DropOption, OrderInv
      <4> QED
        BY <4>1, <4>2
    <3>3. \A q \in Redeems : pc[q] = "clearDelivered" => pc'[q] = "clearDelivered"
      BY <1>1, <2>6 DEF Requests
    <3> QED
      BY <1>1, <1>2, <1>6, <2>1, <2>3, <3>1, <3>2, <3>3 DEF SentInv
  <2> QED
    BY <2>5, <2>6
<1>7. CASE /\ dispatches = 0 /\ pc[r] = "onFulfill" /\ dispatches' = dispatches + 1
           /\ Goto(r, "clearDelivered")
  <2>1. r \in Redeems /\ r \in landed /\ \A p \in Replays : rpc[p] \notin ReplayInFlight
    BY <1>4, <1>7, AcceptedLanded, Alone DEF Fulfilling
  <2>2. pc'[r] = "clearDelivered" /\ dispatches' = 1
    BY <1>7, GotoFrame DEF OrderInv
  <2> QED
    BY <1>1, <1>2, <2>1, <2>2 DEF SentInv
<1> QED
  BY <1>3, <1>5, <1>6, <1>7

LEMMA ReplaySent ==
  ASSUME Steady, OrderInv, SentInv, NEW p \in Replays, ReplayStart(p) \/ ReplayStep(p)
  PROVE  SentInv'
<1> USE DEF chainVars, handlerVars, relayVars, storeVars, channelVars, envVars
<1>1. /\ UNCHANGED <<pc, landed>>
      /\ \A q \in Replays \ {p} : rpc'[q] = rpc[q]
  BY DEF ReplayStart, ReplayStep, ReplayOnCommit, ReplayOnFulfill, ReplayClear, ReplayFail,
     RGoto, OrderInv, Inv, TypeOK
<1>2. CASE ReplayStart(p)
  <2>1. \A q \in Replays : rpc'[q] \in ReplayInFlight => q = p
    BY <1>2, ReplayStartEntry DEF Steady
  <2>2. UNCHANGED <<dispatches, recovery>> /\ Quiet
    BY <1>2 DEF ReplayStart, Steady, ReplaysWait
  <2>3. ASSUME dispatches # 0 PROVE recovery = NoEntry /\ rpc'[p] = "failed"
    <3>1. "clearDelivered" \in InFlight /\ "clear" \in ReplayInFlight
      BY DEF InFlight, ReplayInFlight
    <3>2. recovery = NoEntry
      BY <2>2, <2>3, <3>1 DEF SentInv, Quiet, Requests
    <3> QED
      BY <1>2, <3>2 DEF ReplayStart, RGoto, OrderInv, Inv, TypeOK
  <2>4. "failed" \notin ReplayInFlight
    BY DEF ReplayInFlight
  <2> QED
    BY <1>1, <2>1, <2>2, <2>3, <2>4 DEF SentInv
<1>3. CASE ReplayStep(p)
  <2>1. rpc[p] \in ReplayInFlight
    BY <1>3 DEF ReplayStep, ReplayOnCommit, ReplayOnFulfill, ReplayClear, ReplayFail,
       ReplayInFlight
  <2>2. \A q \in Replays \ {p} : rpc'[q] \notin ReplayInFlight
    BY <1>1, <2>1 DEF SentInv
  <2>3. CASE dispatches # 0
    <3>1. ReplayClear(p)
      BY <1>3, <2>1, <2>3
      DEF SentInv, ReplayStep, ReplayOnCommit, ReplayOnFulfill, ReplayFail, ReplayInFlight
    <3>2. recovery' = NoEntry /\ rpc'[p] = "ok" /\ UNCHANGED dispatches
      BY <3>1 DEF ReplayClear, RGoto, OrderInv, Inv, TypeOK
    <3> QED
      BY <1>1, <2>2, <2>3, <3>2 DEF SentInv, ReplayInFlight
  <2>4. CASE dispatches = 0 /\ UNCHANGED dispatches
    BY <2>2, <2>4 DEF SentInv
  <2>5. CASE /\ dispatches = 0 /\ dispatches' = dispatches + 1 /\ RGoto(p, "clear")
             /\ UNCHANGED recovery
    <3>1. rpc'[p] = "clear" /\ dispatches' = 1
      BY <2>5 DEF RGoto, OrderInv, Inv, TypeOK
    <3>2. /\ rentry[p] \in RecoveryEntry /\ rentry[p].from \in Redeems
          /\ pc[rentry[p].from] = "done"
      BY <2>1, ReplayAlone
    <3>3. rentry[p].from \in landed
      BY <3>2, RequestsAssumption DEF OrderInv, DataInv, HolderInv, DataHolders
    <3> QED
      BY <1>1, <2>2, <3>1, <3>2, <3>3 DEF SentInv
  <2>6. \/ UNCHANGED dispatches
        \/ dispatches' = dispatches + 1 /\ RGoto(p, "clear") /\ UNCHANGED recovery
    BY <1>3 DEF Steady, ReplayStep, ReplayOnCommit, ReplayOnFulfill, ReplayClear, ReplayFail,
       Dispatch, DispatchFails
  <2> QED
    BY <2>3, <2>4, <2>5, <2>6
<1> QED
  BY <1>2, <1>3

LEMMA SentStep == ASSUME Steady, OrderInv, SentInv, [Next]_vars PROVE SentInv'
<1> USE DEF chainVars, handlerVars, relayVars, storeVars, channelVars,
            operatorVars, envVars
<1>1. ASSUME NEW r \in Requests, HandlerStep(r) PROVE SentInv'
  BY <1>1, HandlerSent
<1>2. ASSUME NEW p \in Replays, ReplayStart(p) \/ ReplayStep(p) PROVE SentInv'
  BY <1>2, ReplaySent
<1>3. ASSUME NEW r \in Requests, NEW input, Arrive(r, input) PROVE SentInv'
  <2>1. /\ pc[r] = "idle" /\ \A s \in Requests \ {r} : pc'[s] = pc[s]
        /\ UNCHANGED <<dispatches, landed, recovery, rpc>>
    BY <1>3, GotoFrame DEF Arrive, OrderInv, Inv
  <2>2. \A s \in Redeems : pc[s] \in {"clearDelivered", "dropOption", "done"} => pc'[s] = pc[s]
    BY <2>1 DEF Requests
  <2> QED
    BY <2>1, <2>2 DEF SentInv
<1>4. CASE \/ \E r \in Requests : Land(r)
           \/ \E a \in POST_COMMIT_ACTION_IDS : Elsewhere(a)
           \/ ReaderCatchesUp
           \/ UNCHANGED vars
  <2>1. UNCHANGED <<pc, rpc, dispatches, recovery>> /\ landed \subseteq landed'
    BY <1>4 DEF Land, Elsewhere, ReaderCatchesUp, vars
  <2> QED
    BY <2>1 DEF SentInv
<1>5. /\ ~Crash
      /\ \A r \in Requests : ~IOFault(r)
      /\ \A p \in Replays : ~ReplayIOFault(p)
  BY DEF Steady, Crash, IOFault, ReplayIOFault
<1> QED
  BY <1>1, <1>2, <1>3, <1>4, <1>5 DEF Next, Requests

(* No buyer is sent the resource twice, by a handler, a replay or both, as *)
(* long as nothing fails half-way and operators replay between requests:   *)
(* for any number of redeems and replays, and with lost answers and        *)
(* actions elsewhere (handleRedeem, createFulfillmentRecovery).            *)
THEOREM SentOnce == ASSUME Steady PROVE Spec => []DispatchedOnce
<1>0. ReplaysWait
  BY DEF Steady
<1>1. Init => SentInv
  BY DEF Init, SentInv, ReplayInFlight
<1>2. OrderInv /\ SentInv /\ [Next]_vars => SentInv'
  BY SentStep
<1>3. SentInv => DispatchedOnce
  <2> SUFFICES ASSUME SentInv PROVE dispatches <= 1
    BY DEF DispatchedOnce
  <2>1. dispatches = 0 \/ dispatches = 1
    BY DEF SentInv
  <2> QED
    BY <2>1
<1> QED
  BY <1>0, <1>1, <1>2, <1>3, AlwaysOrder, PTL DEF Spec

-----------------------------------------------------------------------------
(* The server forgets what the relay told a handler as soon as it has      *)
(* answered: a bad result and a failed verification are both a 502. told   *)
(* is a history variable that remembers it; no action depends on it.       *)
VARIABLE told

HearsOk(r) == pc[r] = "await" /\ pc'[r] = "verify"

HearsFailure(r) ==
  /\ pc[r] = "await" /\ pc'[r] = "done"
  /\ answer'[r].status = "gateway"

Hear ==
  told' = [r \in Requests |-> IF HearsOk(r) THEN "ok"
                              ELSE IF HearsFailure(r) THEN "threw" ELSE told[r]]

ToldSpec ==
  /\ Init /\ told = [r \in Requests |-> "none"]
  /\ [][Next /\ Hear]_<<vars, told>>

(* Every request carries a meta-transaction of its own.                    *)
LandedBy == [r \in Requests |-> IF r \in landed THEN r ELSE NoOne]

Contract ==
  INSTANCE RelayContract WITH
    Calls     <- Requests,
    Payloads  <- Requests,
    PayloadOf <- [r \in Requests |-> r],
    NoCall    <- NoOne,
    landedBy  <- LandedBy,
    reply     <- told

ContractVars == <<called, LandedBy, told>>

(* A handler calls the facilitator once, and is told nothing until then.   *)
CallInv ==
  /\ told \in [Requests -> {"none", "ok", "threw"}]
  /\ \A r \in Requests : pc[r] \in BeforeCall => r \notin called
  /\ \A r \in Requests : pc[r] = "await" => r \in called
  /\ \A r \in Requests : pc[r] \in BeforeCall \cup {"await"} => told[r] = "none"

(* A step in which no handler calls the facilitator or hears from it.      *)
LEMMA NothingHeard ==
  ASSUME CallInv, Hear, UNCHANGED relayVars,
         \A r \in Requests :
           \/ pc'[r] = pc[r]
           \/ pc[r] \in BeforeCall /\ pc'[r] \in BeforeCall
           \/ /\ pc'[r] \notin BeforeCall \cup {"await"}
              /\ ~HearsOk(r) /\ ~HearsFailure(r)
  PROVE  CallInv' /\ UNCHANGED ContractVars
<1>1. \A r \in Requests : ~HearsOk(r) /\ ~HearsFailure(r)
  BY DEF HearsOk, HearsFailure, BeforeCall
<1>2. told' = told
  BY <1>1 DEF Hear, CallInv
<1>3. "await" \notin BeforeCall
  BY DEF BeforeCall
<1>4. called' = called /\ landed' = landed
  BY DEF relayVars
<1> QED
  BY <1>2, <1>3, <1>4 DEF CallInv, ContractVars, LandedBy

(* Of the handler's steps, only these three are steps of the contract.     *)
LEMMA HandlerKeepsContract ==
  ASSUME Inv, CallInv, NEW r \in Requests, HandlerStep(r) \/ IOFault(r), Hear
  PROVE  /\ CallInv'
         /\ \/ Contract!Call(r) \/ Contract!Accept(r) \/ Contract!Fail(r)
            \/ UNCHANGED ContractVars
<1>a. \A s \in Requests \ {r} : pc'[s] = pc[s]
  BY HandlerFrame
<1>b. /\ told \in [Requests -> {"none", "ok", "threw"}]
      /\ called \subseteq Requests /\ landed \subseteq called
      /\ NoOne \notin Requests
  BY RequestsAssumption DEF CallInv, Inv, TypeOK
<1>c. \A s \in Requests \ {r} : told'[s] = told[s]
  BY <1>a DEF Hear, HearsOk, HearsFailure
<1>1. CASE CallFacilitator(r)
  <2>1. /\ pc[r] = "call" /\ pc'[r] = "await"
        /\ called' = called \cup {r} /\ landed' = landed
    BY <1>1, GotoFrame DEF CallFacilitator
  <2>2. told'[r] = told[r]
    BY <2>1 DEF Hear, HearsOk, HearsFailure
  <2>3. told' = told
    BY <1>b, <1>c, <2>2 DEF Hear
  <2>4. r \notin called /\ told[r] = "none"
    BY <2>1 DEF CallInv, BeforeCall
  <2>5. CallInv'
    BY <1>a, <2>1, <2>3, <2>4 DEF CallInv, BeforeCall
  <2>6. LandedBy' = LandedBy
    BY <2>1 DEF LandedBy
  <2>7. Contract!Call(r)
    BY <2>1, <2>3, <2>4, <2>6 DEF Contract!Call
  <2> QED BY <2>5, <2>7
<1>2. CASE ReplyAccepted(r)
  <2>1. pc[r] = "await" /\ pc'[r] = "verify" /\ r \in landed /\ UNCHANGED relayVars
    BY <1>2, GotoFrame DEF ReplyAccepted, FacilitatorAccepted
  <2>2. r \in called /\ told[r] = "none" /\ LandedBy[r] = r
    BY <2>1 DEF CallInv, LandedBy
  <2>3. told' = [told EXCEPT ![r] = "ok"]
    BY <1>a, <1>b, <2>1 DEF Hear, HearsOk, HearsFailure
  <2>4. CallInv'
    BY <1>a, <1>b, <2>1, <2>3 DEF CallInv, relayVars, BeforeCall
  <2>5. called' = called /\ LandedBy' = LandedBy
    BY <2>1 DEF relayVars, LandedBy
  <2>6. Contract!Accept(r)
    BY <2>2, <2>3, <2>5 DEF Contract!Accept
  <2> QED BY <2>4, <2>6
<1>3. CASE ReplyFailed(r)
  <2>1. /\ pc[r] = "await" /\ pc'[r] = "done" /\ answer'[r].status = "gateway"
        /\ UNCHANGED relayVars
    BY <1>3, AnswerFrame DEF ReplyFailed
  <2>2. r \in called /\ told[r] = "none"
    BY <2>1 DEF CallInv
  <2>3. told' = [told EXCEPT ![r] = "threw"]
    BY <1>a, <1>b, <2>1 DEF Hear, HearsOk, HearsFailure
  <2>4. CallInv'
    BY <1>a, <1>b, <2>1, <2>3 DEF CallInv, relayVars, BeforeCall
  <2>5. called' = called /\ LandedBy' = LandedBy
    BY <2>1 DEF relayVars, LandedBy
  <2>6. Contract!Fail(r)
    BY <2>2, <2>3, <2>5 DEF Contract!Fail
  <2> QED BY <2>4, <2>6
<1>4. CASE /\ ~CallFacilitator(r) /\ ~ReplyAccepted(r) /\ ~ReplyFailed(r)
  <2>1. /\ UNCHANGED relayVars
        /\ \/ pc'[r] = pc[r]
           \/ pc[r] \in BeforeCall /\ pc'[r] \in BeforeCall
           \/ pc[r] # "await" /\ pc'[r] \notin BeforeCall \cup {"await"}
    <3> USE AnswerFrame, GotoFrame DEF BeforeCall
    <3>1. CASE Enter(r) \/ Gate(r) \/ PreRead(r)
      BY <3>1 DEF Enter, Gate, PreRead
    <3>2. CASE Verify(r)
      BY <3>2 DEF Verify
    <3>3. CASE RecordPending(r) \/ OnCommitFailed(r) \/ MarkDelivery(r) \/ FulfillFailed(r)
      <4>1. PICK label \in {"onCommit", "dropOption", "onFulfill"} : Goto(r, label)
        BY <3>3 DEF RecordPending, OnCommitFailed, MarkDelivery, FulfillFailed
      <4>2. pc[r] # "await" /\ UNCHANGED relayVars
        BY <3>3 DEF RecordPending, OnCommitFailed, MarkDelivery, FulfillFailed, SetRecovery
      <4> QED BY <4>1, <4>2
    <3>4. CASE OnCommit(r)
      <4>1. PICK label \in {"markDelivery", "clear", "onCommitFailed"} : Goto(r, label)
        BY <3>4 DEF OnCommit
      <4> QED BY <3>4, <4>1 DEF OnCommit
    <3>5. CASE OnFulfill(r)
      <4>1. PICK label \in {"clearDelivered", "fulfillFailed"} : Goto(r, label)
        BY <3>5 DEF OnFulfill
      <4> QED BY <3>5, <4>1 DEF OnFulfill
    <3>6. CASE ClearEntry(r) \/ DropOption(r)
      BY <3>6 DEF ClearEntry, DropOption
    <3>7. CASE IOFault(r)
      BY <3>7 DEF IOFault, AwaitingIO
    <3> QED
      BY <1>4, <3>1, <3>2, <3>3, <3>4, <3>5, <3>6, <3>7 DEF HandlerStep, OwnStep
  <2>2. pc[r] # "await" => ~HearsOk(r) /\ ~HearsFailure(r)
    BY DEF HearsOk, HearsFailure
  <2> QED
    BY <1>a, <2>1, <2>2, NothingHeard
<1> QED BY <1>1, <1>2, <1>3, <1>4

(* The contract executes a request's meta-transaction once.                *)
LEMMA LandKeepsContract ==
  ASSUME Inv, CallInv, NEW r \in Requests, Land(r), Hear
  PROVE  CallInv' /\ Contract!Land(r)
<1>1. /\ r \in called /\ r \notin landed
      /\ pc' = pc /\ called' = called /\ landed' = landed \cup {r}
  BY DEF Land, handlerVars
<1>2. told' = told
  BY <1>1 DEF Hear, HearsOk, HearsFailure, CallInv
<1>3. CallInv'
  BY <1>1, <1>2 DEF CallInv
<1>4. /\ LandedBy[r] = NoOne
      /\ LandedBy' = [LandedBy EXCEPT ![r] = r]
  BY <1>1 DEF LandedBy
<1> QED
  BY <1>1, <1>2, <1>3, <1>4 DEF Contract!Land

LEMMA StepKeepsContract ==
  ASSUME Inv, CallInv, [Next /\ Hear]_<<vars, told>>
  PROVE  CallInv' /\ [Contract!Next]_(Contract!vars)
<1>1. CASE UNCHANGED <<vars, told>>
  BY <1>1 DEF vars, handlerVars, relayVars, CallInv, Contract!vars, LandedBy
<1>a. ASSUME Hear, UNCHANGED relayVars,
             \A r \in Requests :
               \/ pc'[r] = pc[r]
               \/ pc[r] \in BeforeCall /\ pc'[r] \in BeforeCall
               \/ /\ pc'[r] \notin BeforeCall \cup {"await"}
                  /\ ~HearsOk(r) /\ ~HearsFailure(r)
      PROVE  CallInv' /\ [Contract!Next]_(Contract!vars)
  BY <1>a, NothingHeard DEF ContractVars, Contract!vars
<1>2. ASSUME Hear, NEW r \in Requests, NEW input, Arrive(r, input)
      PROVE  CallInv' /\ [Contract!Next]_(Contract!vars)
  <2>1. /\ UNCHANGED relayVars /\ pc[r] = "idle" /\ pc'[r] = "queued"
        /\ \A s \in Requests \ {r} : pc'[s] = pc[s]
    BY <1>2, GotoFrame DEF Arrive
  <2> QED
    BY <1>2, <1>a, <2>1 DEF BeforeCall
<1>3. ASSUME Hear, NEW r \in Requests, HandlerStep(r) \/ IOFault(r)
      PROVE  CallInv' /\ [Contract!Next]_(Contract!vars)
  BY <1>3, HandlerKeepsContract DEF Contract!Next, ContractVars, Contract!vars
<1>4. ASSUME Hear, NEW r \in Requests, Land(r)
      PROVE  CallInv' /\ [Contract!Next]_(Contract!vars)
  BY <1>4, LandKeepsContract DEF Contract!Next
<1>5. ASSUME Hear, UNCHANGED <<pc, relayVars>>
      PROVE  CallInv' /\ [Contract!Next]_(Contract!vars)
  BY <1>5, <1>a
<1>6. ASSUME NEW p \in Replays, ReplayStart(p) \/ ReplayStep(p) \/ ReplayIOFault(p)
      PROVE  UNCHANGED <<pc, relayVars>>
  BY <1>6 DEF ReplayStart, ReplayStep, ReplayOnCommit, ReplayOnFulfill, ReplayClear,
     ReplayFail, ReplayIOFault, handlerVars
<1>7. ASSUME Hear, Crash
      PROVE  CallInv' /\ [Contract!Next]_(Contract!vars)
  <2>1. ASSUME NEW r \in Requests
        PROVE  \/ pc'[r] = pc[r]
               \/ /\ pc'[r] \notin BeforeCall \cup {"await"}
                  /\ ~HearsOk(r) /\ ~HearsFailure(r)
    <3>1. CASE pc[r] \in InFlight
      <4>1. pc'[r] = "done" /\ answer'[r] = [answer[r] EXCEPT !.status = "lost"]
        BY <1>7, <3>1 DEF Crash
      <4>2. answer'[r].status = "lost"
        BY <4>1 DEF Inv, TypeOK, Answers
      <4> QED
        BY <4>1, <4>2 DEF BeforeCall, HearsOk, HearsFailure
    <3>2. CASE pc[r] \notin InFlight
      BY <1>7, <3>2 DEF Crash
    <3> QED BY <3>1, <3>2
  <2>2. UNCHANGED relayVars
    BY <1>7 DEF Crash
  <2> QED
    BY <1>7, <1>a, <2>1, <2>2
<1>8. ASSUME (\E a \in POST_COMMIT_ACTION_IDS : Elsewhere(a)) \/ ReaderCatchesUp
      PROVE  UNCHANGED <<pc, relayVars>>
  BY <1>8 DEF Elsewhere, ReaderCatchesUp, handlerVars
<1> QED
  BY <1>1, <1>2, <1>3, <1>4, <1>5, <1>6, <1>7, <1>8 DEF Next, Requests

(* The relay inside the server keeps what module Relay proves of the real  *)
(* one: with told recording what each handler hears, every step is a step  *)
(* of RelayContract. A meta-transaction is sent once and lands at most     *)
(* once, and only a landed one is ever heard ok, through crashes and lost  *)
(* answers (FacilitatorClient.performAction as the handlers call it).      *)
THEOREM ServerKeepsRelayContract == ToldSpec => Contract!Spec
<1>1. Init /\ told = [r \in Requests |-> "none"]
        => Inv /\ CallInv /\ Contract!Init
  <2>1. SUFFICES ASSUME Init, told = [r \in Requests |-> "none"]
                 PROVE  Inv /\ CallInv /\ Contract!Init
    OBVIOUS
  <2>2. CallInv
    BY <2>1 DEF Init, CallInv
  <2>3. Contract!Init
    BY <2>1 DEF Init, LandedBy, Contract!Init
  <2> QED BY <2>1, <2>2, <2>3, InitTypes
<1>2. Inv /\ CallInv /\ [Next /\ Hear]_<<vars, told>>
        => (Inv /\ CallInv)' /\ [Contract!Next]_(Contract!vars)
  <2>1. SUFFICES ASSUME Inv, CallInv, [Next /\ Hear]_<<vars, told>>
                 PROVE  (Inv /\ CallInv)' /\ [Contract!Next]_(Contract!vars)
    OBVIOUS
  <2>2. [Next]_vars
    BY <2>1
  <2> QED BY <2>1, <2>2, StepTypes, StepKeepsContract
<1> QED
  BY <1>1, <1>2, PTL DEF ToldSpec, Contract!Spec
=============================================================================
