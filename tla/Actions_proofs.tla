---------------------------- MODULE Actions_proofs ----------------------------
(***************************************************************************)
(* The signed actions after the commit, for any attempts, accounts, tokens *)
(* and balances: an answer speaks of its own attempt's execution, on the   *)
(* account it names, and what "withdraw all" has shown is withdrawn. An    *)
(* attempt is tied to the chain by the meta-transaction it has signed:     *)
(* whoever relays it, and however late, the contract executes that call.   *)
(***************************************************************************)
EXTENDS Actions, TLAPS, FiniteSetTheorems, SequenceTheorems

(* The call that is simulated and the one that is sent are the same record *)
(* for every request that performAction takes: both builders put the       *)
(* token authorization first, as no action after the commit has a slot     *)
(* before the buyer's.                                                     *)
LEMMA SimulatedIsSent ==
  ASSUME NEW r, NEW config, NEW time, performActionAccepts(r, config, time)
  PROVE  simulateExecuteMetaTransaction(r) = executeMetaTransaction(r)
<1>1. r.action \notin COMMIT_ACTION_IDS
  BY DEF performActionAccepts, validatePerformActionMetaTx, validatePerformEntityActionMetaTx,
         validatePerformExchangeActionMetaTx, COMMIT_ACTION_IDS, POST_COMMIT_ACTION_IDS,
         ENTITY_ACTION_IDS
<1> DEFINE entry == encodeAuthEntry(r.tokenAuth)
<1>2. bosonTokenAuthToTransferAuthorization(r.tokenAuth) = entry
  BY DEF bosonTokenAuthToTransferAuthorization, encodeAuthEntry
<1>3. buildBpip12Queue(r.action, r.tokenAuth) = <<entry>>
  <2>1. buildBpip12Queue(r.action, r.tokenAuth) = Append(<<>>, entry)
    <3>1. [i \in 1 .. preBuyerSkipSlots(r.action) |-> EmptySlot] = <<>>
      BY <1>1 DEF preBuyerSkipSlots
    <3>2. QED
      BY <3>1 DEF buildBpip12Queue
  <2> HIDE DEF entry
  <2>2. /\ <<>> \in Seq({entry}) /\ Append(<<>>, entry) \in Seq({entry})
        /\ <<entry>> \in Seq({entry}) /\ Len(<<entry>>) = 1 /\ <<entry>>[1] = entry
    OBVIOUS
  <2>3. Len(Append(<<>>, entry)) = 1 /\ Append(<<>>, entry)[1] = entry
    BY <2>2, AppendProperties
  <2>4. QED
    BY <2>1, <2>2, <2>3, SeqEqual
<1> HIDE DEF entry
<1>4. CASE r.strategy = "none"
  BY <1>4 DEF simulateExecuteMetaTransaction, executeMetaTransaction, buildSettleCalldata
<1>5. CASE r.strategy # "none"
  <2>1. <<entry>> # <<>>
    OBVIOUS
  <2>2. QED
    BY <1>2, <1>3, <1>5, <2>1
    DEF simulateExecuteMetaTransaction, executeMetaTransaction, buildSettleCalldata,
        buildBpip12Calldata
<1>6. QED
  BY <1>4, <1>5

(* The relayer sends the call it has simulated, whatever the request.      *)
THEOREM SendsTheSimulated == Spec => []SubmitsWhatItSimulated
<1>1. SubmitsWhatItSimulated
  BY SimulatedIsSent DEF SubmitsWhatItSimulated
<1>2. QED
  BY <1>1, PTL

-----------------------------------------------------------------------------
Ids == {m.id : m \in setup.entities \cup setup.joins}

Fields == {"stage", "target", "knew", "shown", "signed", "request", "checked", "status", "entity"}

(* The chain and the subgraph.                                             *)
WorldOK ==
  /\ setup \in Setups /\ exchange \in ClientState /\ now \in 2 .. setup.end
  /\ entities \subseteq setup.entities \cup setup.joins /\ seen.entities \subseteq entities
  /\ funds \in [Ids -> [Tokens -> 0 .. MaxFunds]]
  /\ seen.funds \in [Ids -> [Tokens -> 0 .. MaxFunds]]
  /\ paid \in [Ids -> [Tokens -> Nat]]

RunsOK ==
  /\ DOMAIN run = Attempts /\ \A a \in Attempts : DOMAIN run[a] = Fields
  /\ called \subseteq Attempts /\ landedBy \in [Attempts -> Attempts \cup {NoAttempt}]

(* The amounts that are signed: those shown, with or without their zeros.  *)
Amounts(shown) == {shown, nonZero(shown)}

(* What an attempt has signed is over the balances it was shown.           *)
SignedOK(a) ==
  /\ run[a].stage \in {"resolved", "asked", "shown"} => IsWithdrawal /\ run[a].target \in Ids
  /\ run[a].stage = "shown" => run[a].shown \in [Tokens -> Nat]
  /\ run[a].signed = {} \/ \E s : run[a].signed = {s}
  /\ \A s \in run[a].signed :
       LET call == s.metaTx.functionSignature
       IN  IF IsWithdrawal
             THEN /\ run[a].target \in Ids /\ run[a].shown \in [Tokens -> Nat]
                  /\ \E amounts \in Amounts(run[a].shown) :
                       call = WithdrawCalldata(run[a].target, amounts)
             ELSE call.function = FUNCTION_NAME[setup.action]

(* What the facilitator is asked is that call, and it lands as it is.      *)
RequestOK(a) ==
  /\ run[a].request = {} \/ \E r : run[a].request = {r}
  /\ \A r \in run[a].request :
       /\ r.action = setup.action /\ \E s \in run[a].signed : r.metaTx = s.metaTx
       /\ "passed" \in run[a].checked => validatePerformActionMetaTx(r)
       /\ run[a].status = "200" => run[a].entity = r.key
  /\ run[a].checked \subseteq {"passed", "refused"}

(* A stage of its own for every status, and no call before it is signed.   *)
AnswerOK(a) ==
  /\ run[a].stage \in {"idle", "resolved", "asked", "shown", "signed", "called", "done"}
  /\ run[a].status \in {"none", "200", "4xx", "5xx", "threw"}
  /\ run[a].stage # "done" => run[a].status = "none"
  /\ run[a].stage \in {"idle", "resolved", "asked", "shown"} => run[a].signed = {}
  /\ run[a].stage \in {"idle", "resolved", "asked", "shown", "signed"} => run[a].request = {}
  /\ run[a].stage = "signed" => run[a].signed # {}
  /\ a \in called =>
       /\ run[a].stage \in {"called", "done"} /\ run[a].status \in {"none", "200", "4xx", "5xx"}
       /\ run[a].status = "4xx" => setup.route = "facilitator"
  /\ Landed(a) => landedBy[a] = a /\ a \in called /\ "passed" \in run[a].checked
  /\ run[a].status = "200" => Landed(a)
  /\ run[a].checked # {} => a \in called

PaidOut(a) ==
  IsWithdrawal /\ Landed(a) =>
    /\ run[a].signed # {}
    /\ \A t \in Tokens : run[a].shown[t] <= paid[run[a].target][t]

AttemptOK(a) == SignedOK(a) /\ RequestOK(a) /\ AnswerOK(a) /\ PaidOut(a)

Inv == WorldOK /\ RunsOK /\ \A a \in Attempts : AttemptOK(a)

-----------------------------------------------------------------------------
LEMMA InitInv == Init => Inv
<1>1. SUFFICES ASSUME Init PROVE Inv
  OBVIOUS
<1>2. WorldOK
  <2>1. /\ setup \in Setups /\ exchange = setup.exchange /\ now = 2 /\ entities = setup.entities
        /\ seen.entities = entities /\ seen.funds = funds /\ DOMAIN funds = Ids
        /\ funds = [e \in Ids |-> [t \in Tokens |-> IF t \in setup.funded THEN 1 ELSE 0]]
        /\ paid = [e \in Ids |-> [t \in Tokens |-> 0]]
    BY <1>1 DEF Init, Ids
  <2>2. 0 \in 0 .. MaxFunds /\ 1 \in 0 .. MaxFunds /\ 0 \in Nat
    BY ActionsAssumption
  <2>3. now \in 2 .. setup.end /\ exchange \in ClientState
    BY <2>1, ActionsAssumption
  <2>4. QED
    BY <2>1, <2>2, <2>3 DEF WorldOK
<1>3. RunsOK
  BY <1>1 DEF Init, Relay!Init, RunsOK, Fresh, Fields
<1>4. ASSUME NEW a \in Attempts PROVE AttemptOK(a)
  <2>1. run[a] = Fresh /\ called = {} /\ ~Landed(a)
    BY <1>1 DEF Init, Relay!Init, Landed
  <2>2. QED
    BY <2>1 DEF Fresh, AttemptOK, SignedOK, RequestOK, AnswerOK, PaidOut
<1>5. QED
  BY <1>2, <1>3, <1>4 DEF Inv

-----------------------------------------------------------------------------
(* An attempt that a step leaves alone, while payments only add up.        *)
PaidGrows ==
  \A e \in Ids : \A t \in Tokens : paid'[e][t] \in Nat /\ paid[e][t] <= paid'[e][t]

LEMMA LeftAlone ==
  ASSUME Inv, NEW b \in Attempts, setup' = setup, run'[b] = run[b],
         landedBy'[b] = landedBy[b], b \in called' <=> b \in called, PaidGrows
  PROVE  AttemptOK(b)'
<1>1. Ids' = Ids /\ IsWithdrawal' = IsWithdrawal /\ Landed(b)' = Landed(b)
  BY DEF Ids, IsWithdrawal, Landed
<1>2. SignedOK(b)'
  BY <1>1 DEF Inv, AttemptOK, SignedOK
<1>3. RequestOK(b)'
  BY <1>1 DEF Inv, AttemptOK, RequestOK
<1>4. AnswerOK(b)'
  BY <1>1 DEF Inv, AttemptOK, AnswerOK
<1>5. PaidOut(b)'
  <2>0. IsWithdrawal /\ Landed(b) => run[b].signed # {}
    BY DEF Inv, AttemptOK, PaidOut
  <2>1. SUFFICES ASSUME IsWithdrawal, Landed(b), NEW t \in Tokens
                 PROVE  run[b].shown[t] <= paid'[run[b].target][t]
    BY <1>1, <2>0 DEF PaidOut
  <2>2. run[b].signed # {} /\ run[b].shown[t] <= paid[run[b].target][t]
    BY <2>1 DEF Inv, AttemptOK, PaidOut
  <2>3. run[b].target \in Ids /\ run[b].shown[t] \in Nat
    BY <2>1, <2>2 DEF Inv, AttemptOK, SignedOK
  <2>4. /\ paid[run[b].target][t] \in Nat /\ paid'[run[b].target][t] \in Nat
        /\ paid[run[b].target][t] <= paid'[run[b].target][t]
    BY <2>3 DEF PaidGrows, Inv, WorldOK
  <2>5. QED
    BY <2>2, <2>3, <2>4
<1>6. QED
  BY <1>2, <1>3, <1>4, <1>5 DEF AttemptOK

(* What is signed stands once it is.                                       *)
LEMMA StillSigned ==
  ASSUME Inv, NEW a \in Attempts, setup' = setup, run'[a].signed = run[a].signed,
         run'[a].target = run[a].target, run'[a].shown = run[a].shown,
         run'[a].stage \in {"signed", "called", "done"}
  PROVE  SignedOK(a)'
<1>1. Ids' = Ids /\ IsWithdrawal' = IsWithdrawal
  BY DEF Ids, IsWithdrawal
<1>2. SignedOK(a)
  BY DEF Inv, AttemptOK
<1>3. /\ run[a].signed = {} \/ \E s : run[a].signed = {s}
      /\ \A s \in run[a].signed :
           LET call == s.metaTx.functionSignature
           IN  IF IsWithdrawal
                 THEN /\ run[a].target \in Ids /\ run[a].shown \in [Tokens -> Nat]
                      /\ \E amounts \in Amounts(run[a].shown) :
                           call = WithdrawCalldata(run[a].target, amounts)
                 ELSE call.function = FUNCTION_NAME[setup.action]
  BY <1>2 DEF SignedOK
<1>4. run'[a].stage \notin {"resolved", "asked", "shown"}
  OBVIOUS
<1>5. QED
  BY <1>1, <1>3, <1>4 DEF SignedOK

LEMMA NothingPaid == ASSUME Inv, UNCHANGED paid PROVE PaidGrows
  BY DEF Inv, WorldOK, PaidGrows

(* One attempt moves on, the chain stays as it is.                         *)
LEMMA OneMoves ==
  ASSUME Inv, NEW a \in Attempts, NEW rec, DOMAIN rec = Fields,
         run' = [run EXCEPT ![a] = rec], UNCHANGED <<setup, now, worldVars, seen, landedBy>>,
         called' = called \/ called' = called \cup {a},
         AttemptOK(a)'
  PROVE  Inv'
<1>1. /\ DOMAIN run' = Attempts /\ run'[a] = rec
      /\ \A b \in Attempts : b # a => run'[b] = run[b]
  BY DEF Inv, RunsOK
<1>2. RunsOK'
  BY <1>1 DEF Inv, RunsOK
<1>3. WorldOK'
  BY DEF Inv, WorldOK, worldVars, Ids
<1>4. ASSUME NEW b \in Attempts, b # a PROVE AttemptOK(b)'
  BY <1>1, <1>4, LeftAlone, NothingPaid DEF worldVars
<1>5. QED
  BY <1>2, <1>3, <1>4 DEF Inv

-----------------------------------------------------------------------------
(* The client.                                                             *)
LEMMA ThrewInv ==
  ASSUME Inv, NEW a \in Attempts, Threw(a), run[a].stage \in {"idle", "resolved", "asked", "shown"},
         UNCHANGED <<setup, now, worldVars, seen, relayVars>>
  PROVE  Inv'
<1> DEFINE rec == [run[a] EXCEPT !.stage = "done", !.status = "threw"]
<1>1. DOMAIN rec = Fields /\ run' = [run EXCEPT ![a] = rec]
  BY DEF Threw, Inv, RunsOK
<1>2. /\ run'[a].stage = "done" /\ run'[a].status = "threw"
      /\ run'[a].signed = run[a].signed /\ run'[a].request = run[a].request
      /\ run'[a].checked = run[a].checked
  BY <1>1 DEF Inv, RunsOK, Fields
<1>3. /\ run[a].signed = {} /\ run[a].request = {} /\ a \notin called /\ ~Landed(a)
      /\ run[a].checked = {}
  BY DEF Inv, AttemptOK, AnswerOK
<1>4. Landed(a)' = Landed(a) /\ landedBy'[a] = landedBy[a] /\ called' = called
  BY DEF Landed, relayVars
<1>5. AttemptOK(a)'
  BY <1>2, <1>3, <1>4 DEF AttemptOK, SignedOK, RequestOK, AnswerOK, PaidOut
<1> HIDE DEF rec
<1>6. QED
  BY <1>1, <1>5, OneMoves DEF relayVars

(* Who, and how much: nothing is signed yet.                               *)
LEMMA ReadInv ==
  ASSUME Inv, NEW a \in Attempts, IsWithdrawal,
         run[a].stage \in {"idle", "resolved", "asked", "shown"}, NEW rec, DOMAIN rec = Fields,
         run' = [run EXCEPT ![a] = rec], rec.stage \in {"resolved", "asked", "shown"},
         rec.stage = "shown" => rec.shown \in [Tokens -> Nat],
         rec.target \in Ids, rec.signed = run[a].signed, rec.request = run[a].request,
         rec.checked = run[a].checked, rec.status = run[a].status,
         UNCHANGED <<setup, now, worldVars, seen, relayVars>>
  PROVE  Inv'
<1>1. run'[a] = rec
  BY DEF Inv, RunsOK
<1>2. /\ run[a].signed = {} /\ run[a].request = {} /\ a \notin called /\ ~Landed(a)
      /\ run[a].status = "none" /\ run[a].checked = {}
  BY DEF Inv, AttemptOK, AnswerOK
<1>3. /\ Landed(a)' = Landed(a) /\ landedBy'[a] = landedBy[a] /\ called' = called
      /\ IsWithdrawal' /\ Ids' = Ids
  BY DEF Landed, relayVars, IsWithdrawal, Ids
<1>4. AttemptOK(a)'
  BY <1>1, <1>2, <1>3 DEF AttemptOK, SignedOK, RequestOK, AnswerOK, PaidOut
<1>5. QED
  BY <1>4, OneMoves DEF relayVars

(* An address is resolved to an account the index has seen.                *)
LEMMA ResolvedIds ==
  ASSUME Inv, NEW e \in resolveEntityId(seen.entities, setup.sign)
                          \cup resolveEntityIdClientSide(seen.entities, setup.sign)
  PROVE  e \in Ids
<1>1. seen.entities \subseteq setup.entities \cup setup.joins /\ setup \in Setups
  BY DEF Inv, WorldOK
<1>2. CASE setup.sign.by = "entityId"
  BY <1>1, <1>2, ActionsAssumption DEF Ids, resolveEntityId, resolveEntityIdClientSide
<1>3. CASE setup.sign.by # "entityId"
  BY <1>1, <1>3 DEF Ids, resolveEntityId, resolveEntityIdClientSide, EntitiesOf
<1>4. QED
  BY <1>2, <1>3

LEMMA ResolveInv ==
  ASSUME Inv, NEW a \in Attempts, Resolve(a) \/ availableFundsRoute(a) PROVE Inv'
<1>1. /\ IsWithdrawal /\ run[a].stage = "idle"
      /\ UNCHANGED <<setup, now, worldVars, seen, relayVars>>
  BY DEF Resolve, availableFundsRoute
<1>2. CASE Threw(a)
  BY <1>1, <1>2, ThrewInv
<1>3. ASSUME NEW e \in Ids, NEW stage \in {"resolved", "asked"},
             run' = [run EXCEPT ![a].stage = stage, ![a].target = e, ![a].knew = seen.entities]
      PROVE  Inv'
  <2> DEFINE rec == [run[a] EXCEPT !.stage = stage, !.target = e, !.knew = seen.entities]
  <2>1. DOMAIN rec = Fields /\ run' = [run EXCEPT ![a] = rec]
    BY <1>3 DEF Inv, RunsOK
  <2>2. /\ rec.stage = stage /\ rec.target = e /\ rec.signed = run[a].signed
        /\ rec.request = run[a].request /\ rec.checked = run[a].checked
        /\ rec.status = run[a].status
    BY DEF Inv, RunsOK, Fields
  <2> HIDE DEF rec
  <2>3. QED
    BY <1>1, <1>3, <2>1, <2>2, ReadInv
<1>4. QED
  BY <1>2, <1>3, ResolvedIds DEF Resolve, availableFundsRoute

LEMMA ShownInv == ASSUME Inv, NEW a \in Attempts, handleGetAvailableFunds(a) PROVE Inv'
<1>1. /\ IsWithdrawal /\ run[a].stage = "asked" /\ run[a].target \in Ids
      /\ UNCHANGED <<setup, now, worldVars, seen, relayVars>>
  BY DEF handleGetAvailableFunds, Inv, AttemptOK, SignedOK
<1>2. CASE Threw(a)
  BY <1>1, <1>2, ThrewInv
<1>3. CASE run' = [run EXCEPT ![a].stage = "shown", ![a].shown = seen.funds[run[a].target]]
  <2> DEFINE balances == seen.funds[run[a].target]
             rec == [run[a] EXCEPT !.stage = "shown", !.shown = balances]
  <2>1. DOMAIN rec = Fields /\ run' = [run EXCEPT ![a] = rec]
    BY <1>3 DEF Inv, RunsOK
  <2>2. balances \in [Tokens -> Nat]
    BY <1>1, ActionsAssumption DEF Inv, WorldOK
  <2>3. /\ rec.stage = "shown" /\ rec.shown = balances /\ rec.target = run[a].target
        /\ rec.signed = run[a].signed /\ rec.request = run[a].request
        /\ rec.checked = run[a].checked /\ rec.status = run[a].status
    BY DEF Inv, RunsOK, Fields
  <2> HIDE DEF rec, balances
  <2>4. QED
    BY <1>1, <2>1, <2>2, <2>3, ReadInv
<1>4. QED
  BY <1>2, <1>3 DEF handleGetAvailableFunds

(* A signature, over what the attempt was shown or over the action itself. *)
LEMMA SignInv ==
  ASSUME Inv, NEW a \in Attempts, run[a].stage \in {"idle", "resolved", "asked", "shown"},
         NEW rec, DOMAIN rec = Fields, run' = [run EXCEPT ![a] = rec], rec.stage = "signed",
         NEW s, rec.signed = {s},
         IsWithdrawal =>
           /\ rec.target \in Ids /\ rec.shown \in [Tokens -> Nat]
           /\ \E amounts \in Amounts(rec.shown) :
                s.metaTx.functionSignature = WithdrawCalldata(rec.target, amounts),
         ~IsWithdrawal => s.metaTx.functionSignature.function = FUNCTION_NAME[setup.action],
         rec.request = run[a].request, rec.checked = run[a].checked, rec.status = run[a].status,
         UNCHANGED <<setup, now, worldVars, seen, relayVars>>
  PROVE  Inv'
<1>1. run'[a] = rec
  BY DEF Inv, RunsOK
<1>2. /\ run[a].request = {} /\ a \notin called /\ ~Landed(a)
      /\ run[a].status = "none" /\ run[a].checked = {}
  BY DEF Inv, AttemptOK, AnswerOK
<1>3. /\ Landed(a)' = Landed(a) /\ landedBy'[a] = landedBy[a] /\ called' = called
      /\ IsWithdrawal' = IsWithdrawal /\ Ids' = Ids /\ setup' = setup
  BY DEF Landed, relayVars, IsWithdrawal, Ids
<1>4. SignedOK(a)'
  <2>1. /\ run'[a].stage \notin {"resolved", "asked", "shown"} /\ run'[a].signed = {s}
        /\ run'[a].target = rec.target /\ run'[a].shown = rec.shown
    BY <1>1
  <2>2. \A x \in run'[a].signed : x = s
    BY <2>1
  <2>3. \E x : run'[a].signed = {x}
    BY <2>1
  <2>4. CASE IsWithdrawal
    <3>1. /\ IsWithdrawal' /\ run'[a].target \in Ids' /\ run'[a].shown \in [Tokens -> Nat]
          /\ \E amounts \in Amounts(run'[a].shown) :
               s.metaTx.functionSignature = WithdrawCalldata(run'[a].target, amounts)
      BY <1>3, <2>1, <2>4
    <3>2. QED
      BY <2>1, <2>2, <2>3, <3>1 DEF SignedOK
  <2>5. CASE ~IsWithdrawal
    BY <1>3, <2>1, <2>2, <2>3, <2>5 DEF SignedOK
  <2>6. QED
    BY <2>4, <2>5
<1>5. RequestOK(a)' /\ AnswerOK(a)' /\ PaidOut(a)'
  BY <1>1, <1>2, <1>3 DEF RequestOK, AnswerOK, PaidOut
<1>6. QED
  BY <1>4, <1>5, OneMoves DEF relayVars, AttemptOK

LEMMA SignWithdrawalInv ==
  ASSUME Inv, NEW a \in Attempts, signWithdrawFunds(a) \/ signWithdrawAllAvailableFunds(a)
  PROVE  Inv'
<1>1. /\ IsWithdrawal /\ run[a].stage \in {"resolved", "shown"} /\ run[a].target \in Ids
      /\ UNCHANGED <<setup, now, worldVars, seen, relayVars>>
  BY DEF signWithdrawFunds, signWithdrawAllAvailableFunds, Inv, AttemptOK, SignedOK
<1>2. CASE Threw(a)
  BY <1>1, <1>2, ThrewInv
<1>3. ASSUME NEW balances \in [Tokens -> Nat],
             NEW amounts \in Amounts(balances), Signs(a, balances, amounts)
      PROVE  Inv'
  <2> DEFINE s == signWithdrawFundsInternal(run[a].target, amounts, Chain, Escrow, Account, a)
             rec == [run[a] EXCEPT !.stage = "signed", !.shown = balances, !.signed = {s}]
  <2>1. s.metaTx.functionSignature = WithdrawCalldata(run[a].target, amounts)
    BY DEF signWithdrawFundsInternal, SignedCall
  <2> HIDE DEF s
  <2>2. DOMAIN rec = Fields /\ run' = [run EXCEPT ![a] = rec]
    BY <1>3 DEF Signs, Inv, RunsOK, s
  <2>3. /\ rec.stage = "signed" /\ rec.shown = balances /\ rec.target = run[a].target
        /\ rec.signed = {s} /\ rec.request = run[a].request
        /\ rec.checked = run[a].checked /\ rec.status = run[a].status
    BY DEF Inv, RunsOK, Fields
  <2> HIDE DEF rec
  <2>4. /\ rec.target \in Ids /\ rec.shown \in [Tokens -> Nat]
        /\ \E x \in Amounts(rec.shown) :
             s.metaTx.functionSignature = WithdrawCalldata(rec.target, x)
    BY <1>1, <1>3, <2>1, <2>3
  <2>5. QED
    BY <1>1, <2>2, <2>3, <2>4, SignInv
<1>4. run[a].stage = "shown" => run[a].shown \in [Tokens -> Nat]
  BY DEF Inv, AttemptOK, SignedOK
<1>5. seen.funds[run[a].target] \in [Tokens -> Nat]
  BY <1>1, ActionsAssumption DEF Inv, WorldOK
<1>6. QED
  BY <1>2, <1>3, <1>4, <1>5 DEF signWithdrawFunds, signWithdrawAllAvailableFunds, Amounts

LEMMA SignActionInv == ASSUME Inv, NEW a \in Attempts, signAction(a) PROVE Inv'
<1> DEFINE args == [action |-> setup.action, exchangeId |-> "exchange", percent |-> 50,
                    counterpartySig |-> "seller"]
           s == signPostCommitAction(args, Chain, Escrow, Account, a)
           rec == [run[a] EXCEPT !.stage = "signed", !.signed = {s}]
<1>1. /\ ~IsWithdrawal /\ run[a].stage = "idle"
      /\ UNCHANGED <<setup, now, worldVars, seen, relayVars>>
  BY DEF signAction
<1>2. s.metaTx.functionSignature.function = FUNCTION_NAME[setup.action]
  BY DEF signPostCommitAction, SignedCall, ResolveCalldata, ExchangeCalldata
<1>3. DOMAIN rec = Fields /\ run' = [run EXCEPT ![a] = rec]
  BY DEF signAction, Inv, RunsOK
<1> HIDE DEF s
<1>4. /\ rec.stage = "signed" /\ rec.signed = {s} /\ rec.request = run[a].request
      /\ rec.checked = run[a].checked /\ rec.status = run[a].status
  BY DEF Inv, RunsOK, Fields
<1> HIDE DEF rec
<1>5. QED
  BY <1>1, <1>2, <1>3, <1>4, SignInv

-----------------------------------------------------------------------------
(* The call, by either route.                                              *)
LEMMA CalledInv ==
  ASSUME Inv, NEW a \in Attempts, NEW key, run[a].stage = "signed",
         run' = [run EXCEPT ![a].stage = "called", ![a].request = {RequestFor(a, key)}],
         Relay!Call(a), UNCHANGED <<setup, now, worldVars, seen>>
  PROVE  Inv'
<1> DEFINE r == RequestFor(a, key)
           rec == [run[a] EXCEPT !.stage = "called", !.request = {r}]
<1>1. DOMAIN rec = Fields /\ run' = [run EXCEPT ![a] = rec]
  BY DEF Inv, RunsOK
<1>2. r.action = setup.action /\ \E s \in run[a].signed : r.metaTx = s.metaTx
  BY DEF RequestFor, Inv, AttemptOK, AnswerOK
<1> HIDE DEF r
<1>3. /\ run'[a].stage = "called" /\ run'[a].request = {r} /\ run'[a].signed = run[a].signed
      /\ run'[a].checked = run[a].checked /\ run'[a].status = run[a].status
      /\ run'[a].target = run[a].target /\ run'[a].shown = run[a].shown
  <2>1. /\ rec.stage = "called" /\ rec.request = {r} /\ rec.signed = run[a].signed
        /\ rec.checked = run[a].checked /\ rec.status = run[a].status
        /\ rec.target = run[a].target /\ rec.shown = run[a].shown
    BY DEF Inv, RunsOK, Fields
  <2> HIDE DEF rec
  <2>2. run'[a] = rec
    BY <1>1 DEF Inv, RunsOK
  <2>3. QED
    BY <2>1, <2>2
<1>4. called' = called \cup {a} /\ landedBy' = landedBy /\ a \notin called
  BY DEF Relay!Call
<1>5. /\ Landed(a)' = Landed(a) /\ IsWithdrawal' = IsWithdrawal /\ Ids' = Ids /\ setup' = setup
  BY <1>4 DEF Landed, IsWithdrawal, Ids
<1>6. ~Landed(a) /\ run[a].status = "none" /\ run[a].checked \subseteq {"passed", "refused"}
  BY <1>4 DEF Inv, AttemptOK, RequestOK, AnswerOK
<1>7. SignedOK(a)'
  BY <1>3, <1>5, StillSigned
<1>8. run[a].checked = {}
  BY <1>4 DEF Inv, AttemptOK, AnswerOK
<1>9. RequestOK(a)'
  BY <1>2, <1>3, <1>5, <1>6, <1>8 DEF RequestOK
<1>10. AnswerOK(a)' /\ PaidOut(a)'
  BY <1>3, <1>4, <1>5, <1>6, <1>8 DEF Inv, AttemptOK, AnswerOK, PaidOut
<1> HIDE DEF rec
<1>11. QED
  BY <1>1, <1>4, <1>7, <1>9, <1>10, OneMoves DEF AttemptOK

LEMMA SendInv == ASSUME Inv, NEW a \in Attempts, SendToFacilitator(a) PROVE Inv'
  BY CalledInv DEF SendToFacilitator

(* The route ends without a call: nothing lands.                           *)
LEMMA UncalledInv ==
  ASSUME Inv, NEW a \in Attempts, NEW status \in {"4xx", "5xx"}, run[a].stage = "signed",
         run' = [run EXCEPT ![a].stage = "done", ![a].status = status],
         UNCHANGED <<setup, now, worldVars, seen, relayVars>>
  PROVE  Inv'
<1> DEFINE rec == [run[a] EXCEPT !.stage = "done", !.status = status]
<1>1. DOMAIN rec = Fields /\ run' = [run EXCEPT ![a] = rec]
  BY DEF Inv, RunsOK
<1>2. /\ run'[a].stage = "done" /\ run'[a].status = status
      /\ run'[a].signed = run[a].signed /\ run'[a].request = run[a].request
      /\ run'[a].checked = run[a].checked
      /\ run'[a].target = run[a].target /\ run'[a].shown = run[a].shown
  BY <1>1 DEF Inv, RunsOK, Fields
<1>3. /\ run[a].request = {} /\ a \notin called /\ ~Landed(a)
      /\ run[a].checked \subseteq {"passed", "refused"}
  BY DEF Inv, AttemptOK, RequestOK, AnswerOK
<1>4. /\ Landed(a)' = Landed(a) /\ landedBy'[a] = landedBy[a] /\ called' = called
      /\ IsWithdrawal' = IsWithdrawal /\ Ids' = Ids /\ setup' = setup
  BY DEF Landed, relayVars, IsWithdrawal, Ids
<1>5. SignedOK(a)'
  BY <1>2, <1>4, StillSigned
<1>6. RequestOK(a)' /\ PaidOut(a)'
  BY <1>2, <1>3, <1>4 DEF RequestOK, PaidOut
<1>7. AnswerOK(a)'
  BY <1>2, <1>3, <1>4 DEF Inv, AttemptOK, AnswerOK
<1> HIDE DEF rec
<1>8. QED
  BY <1>1, <1>5, <1>6, <1>7, OneMoves DEF relayVars, AttemptOK

LEMMA HandleWithdrawInv == ASSUME Inv, NEW a \in Attempts, handleWithdrawFunds(a) PROVE Inv'
<1>1. run[a].stage = "signed" /\ UNCHANGED <<setup, now, worldVars, seen>>
  BY DEF handleWithdrawFunds
<1>2. \/ /\ UNCHANGED relayVars
         /\ \E status \in {"4xx", "5xx"} :
              run' = [run EXCEPT ![a].stage = "done", ![a].status = status]
      \/ /\ Relay!Call(a)
         /\ \E e : run' = [run EXCEPT ![a].stage = "called", ![a].request = {RequestFor(a, e)}]
  BY DEF handleWithdrawFunds
<1>3. QED
  BY <1>1, <1>2, UncalledInv, CalledInv

(* Answered: a 200 only for the execution of the attempt's own call, and   *)
(* with the key of its own request.                                        *)
LEMMA AnsweredInv ==
  ASSUME Inv, NEW a \in Attempts, NEW status \in {"200", "4xx", "5xx"}, a \in called,
         Answered(a, status), status = "200" => Landed(a),
         status = "4xx" => setup.route = "facilitator",
         UNCHANGED <<setup, now, worldVars, seen>>, called' = called, landedBy' = landedBy
  PROVE  Inv'
<1> DEFINE key == (CHOOSE r \in run[a].request : TRUE).key
           rec == [run[a] EXCEPT !.stage = "done", !.status = status, !.entity = key]
<1>0. run' = [run EXCEPT ![a].stage = "done", ![a].status = status, ![a].entity = key]
  BY DEF Answered
<1>2. \A r \in run[a].request : r.key = key
  BY DEF Inv, AttemptOK, RequestOK
<1> HIDE DEF key
<1>1. DOMAIN rec = Fields /\ run' = [run EXCEPT ![a] = rec]
  BY <1>0 DEF Inv, RunsOK
<1>3. /\ run'[a].stage = "done" /\ run'[a].status = status /\ run'[a].entity = key
      /\ run'[a].signed = run[a].signed /\ run'[a].request = run[a].request
      /\ run'[a].checked = run[a].checked
      /\ run'[a].target = run[a].target /\ run'[a].shown = run[a].shown
  BY <1>1 DEF Inv, RunsOK, Fields
<1>4. /\ Landed(a)' = Landed(a) /\ IsWithdrawal' = IsWithdrawal /\ Ids' = Ids /\ setup' = setup
      /\ paid' = paid
  BY DEF Landed, IsWithdrawal, Ids, worldVars
<1>5. SignedOK(a)'
  BY <1>3, <1>4, StillSigned DEF Inv, AttemptOK, AnswerOK
<1>6. RequestOK(a)'
  <2>1. RequestOK(a)
    BY DEF Inv, AttemptOK
  <2>2. /\ run'[a].request = {} \/ \E r : run'[a].request = {r}
        /\ run'[a].checked \subseteq {"passed", "refused"}
    BY <1>3, <2>1 DEF RequestOK
  <2>3. ASSUME NEW r \in run'[a].request
        PROVE  /\ r.action = setup'.action /\ \E s \in run'[a].signed : r.metaTx = s.metaTx
               /\ "passed" \in run'[a].checked => validatePerformActionMetaTx(r)
               /\ run'[a].status = "200" => run'[a].entity = r.key
    BY <1>2, <1>3, <1>4, <2>1 DEF RequestOK
  <2>4. QED
    BY ONLY <2>2, <2>3 DEF RequestOK
<1>7. AnswerOK(a)'
  BY <1>3, <1>4 DEF Inv, AttemptOK, AnswerOK
<1>8. PaidOut(a)'
  BY <1>3, <1>4 DEF Inv, AttemptOK, PaidOut
<1> HIDE DEF rec
<1>9. QED
  BY <1>1, <1>5, <1>6, <1>7, <1>8, OneMoves DEF AttemptOK

LEMMA RepliesInv == ASSUME Inv, NEW a \in Attempts, Replies(a) PROVE Inv'
<1>1. /\ a \in called /\ called' = called /\ landedBy' = landedBy
      /\ UNCHANGED <<setup, now, worldVars, seen>>
  BY DEF Replies, Relay!Accept, Relay!Fail
<1>2. CASE Relay!Accept(a) /\ Answered(a, "200")
  <2>1. Landed(a)
    BY <1>2, ActionsAssumption DEF Relay!Accept, Landed
  <2>2. QED
    BY <1>1, <1>2, <2>1, AnsweredInv
<1>3. CASE Answered(a, FailureStatus(reply'[a]))
  <2>1. /\ FailureStatus(reply'[a]) \in {"4xx", "5xx"}
        /\ FailureStatus(reply'[a]) = "4xx" => setup.route = "facilitator"
    BY DEF FailureStatus
  <2>2. QED
    BY <1>1, <1>3, <2>1, AnsweredInv
<1>4. QED
  BY <1>2, <1>3 DEF Replies

-----------------------------------------------------------------------------
(* The facilitator.                                                        *)
LEMMA CheckInv == ASSUME Inv, NEW a \in Attempts, Check(a) PROVE Inv'
<1>1. PICK r \in run[a].request :
        run' = [run EXCEPT ![a].checked =
                  @ \cup {IF Passes(r) /\ ~Landed(a) THEN "passed" ELSE "refused"}]
  BY DEF Check
<1> DEFINE verdict == IF Passes(r) /\ ~Landed(a) THEN "passed" ELSE "refused"
           checked == run[a].checked \cup {verdict}
           rec == [run[a] EXCEPT !.checked = checked]
<1>2. DOMAIN rec = Fields /\ run' = [run EXCEPT ![a] = rec]
  BY <1>1 DEF Inv, RunsOK
<1>3. verdict \in {"passed", "refused"}
      /\ (verdict = "passed" => validatePerformActionMetaTx(r))
  BY DEF Passes, performActionAccepts
<1>4. \A q \in run[a].request : q = r
  BY DEF Inv, AttemptOK, RequestOK
<1> HIDE DEF verdict
<1>5. /\ run'[a].checked = checked /\ run'[a].stage = run[a].stage
      /\ run'[a].status = run[a].status /\ run'[a].entity = run[a].entity
      /\ run'[a].signed = run[a].signed /\ run'[a].request = run[a].request
      /\ run'[a].target = run[a].target /\ run'[a].shown = run[a].shown
  BY <1>2 DEF Inv, RunsOK, Fields
<1>6. a \in called /\ UNCHANGED <<setup, now, worldVars, seen, relayVars>>
  BY DEF Check
<1>7. /\ Landed(a)' = Landed(a) /\ IsWithdrawal' = IsWithdrawal /\ Ids' = Ids /\ setup' = setup
      /\ paid' = paid /\ called' = called /\ landedBy' = landedBy
  BY <1>6 DEF Landed, IsWithdrawal, Ids, worldVars, relayVars
<1>8. SignedOK(a)'
  BY <1>5, <1>6, <1>7, StillSigned DEF Inv, AttemptOK, AnswerOK
<1>9. RequestOK(a)'
  <2>1. RequestOK(a)
    BY DEF Inv, AttemptOK
  <2>2. checked \subseteq {"passed", "refused"}
    BY <1>3, <2>1 DEF RequestOK
  <2>3. "passed" \in checked => \A q \in run[a].request : validatePerformActionMetaTx(q)
    BY <1>3, <1>4, <2>1 DEF RequestOK
  <2> HIDE DEF checked
  <2>4. /\ run'[a].request = {} \/ \E q : run'[a].request = {q}
        /\ run'[a].checked \subseteq {"passed", "refused"}
    BY <1>5, <2>1, <2>2 DEF RequestOK
  <2>5. ASSUME NEW q \in run'[a].request
        PROVE  /\ q.action = setup'.action /\ \E s \in run'[a].signed : q.metaTx = s.metaTx
               /\ "passed" \in run'[a].checked => validatePerformActionMetaTx(q)
               /\ run'[a].status = "200" => run'[a].entity = q.key
    BY <1>5, <1>7, <2>1, <2>3 DEF RequestOK
  <2>6. QED
    BY ONLY <2>4, <2>5 DEF RequestOK
<1>10. AnswerOK(a)'
  BY <1>5, <1>6, <1>7 DEF Inv, AttemptOK, AnswerOK
<1>11. PaidOut(a)'
  BY <1>5, <1>7 DEF Inv, AttemptOK, PaidOut
<1> HIDE DEF rec
<1>12. QED
  BY <1>2, <1>6, <1>8, <1>9, <1>10, <1>11, OneMoves DEF relayVars, AttemptOK

-----------------------------------------------------------------------------
(* The contract: a withdrawal moves what was shown, and adds it to what    *)
(* was paid; an action moves the exchange.                                 *)
LEMMA Withdraws ==
  ASSUME Inv, IsWithdrawal, NEW e \in Ids, NEW shown \in [Tokens -> Nat],
         NEW amounts \in Amounts(shown),
         NEW call, call = WithdrawCalldata(e, amounts), Covered(call), Execute(call)
  PROVE  /\ funds' \in [Ids -> [Tokens -> 0 .. MaxFunds]] /\ paid' \in [Ids -> [Tokens -> Nat]]
         /\ PaidGrows /\ UNCHANGED <<exchange, entities>>
         /\ \A t \in Tokens : shown[t] <= paid'[e][t]
<1>1. /\ call.function = "withdrawFunds" /\ call.entityId = e /\ call.tokenAmounts = amounts
  BY DEF WithdrawCalldata, FUNCTION_NAME, ACTION_IDS, ENTITY_ACTION_IDS
<1>2. /\ funds' = [funds EXCEPT ![e] = Withdrawn(call, @, -1)]
      /\ paid' = [paid EXCEPT ![e] = Withdrawn(call, @, 1)]
      /\ UNCHANGED <<exchange, entities>>
  BY <1>1 DEF Execute
<1>3. /\ DOMAIN amounts \subseteq Tokens
      /\ \A t \in Tokens : (IF t \in DOMAIN amounts THEN amounts[t] ELSE 0) = shown[t]
      /\ \A t \in Tokens : shown[t] > 0 => t \in DOMAIN amounts
  BY DEF Amounts, nonZero
<1>4. /\ Withdrawn(call, funds[e], -1) = [t \in Tokens |-> funds[e][t] + -1 * shown[t]]
      /\ Withdrawn(call, paid[e], 1) = [t \in Tokens |-> paid[e][t] + 1 * shown[t]]
  BY <1>1, <1>3 DEF Withdrawn
<1>5. ASSUME NEW t \in Tokens PROVE funds[e][t] + -1 * shown[t] \in 0 .. MaxFunds
  <2>1. funds[e][t] \in 0 .. MaxFunds /\ shown[t] \in Nat /\ MaxFunds \in Nat
    BY ActionsAssumption DEF Inv, WorldOK
  <2>2. shown[t] > 0 => shown[t] <= funds[e][t]
    BY <1>1, <1>3 DEF Covered
  <2>3. QED
    BY <2>1, <2>2
<1>6. ASSUME NEW t \in Tokens
      PROVE  /\ paid[e][t] + 1 * shown[t] \in Nat /\ paid[e][t] \in Nat
             /\ paid[e][t] <= paid[e][t] + 1 * shown[t]
             /\ shown[t] <= paid[e][t] + 1 * shown[t]
  <2>1. paid[e][t] \in Nat /\ shown[t] \in Nat
    BY DEF Inv, WorldOK
  <2>2. QED
    BY <2>1
<1>7. funds' \in [Ids -> [Tokens -> 0 .. MaxFunds]]
  BY <1>2, <1>4, <1>5 DEF Inv, WorldOK
<1>8. /\ paid' \in [Ids -> [Tokens -> Nat]]
      /\ \A t \in Tokens : paid'[e][t] = paid[e][t] + 1 * shown[t]
      /\ \A d \in Ids : d # e => paid'[d] = paid[d]
  BY <1>2, <1>4, <1>6 DEF Inv, WorldOK
<1>9. PaidGrows
  <2>1. SUFFICES ASSUME NEW d \in Ids, NEW t \in Tokens
                 PROVE  paid'[d][t] \in Nat /\ paid[d][t] <= paid'[d][t]
    BY DEF PaidGrows
  <2>2. CASE d = e
    BY <1>6, <1>8, <2>2
  <2>3. CASE d # e
    <3>1. paid[d][t] \in Nat
      BY DEF Inv, WorldOK
    <3>2. QED
      BY <1>8, <2>3, <3>1
  <2>4. QED
    BY <2>2, <2>3
<1>10. QED
  BY <1>2, <1>6, <1>7, <1>8, <1>9

LEMMA Acts ==
  ASSUME Inv, ~IsWithdrawal, NEW call, call.function = FUNCTION_NAME[setup.action], Execute(call)
  PROVE  UNCHANGED <<entities, funds, paid>> /\ exchange' \in ClientState
<1>1. setup.action \in POST_COMMIT_ACTION_IDS
  BY ActionsAssumption DEF Inv, WorldOK, IsWithdrawal
<1>2. call.function # "withdrawFunds"
  BY <1>1 DEF FUNCTION_NAME, ACTION_IDS, EXCHANGE_ACTION_IDS, POST_COMMIT_ACTION_IDS
<1>3. ActionOf(call) \in POST_COMMIT_ACTION_IDS
  BY <1>1 DEF ActionOf
<1>4. ACTION_POST_STATE[ActionOf(call)] \in ClientState
  BY <1>3 DEF ACTION_POST_STATE, EXCHANGE_ACTION_IDS, POST_COMMIT_ACTION_IDS, InState, InDispute,
     ClientState, ExchangeState, DisputeState, NoDispute
<1>5. QED
  BY <1>2, <1>4 DEF Execute

LEMMA LandInv == ASSUME Inv, NEW a \in Attempts, Land(a) PROVE Inv'
<1>1. PICK r \in run[a].request :
        /\ ContractAccepts(executeMetaTransaction(r))
        /\ Execute(executeMetaTransaction(r).metaTx.functionSignature)
  BY DEF Land
<1> DEFINE call == r.metaTx.functionSignature
<1>2. executeMetaTransaction(r).metaTx.functionSignature = call
  BY DEF executeMetaTransaction
<1>3. /\ "passed" \in run[a].checked /\ a \in called
      /\ landedBy' = [landedBy EXCEPT ![a] = a] /\ called' = called
      /\ UNCHANGED <<setup, now, seen, run>>
  BY DEF Land, Relay!Land
<1>4. PICK s \in run[a].signed : r.metaTx = s.metaTx
  BY DEF Inv, AttemptOK, RequestOK
<1>5. Ids' = Ids /\ IsWithdrawal' = IsWithdrawal
  BY <1>3 DEF Ids, IsWithdrawal
<1> HIDE DEF call
<1>6. /\ exchange' \in ClientState /\ entities' = entities
      /\ funds' \in [Ids -> [Tokens -> 0 .. MaxFunds]] /\ paid' \in [Ids -> [Tokens -> Nat]]
      /\ PaidGrows
      /\ IsWithdrawal => \A t \in Tokens : run[a].shown[t] <= paid'[run[a].target][t]
  <2>1. CASE IsWithdrawal
    <3>1. /\ run[a].target \in Ids /\ run[a].shown \in [Tokens -> Nat]
          /\ \E amounts \in Amounts(run[a].shown) :
               call = WithdrawCalldata(run[a].target, amounts)
      BY <1>4, <2>1 DEF Inv, AttemptOK, SignedOK, call
    <3>2. Covered(call)
      <4>1. call.function = "withdrawFunds"
        BY <3>1 DEF WithdrawCalldata, FUNCTION_NAME, ACTION_IDS, ENTITY_ACTION_IDS
      <4>2. QED
        BY <1>1, <1>2, <4>1 DEF ContractAccepts
    <3>3. QED
      BY <1>1, <1>2, <2>1, <3>1, <3>2, Withdraws DEF Inv, WorldOK
  <2>2. CASE ~IsWithdrawal
    <3>1. call.function = FUNCTION_NAME[setup.action]
      BY <1>4, <2>2 DEF Inv, AttemptOK, SignedOK, call
    <3>2. UNCHANGED <<entities, funds, paid>> /\ exchange' \in ClientState
      BY <1>1, <1>2, <2>2, <3>1, Acts
    <3>3. QED
      BY <2>2, <3>2, NothingPaid DEF Inv, WorldOK
  <2>3. QED
    BY <2>1, <2>2
<1>7. WorldOK'
  BY <1>3, <1>5, <1>6 DEF Inv, WorldOK
<1>8. RunsOK'
  BY <1>3 DEF Inv, RunsOK
<1>9. AttemptOK(a)'
  <2>1. landedBy'[a] = a /\ Landed(a)'
    BY <1>3, ActionsAssumption DEF Inv, RunsOK, Landed
  <2>2. SignedOK(a)' /\ RequestOK(a)'
    BY <1>3, <1>5 DEF Inv, AttemptOK, SignedOK, RequestOK
  <2>3. AnswerOK(a)'
    BY <1>3, <2>1 DEF Inv, AttemptOK, AnswerOK
  <2>4. PaidOut(a)'
    BY <1>3, <1>4, <1>5, <1>6 DEF PaidOut
  <2>5. QED
    BY <2>2, <2>3, <2>4 DEF AttemptOK
<1>10. ASSUME NEW b \in Attempts, b # a PROVE AttemptOK(b)'
  BY <1>3, <1>6, <1>10, LeftAlone DEF Inv, RunsOK
<1>11. QED
  BY <1>7, <1>8, <1>9, <1>10 DEF Inv

-----------------------------------------------------------------------------
(* The world: what is on chain changes, what was paid does not.            *)
LEMMA WorldMoves ==
  ASSUME Inv, UNCHANGED <<setup, run, paid, relayVars>>, WorldOK' PROVE Inv'
<1>1. RunsOK'
  BY DEF Inv, RunsOK, relayVars
<1>2. ASSUME NEW a \in Attempts PROVE AttemptOK(a)'
  BY LeftAlone, NothingPaid DEF relayVars
<1>3. QED
  BY <1>1, <1>2 DEF Inv

LEMMA WorldInv == ASSUME Inv, Credit \/ Join \/ Index \/ Tick PROVE Inv'
<1>1. WorldOK
  BY DEF Inv
<1>2. UNCHANGED <<setup, run, paid, relayVars>> /\ Ids' = Ids
  BY DEF Credit, Join, Index, Tick, worldVars, Ids
<1>3. CASE Credit
  <2>1. PICK e \in DOMAIN funds, t \in setup.sells :
          funds[e][t] < MaxFunds /\ funds' = [funds EXCEPT ![e][t] = @ + 1]
    BY <1>3 DEF Credit
  <2>2. e \in Ids /\ t \in Tokens
    BY <1>1, <2>1, ActionsAssumption DEF WorldOK
  <2>3. funds[e][t] + 1 \in 0 .. MaxFunds
    <3>1. funds[e][t] \in 0 .. MaxFunds /\ MaxFunds \in Nat
      BY <1>1, <2>2, ActionsAssumption DEF WorldOK
    <3>2. QED
      BY <2>1, <3>1
  <2>4. funds' \in [Ids -> [Tokens -> 0 .. MaxFunds]]
    BY <1>1, <2>1, <2>2, <2>3 DEF WorldOK
  <2>5. WorldOK'
    BY <1>1, <1>2, <1>3, <2>4 DEF Credit, WorldOK
  <2>6. QED
    BY <1>2, <2>5, WorldMoves
<1>4. CASE Join
  <2>1. WorldOK'
    BY <1>1, <1>2, <1>4 DEF Join, WorldOK
  <2>2. QED
    BY <1>2, <2>1, WorldMoves
<1>5. CASE Index
  <2>1. WorldOK'
    BY <1>1, <1>2, <1>5 DEF Index, worldVars, WorldOK
  <2>2. QED
    BY <1>2, <2>1, WorldMoves
<1>6. CASE Tick
  <2>1. now' \in 2 .. setup.end
    BY <1>1, <1>6, ActionsAssumption DEF Tick, WorldOK
  <2>2. WorldOK'
    BY <1>1, <1>2, <1>6, <2>1 DEF Tick, worldVars, WorldOK
  <2>3. QED
    BY <1>2, <2>2, WorldMoves
<1>7. QED
  BY <1>3, <1>4, <1>5, <1>6

LEMMA StepInv == Inv /\ [Next]_vars => Inv'
<1>1. SUFFICES ASSUME Inv, [Next]_vars PROVE Inv'
  OBVIOUS
<1>2. ASSUME NEW a \in Attempts,
             \/ Resolve(a) \/ signWithdrawAllAvailableFunds(a) \/ signAction(a)
             \/ availableFundsRoute(a) \/ handleGetAvailableFunds(a) \/ signWithdrawFunds(a)
             \/ SendToFacilitator(a) \/ handleWithdrawFunds(a) \/ Replies(a) \/ Check(a) \/ Land(a)
      PROVE  Inv'
  BY <1>1, <1>2, ResolveInv, SignWithdrawalInv, SignActionInv, ShownInv, SendInv,
     HandleWithdrawInv, RepliesInv, CheckInv, LandInv
<1>3. CASE Credit \/ Join \/ Index \/ Tick
  BY <1>1, <1>3, WorldInv
<1>4. CASE UNCHANGED vars
  <2>1. UNCHANGED <<setup, run, paid, relayVars>>
    BY <1>4 DEF vars, worldVars
  <2>2. WorldOK'
    BY <1>1, <1>4 DEF Inv, WorldOK, vars, worldVars, Ids
  <2>3. QED
    BY <1>1, <2>1, <2>2, WorldMoves
<1>5. QED
  BY <1>1, <1>2, <1>3, <1>4 DEF Next

LEMMA Invariance == Spec => []Inv
  BY InitInv, StepInv, PTL DEF Spec

-----------------------------------------------------------------------------
(* The state of the attempts and of the chain keeps its shape.             *)
THEOREM TypeCorrect == Spec => []TypeOK
<1>1. Inv => TypeOK
  <2>1. SUFFICES ASSUME Inv PROVE TypeOK
    OBVIOUS
  <2>2. \A x : Cardinality({x}) = 1
    BY FS_Singleton
  <2>3. Cardinality({}) = 0
    BY FS_EmptySet
  <2>4. ASSUME NEW S, S = {} \/ \E x : S = {x} PROVE Cardinality(S) <= 1
    <3>1. Cardinality(S) = 0 \/ Cardinality(S) = 1
      BY <2>2, <2>3, <2>4
    <3>2. QED
      BY <3>1
  <2>5. ASSUME NEW a \in Attempts
        PROVE  Cardinality(run[a].signed) <= 1 /\ Cardinality(run[a].request) <= 1
    BY <2>1, <2>4 DEF Inv, AttemptOK, SignedOK, RequestOK
  <2>6. DOMAIN funds = Ids
    BY <2>1 DEF Inv, WorldOK
  <2>7. ASSUME NEW a \in Attempts
        PROVE  /\ run[a].stage \in {"idle", "resolved", "asked", "shown", "signed", "called", "done"}
               /\ run[a].status \in {"none", "200", "4xx", "5xx", "threw"}
               /\ run[a].checked \subseteq {"passed", "refused"}
               /\ run[a].stage \in {"resolved", "asked"} => run[a].target \in DOMAIN funds
    BY <2>1, <2>6 DEF Inv, AttemptOK, SignedOK, RequestOK, AnswerOK
  <2>8. QED
    BY <2>1, <2>5, <2>7 DEF Inv, WorldOK, TypeOK, Ids
<1>2. QED
  BY <1>1, Invariance, PTL

(* A 200 is the execution of the attempt's own call, a withdrawal's on the *)
(* account the answer names; after an exception of a signing helper or a   *)
(* 404 or 409 of the server's withdraw route nothing lands, then or later. *)
THEOREM AnswersOwnExecution == Spec => []AnsweredAsLanded
<1>1. Inv => AnsweredAsLanded
  <2>1. SUFFICES ASSUME Inv, NEW a \in Attempts
                 PROVE  /\ run[a].status = "200" =>
                             /\ Landed(a)
                             /\ \A r \in run[a].request :
                                  IsWithdrawal =>
                                    r.metaTx.functionSignature.entityId = run[a].entity
                        /\ \/ run[a].status = "threw"
                           \/ run[a].status = "4xx" /\ setup.route = "server"
                           => ~Landed(a)
    BY DEF AnsweredAsLanded
  <2>2. AnswerOK(a) /\ RequestOK(a)
    BY <2>1 DEF Inv, AttemptOK
  <2>3. ASSUME run[a].status = "200", IsWithdrawal, NEW r \in run[a].request
        PROVE  r.metaTx.functionSignature.entityId = run[a].entity
    <3>1. validatePerformActionMetaTx(r) /\ r.action \in ENTITY_ACTION_IDS /\ run[a].entity = r.key
      BY <2>2, <2>3 DEF AnswerOK, RequestOK, IsWithdrawal
    <3>2. QED
      BY <3>1 DEF validatePerformActionMetaTx, validatePerformEntityActionMetaTx
  <2>4. QED
    BY <2>2, <2>3 DEF AnswerOK
<1>2. QED
  BY <1>1, Invariance, PTL

(* Everything the client was shown is withdrawn, of every token.           *)
THEOREM AllIsWithdrawn == Spec => []WithdrawsAll
<1>1. Inv => WithdrawsAll
  BY DEF Inv, AttemptOK, PaidOut, WithdrawsAll
<1>2. QED
  BY <1>1, Invariance, PTL

-----------------------------------------------------------------------------
(* What the client's helpers sign is what the facilitator and the contract *)
(* recover: each knows the typed data by the action or by its function.    *)
LEMMA SignerRecovered ==
  ASSUME NEW action \in POST_COMMIT_ACTION_IDS \cup ENTITY_ACTION_IDS, NEW who, NEW nonce,
         NEW call, call.function = FUNCTION_NAME[action],
         NEW r, r.network = Chain, r.escrow = Escrow, r.action = action,
         r.metaTx = SignedCall(action, call, Chain, Escrow, who, nonce).metaTx,
         r.sig = SignedCall(action, call, Chain, Escrow, who, nonce).sig
  PROVE  /\ r.metaTx.functionName = FUNCTION_NAME[action]
         /\ r.metaTx.functionSignature = call /\ r.metaTx.from = who
         /\ recoverActionMetaTxSigner(r) = who
         /\ Recover(r.sig, ContractMessage(Chain, Escrow, r.metaTx)) = who
<1>1. /\ r.metaTx.functionName = FUNCTION_NAME[action]
      /\ r.metaTx.functionSignature = call /\ r.metaTx.from = who
      /\ r.sig = Sign(who, ContractMessage(Chain, Escrow, r.metaTx))
  BY DEF SignedCall
<1> DEFINE message == ContractMessage(Chain, Escrow, r.metaTx)
<1>2. LegacyV(r.sig) /\ r.sig.over = message /\ r.sig.by = who
  BY <1>1 DEF Sign, LegacyV
<1>3. Recover(r.sig, message) = who
  BY <1>2 DEF Recover
<1>4. /\ action \in COMMIT_ACTION_IDS \cup {"boson-revokeVoucher"} =>
           message = MetaTransaction(Chain, Escrow, r.metaTx)
      /\ action = "boson-resolveDispute" =>
           message = MetaTransactionDisputeResolution(Chain, Escrow, r.metaTx, call)
      /\ action = "boson-withdrawFunds" =>
           message = MetaTransactionFund(Chain, Escrow, r.metaTx, call)
      /\ action \notin COMMIT_ACTION_IDS \cup {"boson-revokeVoucher", "boson-resolveDispute",
                                               "boson-withdrawFunds"} =>
           message = MetaTransactionExchange(Chain, Escrow, r.metaTx, call.exchangeId)
  BY <1>1 DEF ContractMessage, FUNCTION_NAME, ACTION_IDS, EXCHANGE_ACTION_IDS,
     POST_COMMIT_ACTION_IDS, COMMIT_ACTION_IDS, ENTITY_ACTION_IDS
<1> HIDE DEF message
<1>5. recoverActionMetaTxSigner(r) = who
  <2>1. action \notin COMMIT_ACTION_IDS
    BY DEF COMMIT_ACTION_IDS, POST_COMMIT_ACTION_IDS, ENTITY_ACTION_IDS
  <2>2. CASE action = "boson-revokeVoucher"
    BY <1>1, <1>2, <1>3, <1>4, <2>2 DEF recoverActionMetaTxSigner
  <2>3. CASE action = "boson-resolveDispute"
    BY <1>1, <1>2, <1>3, <1>4, <2>1, <2>3 DEF recoverActionMetaTxSigner
  <2>4. CASE action = "boson-withdrawFunds"
    BY <1>1, <1>2, <1>3, <1>4, <2>1, <2>4 DEF recoverActionMetaTxSigner
  <2>5. CASE action \notin {"boson-revokeVoucher", "boson-resolveDispute", "boson-withdrawFunds"}
    BY <1>1, <1>2, <1>3, <1>4, <2>1, <2>5 DEF recoverActionMetaTxSigner
  <2>6. QED
    BY <2>2, <2>3, <2>4, <2>5
<1>6. QED
  BY <1>1, <1>3, <1>5 DEF message

-----------------------------------------------------------------------------
(* What an attempt is signed for is its signer's own, and what it sends is *)
(* what the helpers signed.                                                *)
Own(e) == \E m \in entities : m.id = e /\ Account \in {m.address} \cup m.otherRoles

ActionArgs == [action |-> setup.action, exchangeId |-> "exchange", percent |-> 50,
               counterpartySig |-> "seller"]

SignedBy(a, amounts) ==
  IF IsWithdrawal
    THEN signWithdrawFundsInternal(run[a].target, amounts, Chain, Escrow, Account, a)
    ELSE signPostCommitAction(ActionArgs, Chain, Escrow, Account, a)

HonestOK(a) ==
  /\ IsWithdrawal /\ (run[a].stage \in {"resolved", "asked", "shown"} \/ run[a].signed # {}) =>
       Own(run[a].target) /\ run[a].target \in resolveEntityId(run[a].knew, setup.sign)
  /\ \A s \in run[a].signed : \E amounts \in Amounts(run[a].shown) : s = SignedBy(a, amounts)
  /\ run[a].request # {} =>
       /\ run[a].signed # {}
       /\ \E key : run[a].request = {RequestFor(a, key)} /\ (~IsWithdrawal => key = "exchange")

HonestInv == setup.entities \subseteq entities /\ \A a \in Attempts : HonestOK(a)

(* What was signed stays so, and accounts do not disappear.                *)
LEMMA HonestKept ==
  ASSUME Inv, HonestInv, NEW a \in Attempts, setup' = setup, entities \subseteq entities',
         run'[a].target = run[a].target, run'[a].knew = run[a].knew,
         run'[a].shown = run[a].shown, run'[a].signed = run[a].signed,
         run'[a].request = run[a].request,
         run'[a].stage \in {"resolved", "asked", "shown"} => run'[a].stage = run[a].stage
  PROVE  HonestOK(a)'
<1>1. IsWithdrawal' = IsWithdrawal /\ ActionArgs' = ActionArgs
  BY DEF IsWithdrawal, ActionArgs
<1>2. \A amounts : SignedBy(a, amounts)' = SignedBy(a, amounts)
  BY <1>1 DEF SignedBy
<1>3. \A key : RequestFor(a, key)' = RequestFor(a, key)
  BY DEF RequestFor, Terms
<1>4. Own(run[a].target) => Own(run[a].target)'
  BY DEF Own
<1>5. HonestOK(a)
  BY DEF HonestInv
<1>6. IsWithdrawal /\ (run'[a].stage \in {"resolved", "asked", "shown"} \/ run'[a].signed # {}) =>
        Own(run[a].target)' /\ run'[a].target \in resolveEntityId(run'[a].knew, setup'.sign)
  BY <1>4, <1>5 DEF HonestOK
<1>7. \A s \in run'[a].signed : \E amounts \in Amounts(run'[a].shown) :
        s = SignedBy(a, amounts)'
  BY <1>2, <1>5 DEF HonestOK
<1>8. run'[a].request # {} =>
        /\ run'[a].signed # {}
        /\ \E key : run'[a].request = {RequestFor(a, key)'} /\ (~IsWithdrawal => key = "exchange")
  BY <1>3, <1>5 DEF HonestOK
<1>9. QED
  BY <1>1, <1>6, <1>7, <1>8 DEF HonestOK

(* One attempt moves on.                                                   *)
LEMMA OneHonest ==
  ASSUME Inv, HonestInv, NEW a \in Attempts, NEW rec, run' = [run EXCEPT ![a] = rec],
         UNCHANGED <<setup, now, worldVars, seen>>, HonestOK(a)'
  PROVE  HonestInv'
<1>1. setup' = setup /\ entities' = entities
  BY DEF worldVars
<1>2. ASSUME NEW b \in Attempts, b # a PROVE HonestOK(b)'
  <2>1. run'[b] = run[b]
    BY <1>2 DEF Inv, RunsOK
  <2>2. QED
    BY <1>1, <2>1, HonestKept
<1>3. QED
  BY <1>1, <1>2 DEF HonestInv

LEMMA ResolvedOwn ==
  ASSUME Inv, HonestInv, NEW e \in resolveEntityId(seen.entities, setup.sign) PROVE Own(e)
<1>1. /\ setup.entities \subseteq entities /\ seen.entities \subseteq entities
      /\ setup \in Setups /\ setup.sign.by \in {"entityId", "address"}
  BY SignerAssumption DEF Inv, WorldOK, HonestInv
<1>2. CASE setup.sign.by = "entityId"
  BY <1>1, <1>2, SignerAssumption DEF resolveEntityId, Own
<1>3. CASE setup.sign.by = "address"
  <2>1. \E m \in EntitiesOf(seen.entities, setup.sign) : m.id = e
    BY <1>3 DEF resolveEntityId
  <2>2. QED
    BY <1>1, <1>3, <2>1, SignerAssumption DEF EntitiesOf, Own
<1>4. QED
  BY <1>1, <1>2, <1>3

LEMMA SameResolution ==
  ASSUME NEW index, NEW selector
  PROVE  resolveEntityIdClientSide(index, selector) = resolveEntityId(index, selector)
BY DEF resolveEntityIdClientSide, resolveEntityId

SameFields(r, q) ==
  /\ r.target = q.target /\ r.knew = q.knew /\ r.shown = q.shown /\ r.signed = q.signed
  /\ r.request = q.request

(* An attempt that gives up, is answered or checked.                       *)
LEMMA EndsHonest ==
  ASSUME Inv, HonestInv, NEW a \in Attempts,
         \/ Threw(a) \/ (\E status : Answered(a, status))
         \/ \E status : run' = [run EXCEPT ![a].stage = "done", ![a].status = status]
         \/ \E checked : run' = [run EXCEPT ![a].checked = checked],
         UNCHANGED <<setup, now, worldVars, seen>>
  PROVE  HonestInv'
<1> DEFINE Same ==
      /\ run'[a].target = run[a].target /\ run'[a].knew = run[a].knew
      /\ run'[a].shown = run[a].shown /\ run'[a].signed = run[a].signed
      /\ run'[a].request = run[a].request
      /\ run'[a].stage \in {"resolved", "asked", "shown"} => run'[a].stage = run[a].stage
      /\ \A b \in Attempts : b # a => run'[b] = run[b]
<1>1. Same
  <2>1. ASSUME NEW status,
               run' = [run EXCEPT ![a].stage = "done", ![a].status = status]
        PROVE  Same
    <3> DEFINE rec == [run[a] EXCEPT !.stage = "done", !.status = status]
    <3>1. rec.stage = "done" /\ SameFields(rec, run[a])
      BY DEF Inv, RunsOK, Fields, SameFields
    <3> HIDE DEF rec
    <3>2. run'[a] = rec /\ \A b \in Attempts : b # a => run'[b] = run[b]
      BY <2>1 DEF rec, Inv, RunsOK
    <3>3. QED
      BY <3>1, <3>2 DEF SameFields
  <2>2. ASSUME NEW status, NEW entity,
               run' = [run EXCEPT ![a].stage = "done", ![a].status = status, ![a].entity = entity]
        PROVE  Same
    <3> DEFINE rec == [run[a] EXCEPT !.stage = "done", !.status = status, !.entity = entity]
    <3>1. rec.stage = "done" /\ SameFields(rec, run[a])
      BY DEF Inv, RunsOK, Fields, SameFields
    <3> HIDE DEF rec
    <3>2. run'[a] = rec /\ \A b \in Attempts : b # a => run'[b] = run[b]
      BY <2>2 DEF rec, Inv, RunsOK
    <3>3. QED
      BY <3>1, <3>2 DEF SameFields
  <2>3. ASSUME NEW checked, run' = [run EXCEPT ![a].checked = checked] PROVE Same
    BY <2>3 DEF Inv, RunsOK, Fields
  <2> HIDE DEF Same
  <2>4. QED
    BY <2>1, <2>2, <2>3 DEF Threw, Answered
<1>2. setup' = setup /\ entities' = entities
  BY DEF worldVars
<1>3. \A b \in Attempts : HonestOK(b)'
  BY <1>1, <1>2, HonestKept
<1>4. QED
  BY <1>2, <1>3 DEF HonestInv

LEMMA ResolveHonest ==
  ASSUME Inv, HonestInv, NEW a \in Attempts, Resolve(a) \/ availableFundsRoute(a)
  PROVE  HonestInv'
<1>1. /\ IsWithdrawal /\ run[a].stage = "idle"
      /\ UNCHANGED <<setup, now, worldVars, seen, relayVars>>
  BY DEF Resolve, availableFundsRoute
<1>2. CASE Threw(a)
  BY <1>1, <1>2, EndsHonest
<1>3. ASSUME NEW e \in resolveEntityId(seen.entities, setup.sign),
             NEW stage \in {"resolved", "asked"},
             run' = [run EXCEPT ![a].stage = stage, ![a].target = e, ![a].knew = seen.entities]
      PROVE  HonestInv'
  <2>1. /\ run'[a].target = e /\ run'[a].knew = seen.entities /\ run'[a].signed = run[a].signed
        /\ run'[a].request = run[a].request
    BY <1>3 DEF Inv, RunsOK, Fields
  <2>2. run[a].signed = {} /\ run[a].request = {}
    BY <1>1 DEF Inv, AttemptOK, AnswerOK
  <2>3. Own(e)'
    BY <1>1, ResolvedOwn DEF Own, worldVars
  <2>4. HonestOK(a)'
    BY <1>1, <2>1, <2>2, <2>3 DEF HonestOK, Own
  <2>5. \A b \in Attempts : b # a => run'[b] = run[b]
    BY <1>3 DEF Inv, RunsOK
  <2>6. \A b \in Attempts : b # a => HonestOK(b)'
    BY <1>1, <2>5, HonestKept DEF worldVars
  <2>7. QED
    BY <1>1, <2>4, <2>6 DEF HonestInv, worldVars
<1>4. QED
  BY <1>2, <1>3, SameResolution DEF Resolve, availableFundsRoute

LEMMA ShownHonest ==
  ASSUME Inv, HonestInv, NEW a \in Attempts, handleGetAvailableFunds(a) PROVE HonestInv'
<1>1. /\ run[a].stage = "asked" /\ UNCHANGED <<setup, now, worldVars, seen, relayVars>>
  BY DEF handleGetAvailableFunds
<1>2. CASE Threw(a)
  BY <1>1, <1>2, EndsHonest
<1>3. CASE run' = [run EXCEPT ![a].stage = "shown", ![a].shown = seen.funds[run[a].target]]
  <2>1. /\ run'[a].target = run[a].target /\ run'[a].knew = run[a].knew
        /\ run'[a].signed = run[a].signed /\ run'[a].request = run[a].request
        /\ \A b \in Attempts : b # a => run'[b] = run[b]
    BY <1>3 DEF Inv, RunsOK, Fields
  <2>2. run[a].signed = {} /\ run[a].request = {}
    BY <1>1 DEF Inv, AttemptOK, AnswerOK
  <2>3. /\ IsWithdrawal' = IsWithdrawal /\ setup' = setup /\ entities' = entities
        /\ Own(run[a].target)' <=> Own(run[a].target)
    BY <1>1, <2>1 DEF IsWithdrawal, worldVars, Own
  <2>4. HonestOK(a)
    BY DEF HonestInv
  <2>5. HonestOK(a)'
    BY <1>1, <2>1, <2>2, <2>3, <2>4 DEF HonestOK
  <2>6. \A b \in Attempts : b # a => HonestOK(b)'
    BY <2>1, <2>3, HonestKept
  <2>7. QED
    BY <2>3, <2>5, <2>6 DEF HonestInv
<1>4. QED
  BY <1>2, <1>3 DEF handleGetAvailableFunds

LEMMA SignHonest ==
  ASSUME Inv, HonestInv, NEW a \in Attempts,
         signWithdrawFunds(a) \/ signWithdrawAllAvailableFunds(a) \/ signAction(a)
  PROVE  HonestInv'
<1>1. /\ run[a].stage \in {"idle", "resolved", "shown"}
      /\ IsWithdrawal => run[a].stage \in {"resolved", "shown"}
      /\ UNCHANGED <<setup, now, worldVars, seen, relayVars>>
  BY DEF signWithdrawFunds, signWithdrawAllAvailableFunds, signAction
<1>2. /\ IsWithdrawal' = IsWithdrawal /\ setup' = setup /\ entities' = entities
      /\ ActionArgs' = ActionArgs
  BY <1>1 DEF IsWithdrawal, worldVars, ActionArgs
<1>3. run[a].request = {} /\ HonestOK(a)
  BY <1>1 DEF Inv, AttemptOK, AnswerOK, HonestInv
<1>4. CASE Threw(a)
  BY <1>1, <1>4, EndsHonest
<1>5. ASSUME IsWithdrawal, NEW balances, NEW amounts \in Amounts(balances),
             Signs(a, balances, amounts)
      PROVE  HonestInv'
  <2> DEFINE s == signWithdrawFundsInternal(run[a].target, amounts, Chain, Escrow, Account, a)
  <2>1. /\ run'[a].target = run[a].target /\ run'[a].knew = run[a].knew
        /\ run'[a].shown = balances /\ run'[a].signed = {s} /\ run'[a].request = run[a].request
        /\ \A b \in Attempts : b # a => run'[b] = run[b]
    <3> HIDE DEF s
    <3>1. run' = [run EXCEPT ![a].stage = "signed", ![a].shown = balances, ![a].signed = {s}]
      BY <1>5 DEF s, Signs
    <3>2. QED
      BY <3>1 DEF Inv, RunsOK, Fields
  <2>2. SignedBy(a, amounts)' = s
    BY <1>2, <1>5, <2>1 DEF SignedBy
  <2> HIDE DEF s
  <2>3. Own(run[a].target)' <=> Own(run[a].target)
    BY <1>2, <2>1 DEF Own
  <2>4. HonestOK(a)'
    BY <1>1, <1>2, <1>3, <1>5, <2>1, <2>2, <2>3 DEF HonestOK
  <2>5. \A b \in Attempts : b # a => HonestOK(b)'
    BY <1>2, <2>1, HonestKept
  <2>6. QED
    BY <1>2, <2>4, <2>5 DEF HonestInv
<1>6. CASE signAction(a)
  <2> DEFINE s == signPostCommitAction(ActionArgs, Chain, Escrow, Account, a)
  <2> HIDE DEF s
  <2>1. run' = [run EXCEPT ![a].stage = "signed", ![a].signed = {s}] /\ ~IsWithdrawal
    BY <1>6 DEF signAction, ActionArgs, s
  <2>2. /\ run'[a].target = run[a].target /\ run'[a].knew = run[a].knew
        /\ run'[a].signed = {s} /\ run'[a].request = run[a].request
        /\ \A b \in Attempts : b # a => run'[b] = run[b]
    BY <2>1 DEF Inv, RunsOK, Fields
  <2>3. \A amounts : SignedBy(a, amounts)' = s
    BY <1>2, <2>1, <2>2 DEF SignedBy, s
  <2>4. HonestOK(a)'
    BY <1>2, <1>3, <2>1, <2>2, <2>3 DEF HonestOK, Amounts
  <2>5. \A b \in Attempts : b # a => HonestOK(b)'
    BY <1>2, <2>2, HonestKept
  <2>6. QED
    BY <1>2, <2>4, <2>5 DEF HonestInv
<1>7. signWithdrawFunds(a) \/ signWithdrawAllAvailableFunds(a) => IsWithdrawal
  BY DEF signWithdrawFunds, signWithdrawAllAvailableFunds, Inv, AttemptOK, SignedOK
<1>8. QED
  BY <1>4, <1>5, <1>6, <1>7 DEF signWithdrawFunds, signWithdrawAllAvailableFunds, Amounts

LEMMA CallHonest ==
  ASSUME Inv, HonestInv, NEW a \in Attempts, NEW key, ~IsWithdrawal => key = "exchange",
         run[a].stage = "signed",
         run' = [run EXCEPT ![a].stage = "called", ![a].request = {RequestFor(a, key)}],
         UNCHANGED <<setup, now, worldVars, seen>>
  PROVE  HonestInv'
<1> DEFINE r == RequestFor(a, key)
<1> HIDE DEF r
<1>1. /\ run'[a].target = run[a].target /\ run'[a].knew = run[a].knew
      /\ run'[a].shown = run[a].shown /\ run'[a].signed = run[a].signed
      /\ run'[a].request = {r} /\ run'[a].stage = "called"
      /\ \A b \in Attempts : b # a => run'[b] = run[b]
  <2>1. run' = [run EXCEPT ![a].stage = "called", ![a].request = {r}]
    BY DEF r
  <2>2. QED
    BY <2>1 DEF Inv, RunsOK, Fields
<1>2. /\ IsWithdrawal' = IsWithdrawal /\ setup' = setup /\ entities' = entities
      /\ ActionArgs' = ActionArgs
  BY DEF IsWithdrawal, worldVars, ActionArgs
<1>3. (\A amounts : SignedBy(a, amounts)' = SignedBy(a, amounts)) /\ RequestFor(a, key)' = r
  <2>1. \A amounts : SignedBy(a, amounts)' = SignedBy(a, amounts)
    BY <1>1, <1>2 DEF SignedBy
  <2>2. RequestFor(a, key)' = RequestFor(a, key)
    BY <1>1, <1>2 DEF RequestFor, Terms
  <2>3. QED
    BY <2>1, <2>2 DEF r
<1>4. HonestOK(a) /\ run[a].signed # {}
  BY DEF HonestInv, Inv, AttemptOK, AnswerOK
<1>5. Own(run[a].target)' <=> Own(run[a].target)
  BY <1>1, <1>2 DEF Own
<1>6. HonestOK(a)'
  <2>1. \A s \in run'[a].signed : \E amounts \in Amounts(run'[a].shown) :
          s = SignedBy(a, amounts)'
    BY <1>1, <1>3, <1>4 DEF HonestOK
  <2>2. IsWithdrawal' =>
          Own(run[a].target)' /\ run'[a].target \in resolveEntityId(run'[a].knew, setup'.sign)
    BY <1>1, <1>2, <1>4, <1>5 DEF HonestOK
  <2>3. \E k : run'[a].request = {RequestFor(a, k)'} /\ (~IsWithdrawal' => k = "exchange")
    BY <1>1, <1>2, <1>3
  <2>4. QED
    BY <1>1, <1>4, <2>1, <2>2, <2>3 DEF HonestOK
<1>7. \A b \in Attempts : b # a => HonestOK(b)'
  BY <1>1, <1>2, HonestKept
<1>8. QED
  BY <1>2, <1>6, <1>7 DEF HonestInv

LEMMA HonestStep == ASSUME Inv, HonestInv, [Next]_vars PROVE HonestInv'
<1>1. ASSUME NEW a \in Attempts, Replies(a) PROVE HonestInv'
  BY <1>1, EndsHonest DEF Replies
<1>2. ASSUME NEW a \in Attempts, Check(a) PROVE HonestInv'
  BY <1>2, EndsHonest DEF Check
<1>3. ASSUME NEW a \in Attempts, SendToFacilitator(a) PROVE HonestInv'
  BY <1>3, CallHonest DEF SendToFacilitator
<1>4. ASSUME NEW a \in Attempts, handleWithdrawFunds(a) PROVE HonestInv'
  BY <1>4, CallHonest, EndsHonest DEF handleWithdrawFunds
<1>5. CASE UNCHANGED <<setup, run>> /\ entities \subseteq entities'
  BY <1>5, HonestKept DEF HonestInv
<1>6. ASSUME NEW a \in Attempts, Land(a) PROVE UNCHANGED <<setup, run, entities>>
  BY <1>6 DEF Land, Execute
<1>7. CASE Credit \/ Join \/ Index \/ Tick \/ UNCHANGED vars
  BY <1>5, <1>7 DEF Credit, Join, Index, Tick, vars, worldVars
<1>8. QED
  BY <1>1, <1>2, <1>3, <1>4, <1>5, <1>6, <1>7, ResolveHonest, ShownHonest, SignHonest DEF Next

LEMMA HonestInvariance == Spec => [](Inv /\ HonestInv)
<1>1. Init => HonestInv
  <2>1. SUFFICES ASSUME Init PROVE HonestInv
    OBVIOUS
  <2>2. entities = setup.entities /\ \A a \in Attempts : run[a] = Fresh
    BY <2>1 DEF Init
  <2>3. QED
    BY <2>2 DEF HonestInv, HonestOK, Fresh
<1>2. QED
  BY <1>1, InitInv, StepInv, HonestStep, PTL DEF Spec

-----------------------------------------------------------------------------
(* The checks pass. FUNCTION_NAME tells the actions apart.                 *)
LEMMA ActionOfCall ==
  ASSUME NEW action \in POST_COMMIT_ACTION_IDS, NEW call, call.function = FUNCTION_NAME[action]
  PROVE  ActionOf(call) = action /\ call.function # "withdrawFunds"
<1>1. ASSUME NEW b \in POST_COMMIT_ACTION_IDS, FUNCTION_NAME[b] = FUNCTION_NAME[action]
      PROVE  b = action
  BY <1>1 DEF FUNCTION_NAME, ACTION_IDS, EXCHANGE_ACTION_IDS, POST_COMMIT_ACTION_IDS
<1>2. ActionOf(call) = action
  BY <1>1 DEF ActionOf
<1>3. FUNCTION_NAME[action] # "withdrawFunds"
  BY DEF FUNCTION_NAME, ACTION_IDS, EXCHANGE_ACTION_IDS, POST_COMMIT_ACTION_IDS
<1>4. QED
  BY <1>2, <1>3

(* The withdrawal of one's own, while it is covered.                       *)
LEMMA WithdrawalPasses ==
  ASSUME NEW a, NEW e, \E m \in entities : m.id = e /\ m.address = Account,
         NEW amounts, NEW clock, NEW r,
         r = [network |-> Chain, escrow |-> Escrow, action |-> "boson-withdrawFunds", key |-> e,
              metaTx |-> signWithdrawFundsInternal(e, amounts, Chain, Escrow, Account, a).metaTx,
              sig |-> signWithdrawFundsInternal(e, amounts, Chain, Escrow, Account, a).sig,
              strategy |-> "none", tokenAuth |-> NoTokenAuth, terms |-> {}],
         Covered(r.metaTx.functionSignature)
  PROVE  /\ performActionAccepts(r, Facilitator, clock)
         /\ ContractAccepts(simulateExecuteMetaTransaction(r))
<1> DEFINE action == "boson-withdrawFunds"
           call == WithdrawCalldata(e, amounts)
<1>1. /\ action \in ENTITY_ACTION_IDS /\ FUNCTION_NAME[action] = "withdrawFunds"
      /\ call.function = FUNCTION_NAME[action] /\ call.entityId = e
  BY DEF WithdrawCalldata, FUNCTION_NAME, ACTION_IDS, ENTITY_ACTION_IDS
<1>2. /\ r.network = Chain /\ r.escrow = Escrow /\ r.action = action /\ r.key = e
      /\ r.strategy = "none" /\ r.tokenAuth = NoTokenAuth /\ r.terms = {}
      /\ r.metaTx = SignedCall(action, call, Chain, Escrow, Account, a).metaTx
      /\ r.sig = SignedCall(action, call, Chain, Escrow, Account, a).sig
  BY DEF signWithdrawFundsInternal
<1> HIDE DEF call
<1>3. /\ r.metaTx.functionName = FUNCTION_NAME[action]
      /\ r.metaTx.functionSignature = call /\ r.metaTx.from = Account
      /\ recoverActionMetaTxSigner(r) = Account
      /\ Recover(r.sig, ContractMessage(Chain, Escrow, r.metaTx)) = Account
  BY <1>1, <1>2, SignerRecovered
<1>4. CoherentTokenAuth(r) /\ validatePerformActionMetaTx(r)
  BY <1>1, <1>2, <1>3 DEF CoherentTokenAuth, validatePerformActionMetaTx,
     validatePerformEntityActionMetaTx, NoTokenAuth, Absent
<1>5. performActionAccepts(r, Facilitator, clock)
  BY <1>2, <1>3, <1>4 DEF performActionAccepts, Facilitator
<1> DEFINE tx == simulateExecuteMetaTransaction(r)
<1>6. tx.user = Account /\ tx.metaTx = r.metaTx /\ tx.sig = r.sig /\ DOMAIN tx.queue = {}
  BY <1>2, <1>3 DEF simulateExecuteMetaTransaction, buildSettleCalldata
<1> HIDE DEF tx
<1>7. ContractAccepts(tx)
  <2>1. \E m \in entities : m.id = call.entityId /\ m.address = tx.user
    BY <1>1, <1>6
  <2>2. QED
    BY <1>1, <1>3, <1>6, <2>1 DEF ContractAccepts
<1>8. QED
  BY <1>5, <1>7 DEF tx

(* The deposit's authorization, on a clock that is neither due nor early.  *)
Window ==
  2 - TOKEN_AUTH_DEADLINE_SAFETY_MARGIN_SECONDS ..
    2 + MaxTimeoutSeconds - TOKEN_AUTH_DEADLINE_SAFETY_MARGIN_SECONDS - 1

LEMMA DepositPasses ==
  ASSUME NEW a, NEW clock \in Window, 0 < clock,
         TOKEN_AUTH_DEADLINE_SAFETY_MARGIN_SECONDS < MaxTimeoutSeconds,
         NEW auth, auth = signErc3009(Terms, Account, a, 2)
  PROVE  /\ auth.kind = "erc3009"
         /\ verifyErc3009(auth, [asset |-> Asset, amount |-> Deposit, network |-> Chain,
                                 maxTimeoutSeconds |-> MaxTimeoutSeconds],
                          Account, Escrow, clock)
         /\ EntryPays(encodeAuthEntry(auth),
                      [from |-> Account, to |-> Escrow, value |-> Deposit, token |-> Asset,
                       permitNonce |-> 0], Chain, clock)
<1> DEFINE deadline == computeTokenAuthDeadline(MaxTimeoutSeconds, 2)
           data == [from |-> Account, to |-> Escrow, value |-> Deposit, validAfter |-> 0,
                    validBefore |-> deadline, nonce |-> a]
<1>1. /\ MaxTimeoutSeconds \in Nat /\ TOKEN_AUTH_DEADLINE_SAFETY_MARGIN_SECONDS \in Nat
      /\ clock \in Int
  BY SignerAssumption, MarginAssumption DEF Window
<1>2. deadline = 2 + MaxTimeoutSeconds - TOKEN_AUTH_DEADLINE_SAFETY_MARGIN_SECONDS
  BY <1>1 DEF Window, computeTokenAuthDeadline
<1>3. clock < deadline /\ deadline - clock <= MaxTimeoutSeconds /\ deadline > clock
  BY <1>1, <1>2 DEF Window
<1> HIDE DEF deadline
<1>4. auth = [kind |-> "erc3009", data |-> data,
              sig |-> Sign(Account, Erc3009Message(Asset, Chain, data))]
  BY DEF signErc3009, Terms, deadline
<1>5. Recover(auth.sig, Erc3009Message(Asset, Chain, data)) = Account /\ LegacyV(auth.sig)
  BY <1>4 DEF Sign, Recover, LegacyV
<1>6. verifyErc3009(auth, [asset |-> Asset, amount |-> Deposit, network |-> Chain,
                           maxTimeoutSeconds |-> MaxTimeoutSeconds], Account, Escrow, clock)
  BY <1>3, <1>4, <1>5 DEF verifyErc3009, validateDeadlineWindow
<1> DEFINE entry == [strategy |-> "erc3009", validAfter |-> 0, validBefore |-> deadline,
                     nonce |-> a, sig |-> auth.sig]
<1>7. encodeAuthEntry(auth) = entry
  BY <1>4 DEF encodeAuthEntry
<1>8. EntryPays(entry, [from |-> Account, to |-> Escrow, value |-> Deposit, token |-> Asset,
                        permitNonce |-> 0], Chain, clock)
  BY <1>3, <1>5 DEF EntryPays, Erc3009Message
<1>9. QED
  BY <1>4, <1>6, <1>7, <1>8

(* An action the exchange takes from the signer, with its deposit if there *)
(* is one.                                                                 *)
LEMMA ActionPasses ==
  ASSUME Inv, ~IsWithdrawal, NEW a, NEW s,
         s = signPostCommitAction(ActionArgs, Chain, Escrow, Account, a),
         NEW r, r = [network |-> Chain, escrow |-> Escrow, action |-> setup.action,
                     key |-> "exchange", metaTx |-> s.metaTx, sig |-> s.sig,
                     strategy |-> setup.strategy,
                     tokenAuth |-> buildAndSignTokenAuth(setup.strategy, Terms, Account, a, 2),
                     terms |-> IF setup.strategy = "none" THEN {} ELSE {Terms}],
         isLegalTransition(exchange, setup.action, "client"),
         setup.strategy # "none" => {now, now + setup.skew} \subseteq Window
  PROVE  /\ performActionAccepts(r, Facilitator, now + setup.skew)
         /\ ContractAccepts(simulateExecuteMetaTransaction(r))
<1> DEFINE call == IF setup.action = "boson-resolveDispute"
                     THEN ResolveCalldata("exchange", 50, "seller")
                     ELSE ExchangeCalldata(setup.action, "exchange")
<1>1. setup.action \in POST_COMMIT_ACTION_IDS /\ setup.action \notin ENTITY_ACTION_IDS
      /\ setup \in Setups
  BY ActionsAssumption DEF Inv, WorldOK, IsWithdrawal
<1>2. call.function = FUNCTION_NAME[setup.action] /\ call.exchangeId = "exchange"
  BY DEF ResolveCalldata, ExchangeCalldata
<1>3. /\ r.network = Chain /\ r.escrow = Escrow /\ r.action = setup.action /\ r.key = "exchange"
      /\ r.strategy = setup.strategy
      /\ r.tokenAuth = buildAndSignTokenAuth(setup.strategy, Terms, Account, a, 2)
      /\ r.terms = IF setup.strategy = "none" THEN {} ELSE {Terms}
      /\ r.metaTx = SignedCall(setup.action, call, Chain, Escrow, Account, a).metaTx
      /\ r.sig = SignedCall(setup.action, call, Chain, Escrow, Account, a).sig
  BY DEF signPostCommitAction, ActionArgs
<1> HIDE DEF call
<1>4. /\ r.metaTx.functionName = FUNCTION_NAME[setup.action]
      /\ r.metaTx.functionSignature = call /\ r.metaTx.from = Account
      /\ recoverActionMetaTxSigner(r) = Account
      /\ Recover(r.sig, ContractMessage(Chain, Escrow, r.metaTx)) = Account
  BY <1>1, <1>2, <1>3, SignerRecovered
<1>5. validatePerformActionMetaTx(r)
  BY <1>1, <1>2, <1>3, <1>4 DEF validatePerformActionMetaTx, validatePerformExchangeActionMetaTx
<1>6. ActionOf(call) = setup.action /\ call.function # "withdrawFunds"
  BY <1>1, <1>2, ActionOfCall
<1>7. setup.strategy \in {"none", "erc3009"}
  BY <1>1, SignerAssumption
<1> DEFINE tx == simulateExecuteMetaTransaction(r)
           pull == [from |-> Account, to |-> Escrow, value |-> Deposit, token |-> Asset,
                    permitNonce |-> 0]
<1>8. /\ CoherentTokenAuth(r)
      /\ \A terms \in r.terms :
           verifyTokenAuthSignature(r.tokenAuth,
             [asset |-> terms.asset, amount |-> terms.amount, network |-> r.network,
              maxTimeoutSeconds |-> terms.maxTimeoutSeconds],
             r.metaTx.from, Escrow, now + setup.skew)
      /\ setup.strategy = "erc3009" => EntryPays(encodeAuthEntry(r.tokenAuth), pull, Chain, now)
  <2>1. CASE setup.strategy = "none"
    BY <1>1, <1>3, <2>1
    DEF CoherentTokenAuth, buildAndSignTokenAuth, NoTokenAuth, Absent
  <2>2. CASE setup.strategy = "erc3009"
    <3>1. r.tokenAuth = signErc3009(Terms, Account, a, 2) /\ r.terms = {Terms}
      BY <1>3, <2>2 DEF buildAndSignTokenAuth
    <3>2. now \in Window /\ now + setup.skew \in Window
      BY <2>2
    <3>3. 0 < now /\ 0 < now + setup.skew
      <4>1. now \in Int /\ 2 <= now
        BY <1>1, ActionsAssumption DEF Inv, WorldOK
      <4>2. setup.skew \in Int /\ -1 <= setup.skew
        BY <1>1, SignerAssumption
      <4>3. QED
        BY <4>1, <4>2
    <3>4. TOKEN_AUTH_DEADLINE_SAFETY_MARGIN_SECONDS < MaxTimeoutSeconds
      <4>1. now \in Int /\ 2 <= now
        BY <1>1, ActionsAssumption DEF Inv, WorldOK
      <4>2. QED
        BY <3>2, <4>1, SignerAssumption, MarginAssumption DEF Window
    <3>5. /\ r.tokenAuth.kind = "erc3009"
          /\ verifyErc3009(r.tokenAuth,
               [asset |-> Asset, amount |-> Deposit, network |-> Chain,
                maxTimeoutSeconds |-> MaxTimeoutSeconds], Account, Escrow, now + setup.skew)
          /\ EntryPays(encodeAuthEntry(r.tokenAuth), pull, Chain, now)
      BY <3>1, <3>2, <3>3, <3>4, DepositPasses
    <3>6. CoherentTokenAuth(r)
      BY <1>1, <1>3, <2>2, <3>1, <3>5 DEF CoherentTokenAuth
    <3>7. ASSUME NEW terms \in r.terms
          PROVE  verifyTokenAuthSignature(r.tokenAuth,
                   [asset |-> terms.asset, amount |-> terms.amount, network |-> r.network,
                    maxTimeoutSeconds |-> terms.maxTimeoutSeconds],
                   r.metaTx.from, Escrow, now + setup.skew)
      <4>1. /\ terms.asset = Asset /\ terms.amount = Deposit
            /\ terms.maxTimeoutSeconds = MaxTimeoutSeconds
        BY <3>1, <3>7 DEF Terms
      <4>2. QED
        BY <1>3, <1>4, <3>5, <4>1 DEF verifyTokenAuthSignature
    <3>8. QED
      BY <3>5, <3>6, <3>7
  <2>3. QED
    BY <1>7, <2>1, <2>2
<1>9. performActionAccepts(r, Facilitator, now + setup.skew)
  BY <1>3, <1>4, <1>5, <1>8 DEF performActionAccepts, Facilitator
<1>10. tx = executeMetaTransaction(r)
  BY <1>9, SimulatedIsSent
<1>11. /\ tx.user = Account /\ tx.metaTx = r.metaTx /\ tx.sig = r.sig
       /\ \A i \in DOMAIN tx.queue : EntryPays(tx.queue[i], pull, Chain, now)
  <2>1. CASE setup.strategy = "none"
    <3>1. tx.user = Account /\ tx.metaTx = r.metaTx /\ tx.sig = r.sig /\ tx.queue = <<>>
      BY <1>3, <1>4, <1>10, <2>1 DEF executeMetaTransaction
    <3>2. DOMAIN <<>> = {}
      OBVIOUS
    <3>3. QED
      BY <3>1, <3>2
  <2>2. CASE setup.strategy = "erc3009"
    <3> DEFINE entry == encodeAuthEntry(r.tokenAuth)
    <3>1. bosonTokenAuthToTransferAuthorization(r.tokenAuth) = entry
      BY DEF bosonTokenAuthToTransferAuthorization, encodeAuthEntry
    <3> HIDE DEF entry
    <3>2. tx.user = Account /\ tx.metaTx = r.metaTx /\ tx.sig = r.sig /\ tx.queue = <<entry>>
      BY <1>3, <1>4, <1>10, <2>2, <3>1 DEF executeMetaTransaction
    <3>3. EntryPays(entry, pull, Chain, now)
      BY <1>8, <2>2 DEF entry
    <3> HIDE DEF pull
    <3>4. \A i \in DOMAIN <<entry>> : <<entry>>[i] = entry
      OBVIOUS
    <3>5. QED
      BY <3>2, <3>3, <3>4
  <2>3. QED
    BY <1>7, <2>1, <2>2
<1> HIDE DEF tx, pull
<1>12. ContractAccepts(tx)
  BY <1>1, <1>4, <1>6, <1>11 DEF ContractAccepts, pull
<1>13. QED
  BY <1>9, <1>12 DEF tx

LEMMA OnlyCheckChecks ==
  ASSUME Inv, [Next]_vars, NEW a \in Attempts, run'[a].checked # run[a].checked
  PROVE  Check(a)
<1>1. CASE UNCHANGED run
  BY <1>1
<1>2. CASE Credit \/ Join \/ Index \/ Tick \/ UNCHANGED vars
  BY <1>1, <1>2 DEF Credit, Join, Index, Tick, vars
<1>3. ASSUME NEW b \in Attempts,
             \/ Resolve(b) \/ signWithdrawAllAvailableFunds(b) \/ signAction(b)
             \/ availableFundsRoute(b) \/ handleGetAvailableFunds(b) \/ signWithdrawFunds(b)
             \/ SendToFacilitator(b) \/ handleWithdrawFunds(b) \/ Replies(b) \/ Land(b)
      PROVE  run'[a].checked = run[a].checked
  <2>1. CASE Resolve(b) \/ availableFundsRoute(b)
    <3>1. CASE Threw(b)
      BY <1>3, <3>1 DEF Threw, Inv, RunsOK, Fields
    <3>2. ASSUME NEW e, NEW stage,
                 run' = [run EXCEPT ![b].stage = stage, ![b].target = e, ![b].knew = seen.entities]
          PROVE  run'[a].checked = run[a].checked
      BY <1>3, <3>2 DEF Inv, RunsOK, Fields
    <3>3. QED
      BY <2>1, <3>1, <3>2 DEF Resolve, availableFundsRoute
  <2>2. CASE handleGetAvailableFunds(b)
    BY <2>2 DEF handleGetAvailableFunds, Threw, Inv, RunsOK, Fields
  <2>3. CASE signWithdrawFunds(b) \/ signWithdrawAllAvailableFunds(b)
    BY <2>3 DEF signWithdrawFunds, signWithdrawAllAvailableFunds, Signs, Threw, Inv, RunsOK,
       Fields
  <2>4. CASE signAction(b)
    BY <2>4 DEF signAction, Inv, RunsOK, Fields
  <2>5. CASE SendToFacilitator(b) \/ handleWithdrawFunds(b)
    BY <2>5 DEF SendToFacilitator, handleWithdrawFunds, Inv, RunsOK, Fields
  <2>6. CASE Replies(b) \/ Land(b)
    BY <2>6 DEF Replies, Answered, Land, Inv, RunsOK, Fields
  <2>7. QED
    BY <1>3, <2>1, <2>2, <2>3, <2>4, <2>5, <2>6
<1>4. ASSUME NEW b \in Attempts, Check(b), b # a PROVE run'[a].checked = run[a].checked
  BY <1>4 DEF Check, Inv, RunsOK, Fields
<1>5. QED
  BY <1>2, <1>3, <1>4 DEF Next

LEMMA OnlyTheRouteRefuses ==
  ASSUME Inv, [Next]_vars, NEW a \in Attempts, setup.route = "server",
         run[a].status = "none", run'[a].status = "4xx"
  PROVE  /\ IsWithdrawal /\ run[a].stage = "signed"
         /\ resolveEntityId(seen.entities, setup.send) = {}
<1>1. CASE UNCHANGED run
  BY <1>1
<1>2. CASE Credit \/ Join \/ Index \/ Tick \/ UNCHANGED vars
  BY <1>1, <1>2 DEF Credit, Join, Index, Tick, vars
<1>3. ASSUME NEW b \in Attempts,
             \/ Resolve(b) \/ signWithdrawAllAvailableFunds(b) \/ signAction(b)
             \/ availableFundsRoute(b) \/ handleGetAvailableFunds(b) \/ signWithdrawFunds(b)
             \/ SendToFacilitator(b) \/ Replies(b) \/ Check(b) \/ Land(b)
      PROVE  run'[a].status # "4xx"
  <2>1. CASE Resolve(b) \/ availableFundsRoute(b)
    <3>1. CASE Threw(b)
      BY <1>3, <3>1 DEF Threw, Inv, RunsOK, Fields
    <3>2. ASSUME NEW e, NEW stage,
                 run' = [run EXCEPT ![b].stage = stage, ![b].target = e, ![b].knew = seen.entities]
          PROVE  run'[a].status # "4xx"
      BY <1>3, <3>2 DEF Inv, RunsOK, Fields
    <3>3. ASSUME Resolve(b), ~Threw(b) PROVE run'[a].status # "4xx"
      <4>1. PICK e : run' = [run EXCEPT ![b].stage = "resolved", ![b].target = e,
                                        ![b].knew = seen.entities]
        BY <3>3 DEF Resolve
      <4>2. QED
        BY <3>2, <4>1
    <3>4. ASSUME availableFundsRoute(b), ~Threw(b) PROVE run'[a].status # "4xx"
      <4>1. PICK e : run' = [run EXCEPT ![b].stage = "asked", ![b].target = e,
                                        ![b].knew = seen.entities]
        BY <3>4 DEF availableFundsRoute
      <4>2. QED
        BY <3>2, <4>1
    <3>5. QED
      BY <2>1, <3>1, <3>3, <3>4
  <2>2. CASE handleGetAvailableFunds(b)
    BY <2>2 DEF handleGetAvailableFunds, Threw, Inv, RunsOK, Fields
  <2>3. CASE signWithdrawFunds(b) \/ signWithdrawAllAvailableFunds(b)
    BY <2>3 DEF signWithdrawFunds, signWithdrawAllAvailableFunds, Signs, Threw, Inv, RunsOK,
       Fields
  <2>4. CASE signAction(b)
    BY <2>4 DEF signAction, Inv, RunsOK, Fields
  <2>5. CASE SendToFacilitator(b) \/ Check(b)
    BY <2>5 DEF SendToFacilitator, Check, Inv, RunsOK, Fields
  <2>6. CASE Replies(b) \/ Land(b)
    BY <2>6 DEF Replies, Answered, FailureStatus, Land, Inv, RunsOK, Fields
  <2>7. QED
    BY <1>3, <2>1, <2>2, <2>3, <2>4, <2>5, <2>6
<1>4. ASSUME NEW b \in Attempts, handleWithdrawFunds(b), b # a PROVE run'[a].status # "4xx"
  BY <1>4 DEF handleWithdrawFunds, Inv, RunsOK, Fields
<1>5. ASSUME handleWithdrawFunds(a)
      PROVE  /\ IsWithdrawal /\ run[a].stage = "signed"
             /\ resolveEntityId(seen.entities, setup.send) = {}
  BY <1>5 DEF handleWithdrawFunds, Inv, RunsOK, Fields
<1>6. QED
  BY <1>2, <1>3, <1>4, <1>5 DEF Next

(* A refusal at the facilitator, of a request that nothing has overtaken,  *)
(* would contradict the checks above.                                      *)
LEMMA RefusedOvertaken ==
  ASSUME Inv, HonestInv, NEW a \in Attempts, Check(a),
         "refused" \in run'[a].checked \ run[a].checked
  PROVE  Overtaken(a)
<1>1. PICK r \in run[a].request :
        run' = [run EXCEPT ![a].checked =
                  @ \cup {IF Passes(r) /\ ~Landed(a) THEN "passed" ELSE "refused"}]
  BY DEF Check
<1>2. ~Passes(r) \/ Landed(a)
  BY <1>1 DEF Inv, RunsOK, Fields
<1>3. HonestOK(a)
  BY DEF HonestInv
<1>4. PICK amounts : run[a].signed = {SignedBy(a, amounts)}
  <2>1. run[a].signed # {} /\ \A x, y \in run[a].signed : x = y
    BY <1>1, <1>3 DEF HonestOK, Inv, AttemptOK, SignedOK
  <2>2. PICK x \in run[a].signed : TRUE
    BY <2>1
  <2>3. run[a].signed = {x}
    BY <2>1, <2>2
  <2>4. QED
    BY <1>3, <2>3 DEF HonestOK
<1>5. PICK key : run[a].request = {RequestFor(a, key)} /\ (~IsWithdrawal => key = "exchange")
  BY <1>1, <1>3 DEF HonestOK
<1> DEFINE s == SignedBy(a, amounts)
<1> HIDE DEF s
<1>6. r = [network |-> Chain, escrow |-> Escrow, action |-> setup.action, key |-> key,
           metaTx |-> s.metaTx, sig |-> s.sig, strategy |-> setup.strategy,
           tokenAuth |-> buildAndSignTokenAuth(setup.strategy, Terms, Account, a, 2),
           terms |-> IF setup.strategy = "none" THEN {} ELSE {Terms}]
  <2>1. r = RequestFor(a, key)
    BY <1>1, <1>5
  <2>2. (CHOOSE x \in run[a].signed : TRUE) = s
    BY <1>4 DEF s
  <2>3. QED
    BY <2>1, <2>2 DEF RequestFor
<1>7. SUFFICES ASSUME ~Overtaken(a) PROVE Passes(r)
  BY <1>1, <1>2 DEF Overtaken
<1>8. CASE IsWithdrawal
  <2> DEFINE signed == signWithdrawFundsInternal(run[a].target, amounts, Chain, Escrow, Account, a)
  <2>1. r.key = run[a].target /\ Covered(r.metaTx.functionSignature)
    BY <1>1, <1>7, <1>8 DEF Overtaken
  <2>2. setup \in Setups /\ setup.action = "boson-withdrawFunds"
    BY <1>8 DEF IsWithdrawal, ENTITY_ACTION_IDS, Inv, WorldOK
  <2>3. setup.strategy = "none"
    BY <1>8, <2>2, SignerAssumption DEF IsWithdrawal
  <2>4. s = signed
    BY <1>8 DEF SignedBy, s
  <2> HIDE DEF signed
  <2>5. r = [network |-> Chain, escrow |-> Escrow, action |-> "boson-withdrawFunds",
             key |-> run[a].target, metaTx |-> signed.metaTx, sig |-> signed.sig,
             strategy |-> "none", tokenAuth |-> NoTokenAuth, terms |-> {}]
    <3>1. key = run[a].target
      BY <1>6, <2>1
    <3>2. buildAndSignTokenAuth(setup.strategy, Terms, Account, a, 2) = NoTokenAuth
      BY <2>3 DEF buildAndSignTokenAuth
    <3>3. QED
      BY <1>6, <2>2, <2>3, <2>4, <3>1, <3>2
  <2>6. \E m \in entities : m.id = run[a].target /\ m.address = Account
    <3>1. Own(run[a].target)
      BY <1>3, <1>4, <1>8 DEF HonestOK
    <3>2. \A m \in entities : m.id = run[a].target => m.address = Account
      BY <1>1, <1>7, <1>8, <2>1 DEF Overtaken
    <3>3. QED
      BY <3>1, <3>2 DEF Own
  <2>7. QED
    BY <2>1, <2>5, <2>6, WithdrawalPasses DEF Passes, signed
<1>9. CASE ~IsWithdrawal
  <2>1. isLegalTransition(exchange, setup.action, "client")
    BY <1>1, <1>7, <1>9 DEF Overtaken
  <2>2. setup.strategy # "none" => {now, now + setup.skew} \subseteq Window
    BY <1>1, <1>7 DEF Overtaken, Window
  <2>3. s = signPostCommitAction(ActionArgs, Chain, Escrow, Account, a)
    BY <1>9 DEF SignedBy, s
  <2>4. key = "exchange"
    BY <1>5, <1>9
  <2>5. QED
    BY <1>6, <1>9, <2>1, <2>2, <2>3, <2>4, ActionPasses DEF Passes
<1>10. QED
  BY <1>8, <1>9

(* Whatever the client's helpers have signed is taken, unless the world    *)
(* has moved on: the facilitator's checks and the contract's agree with    *)
(* what is signed, action by action (signAction, signWithdrawFunds,        *)
(* performAction), and server and client resolve an address alike.         *)
THEOREM HonestIsTaken == Spec => NoHonestRefusal
<1>1. ASSUME Inv, HonestInv, [Next]_vars, NEW a \in Attempts
      PROVE  /\ "refused" \in run'[a].checked \ run[a].checked => Overtaken(a)
             /\ setup.route = "server" /\ run[a].status = "none" /\ run'[a].status = "4xx" =>
                  setup.send # setup.sign \/ seen.entities # run[a].knew
  <2>1. ASSUME "refused" \in run'[a].checked \ run[a].checked PROVE Overtaken(a)
    <3>1. Check(a)
      BY <1>1, <2>1, OnlyCheckChecks
    <3>2. QED
      BY <1>1, <2>1, <3>1, RefusedOvertaken
  <2>2. ASSUME setup.route = "server", run[a].status = "none", run'[a].status = "4xx"
        PROVE  setup.send # setup.sign \/ seen.entities # run[a].knew
    <3>1. /\ IsWithdrawal /\ run[a].stage = "signed"
          /\ resolveEntityId(seen.entities, setup.send) = {}
      BY <1>1, <2>2, OnlyTheRouteRefuses
    <3>2. run[a].target \in resolveEntityId(run[a].knew, setup.sign)
      BY <1>1, <3>1 DEF HonestInv, HonestOK, Inv, AttemptOK, AnswerOK
    <3>3. QED
      BY <3>1, <3>2
  <2>3. QED
    BY <2>1, <2>2
<1>2. Inv /\ HonestInv /\ [Next]_vars =>
        [\A a \in Attempts :
           /\ "refused" \in run'[a].checked \ run[a].checked => Overtaken(a)
           /\ setup.route = "server" /\ run[a].status = "none" /\ run'[a].status = "4xx" =>
                setup.send # setup.sign \/ seen.entities # run[a].knew]_vars
  BY <1>1
<1>3. QED
  BY <1>2, HonestInvariance, PTL DEF Spec, NoHonestRefusal
=============================================================================
