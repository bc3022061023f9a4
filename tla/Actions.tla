------------------------------- MODULE Actions -------------------------------
(***************************************************************************)
(* What a buyer or seller signs after the commit, from the subgraph reads  *)
(* before the signature to the answer: withdrawals, through the server's   *)
(* withdraw-funds route or straight to the facilitator, and the actions on *)
(* an exchange, straight to the facilitator (RedeemServer has the server's *)
(* route for those). Attempts run side by side: a second tab, or a retry   *)
(* after an answer that said nothing. The subgraph trails the chain.       *)
(***************************************************************************)
EXTENDS PerformAction, Integers

CONSTANTS
  Setups,            \* see MC_Actions
  Attempts, NoAttempt,
  Tokens, Account,
  Chain, Escrow, Asset, Deposit, MaxTimeoutSeconds,
  MaxFunds           \* a bound on an entity's balance of a token

(* An account that is named by its id exists, or will.                     *)
ASSUME ActionsAssumption ==
  /\ NoAttempt \notin Attempts /\ MaxFunds \in Nat \ {0}
  /\ \A s \in Setups :
       /\ s.action \in POST_COMMIT_ACTION_IDS \cup ENTITY_ACTION_IDS
       /\ s.exchange \in ClientState /\ s.sells \subseteq Tokens /\ s.end \in Nat /\ 2 <= s.end
       /\ s.sign.by = "entityId" => \E m \in s.entities \cup s.joins : m.id = s.sign.entityId

(* The signer withdraws what is his own; a deposit is paid by erc3009, and *)
(* no clock is before the time its authorization is valid from.            *)
ASSUME SignerAssumption ==
  /\ MaxTimeoutSeconds \in Nat
  /\ \A s \in Setups :
       /\ s.sign.by \in {"entityId", "address"}
       /\ s.sign.by = "entityId" =>
            \E m \in s.entities : m.id = s.sign.entityId /\ m.address = Account
       /\ s.sign.by = "address" => s.sign.address = Account
       /\ s.strategy = "none" \/ (s.strategy = "erc3009" /\ s.action \notin ENTITY_ACTION_IDS)
       /\ s.skew \in Int /\ -1 <= s.skew

VARIABLES
  setup,
  now,
  exchange,             \* the client state of the exchange
  entities, funds,      \* the accounts and what they may withdraw, on chain
  paid,                 \* what has been withdrawn
  seen,                 \* [entities, funds] as the subgraph has them
  run,                  \* per attempt: stage, target, knew, shown, signed, ...
  called, landedBy, reply

relayVars == <<called, landedBy, reply>>
worldVars == <<exchange, entities, funds, paid>>
vars == <<setup, now, worldVars, seen, run, relayVars>>

Relay ==
  INSTANCE RelayContract WITH
    Calls <- Attempts, Payloads <- Attempts,
    PayloadOf <- [a \in Attempts |-> a], NoCall <- NoAttempt

Landed(a) == landedBy[a] # NoAttempt

IsWithdrawal == setup.action \in ENTITY_ACTION_IDS

Facilitator == [network |-> Chain, escrow |-> Escrow]

Fresh ==
  [stage |-> "idle",
   target |-> Absent,     \* the entity the client resolved,
   knew |-> {},           \* from these,
   shown |-> <<>>,        \* and the balances it read of it, per token
   signed |-> {},         \* the signed meta-transaction
   request |-> {},        \* what the facilitator is asked
   checked |-> {},        \* and its verdicts
   status |-> "none", entity |-> Absent]   \* the answer

Init ==
  /\ setup \in Setups
  /\ now = 2 /\ exchange = setup.exchange
  /\ entities = setup.entities
  /\ funds = [e \in {m.id : m \in setup.entities \cup setup.joins} |->
                [t \in Tokens |-> IF t \in setup.funded THEN 1 ELSE 0]]
  /\ paid = [e \in DOMAIN funds |-> [t \in Tokens |-> 0]]
  /\ seen = [entities |-> entities, funds |-> funds]
  /\ run = [a \in Attempts |-> Fresh]
  /\ Relay!Init

-----------------------------------------------------------------------------
(* The client.                                                             *)
Threw(a) == run' = [run EXCEPT ![a].stage = "done", ![a].status = "threw"]

(* signWithdrawAllAvailableFunds: first who, then how much, in two reads,  *)
(* either of which may fail.                                               *)
Resolve(a) ==
  /\ IsWithdrawal /\ run[a].stage = "idle" /\ setup.read = "subgraph"
  /\ LET found == resolveEntityIdClientSide(seen.entities, setup.sign)
     IN  \/ Threw(a)
         \/ \E e \in found :
              run' = [run EXCEPT ![a].stage = "resolved", ![a].target = e,
                                 ![a].knew = seen.entities]
  /\ UNCHANGED <<setup, now, worldVars, seen, relayVars>>

Signs(a, balances, tokenAmounts) ==
  run' = [run EXCEPT
    ![a].stage = "signed", ![a].shown = balances,
    ![a].signed = {signWithdrawFundsInternal(run[a].target, tokenAmounts, Chain, Escrow,
                                             Account, a)}]

(* It drops the zeros, and signs nothing when there is nothing left.       *)
signWithdrawAllAvailableFunds(a) ==
  /\ run[a].stage = "resolved"
  /\ LET balances == seen.funds[run[a].target]
     IN  \/ Threw(a)
         \/ DOMAIN nonZero(balances) # {} /\ Signs(a, balances, nonZero(balances))
  /\ UNCHANGED <<setup, now, worldVars, seen, relayVars>>

(* Or the program asks the server for the balances, and has all that it is *)
(* shown signed as it is.                                                  *)
availableFundsRoute(a) ==
  /\ IsWithdrawal /\ run[a].stage = "idle" /\ setup.read = "server"
  /\ LET found == resolveEntityId(seen.entities, setup.sign)
     IN  \/ Threw(a)
         \/ \E e \in found :
              run' = [run EXCEPT ![a].stage = "asked", ![a].target = e,
                                 ![a].knew = seen.entities]
  /\ UNCHANGED <<setup, now, worldVars, seen, relayVars>>

handleGetAvailableFunds(a) ==
  /\ run[a].stage = "asked"
  /\ \/ run' = [run EXCEPT ![a].stage = "shown", ![a].shown = seen.funds[run[a].target]]
     \/ Threw(a)
  /\ UNCHANGED <<setup, now, worldVars, seen, relayVars>>

signWithdrawFunds(a) ==
  /\ run[a].stage = "shown"
  /\ Signs(a, run[a].shown, run[a].shown)
  /\ UNCHANGED <<setup, now, worldVars, seen, relayVars>>

signAction(a) ==
  /\ ~IsWithdrawal /\ run[a].stage = "idle"
  /\ run' = [run EXCEPT ![a].stage = "signed",
               ![a].signed = {signPostCommitAction(
                  [action |-> setup.action, exchangeId |-> "exchange", percent |-> 50,
                   counterpartySig |-> "seller"], Chain, Escrow, Account, a)}]
  /\ UNCHANGED <<setup, now, worldVars, seen, relayVars>>

(* The deposit of an escalation, if the caller adds one, by erc3009.       *)
Terms == [asset |-> Asset, amount |-> Deposit, maxTimeoutSeconds |-> MaxTimeoutSeconds,
          network |-> Chain, escrowAddress |-> Escrow]

RequestFor(a, key) ==
  LET s == CHOOSE s \in run[a].signed : TRUE
  IN  [network |-> Chain, escrow |-> Escrow, action |-> setup.action, key |-> key,
       metaTx |-> s.metaTx, sig |-> s.sig, strategy |-> setup.strategy,
       tokenAuth |-> buildAndSignTokenAuth(setup.strategy, Terms, Account, a, 2),
       terms |-> IF setup.strategy = "none" THEN {} ELSE {Terms}]

SendToFacilitator(a) ==
  /\ run[a].stage = "signed" /\ setup.route = "facilitator"
  /\ run' = [run EXCEPT ![a].stage = "called",
               ![a].request = {RequestFor(a, IF IsWithdrawal THEN run[a].target ELSE "exchange")}]
  /\ Relay!Call(a)
  /\ UNCHANGED <<setup, now, worldVars, seen>>

-----------------------------------------------------------------------------
(* handleWithdrawFunds, from the request to the relayed call: an entity    *)
(* that is not found or not the only one is a 404 or 409, a failed read a  *)
(* 502.                                                                    *)
handleWithdrawFunds(a) ==
  /\ IsWithdrawal /\ run[a].stage = "signed" /\ setup.route = "server"
  /\ LET found == resolveEntityId(seen.entities, setup.send)
     IN  \/ /\ found = {}
            /\ run' = [run EXCEPT ![a].stage = "done", ![a].status = "4xx"]
            /\ UNCHANGED relayVars
         \/ /\ setup.send.by = "address"
            /\ run' = [run EXCEPT ![a].stage = "done", ![a].status = "5xx"]
            /\ UNCHANGED relayVars
         \/ \E e \in found :
              /\ run' = [run EXCEPT ![a].stage = "called", ![a].request = {RequestFor(a, e)}]
              /\ Relay!Call(a)
  /\ UNCHANGED <<setup, now, worldVars, seen>>

Answered(a, status) ==
  run' = [run EXCEPT ![a].stage = "done", ![a].status = status,
                     ![a].entity = (CHOOSE r \in run[a].request : TRUE).key]

(* The server makes a 502 of every failure of the relay. The facilitator's *)
(* own route has a 400 for whatever is not ok, be it that the wait for the *)
(* receipt failed, and a 500 for what throws.                              *)
FailureStatus(answer) ==
  IF setup.route = "facilitator" /\ answer = "rejected" THEN "4xx" ELSE "5xx"

Replies(a) ==
  /\ run[a].stage = "called"
  /\ \/ Relay!Accept(a) /\ Answered(a, "200")
     \/ Relay!Fail(a) /\ Answered(a, FailureStatus(reply'[a]))
  /\ UNCHANGED <<setup, now, worldVars, seen>>

-----------------------------------------------------------------------------
(* The contract. It is taken to refuse a zero amount, since "withdraw all" *)
(* takes care to drop them.                                                *)
Covered(call) ==
  \A t \in DOMAIN call.tokenAmounts : call.tokenAmounts[t] \in 1 .. funds[call.entityId][t]

ActionOf(call) == CHOOSE a \in POST_COMMIT_ACTION_IDS : FUNCTION_NAME[a] = call.function

ContractAccepts(tx) ==
  LET call == tx.metaTx.functionSignature
  IN  /\ Recover(tx.sig, ContractMessage(Chain, Escrow, tx.metaTx)) = tx.user
      /\ \A i \in DOMAIN tx.queue : EntryPays(tx.queue[i],
              [from |-> tx.user, to |-> Escrow, value |-> Deposit, token |-> Asset,
               permitNonce |-> 0], Chain, now)
      /\ IF call.function = "withdrawFunds"
           THEN /\ \E e \in entities : e.id = call.entityId /\ e.address = tx.user
                /\ Covered(call)
           ELSE isLegalTransition(exchange, ActionOf(call), "client")

Withdrawn(call, before, sign) ==
  [t \in Tokens |->
     before[t] + sign * (IF t \in DOMAIN call.tokenAmounts THEN call.tokenAmounts[t] ELSE 0)]

Execute(call) ==
  IF call.function = "withdrawFunds"
    THEN /\ funds' = [funds EXCEPT ![call.entityId] = Withdrawn(call, @, -1)]
         /\ paid' = [paid EXCEPT ![call.entityId] = Withdrawn(call, @, 1)]
         /\ UNCHANGED <<exchange, entities>>
    ELSE exchange' = ACTION_POST_STATE[ActionOf(call)] /\ UNCHANGED <<entities, funds, paid>>

-----------------------------------------------------------------------------
(* The facilitator's performAction: each time it is asked it validates and *)
(* simulates; what passed may land at any later time.                      *)
Passes(r) ==
  performActionAccepts(r, Facilitator, now + setup.skew)
    /\ ContractAccepts(simulateExecuteMetaTransaction(r))

Check(a) ==
  /\ a \in called
  /\ \E r \in run[a].request :
       run' = [run EXCEPT ![a].checked =
                 @ \cup {IF Passes(r) /\ ~Landed(a) THEN "passed" ELSE "refused"}]
  /\ UNCHANGED <<setup, now, worldVars, seen, relayVars>>

Land(a) ==
  /\ "passed" \in run[a].checked
  /\ Relay!Land(a)
  /\ \E r \in run[a].request :
       LET tx == executeMetaTransaction(r)
       IN  ContractAccepts(tx) /\ Execute(tx.metaTx.functionSignature)
  /\ UNCHANGED <<setup, now, seen, run>>

-----------------------------------------------------------------------------
(* The world: sales pay out, accounts appear, the subgraph follows.        *)
Credit ==
  /\ \E e \in DOMAIN funds : \E t \in setup.sells :
       funds[e][t] < MaxFunds /\ funds' = [funds EXCEPT ![e][t] = @ + 1]
  /\ UNCHANGED <<setup, now, exchange, entities, paid, seen, run, relayVars>>

Join ==
  /\ entities' = entities \cup setup.joins /\ entities' # entities
  /\ UNCHANGED <<setup, now, exchange, funds, paid, seen, run, relayVars>>

Index ==
  /\ seen' = [entities |-> entities, funds |-> funds] /\ seen' # seen
  /\ UNCHANGED <<setup, now, worldVars, run, relayVars>>

Tick ==
  /\ now < setup.end /\ now' = now + 1
  /\ UNCHANGED <<setup, worldVars, seen, run, relayVars>>

Next ==
  \/ \E a \in Attempts :
       \/ Resolve(a) \/ signWithdrawAllAvailableFunds(a) \/ signAction(a)
       \/ availableFundsRoute(a) \/ handleGetAvailableFunds(a) \/ signWithdrawFunds(a)
       \/ SendToFacilitator(a) \/ handleWithdrawFunds(a) \/ Replies(a) \/ Check(a) \/ Land(a)
  \/ Credit \/ Join \/ Index \/ Tick

Spec == Init /\ [][Next]_vars

-----------------------------------------------------------------------------
(* The shape of the state.                                                 *)
TypeOK ==
  /\ setup \in Setups /\ exchange \in ClientState /\ now \in 2 .. setup.end
  /\ entities \subseteq setup.entities \cup setup.joins /\ seen.entities \subseteq entities
  /\ funds \in [{m.id : m \in setup.entities \cup setup.joins} -> [Tokens -> 0 .. MaxFunds]]
  /\ \A a \in Attempts :
       /\ run[a].stage \in {"idle", "resolved", "asked", "shown", "signed", "called", "done"}
       /\ run[a].status \in {"none", "200", "4xx", "5xx", "threw"}
       /\ Cardinality(run[a].signed) <= 1 /\ Cardinality(run[a].request) <= 1
       /\ run[a].checked \subseteq {"passed", "refused"}
       /\ run[a].stage \in {"resolved", "asked"} => run[a].target \in DOMAIN funds

(* A 200 means that this attempt has executed, and, of a withdrawal, on    *)
(* the very entity the answer names, whoever resolved it. A helper that    *)
(* threw has sent nothing, and a 404 or 409 of the server's route comes    *)
(* before the relay: such an attempt never executes. A 400 straight from   *)
(* the facilitator says nothing, and neither does any 5xx.                 *)
AnsweredAsLanded ==
  \A a \in Attempts :
    /\ run[a].status = "200" =>
         /\ Landed(a)
         /\ \A r \in run[a].request :
              IsWithdrawal => r.metaTx.functionSignature.entityId = run[a].entity
    /\ run[a].status = "threw" \/ (run[a].status = "4xx" /\ setup.route = "server")
         => ~Landed(a)

(* Withdrawing all leaves nothing behind that the client was shown, of any *)
(* token.                                                                  *)
WithdrawsAll ==
  \A a \in Attempts :
    IsWithdrawal /\ Landed(a) => \A t \in Tokens : run[a].shown[t] <= paid[run[a].target][t]

(* The relayer sends the call it has simulated: perform-action builds the  *)
(* one with the settle route's code and the other with core-sdk's.         *)
SubmitsWhatItSimulated ==
  \A a \in Attempts : \A r \in run[a].request :
    performActionAccepts(r, Facilitator, now) =>
      simulateExecuteMetaTransaction(r) = executeMetaTransaction(r)

(* Whether the world has moved on from what the attempt was signed for, a  *)
(* zero balance was signed along, or the account was found by a role that  *)
(* may not withdraw.                                                       *)
Overtaken(a) ==
  \E r \in run[a].request :
    \/ Landed(a)
    \/ IsWithdrawal /\ \/ r.key # run[a].target \/ ~Covered(r.metaTx.functionSignature)
                       \/ \E e \in entities : e.id = r.key /\ e.address # Account
    \/ ~IsWithdrawal /\ ~isLegalTransition(exchange, setup.action, "client")
    \/ setup.strategy # "none" /\ \E clock \in {now, now + setup.skew} :
         clock \notin 2 - TOKEN_AUTH_DEADLINE_SAFETY_MARGIN_SECONDS ..
                      2 + MaxTimeoutSeconds - TOKEN_AUTH_DEADLINE_SAFETY_MARGIN_SECONDS - 1

(* What the client's helpers sign is taken: the facilitator refuses it     *)
(* only when overtaken, and the server resolves a signer's address to no   *)
(* or several entities only if it was asked differently than the client    *)
(* was, or sees other accounts.                                            *)
NoHonestRefusal ==
  [][\A a \in Attempts :
       /\ "refused" \in run'[a].checked \ run[a].checked => Overtaken(a)
       /\ setup.route = "server" /\ run[a].status = "none" /\ run'[a].status = "4xx" =>
            setup.send # setup.sign \/ seen.entities # run[a].knew]_vars
=============================================================================
