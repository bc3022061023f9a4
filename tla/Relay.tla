-------------------------------- MODULE Relay --------------------------------
(***************************************************************************)
(* FacilitatorClient.settle and performAction of the server, the           *)
(* facilitator that answers them, and the meta-transaction's life on       *)
(* chain. An attempt the client gives up on goes on at the facilitator: it *)
(* may still simulate, submit and mine, next to the attempts after it.     *)
(* Calls may carry the same signed payload: a duplicated X-PAYMENT, or a   *)
(* buyer who posts to the facilitator directly.                            *)
(***************************************************************************)
EXTENDS Naturals

CONSTANTS
  Calls,        \* calls of settle or performAction
  Payloads,     \* signed meta-transactions
  PayloadOf,    \* the one each call carries
  MaxAttempts,  \* retry.attempts
  NoAttempt, NoCall

ASSUME CallsAssumption == PayloadOf \in [Calls -> Payloads] /\ NoCall \notin Calls
ASSUME AttemptsAssumption == MaxAttempts \in Nat \ {0}

Attempts == Calls \X (1 .. MaxAttempts)

ASSUME NoAttemptAssumption == NoAttempt \notin Attempts

VARIABLES
  client,   \* per call: where FacilitatorClient.post is
  attempt,  \* per call: the attempt it is at
  reply,    \* per call: what it answered the handler
  job,      \* per attempt: where the facilitator is with it
  result,   \* per attempt: the facilitator's result
  tx,       \* per attempt: its transaction
  usedBy    \* per payload: the attempt whose transaction used its nonce

vars == <<client, attempt, reply, job, result, tx, usedBy>>

facilitatorVars == <<job, result, tx, usedBy>>
clientVars == <<client, attempt, reply>>

TypeOK ==
  /\ client \in [Calls -> {"idle", "waiting", "reading", "backoff", "done"}]
  /\ attempt \in [Calls -> 1 .. MaxAttempts]
  /\ reply \in [Calls -> {"none", "ok", "rejected", "threw"}]
  /\ job \in [Attempts -> {"none", "received", "checked", "submitted",
                           "answered", "stalled", "lost"}]
  /\ result \in [Attempts -> {"none", "ok", "rejected"}]
  /\ tx \in [Attempts -> {"none", "pending", "mined"}]
  /\ usedBy \in [Payloads -> Attempts \cup {NoAttempt}]

Init ==
  /\ client = [c \in Calls |-> "idle"]
  /\ attempt = [c \in Calls |-> 1]
  /\ reply = [c \in Calls |-> "none"]
  /\ job = [a \in Attempts |-> "none"]
  /\ result = [a \in Attempts |-> "none"]
  /\ tx = [a \in Attempts |-> "none"]
  /\ usedBy = [p \in Payloads |-> NoAttempt]

Payload(a) == PayloadOf[a[1]]

Used(p) == usedBy[p] # NoAttempt

Succeeded(a) == usedBy[Payload(a)] = a

-----------------------------------------------------------------------------
(* The client: post and postOnce. Only the wait for the response headers   *)
(* is under the timer.                                                     *)
Post(c) ==
  /\ client[c] = "idle"
  /\ client' = [client EXCEPT ![c] = "waiting"]
  /\ job' = [job EXCEPT ![<<c, 1>>] = "received"]
  /\ UNCHANGED <<attempt, reply, result, tx, usedBy>>

Return(c, answer) ==
  /\ client' = [client EXCEPT ![c] = "done"]
  /\ reply' = [reply EXCEPT ![c] = answer]
  /\ UNCHANGED <<attempt, facilitatorVars>>

Headers(c) ==
  /\ client[c] = "waiting"
  /\ job[<<c, attempt[c]>>] = "answered"
  /\ client' = [client EXCEPT ![c] = "reading"]
  /\ UNCHANGED <<attempt, reply, facilitatorVars>>

(* A 200 and a 400 with a well-formed body are the facilitator's result; a *)
(* body that breaks off or does not parse is not retried.                  *)
ReadBody(c) ==
  /\ client[c] = "reading"
  /\ job[<<c, attempt[c]>>] = "answered"
  /\ Return(c, result[<<c, attempt[c]>>]) \/ Return(c, "threw")

(* Mutant: the loop ends without throwing its last error.                  *)
NextTryFallsThrough(c) ==
  /\ client' = [client EXCEPT ![c] = "backoff"]
  /\ UNCHANGED <<attempt, reply, facilitatorVars>>

(* A retryable failure: back off while attempts are left, else throw.      *)
NextTry(c) ==
  \/ /\ attempt[c] < MaxAttempts
     /\ client' = [client EXCEPT ![c] = "backoff"]
     /\ UNCHANGED <<attempt, reply, facilitatorVars>>
  \/ attempt[c] = MaxAttempts /\ Return(c, "threw")

(* NETWORK_ERROR, TIMEOUT and 5xx are retried, another 4xx is not. Neither *)
(* tells where the facilitator is.                                         *)
TransportFails(c) ==
  /\ client[c] = "waiting"
  /\ NextTry(c) \/ Return(c, "threw")

Retry(c) ==
  /\ client[c] = "backoff"
  /\ attempt[c] < MaxAttempts
  /\ client' = [client EXCEPT ![c] = "waiting"]
  /\ attempt' = [attempt EXCEPT ![c] = @ + 1]
  /\ job' = [job EXCEPT ![<<c, attempt[c] + 1>>] = "received"]
  /\ UNCHANGED <<reply, result, tx, usedBy>>

-----------------------------------------------------------------------------
(* The facilitator: settle and performAction.                              *)
Result(a, r) ==
  /\ job' = [job EXCEPT ![a] = "answered"]
  /\ result' = [result EXCEPT ![a] = r]

(* Decoding, the allowlists, the signatures and the simulation: a payload  *)
(* whose nonce is used cannot pass, any other may fail as well.            *)
Check(a) ==
  /\ job[a] = "received"
  /\ \/ Result(a, "rejected")
     \/ /\ ~Used(Payload(a))
        /\ job' = [job EXCEPT ![a] = "checked"]
        /\ UNCHANGED result
  /\ UNCHANGED <<tx, usedBy, clientVars>>

(* A submission that throws may have reached the network before it did.    *)
Submit(a) ==
  /\ job[a] = "checked"
  /\ \/ /\ tx' = [tx EXCEPT ![a] = "pending"]
        /\ job' = [job EXCEPT ![a] = "submitted"]
        /\ UNCHANGED result
     \/ /\ Result(a, "rejected")
        /\ UNCHANGED tx \/ tx' = [tx EXCEPT ![a] = "pending"]
  /\ UNCHANGED <<usedBy, clientVars>>

(* The chain (external): the nonce lets one transaction of a payload       *)
(* through; a transaction may also revert for reasons of its own.          *)
Mine(a) ==
  /\ tx[a] = "pending"
  /\ tx' = [tx EXCEPT ![a] = "mined"]
  /\ \/ UNCHANGED usedBy
     \/ /\ ~Used(Payload(a))
        /\ usedBy' = [usedBy EXCEPT ![Payload(a)] = a]
  /\ UNCHANGED <<job, result, clientVars>>

(* Mutant: the receipt's status is not looked at.                          *)
ReceiptUnchecked(a) ==
  /\ job[a] = "submitted"
  /\ \/ tx[a] = "mined" /\ Result(a, "ok")
     \/ Result(a, "rejected")
  /\ UNCHANGED <<tx, usedBy, clientVars>>

(* Mutant: the result is given without waiting for the receipt.            *)
ReceiptAssumed(a) ==
  /\ job[a] = "submitted"
  /\ Result(a, "ok") \/ Result(a, "rejected")
  /\ UNCHANGED <<tx, usedBy, clientVars>>

(* A successful receipt is a settled result; a reverted one, a wait that   *)
(* fails, and a receipt without the exchange id are rejections.            *)
Receipt(a) ==
  /\ job[a] = "submitted"
  /\ \/ tx[a] = "mined" /\ Succeeded(a) /\ Result(a, "ok")
     \/ Result(a, "rejected")
  /\ UNCHANGED <<tx, usedBy, clientVars>>

(* The facilitator's process dies: nobody will answer the attempt.         *)
Die(a) ==
  /\ job[a] \in {"received", "checked", "submitted"}
  /\ job' = [job EXCEPT ![a] = "lost"]
  /\ UNCHANGED <<result, tx, usedBy, clientVars>>

(* The body of the response the client is reading never ends.              *)
Stall(a) ==
  /\ job[a] = "answered"
  /\ client[a[1]] = "reading" /\ attempt[a[1]] = a[2]
  /\ job' = [job EXCEPT ![a] = "stalled"]
  /\ UNCHANGED <<result, tx, usedBy, clientVars>>

ClientStep(c) == Headers(c) \/ ReadBody(c) \/ TransportFails(c) \/ Retry(c)

Next ==
  \/ \E c \in Calls : Post(c) \/ ClientStep(c)
  \/ \E a \in Attempts :
       Check(a) \/ Submit(a) \/ Mine(a) \/ Receipt(a) \/ Die(a) \/ Stall(a)

Spec == Init /\ [][Next]_vars

(* The server's timers and reads are due; the facilitator owes nothing.    *)
FairSpec == Spec /\ \A c \in Calls : WF_vars(ClientStep(c))

-----------------------------------------------------------------------------
(* However many calls carry a payload and however often each is retried,   *)
(* at most one of them is told that it was relayed: two requests with the  *)
(* same X-PAYMENT are never both granted.                                  *)
OneCallAccepted ==
  \A c, d \in Calls :
    /\ PayloadOf[c] = PayloadOf[d]
    /\ reply[c] = "ok" /\ reply[d] = "ok"
    => c = d

LandedBy == [p \in Payloads |-> IF Used(p) THEN usedBy[p][1] ELSE NoCall]

Contract ==
  INSTANCE RelayContract WITH
    called <- {c \in Calls : client[c] # "idle"}, landedBy <- LandedBy

(* Client, facilitator and chain together keep the relay's promise: an ok  *)
(* is the call's own execution, at most one per payload, in spite of       *)
(* timeouts, retries, lost receipts and attempts that outlive their call.  *)
KeepsContract == Contract!Spec

(* A call of the client comes to an end whatever the facilitator does, or  *)
(* hangs on a response body that does not end: no other way of failing     *)
(* keeps the handler, and the exchange's mutex behind it, waiting.         *)
CallsEndOrStall ==
  \A c \in Calls :
    client[c] = "waiting"
      ~> client[c] = "done" \/ job[<<c, attempt[c]>>] = "stalled"
=============================================================================
