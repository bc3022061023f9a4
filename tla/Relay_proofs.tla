----------------------------- MODULE Relay_proofs -----------------------------
(***************************************************************************)
(* Client, facilitator and chain implement the contract of RelayContract,  *)
(* for any calls, payloads and number of attempts. An answer is tied to    *)
(* the chain by two facts: a result the facilitator calls ok is the        *)
(* attempt's own execution, and a reply the client calls ok is the result  *)
(* of one of its own attempts.                                             *)
(***************************************************************************)
EXTENDS Relay, TLAPS

OkIsOwnExecution ==
  /\ \A a \in Attempts : result[a] = "ok" => Succeeded(a)
  /\ \A c \in Calls :
       reply[c] = "ok" => \E n \in 1 .. MaxAttempts : Succeeded(<<c, n>>)

(* Only calls that were made have attempts, and an attempt that executed   *)
(* used the nonce of its own payload.                                      *)
CallsFirst ==
  /\ \A a \in Attempts :
       job[a] # "none" \/ tx[a] # "none" => client[a[1]] # "idle"
  /\ \A p \in Payloads :
       Used(p) => Payload(usedBy[p]) = p /\ client[usedBy[p][1]] # "idle"

AnsweredOnce ==
  /\ \A a \in Attempts : job[a] \in {"answered", "stalled"} => result[a] # "none"
  /\ \A c \in Calls : reply[c] # "none" => client[c] = "done"

Inv == TypeOK /\ OkIsOwnExecution /\ CallsFirst /\ AnsweredOnce

-----------------------------------------------------------------------------
LEMMA InitInv == Init => Inv
BY CallsAssumption, AttemptsAssumption, NoAttemptAssumption
DEF Init, Inv, TypeOK, OkIsOwnExecution, CallsFirst, AnsweredOnce, Used, Succeeded,
    Payload, Attempts

LEMMA AttemptParts ==
  ASSUME NEW a \in Attempts
  PROVE  /\ a[1] \in Calls /\ a[2] \in 1 .. MaxAttempts /\ a = <<a[1], a[2]>>
         /\ Payload(a) \in Payloads
BY CallsAssumption DEF Attempts, Payload

LEMMA CallAttempts ==
  ASSUME NEW c \in Calls, NEW n \in 1 .. MaxAttempts
  PROVE  <<c, n>> \in Attempts /\ Payload(<<c, n>>) = PayloadOf[c]
BY DEF Attempts, Payload

LEMMA PostInv == ASSUME Inv, NEW c \in Calls, Post(c) PROVE Inv'
<1>1. <<c, 1>> \in Attempts
  BY AttemptsAssumption DEF Attempts
<1>2. TypeOK'
  BY <1>1 DEF Post, Inv, TypeOK
<1>3. OkIsOwnExecution'
  BY DEF Post, Inv, OkIsOwnExecution, Succeeded
<1>4. CallsFirst'
  BY <1>1, AttemptParts DEF Post, Inv, TypeOK, CallsFirst, Used, Payload
<1>5. AnsweredOnce'
  BY <1>1, AttemptParts DEF Post, Inv, TypeOK, AnsweredOnce
<1>6. QED
  BY <1>2, <1>3, <1>4, <1>5 DEF Inv

(* A call that moves on without an answer.                                 *)
LEMMA MoveInv ==
  ASSUME Inv, NEW c \in Calls, reply[c] = "none",
         \E place \in {"reading", "backoff"} : client' = [client EXCEPT ![c] = place],
         UNCHANGED <<attempt, reply, facilitatorVars>>
  PROVE  Inv'
<1>1. TypeOK'
  BY DEF Inv, TypeOK, facilitatorVars
<1>2. OkIsOwnExecution'
  BY DEF Inv, OkIsOwnExecution, Succeeded, facilitatorVars
<1>3. CallsFirst'
  BY AttemptParts DEF Inv, TypeOK, CallsFirst, Used, Payload, facilitatorVars
<1>4. AnsweredOnce'
  BY DEF Inv, TypeOK, AnsweredOnce, facilitatorVars
<1>5. QED
  BY <1>1, <1>2, <1>3, <1>4 DEF Inv

(* A call that ends: it may say ok only with an execution behind it.       *)
LEMMA ReturnInv ==
  ASSUME Inv, NEW c \in Calls, NEW answer \in {"ok", "rejected", "threw"},
         answer = "ok" => \E n \in 1 .. MaxAttempts : Succeeded(<<c, n>>),
         Return(c, answer)
  PROVE  Inv'
<1>1. TypeOK'
  BY DEF Return, Inv, TypeOK, facilitatorVars
<1>2. OkIsOwnExecution'
  BY DEF Return, Inv, TypeOK, OkIsOwnExecution, Succeeded, facilitatorVars
<1>3. CallsFirst'
  BY AttemptParts DEF Return, Inv, TypeOK, CallsFirst, Used, Payload, facilitatorVars
<1>4. AnsweredOnce'
  BY DEF Return, Inv, TypeOK, AnsweredOnce, facilitatorVars
<1>5. QED
  BY <1>1, <1>2, <1>3, <1>4 DEF Inv

LEMMA NotYetAnswered ==
  ASSUME Inv, NEW c \in Calls, client[c] # "done"
  PROVE  reply[c] = "none"
BY DEF Inv, TypeOK, AnsweredOnce

(* What a client reads from an answered attempt.                           *)
LEMMA AnswerRead ==
  ASSUME Inv, NEW c \in Calls, job[<<c, attempt[c]>>] = "answered"
  PROVE  /\ result[<<c, attempt[c]>>] \in {"ok", "rejected"}
         /\ result[<<c, attempt[c]>>] = "ok"
              => \E n \in 1 .. MaxAttempts : Succeeded(<<c, n>>)
<1>1. attempt[c] \in 1 .. MaxAttempts
  BY DEF Inv, TypeOK
<1>2. <<c, attempt[c]>> \in Attempts
  BY <1>1 DEF Attempts
<1>3. QED
  BY <1>1, <1>2 DEF Inv, TypeOK, OkIsOwnExecution, AnsweredOnce

LEMMA NextTryInv ==
  ASSUME Inv, NEW c \in Calls, client[c] # "done", NextTry(c) PROVE Inv'
BY NotYetAnswered, MoveInv, ReturnInv DEF NextTry

LEMMA RetryInv == ASSUME Inv, NEW c \in Calls, Retry(c) PROVE Inv'
<1>1. attempt[c] + 1 \in 1 .. MaxAttempts
  BY AttemptsAssumption DEF Retry, Inv, TypeOK
<1>2. <<c, attempt[c] + 1>> \in Attempts
  BY <1>1 DEF Attempts
<1>3. TypeOK'
  BY <1>1, <1>2 DEF Retry, Inv, TypeOK
<1>4. OkIsOwnExecution'
  BY DEF Retry, Inv, OkIsOwnExecution, Succeeded
<1>5. CallsFirst'
  BY <1>2, AttemptParts DEF Retry, Inv, TypeOK, CallsFirst, Used, Payload
<1>6. AnsweredOnce'
  BY <1>2, AttemptParts DEF Retry, Inv, TypeOK, AnsweredOnce
<1>7. QED
  BY <1>3, <1>4, <1>5, <1>6 DEF Inv

LEMMA ClientStepInv == ASSUME Inv, NEW c \in Calls, ClientStep(c) PROVE Inv'
<1>1. CASE Headers(c)
  BY <1>1, NotYetAnswered, MoveInv DEF Headers
<1>2. CASE ReadBody(c)
  <2>1. job[<<c, attempt[c]>>] = "answered"
    BY <1>2 DEF ReadBody
  <2>2. QED
    BY <1>2, <2>1, AnswerRead, ReturnInv DEF ReadBody
<1>3. CASE TransportFails(c)
  BY <1>3, NextTryInv, ReturnInv DEF TransportFails
<1>4. CASE Retry(c)
  BY <1>4, RetryInv
<1>5. QED
  BY <1>1, <1>2, <1>3, <1>4 DEF ClientStep

-----------------------------------------------------------------------------
(* The facilitator's steps at one attempt, the submission and the chain    *)
(* aside: they leave the nonces alone.                                     *)
LEMMA JobInv ==
  ASSUME Inv, NEW a \in Attempts, job[a] # "none",
         \/ /\ \E r \in {"ok", "rejected"} : Result(a, r)
            /\ result'[a] = "ok" => Succeeded(a)
         \/ /\ \E place \in {"checked", "submitted", "lost"} :
                 job' = [job EXCEPT ![a] = place]
            /\ UNCHANGED result
         \/ /\ job[a] = "answered" /\ job' = [job EXCEPT ![a] = "stalled"]
            /\ UNCHANGED result,
         UNCHANGED tx \/ tx' = [tx EXCEPT ![a] = "pending"],
         UNCHANGED <<usedBy, clientVars>>
  PROVE  Inv'
<1>1. TypeOK'
  BY DEF Inv, TypeOK, Result, clientVars
<1>2. OkIsOwnExecution'
  <2>1. \A b \in Attempts : result'[b] = "ok" => Succeeded(b)
    BY DEF Inv, TypeOK, OkIsOwnExecution, Result
  <2>2. QED
    BY <2>1 DEF Inv, OkIsOwnExecution, Succeeded, clientVars
<1>3. CallsFirst'
  BY DEF Inv, TypeOK, CallsFirst, Used, Payload, Result, clientVars
<1>4. AnsweredOnce'
  BY DEF Inv, TypeOK, AnsweredOnce, Result, clientVars
<1>5. QED
  BY <1>1, <1>2, <1>3, <1>4 DEF Inv

LEMMA MineInv == ASSUME Inv, NEW a \in Attempts, Mine(a) PROVE Inv'
<1>1. TypeOK'
  BY AttemptParts DEF Mine, Inv, TypeOK, clientVars
<1>2. \A p \in Payloads : Used(p) => UNCHANGED usedBy[p]
  BY AttemptParts DEF Mine, Inv, TypeOK, Used
<1>3. \A b \in Attempts : Succeeded(b) => Succeeded(b)'
  <2>1. SUFFICES ASSUME NEW b \in Attempts, Succeeded(b) PROVE Succeeded(b)'
    OBVIOUS
  <2>2. Payload(b) \in Payloads /\ Used(Payload(b))
    BY <2>1, AttemptParts, NoAttemptAssumption DEF Succeeded, Used
  <2>3. QED
    BY <1>2, <2>1, <2>2 DEF Succeeded, Payload
<1>4. OkIsOwnExecution'
  BY <1>3, CallAttempts DEF Mine, Inv, OkIsOwnExecution, clientVars
<1>5. CallsFirst'
  <2>1. client[a[1]] # "idle"
    BY DEF Mine, Inv, CallsFirst
  <2>2. \A b \in Attempts : job'[b] # "none" \/ tx'[b] # "none" => client'[b[1]] # "idle"
    BY <2>1, AttemptParts DEF Mine, Inv, TypeOK, CallsFirst, clientVars
  <2>3. \A p \in Payloads :
          Used(p)' => Payload(usedBy'[p]) = p /\ client'[usedBy'[p][1]] # "idle"
    BY <2>1, AttemptParts DEF Mine, Inv, TypeOK, CallsFirst, Used, clientVars
  <2>4. QED
    BY <2>2, <2>3 DEF CallsFirst, Payload
<1>6. AnsweredOnce'
  BY DEF Mine, Inv, AnsweredOnce, clientVars
<1>7. QED
  BY <1>1, <1>4, <1>5, <1>6 DEF Inv

LEMMA AttemptStepInv ==
  ASSUME Inv, NEW a \in Attempts,
         Check(a) \/ Submit(a) \/ Mine(a) \/ Receipt(a) \/ Die(a) \/ Stall(a)
  PROVE  Inv'
<1>1. CASE Check(a)
  <2>1. \A r \in {"ok", "rejected"} : Result(a, r) => result'[a] = r
    BY DEF Result, Inv, TypeOK
  <2>2. QED
    BY <1>1, <2>1, JobInv DEF Check, Result
<1>2. CASE Submit(a)
  <2>1. \A r \in {"ok", "rejected"} : Result(a, r) => result'[a] = r
    BY DEF Result, Inv, TypeOK
  <2>2. QED
    BY <1>2, <2>1, JobInv DEF Submit, Result
<1>3. CASE Mine(a)
  BY <1>3, MineInv
<1>4. CASE Receipt(a)
  <2>1. \A r \in {"ok", "rejected"} : Result(a, r) => result'[a] = r
    BY DEF Result, Inv, TypeOK
  <2>2. QED
    BY <1>4, <2>1, JobInv DEF Receipt, Result
<1>5. CASE Die(a)
  BY <1>5, JobInv DEF Die
<1>6. CASE Stall(a)
  BY <1>6, JobInv DEF Stall
<1>7. QED
  BY <1>1, <1>2, <1>3, <1>4, <1>5, <1>6

LEMMA StepInv == Inv /\ [Next]_vars => Inv'
<1>1. SUFFICES ASSUME Inv, [Next]_vars PROVE Inv'
  OBVIOUS
<1>2. CASE Next
  <2>1. ASSUME NEW c \in Calls, Post(c) \/ ClientStep(c) PROVE Inv'
    BY <1>1, <2>1, PostInv, ClientStepInv
  <2>2. ASSUME NEW a \in Attempts,
               Check(a) \/ Submit(a) \/ Mine(a) \/ Receipt(a) \/ Die(a) \/ Stall(a)
        PROVE  Inv'
    BY <1>1, <2>2, AttemptStepInv
  <2>3. QED
    BY <1>2, <2>1, <2>2 DEF Next
<1>3. CASE UNCHANGED vars
  BY <1>1, <1>3 DEF vars, Inv, TypeOK, OkIsOwnExecution, CallsFirst, AnsweredOnce,
                    Used, Succeeded, Payload
<1>4. QED
  BY <1>1, <1>2, <1>3

(* Always, an ok of the facilitator or of the client has an execution of   *)
(* its own attempt behind it.                                              *)
THEOREM Invariance == Spec => []Inv
<1>1. Spec => []Inv
  BY InitInv, StepInv, PTL DEF Spec
<1>2. QED
  BY <1>1

LEMMA OkOfOwn ==
  ASSUME Inv, NEW c \in Calls, reply[c] = "ok"
  PROVE  \E n \in 1 .. MaxAttempts : usedBy[PayloadOf[c]] = <<c, n>>
<1>1. PICK n \in 1 .. MaxAttempts : Succeeded(<<c, n>>)
  BY DEF Inv, OkIsOwnExecution
<1>2. usedBy[PayloadOf[c]] = <<c, n>>
  BY <1>1, CallAttempts DEF Succeeded
<1>3. QED
  BY <1>2

(* No two calls that carry the same signed payload are both told ok, for   *)
(* any number of calls, payloads and attempts (FacilitatorClient.settle).  *)
THEOREM OneAccepted == Spec => []OneCallAccepted
<1>1. Inv => OneCallAccepted
  <2>1. SUFFICES ASSUME Inv, NEW c \in Calls, NEW d \in Calls,
                        PayloadOf[c] = PayloadOf[d], reply[c] = "ok", reply[d] = "ok"
                 PROVE  c = d
    BY DEF OneCallAccepted
  <2>2. PICK n \in 1 .. MaxAttempts : usedBy[PayloadOf[c]] = <<c, n>>
    BY <2>1, OkOfOwn
  <2>3. PICK m \in 1 .. MaxAttempts : usedBy[PayloadOf[d]] = <<d, m>>
    BY <2>1, OkOfOwn
  <2>4. <<c, n>> = <<d, m>>
    BY <2>1, <2>2, <2>3
  <2>5. QED
    BY ONLY <2>4
<1>2. QED
  BY <1>1, Invariance, PTL

-----------------------------------------------------------------------------
(* The refinement: every step of client, facilitator and chain is a step   *)
(* of the contract or leaves its variables alone.                          *)
Called == {c \in Calls : client[c] # "idle"}

ContractVars == <<Called, LandedBy, reply>>

LEMMA MapsInit == Init => Contract!Init
BY DEF Init, Contract!Init, LandedBy, Used

LEMMA LandedByUsed ==
  ASSUME UNCHANGED usedBy PROVE LandedBy' = LandedBy
BY DEF LandedBy, Used

LEMMA SameCalls ==
  ASSUME Inv, NEW c \in Calls, client[c] # "idle", NEW place, place # "idle",
         client' = [client EXCEPT ![c] = place]
  PROVE  Called' = Called
BY DEF Called, Inv, TypeOK

LEMMA PostMaps == ASSUME Inv, NEW c \in Calls, Post(c) PROVE Contract!Call(c)
<1>1. {d \in Calls : client'[d] # "idle"} = Called \cup {c}
  BY DEF Post, Inv, TypeOK, Called
<1>2. QED
  BY <1>1, LandedByUsed DEF Post, Contract!Call, Called

LEMMA ReturnMaps ==
  ASSUME Inv, NEW c \in Calls, NEW answer \in {"ok", "rejected", "threw"},
         client[c] \notin {"idle", "done"},
         answer = "ok" => \E n \in 1 .. MaxAttempts : Succeeded(<<c, n>>),
         Return(c, answer)
  PROVE  Contract!Accept(c) \/ Contract!Fail(c)
<1>1. Called' = Called
  BY SameCalls DEF Return
<1>2. LandedBy' = LandedBy /\ reply[c] = "none" /\ c \in Called
  BY LandedByUsed, NotYetAnswered DEF Return, Called, facilitatorVars
<1>3. CASE answer = "ok"
  <2>1. PICK n \in 1 .. MaxAttempts : Succeeded(<<c, n>>)
    BY <1>3
  <2>2. usedBy[PayloadOf[c]] = <<c, n>>
    BY <2>1, CallAttempts DEF Succeeded
  <2>3. <<c, n>> # NoAttempt /\ PayloadOf[c] \in Payloads
    BY CallAttempts, NoAttemptAssumption, CallsAssumption
  <2>4. LandedBy[PayloadOf[c]] = c
    <3>1. Used(PayloadOf[c]) /\ usedBy[PayloadOf[c]][1] = c
      BY <2>2, <2>3 DEF Used
    <3>2. QED
      BY <2>3, <3>1 DEF LandedBy
  <2>5. QED
    BY <1>1, <1>2, <1>3, <2>4 DEF Return, Contract!Accept, Called
<1>4. CASE answer # "ok"
  BY <1>1, <1>2, <1>4 DEF Return, Contract!Fail, Called
<1>5. QED
  BY <1>3, <1>4

LEMMA NextTryMaps ==
  ASSUME Inv, NEW c \in Calls, client[c] \notin {"idle", "done"}, NextTry(c)
  PROVE  Contract!Accept(c) \/ Contract!Fail(c) \/ UNCHANGED ContractVars
<1>1. CASE Return(c, "threw")
  BY <1>1, ReturnMaps
<1>2. CASE client' = [client EXCEPT ![c] = "backoff"]
           /\ UNCHANGED <<attempt, reply, facilitatorVars>>
  BY <1>2, SameCalls, LandedByUsed DEF ContractVars, facilitatorVars
<1>3. QED
  BY <1>1, <1>2 DEF NextTry

LEMMA ClientStepMaps ==
  ASSUME Inv, NEW c \in Calls, ClientStep(c)
  PROVE  Contract!Accept(c) \/ Contract!Fail(c) \/ UNCHANGED ContractVars
<1>1. CASE Headers(c)
  BY <1>1, SameCalls, LandedByUsed DEF Headers, ContractVars, facilitatorVars
<1>2. CASE ReadBody(c)
  BY <1>2, AnswerRead, ReturnMaps DEF ReadBody
<1>3. CASE TransportFails(c)
  BY <1>3, NextTryMaps, ReturnMaps DEF TransportFails
<1>4. CASE Retry(c)
  BY <1>4, SameCalls, LandedByUsed DEF Retry, ContractVars
<1>5. QED
  BY <1>1, <1>2, <1>3, <1>4 DEF ClientStep

LEMMA MineMaps ==
  ASSUME Inv, NEW a \in Attempts, Mine(a)
  PROVE  Contract!Land(a[1]) \/ UNCHANGED ContractVars
<1>1. Called' = Called /\ UNCHANGED reply
  BY DEF Mine, Called, clientVars
<1>2. CASE UNCHANGED usedBy
  BY <1>1, <1>2, LandedByUsed DEF ContractVars
<1>3. CASE ~Used(Payload(a)) /\ usedBy' = [usedBy EXCEPT ![Payload(a)] = a]
  <2>1. a[1] \in Calls /\ a[1] \in Called /\ Payload(a) = PayloadOf[a[1]]
    BY AttemptParts DEF Mine, Inv, CallsFirst, Called, Payload
  <2>2. LandedBy[Payload(a)] = NoCall
    BY <1>3, AttemptParts DEF LandedBy
  <2>3. \A p \in Payloads :
          LandedBy'[p] = IF p = Payload(a) THEN a[1] ELSE LandedBy[p]
    BY <1>3, NoAttemptAssumption DEF LandedBy, Used, Inv, TypeOK
  <2>4. LandedBy' = [LandedBy EXCEPT ![Payload(a)] = a[1]]
    BY <2>3 DEF LandedBy
  <2>5. QED
    BY <1>1, <2>1, <2>2, <2>4 DEF Contract!Land, Called
<1>4. QED
  BY <1>2, <1>3 DEF Mine

LEMMA AttemptStepMaps ==
  ASSUME Inv, NEW a \in Attempts,
         Check(a) \/ Submit(a) \/ Mine(a) \/ Receipt(a) \/ Die(a) \/ Stall(a)
  PROVE  Contract!Land(a[1]) \/ UNCHANGED ContractVars
<1>1. CASE Mine(a)
  BY <1>1, MineMaps
<1>2. CASE Check(a) \/ Submit(a) \/ Receipt(a) \/ Die(a) \/ Stall(a)
  <2>1. UNCHANGED <<usedBy, clientVars>>
    BY <1>2 DEF Check, Submit, Receipt, Die, Stall
  <2>2. QED
    BY <2>1, LandedByUsed DEF ContractVars, Called, clientVars
<1>3. QED
  BY <1>1, <1>2

LEMMA StepMaps == Inv /\ [Next]_vars => [Contract!Next]_(Contract!vars)
<1>1. SUFFICES ASSUME Inv, [Next]_vars PROVE [Contract!Next]_(Contract!vars)
  OBVIOUS
<1>2. CASE UNCHANGED vars
  BY <1>2, LandedByUsed DEF vars, Contract!vars
<1>3. ASSUME NEW c \in Calls, Post(c) PROVE [Contract!Next]_(Contract!vars)
  BY <1>1, <1>3, PostMaps DEF Contract!Next
<1>4. ASSUME NEW c \in Calls, ClientStep(c) PROVE [Contract!Next]_(Contract!vars)
  BY <1>1, <1>4, ClientStepMaps DEF Contract!Next, ContractVars, Contract!vars, Called
<1>5. ASSUME NEW a \in Attempts,
             Check(a) \/ Submit(a) \/ Mine(a) \/ Receipt(a) \/ Die(a) \/ Stall(a)
      PROVE  [Contract!Next]_(Contract!vars)
  BY <1>1, <1>5, AttemptStepMaps, AttemptParts
  DEF Contract!Next, ContractVars, Contract!vars, Called
<1>6. QED
  BY <1>1, <1>2, <1>3, <1>4, <1>5 DEF Next

(* Client, facilitator and chain keep the relay's promise: an ok is the    *)
(* call's own execution, at most one per payload.                          *)
THEOREM RelayImplementsContract == Spec => KeepsContract
<1>1. Inv /\ [Next]_vars => [Contract!Next]_(Contract!vars)
  BY StepMaps
<1>2. QED
  BY <1>1, MapsInit, Invariance, PTL DEF Spec, KeepsContract, Contract!Spec
=============================================================================
