---------------------------- MODULE Payment_proofs ----------------------------
(***************************************************************************)
(* What a purchase's answers are worth, for any buyer, server set-up and   *)
(* session cache, any clocks and any troubles on the way. The payment goes *)
(* to the chain through a caller, and a caller only calls in a phase of    *)
(* its own after which its side can no longer answer with a refusal.       *)
(***************************************************************************)
EXTENDS Payment, SequenceTheorems, FiniteSetTheorems, TLAPS

Session == landedBy[MySession]

(* Where the buyer's program is.                                           *)
PhaseOK ==
  /\ setup \in Setups /\ now \in Int /\ signedAt \in Int
  /\ phase \in {"idle", "asked", "signing", "sealing", "sent", "direct", "reading", "done"}
  /\ phase \in {"idle", "asked", "signing"} => payment = {}
  /\ phase \in {"sealing", "sent", "direct", "reading"} => payment # {}
  /\ phase # "done" => outcome = NoOutcome
  /\ outcome.channel = "initial" => payment = {}
  /\ payment = {} \/ phase = "sealing" => job = "none" /\ called = {}

(* The deadline of an authorization is a whole number of seconds.          *)
Whole(p) ==
  /\ p.tokenAuth.kind = "erc3009" => p.tokenAuth.data.validBefore \in Int
  /\ p.tokenAuth.kind \in {"permit", "permit2"} => p.tokenAuth.data.deadline \in Int

(* What is sent is what the client would sign now as well.                 *)
PayloadOK ==
  /\ phase = "signing" \/ payment # {} => CanPay(Requirements(challenge), Client)
  /\ payment = {} \/ payment = {P}
  /\ setup.sdk => payment \subseteq {HonestPayload}
  /\ \A p \in payment : Whole(p)

(* Who has called, and who paid.                                           *)
RelayOK ==
  /\ called \subseteq Callers
  /\ landedBy \in [{MySession} -> called \cup {NoCaller}]
  /\ "server" \in called => job \in {"relayed", "answered", "lost"} /\ answer.status # "4xx"
  /\ "wrapper" \in called => phase \in {"direct", "reading", "done"} /\ outcome.status # "4xx"
  /\ phase = "reading" => Session = "wrapper"

(* What the server's answer says, and what the program makes of it.        *)
AnswerOK ==
  /\ answer.status \in {"none", "200", "4xx", "5xx"}
  /\ answer.status # "none" => job = "answered"
  /\ job = "relayed" \/ answer.status = "200" =>
       P.action = HandlerAction /\ P.action \in COMMIT_ACTION_IDS
  /\ answer.status = "200" =>
       /\ Session = "server" /\ visible
       /\ answer.body = stampXPaymentResponseIfOk({ACTION_POST_STATE[P.action]})
  /\ outcome.status = "200" =>
       \/ outcome.channel = "wrapper" /\ Session = "wrapper"
       \/ /\ outcome.channel = "server" /\ answer.status = "200"
          /\ outcome.state = UNION {parsePaymentResponse(n) : n \in answer.body}
          /\ outcome.next = UNION {n.next : n \in answer.body}
  /\ outcome.status = "4xx" => answer.status = "4xx" /\ "wrapper" \notin called

Inv == PhaseOK /\ PayloadOK /\ RelayOK /\ AnswerOK

-----------------------------------------------------------------------------
LEMMA InitInv == Init => Inv
<1>1. SUFFICES ASSUME Init PROVE Inv
  OBVIOUS
<1>2. NoOutcome.status = "none" /\ NoOutcome.channel = "absent" /\ NoAnswer.status = "none"
  BY DEF NoOutcome, NoAnswer, Absent
<1>3. /\ setup \in Setups /\ now = setup.start /\ phase = "idle" /\ signedAt = 0
      /\ payment = {} /\ outcome = NoOutcome /\ job = "none" /\ answer = NoAnswer
      /\ called = {} /\ landedBy = [p \in {MySession} |-> NoCaller]
  BY <1>1 DEF Init, Relay!Init
<1>4. now \in Int /\ signedAt \in Int
  BY <1>3, PaymentAssumption
<1>5. PhaseOK
  BY <1>2, <1>3, <1>4 DEF PhaseOK
<1>6. PayloadOK
  BY <1>3 DEF PayloadOK
<1>7. RelayOK
  BY <1>2, <1>3 DEF RelayOK
<1>8. AnswerOK
  BY <1>2, <1>3 DEF AnswerOK
<1>9. QED
  BY <1>5, <1>6, <1>7, <1>8 DEF Inv

-----------------------------------------------------------------------------
(* The terms of the purchase stand while their variables do.               *)
offerVars == <<setup, challenge, signedAt, nonceRead>>

LEMMA SameTerms ==
  ASSUME UNCHANGED offerVars
  PROVE  /\ Requirements(challenge)' = Requirements(challenge) /\ Client' = Client
         /\ HonestPayload' = HonestPayload
<1>1. Fulfillment' = Fulfillment
  BY DEF offerVars, Fulfillment
<1>2. Requirements(challenge)' = Requirements(challenge)
  BY <1>1 DEF offerVars, Requirements
<1>3. Client' = Client
  BY <1>1 DEF offerVars, Client, PaywallClient
<1>4. QED
  BY <1>2, <1>3 DEF offerVars, HonestPayload

LEMMA SamePayload ==
  ASSUME PayloadOK, UNCHANGED offerVars, UNCHANGED payment, phase' # "signing" \/ UNCHANGED phase
  PROVE  PayloadOK'
<1>1. P' = P /\ (setup.sdk)' = setup.sdk
  BY DEF P, offerVars
<1>2. QED
  BY <1>1, SameTerms DEF PayloadOK, Whole

LEMMA SameAction ==
  ASSUME UNCHANGED <<setup, payment>>
  PROVE  P' = P /\ HandlerAction' = HandlerAction
         /\ \A state : stampXPaymentResponseIfOk(state)' = stampXPaymentResponseIfOk(state)
  BY DEF P, HandlerAction, stampXPaymentResponseIfOk

(* Steps that neither the buyer's program nor the server's handler takes.  *)
LEMMA WorldInv ==
  ASSUME Inv, now' \in Int, visible => visible',
         UNCHANGED <<setup, buyerVars, job, answer, relayVars>>
  PROVE  Inv'
<1>1. PhaseOK'
  BY DEF Inv, PhaseOK, buyerVars, relayVars
<1>2. PayloadOK'
  BY SamePayload DEF Inv, offerVars, buyerVars
<1>3. RelayOK'
  BY DEF Inv, RelayOK, Session, buyerVars, relayVars
<1>4. AnswerOK'
  BY SameAction DEF Inv, AnswerOK, Session, buyerVars, relayVars
<1>5. QED
  BY <1>1, <1>2, <1>3, <1>4 DEF Inv

LEMMA WorldSteps ==
  ASSUME Inv,
         \/ \E c \in Callers : Check(c)
         \/ Tick \/ PaysElsewhere \/ Index \/ OthersAsk \/ BuildEnds
  PROVE  Inv'
<1>1. now \in Int /\ now + 1 \in Int
  BY DEF Inv, PhaseOK
<1>2. /\ now' \in Int /\ (visible => visible')
      /\ UNCHANGED <<setup, buyerVars, job, answer, relayVars>>
  BY <1>1 DEF Check, Tick, PaysElsewhere, Index, OthersAsk, BuildEnds, chainVars, serverVars
<1>3. QED
  BY <1>2, WorldInv

-----------------------------------------------------------------------------
(* The buyer's program.                                                    *)
LEMMA EndSays ==
  ASSUME NEW status, NEW channel, NEW body, End(status, channel, body)
  PROVE  /\ phase' = "done" /\ outcome'.status = status /\ outcome'.channel = channel
         /\ outcome'.state = UNION {parsePaymentResponse(n) : n \in body}
         /\ outcome'.next = UNION {n.next : n \in body}
  BY DEF End

LEMMA AskInv == ASSUME Inv, Ask PROVE Inv'
<1>1. PhaseOK'
  BY DEF Ask, Inv, PhaseOK, serverVars, relayVars
<1>2. payment = {} /\ payment' = {} /\ phase' = "asked"
  BY DEF Ask, Inv, PhaseOK
<1>3. PayloadOK'
  BY <1>2 DEF PayloadOK
<1>4. RelayOK'
  BY DEF Ask, Inv, RelayOK, Session, serverVars, relayVars
<1>5. AnswerOK'
  BY SameAction DEF Ask, Inv, AnswerOK, Session, serverVars, chainVars, relayVars
<1>6. QED
  BY <1>1, <1>3, <1>4, <1>5 DEF Inv

(* The program ends before anything is sent.                               *)
LEMMA EndsUnpaid ==
  ASSUME Inv, NEW status \in {"5xx", "threw"}, End(status, "initial", {}),
         payment = {}, UNCHANGED <<setup, now, signedAt, payment, serverVars, chainVars, relayVars>>
  PROVE  Inv'
<1>1. phase' = "done" /\ outcome'.status = status /\ outcome'.channel = "initial"
  BY EndSays
<1>2. PhaseOK'
  BY <1>1 DEF Inv, PhaseOK, serverVars, relayVars
<1>3. PayloadOK'
  BY <1>1 DEF PayloadOK
<1>4. RelayOK'
  BY <1>1 DEF Inv, PhaseOK, RelayOK, Session, serverVars, relayVars
<1>5. AnswerOK'
  BY <1>1, SameAction DEF Inv, AnswerOK, Session, serverVars, chainVars, relayVars
<1>6. QED
  BY <1>2, <1>3, <1>4, <1>5 DEF Inv

LEMMA AskFailsInv == ASSUME Inv, AskFails PROVE Inv'
  BY EndsUnpaid DEF AskFails, Inv, PhaseOK

LEMMA Handle402Inv == ASSUME Inv, handle402 PROVE Inv'
<1>1. CASE End("threw", "initial", {}) /\ UNCHANGED <<signedAt, nonceRead>>
  BY <1>1, EndsUnpaid DEF handle402, Inv, PhaseOK
<1>2. CASE /\ CanPay(Requirements(challenge), Client) /\ phase' = "signing" /\ signedAt' = now
           /\ UNCHANGED outcome
  <2>1. PhaseOK'
    BY <1>2 DEF handle402, Inv, PhaseOK, serverVars, relayVars
  <2>2. payment = {} /\ payment' = {}
    BY <1>2 DEF handle402, Inv, PhaseOK
  <2>3. Requirements(challenge)' = Requirements(challenge) /\ Client' = Client
    BY <1>2 DEF handle402, Requirements, Client, PaywallClient, Fulfillment
  <2>4. PayloadOK'
    BY <1>2, <2>2, <2>3 DEF PayloadOK
  <2>5. RelayOK'
    BY <1>2 DEF handle402, Inv, PhaseOK, RelayOK, Session, serverVars, relayVars
  <2>6. AnswerOK'
    BY <1>2, SameAction DEF handle402, Inv, AnswerOK, Session, serverVars, chainVars, relayVars
  <2>7. QED
    BY <2>1, <2>4, <2>5, <2>6 DEF Inv
<1>3. QED
  BY <1>1, <1>2 DEF handle402

-----------------------------------------------------------------------------
(* What the wallet signs.                                                  *)
LEMMA PreferredStrategy ==
  ASSUME NEW S, S \subseteq {"erc3009", "permit", "permit2"}, S # {}
  PROVE  Preferred(STRATEGY_PREFERENCE, S) \in S
<1>1. /\ DOMAIN STRATEGY_PREFERENCE = 1 .. 3 /\ STRATEGY_PREFERENCE[1] = "erc3009"
      /\ STRATEGY_PREFERENCE[2] = "permit2" /\ STRATEGY_PREFERENCE[3] = "permit"
  BY DEF STRATEGY_PREFERENCE
<1>2. \E i \in 1 .. 3 : STRATEGY_PREFERENCE[i] \in S
                       /\ \A j \in 1 .. 3 : STRATEGY_PREFERENCE[j] \in S => i <= j
  <2>1. CASE "erc3009" \in S
    BY <1>1, <2>1
  <2>2. CASE "erc3009" \notin S /\ "permit2" \in S
    BY <1>1, <2>2
  <2>3. CASE "erc3009" \notin S /\ "permit2" \notin S /\ "permit" \in S
    BY <1>1, <2>3
  <2>4. QED
    BY <2>1, <2>2, <2>3
<1>3. QED
  BY <1>1, <1>2 DEF Preferred

LEMMA PreferredAction ==
  ASSUME NEW mode \in {"auto", "commit-only", "commit-and-redeem"},
         NEW S, S \subseteq ToSet(AllowedActions[mode]), S # {}
  PROVE  Preferred(AllowedActions[mode], S) \in S
<1>1. AllowedActions[mode] \in {<<FLOW_A, FLOW_B>>, <<FLOW_A>>, <<FLOW_B>>}
  BY DEF AllowedActions
<1>2. ASSUME NEW a, NEW b, NEW order \in {<<a>>, <<a, b>>},
             S \subseteq ToSet(order)
      PROVE  Preferred(order, S) \in S
  <2>1. \E i \in DOMAIN order : order[i] \in S
                       /\ \A j \in DOMAIN order : order[j] \in S => i <= j
    <3>1. CASE a \in S
      BY <1>2, <3>1
    <3>2. CASE a \notin S
      BY <1>2, <3>2 DEF ToSet
    <3>3. QED
      BY <3>1, <3>2
  <2>2. QED
    BY <2>1 DEF Preferred
<1>3. QED
  BY <1>1, <1>2

LEMMA PickedStrategy ==
  ASSUME NEW offer, NEW config, CanPay(offer, config)
  PROVE  pickStrategy(offer, config) \in PossibleStrategies(offer, config)
<1>1. CASE config.forcedStrategy = {"none"}
  BY <1>1 DEF CanPay, pickStrategy, PossibleStrategies
<1>2. CASE config.forcedStrategy # {"none"}
  <2>1. PossibleStrategies(offer, config) \subseteq {"erc3009", "permit", "permit2"}
    BY <1>2 DEF PossibleStrategies, strategyIsAvailable, STRATEGIES
  <2>2. QED
    BY <1>2, <2>1, PreferredStrategy DEF CanPay, pickStrategy
<1>3. QED
  BY <1>1, <1>2

HasDeadline(auth) ==
  /\ "kind" \in DOMAIN auth
  /\ auth.kind # Absent => "data" \in DOMAIN auth
  /\ auth.kind = "erc3009" => "validBefore" \in DOMAIN auth.data
  /\ auth.kind \in {"permit", "permit2"} => "deadline" \in DOMAIN auth.data

(* A strategy is signed with its own kind of authorization, for its own    *)
(* time.                                                                   *)
LEMMA SignedAuth ==
  ASSUME NEW strategy \in STRATEGIES, NEW offer, NEW buyer, NEW nonce, NEW time \in Int,
         offer.maxTimeoutSeconds \in Nat
  PROVE  LET auth == buildAndSignTokenAuth(strategy, offer, buyer, nonce, time)
             deadline == computeTokenAuthDeadline(offer.maxTimeoutSeconds, time)
         IN  /\ deadline \in Int
             /\ auth.kind = IF strategy = "none" THEN Absent ELSE strategy
             /\ strategy = "erc3009" => auth.data.validBefore = deadline
             /\ strategy \in {"permit", "permit2"} => auth.data.deadline = deadline
             /\ HasDeadline(auth)
<1>1. computeTokenAuthDeadline(offer.maxTimeoutSeconds, time) \in Int
  BY MarginAssumption DEF computeTokenAuthDeadline
<1>2. QED
  BY <1>1 DEF buildAndSignTokenAuth, signErc3009, signPermit, signPermit2, NoTokenAuth, Absent,
              STRATEGIES, HasDeadline

LEMMA HonestParts ==
  ASSUME setup \in Setups, signedAt \in Int, CanPay(Requirements(challenge), Client)
  PROVE  /\ HonestPayload.tokenAuthStrategy \in STRATEGIES
         /\ HonestPayload.tokenAuth.kind =
              IF HonestPayload.tokenAuthStrategy = "none" THEN Absent
                                                          ELSE HonestPayload.tokenAuthStrategy
         /\ computeTokenAuthDeadline(MaxTimeoutSeconds, signedAt) \in Int
         /\ HonestPayload.tokenAuthStrategy = "erc3009" =>
              HonestPayload.tokenAuth.data.validBefore =
                computeTokenAuthDeadline(MaxTimeoutSeconds, signedAt)
         /\ HonestPayload.tokenAuthStrategy \in {"permit", "permit2"} =>
              HonestPayload.tokenAuth.data.deadline =
                computeTokenAuthDeadline(MaxTimeoutSeconds, signedAt)
         /\ HasDeadline(HonestPayload.tokenAuth)
<1> DEFINE offer == Requirements(challenge)
           strategy == pickStrategy(offer, Client)
           nonces == [metaTx |-> MySession,
                      tokenAuth |-> IF strategy = "permit" THEN nonceRead ELSE MySession]
<1>1. offer.maxTimeoutSeconds = MaxTimeoutSeconds /\ MaxTimeoutSeconds \in Nat
  BY PaymentAssumption DEF Requirements, buildPaymentRequirements
<1>2. strategy \in STRATEGIES
  BY PickedStrategy DEF PossibleStrategies
<1>3. /\ HonestPayload.tokenAuthStrategy = strategy
      /\ HonestPayload.tokenAuth =
           buildAndSignTokenAuth(strategy, offer, Client.account, nonces.tokenAuth, signedAt)
  BY DEF HonestPayload, assemblePayload
<1> HIDE DEF offer, strategy, nonces
<1>4. QED
  BY <1>1, <1>2, <1>3, SignedAuth

LEMMA HonestWhole ==
  ASSUME setup \in Setups, signedAt \in Int, CanPay(Requirements(challenge), Client)
  PROVE  Whole(HonestPayload)
  BY HonestParts DEF Whole, STRATEGIES, Absent

(* A choice of one field leaves the deadlines whole.                       *)
LEMMA ResignedWhole ==
  ASSUME NEW p, "tokenAuth" \in DOMAIN p, HasDeadline(p.tokenAuth), NEW data,
         p.tokenAuth.kind = "erc3009" => data.validBefore \in Int,
         p.tokenAuth.kind \in {"permit", "permit2"} => data.deadline \in Int
  PROVE  Whole(Resigned(p, data))
<1> DEFINE sig == Sign(p.buyer, Erc3009Message(Token, Chain, data))
<1>1. Resigned(p, data).tokenAuth = [[p.tokenAuth EXCEPT !.data = data] EXCEPT !.sig = sig]
  BY DEF Resigned
<1> HIDE DEF sig
<1>2. /\ Resigned(p, data).tokenAuth.kind = p.tokenAuth.kind
      /\ p.tokenAuth.kind # Absent => Resigned(p, data).tokenAuth.data = data
  BY <1>1 DEF HasDeadline
<1>3. QED
  BY <1>2 DEF Whole, Absent

LEMMA TamperedWhole ==
  ASSUME NEW p, "tokenAuth" \in DOMAIN p, HasDeadline(p.tokenAuth), Whole(p), signedAt \in Int,
         NEW q \in Tampered(p)
  PROVE  Whole(q)
<1> DEFINE data == p.tokenAuth.data
<1>1. /\ p.tokenAuth.kind = "erc3009" =>
            "validBefore" \in DOMAIN data /\ data.validBefore \in Int
      /\ p.tokenAuth.kind \in {"permit", "permit2"} =>
            "deadline" \in DOMAIN data /\ data.deadline \in Int
      /\ MaxTimeoutSeconds \in Nat
  BY PaymentAssumption DEF HasDeadline, Whole
<1>2. CASE \E field \in {"value", "to", "from"} : \E choice :
             q = Resigned(p, [data EXCEPT ![field] = choice])
  BY <1>1, <1>2, ResignedWhole
<1>3. CASE \E time \in Int : q = Resigned(p, [data EXCEPT !.validBefore = time])
  BY <1>1, <1>3, ResignedWhole
<1>4. CASE q.tokenAuth.kind = Absent
  BY <1>4 DEF Whole, Absent
<1>5. CASE q.tokenAuth.kind = p.tokenAuth.kind /\ (p.tokenAuth.kind # Absent => q.tokenAuth.data = data)
  BY <1>1, <1>5 DEF Whole, Absent
<1>6. ASSUME NEW field, NEW choice, field # "tokenAuth", q = [p EXCEPT ![field] = choice]
      PROVE  Whole(q)
  BY <1>5, <1>6
<1>7. CASE q = [p EXCEPT !.tokenAuth.sig.v = 0]
  <2>1. q.tokenAuth = [p.tokenAuth EXCEPT !.sig = [@ EXCEPT !.v = 0]]
    BY <1>7
  <2>2. QED
    BY <1>5, <2>1 DEF HasDeadline
<1>8. CASE q = [p EXCEPT !.tokenAuthStrategy = "none", !.tokenAuth = NoTokenAuth]
  BY <1>4, <1>8 DEF NoTokenAuth
<1>9. ASSUME NEW metaTx, NEW sig, q = [p EXCEPT !.metaTx = metaTx, !.metaTxSig = sig]
      PROVE  Whole(q)
  BY <1>5, <1>9
<1>10. signedAt + MaxTimeoutSeconds + 1 \in Int /\ -1 \in Int
  BY <1>1
<1>11. QED
  BY <1>2, <1>3, <1>6, <1>7, <1>8, <1>9, <1>10 DEF Tampered

LEMMA SignTokenAuthInv == ASSUME Inv, SignTokenAuth PROVE Inv'
<1>1. /\ payment = {} /\ outcome = NoOutcome /\ called = {} /\ job = "none"
      /\ setup \in Setups /\ signedAt \in Int /\ now \in Int
      /\ CanPay(Requirements(challenge), Client)
      /\ UNCHANGED <<setup, now, challenge, signedAt, nonceRead, serverVars, chainVars, relayVars>>
  BY DEF SignTokenAuth, Inv, PhaseOK, PayloadOK
<1>2. CASE End("threw", "initial", {}) /\ UNCHANGED payment
  BY <1>1, <1>2, EndsUnpaid
<1>3. CASE phase' = "sealing" /\ UNCHANGED outcome /\ \E p \in Sent(HonestPayload) : payment' = {p}
  <2>1. PICK p \in Sent(HonestPayload) : payment' = {p}
    BY <1>3
  <2>2. PhaseOK'
    BY <1>1, <1>3, <2>1 DEF PhaseOK, Inv, serverVars, relayVars, NoOutcome, Absent
  <2>3. Whole(p)
    <3>1. /\ Whole(HonestPayload) /\ HasDeadline(HonestPayload.tokenAuth)
          /\ "tokenAuth" \in DOMAIN HonestPayload
      BY <1>1, HonestWhole, HonestParts DEF HonestPayload, assemblePayload
    <3>2. QED
      BY <1>1, <2>1, <3>1, TamperedWhole DEF Sent
  <2>4. setup.sdk => p = HonestPayload
    BY <2>1 DEF Sent
  <2>5. P' = p
    BY <2>1 DEF P
  <2>6. PayloadOK'
    BY <1>1, <2>1, <2>3, <2>4, <2>5, SameTerms DEF PayloadOK, offerVars, Whole
  <2>7. RelayOK'
    BY <1>1, <1>3 DEF Inv, RelayOK, Session, serverVars, relayVars
  <2>8. AnswerOK'
    BY <1>1, <1>3 DEF Inv, AnswerOK, Session, serverVars, chainVars, relayVars, NoOutcome
  <2>9. QED
    BY <2>2, <2>6, <2>7, <2>8 DEF Inv
<1>4. QED
  BY <1>2, <1>3 DEF SignTokenAuth

-----------------------------------------------------------------------------
(* The retry and the way to the facilitator.                               *)
LEMMA SendRetryInv == ASSUME Inv, SendRetry PROVE Inv'
<1>1. PhaseOK'
  BY DEF SendRetry, Inv, PhaseOK, serverVars, relayVars
<1>2. PayloadOK'
  BY SamePayload DEF SendRetry, Inv, offerVars
<1>3. RelayOK'
  BY DEF SendRetry, Inv, RelayOK, Session, serverVars, relayVars
<1>4. AnswerOK'
  BY SameAction DEF SendRetry, Inv, AnswerOK, Session, serverVars, chainVars, relayVars
<1>5. QED
  BY <1>1, <1>2, <1>3, <1>4 DEF Inv

(* The program ends with a server error of one kind or another: that says  *)
(* nothing.                                                                *)
LEMMA EndsUnknown ==
  ASSUME Inv, phase \in {"sent", "direct", "reading"},
         NEW status \in {"5xx", "threw"}, End(status, "server", {}),
         called' = called, landedBy' = landedBy,
         UNCHANGED <<setup, now, challenge, signedAt, nonceRead, payment, serverVars, chainVars>>
  PROVE  Inv'
<1>1. phase' = "done" /\ outcome'.status = status /\ outcome'.channel = "server"
  BY EndSays
<1>2. PhaseOK'
  BY <1>1 DEF Inv, PhaseOK, serverVars
<1>3. PayloadOK'
  BY <1>1, SamePayload DEF Inv, offerVars
<1>4. RelayOK'
  BY <1>1 DEF Inv, RelayOK, Session, serverVars
<1>5. AnswerOK'
  BY <1>1, SameAction DEF Inv, AnswerOK, Session, serverVars, chainVars
<1>6. QED
  BY <1>2, <1>3, <1>4, <1>5 DEF Inv

LEMMA Recover5xxInv ==
  ASSUME Inv, phase = "sent", Recover5xx,
         UNCHANGED <<setup, now, challenge, signedAt, nonceRead, payment, serverVars, chainVars>>
  PROVE  Inv'
<1>1. CASE End("5xx", "server", {}) /\ UNCHANGED relayVars
  BY <1>1, EndsUnknown DEF relayVars
<1>2. CASE phase' = "direct" /\ Relay!Call("wrapper") /\ UNCHANGED outcome
  <2>1. called' = called \cup {"wrapper"} /\ landedBy' = landedBy /\ UNCHANGED serverVars
    BY <1>2 DEF Relay!Call
  <2>2. outcome.status = "none" /\ outcome' = outcome /\ payment # {}
    BY <1>2 DEF Inv, PhaseOK, NoOutcome
  <2>3. PhaseOK'
    BY <1>2, <2>1, <2>2 DEF Inv, PhaseOK, serverVars
  <2>4. PayloadOK'
    BY <1>2, SamePayload DEF Inv, offerVars
  <2>5. RelayOK'
    BY <1>2, <2>1, <2>2 DEF Inv, RelayOK, Session, serverVars, Callers
  <2>6. AnswerOK'
    BY <2>1, <2>2, SameAction DEF Inv, AnswerOK, Session, serverVars, chainVars
  <2>7. QED
    BY <2>3, <2>4, <2>5, <2>6 DEF Inv
<1>3. QED
  BY <1>1, <1>2 DEF Recover5xx

(* The server's answer is passed on.                                       *)
LEMMA RetryResponseInv == ASSUME Inv, RetryResponse PROVE Inv'
<1>1. /\ phase = "sent" /\ payment # {} /\ "wrapper" \notin called
      /\ UNCHANGED <<setup, now, challenge, signedAt, nonceRead, payment, serverVars, chainVars>>
  BY DEF RetryResponse, Inv, PhaseOK, RelayOK
<1>2. CASE Recover5xx
  BY <1>1, <1>2, Recover5xxInv
<1>3. CASE End(answer.status, "server", answer.body) /\ UNCHANGED relayVars
  <2>1. /\ phase' = "done" /\ outcome'.status = answer.status /\ outcome'.channel = "server"
        /\ outcome'.state = UNION {parsePaymentResponse(n) : n \in answer.body}
        /\ outcome'.next = UNION {n.next : n \in answer.body}
    BY <1>3, EndSays
  <2>2. PhaseOK'
    BY <1>1, <1>3, <2>1 DEF Inv, PhaseOK, AnswerOK, serverVars, relayVars
  <2>3. PayloadOK'
    BY <1>1, <2>1, SamePayload DEF Inv, offerVars
  <2>4. RelayOK'
    BY <1>1, <1>3, <2>1 DEF Inv, RelayOK, Session, serverVars, relayVars
  <2>5. AnswerOK'
    BY <1>1, <1>3, <2>1, SameAction DEF Inv, AnswerOK, Session, serverVars, chainVars, relayVars
  <2>6. QED
    BY <2>2, <2>3, <2>4, <2>5 DEF Inv
<1>4. QED
  BY <1>2, <1>3 DEF RetryResponse

LEMMA RetryBreaksInv == ASSUME Inv, RetryBreaks PROVE Inv'
<1>1. CASE Recover5xx
  BY <1>1, Recover5xxInv DEF RetryBreaks
<1>2. CASE End("threw", "server", {}) /\ UNCHANGED relayVars
  BY <1>2, EndsUnknown DEF RetryBreaks, relayVars
<1>3. QED
  BY <1>1, <1>2 DEF RetryBreaks

LEMMA DirectAnsweredInv == ASSUME Inv, DirectAnswered PROVE Inv'
<1>1. /\ phase = "direct" /\ called' = called /\ landedBy' = landedBy
      /\ UNCHANGED <<setup, now, challenge, signedAt, nonceRead, payment, serverVars, chainVars>>
  BY DEF DirectAnswered, Relay!Accept, Relay!Fail
<1>2. CASE End("5xx", "server", {})
  BY <1>1, <1>2, EndsUnknown
<1>3. CASE Relay!Accept("wrapper") /\ phase' = "reading" /\ UNCHANGED outcome
  <2>1. Session = "wrapper"
    BY <1>3 DEF Relay!Accept, Session, Callers
  <2>2. PhaseOK'
    BY <1>1, <1>3 DEF Inv, PhaseOK, serverVars
  <2>3. PayloadOK'
    BY <1>1, <1>3, SamePayload DEF Inv, offerVars
  <2>4. RelayOK'
    BY <1>1, <1>3, <2>1 DEF Inv, RelayOK, Session, serverVars
  <2>5. AnswerOK'
    BY <1>1, <1>3, SameAction DEF Inv, AnswerOK, Session, serverVars, chainVars
  <2>6. QED
    BY <2>2, <2>3, <2>4, <2>5 DEF Inv
<1>4. QED
  BY <1>2, <1>3 DEF DirectAnswered

LEMMA DirectTimesOutInv == ASSUME Inv, DirectTimesOut PROVE Inv'
  BY EndsUnknown DEF DirectTimesOut, relayVars

LEMMA DirectReadInv == ASSUME Inv, DirectRead PROVE Inv'
<1>1. /\ phase = "reading" /\ Session = "wrapper"
      /\ UNCHANGED <<setup, now, challenge, signedAt, nonceRead, payment, serverVars, chainVars,
                     relayVars>>
  BY DEF DirectRead, Inv, RelayOK
<1>2. CASE End("5xx", "server", {})
  BY <1>1, <1>2, EndsUnknown DEF relayVars
<1>3. CASE synthesizeCommitFallbackResponse
  <2>1. phase' = "done" /\ outcome'.status = "200" /\ outcome'.channel = "wrapper"
    BY <1>3, EndSays DEF synthesizeCommitFallbackResponse
  <2>2. PhaseOK'
    BY <1>1, <2>1 DEF Inv, PhaseOK, serverVars, relayVars
  <2>3. PayloadOK'
    BY <1>1, <2>1, SamePayload DEF Inv, offerVars
  <2>4. RelayOK'
    BY <1>1, <2>1 DEF Inv, RelayOK, Session, serverVars, relayVars
  <2>5. AnswerOK'
    BY <1>1, <2>1, SameAction DEF Inv, AnswerOK, Session, serverVars, chainVars, relayVars
  <2>6. QED
    BY <2>2, <2>3, <2>4, <2>5 DEF Inv
<1>4. QED
  BY <1>2, <1>3 DEF DirectRead

-----------------------------------------------------------------------------
(* The server's handler. What it does not answer changes no answer.        *)
LEMMA ServerQuiet ==
  ASSUME Inv, UNCHANGED <<setup, now, buyerVars, answer, chainVars, relayVars>>,
         \/ job' = job
         \/ job = "none" /\ job' = "resolving" /\ payment # {} /\ phase # "sealing"
         \/ job \in {"resolving", "relayed"} /\ job' = "lost"
  PROVE  Inv'
<1>1. PhaseOK'
  BY DEF Inv, PhaseOK, buyerVars, relayVars
<1>2. PayloadOK'
  BY SamePayload DEF Inv, offerVars, buyerVars
<1>3. RelayOK'
  BY DEF Inv, RelayOK, Session, buyerVars, relayVars
<1>4. AnswerOK'
  BY SameAction DEF Inv, AnswerOK, Session, buyerVars, chainVars, relayVars
<1>5. QED
  BY <1>1, <1>2, <1>3, <1>4 DEF Inv

(* It answers with a failure, or with a success it has seen on chain.      *)
LEMMA RespondInv ==
  ASSUME Inv, NEW status \in {"200", "4xx", "5xx"}, NEW state, Respond(status, state),
         job \in {"resolving", "relayed"},
         UNCHANGED <<setup, now, buyerVars, chainVars, called, landedBy>>,
         status = "4xx" => "server" \notin called,
         status = "200" => /\ job = "relayed" /\ Session = "server" /\ visible
                           /\ state = {ACTION_POST_STATE[P.action]}
  PROVE  Inv'
<1>1. /\ job' = "answered" /\ answer'.status = status
      /\ answer'.body = stampXPaymentResponseIfOk(state)
  BY DEF Respond
<1>2. answer.status = "none" /\ payment # {} /\ phase # "sealing"
  BY DEF Inv, PhaseOK, AnswerOK
<1>3. PhaseOK'
  BY <1>1, <1>2 DEF Inv, PhaseOK, buyerVars
<1>4. PayloadOK'
  BY SamePayload DEF Inv, offerVars, buyerVars
<1>5. RelayOK'
  BY <1>1 DEF Inv, RelayOK, Session, buyerVars
<1>6. AnswerOK'
  BY <1>1, <1>2, SameAction DEF Inv, AnswerOK, Session, buyerVars, chainVars
<1>7. QED
  BY <1>3, <1>4, <1>5, <1>6 DEF Inv

LEMMA ServerReceivesInv == ASSUME Inv, ServerReceives PROVE Inv'
<1>1. /\ job = "none" /\ job' = "resolving" /\ payment # {} /\ phase # "sealing"
      /\ UNCHANGED <<setup, now, buyerVars, answer, chainVars, relayVars>>
  BY DEF ServerReceives
<1>2. QED
  BY <1>1, ServerQuiet

LEMMA ServerRestartsInv == ASSUME Inv, ServerRestarts PROVE Inv'
<1>1. /\ job' = job \/ (job \in {"resolving", "relayed"} /\ job' = "lost")
      /\ UNCHANGED <<setup, now, buyerVars, answer, chainVars, relayVars>>
  BY DEF ServerRestarts
<1>2. QED
  BY <1>1, ServerQuiet

LEMMA ServerValidatesInv == ASSUME Inv, ServerValidates PROVE Inv'
<1>1. /\ job = "resolving" /\ "server" \notin called
      /\ UNCHANGED <<setup, now, buyerVars, chainVars>>
  BY DEF ServerValidates, Inv, RelayOK
<1>2. CASE UNCHANGED relayVars /\ \E status \in {"4xx", "5xx"} : Respond(status, {})
  BY <1>1, <1>2, RespondInv DEF relayVars
<1>3. CASE Settles /\ Relay!Call("server") /\ job' = "relayed" /\ UNCHANGED answer
  <2>1. called' = called \cup {"server"} /\ landedBy' = landedBy
    BY <1>3 DEF Relay!Call
  <2>2. P.action = HandlerAction /\ P.action \in COMMIT_ACTION_IDS
    BY <1>3 DEF Settles, validatePaymentPayload, PaymentAcceptedByServer, Rule7
  <2>3. answer.status = "none" /\ payment # {} /\ phase # "sealing"
    BY <1>1 DEF Inv, PhaseOK, AnswerOK
  <2>4. PhaseOK'
    BY <1>1, <1>3, <2>3 DEF Inv, PhaseOK, buyerVars
  <2>5. PayloadOK'
    BY <1>1, SamePayload DEF Inv, offerVars, buyerVars
  <2>6. RelayOK'
    BY <1>1, <1>3, <2>1, <2>3 DEF Inv, RelayOK, Session, buyerVars, Callers
  <2>7. AnswerOK'
    BY <1>1, <1>3, <2>1, <2>2, <2>3, SameAction DEF Inv, AnswerOK, Session, buyerVars, chainVars
  <2>8. QED
    BY <2>4, <2>5, <2>6, <2>7 DEF Inv
<1>4. QED
  BY <1>2, <1>3 DEF ServerValidates

LEMMA ServerRepliesInv == ASSUME Inv, ServerReplies PROVE Inv'
<1>1. /\ job = "relayed" /\ called' = called /\ landedBy' = landedBy
      /\ UNCHANGED <<setup, now, buyerVars, chainVars>>
  BY DEF ServerReplies, Relay!Accept, Relay!Fail
<1>2. CASE Respond("5xx", {})
  BY <1>1, <1>2, RespondInv
<1>3. CASE Relay!Accept("server") /\ visible /\ Respond("200", {ACTION_POST_STATE[HandlerAction]})
  <2>1. Session = "server"
    BY <1>3 DEF Relay!Accept, Session, Callers
  <2>2. HandlerAction = P.action
    BY <1>1 DEF Inv, AnswerOK
  <2>3. QED
    BY <1>1, <1>3, <2>1, <2>2, RespondInv
<1>4. QED
  BY <1>2, <1>3 DEF ServerReplies

-----------------------------------------------------------------------------
(* The payment lands once, on behalf of a caller.                          *)
LEMMA LandInv == ASSUME Inv, NEW c \in Callers, Land(c) PROVE Inv'
<1>1. /\ c \in called /\ Session = NoCaller /\ landedBy' = [landedBy EXCEPT ![MySession] = c]
      /\ called' = called
      /\ UNCHANGED <<setup, now, buyerVars, serverVars, chainVars>>
  BY DEF Land, Relay!Land, Session, Callers
<1>2. NoCaller \notin {"server", "wrapper"}
  BY PaymentAssumption DEF Callers
<1>3. PhaseOK'
  BY <1>1 DEF Inv, PhaseOK, buyerVars, serverVars
<1>4. PayloadOK'
  BY <1>1, SamePayload DEF Inv, offerVars, buyerVars
<1>5. RelayOK'
  BY <1>1, <1>2 DEF Inv, RelayOK, Session, buyerVars, serverVars
<1>6. AnswerOK'
  BY <1>1, <1>2, SameAction DEF Inv, AnswerOK, Session, buyerVars, serverVars, chainVars
<1>7. QED
  BY <1>3, <1>4, <1>5, <1>6 DEF Inv

LEMMA StepInv == Inv /\ [Next]_vars => Inv'
<1>1. SUFFICES ASSUME Inv, [Next]_vars PROVE Inv'
  OBVIOUS
<1>2. CASE BuyerStep
  BY <1>1, <1>2, AskInv, AskFailsInv, Handle402Inv, SignTokenAuthInv, SendRetryInv,
     RetryResponseInv, RetryBreaksInv, DirectAnsweredInv, DirectTimesOutInv, DirectReadInv
  DEF BuyerStep
<1>3. CASE ServerReceives \/ ServerValidates \/ ServerReplies \/ ServerRestarts
  BY <1>1, <1>3, ServerReceivesInv, ServerValidatesInv, ServerRepliesInv, ServerRestartsInv
<1>4. CASE \E c \in Callers : Land(c)
  BY <1>1, <1>4, LandInv
<1>5. CASE \/ \E c \in Callers : Check(c)
           \/ Tick \/ PaysElsewhere \/ Index \/ OthersAsk \/ BuildEnds
  BY <1>1, <1>5, WorldSteps
<1>6. CASE UNCHANGED vars
  <2>1. now' \in Int
    BY <1>1, <1>6 DEF vars, Inv, PhaseOK
  <2>2. UNCHANGED <<setup, buyerVars, job, answer, relayVars, visible>>
    BY <1>6 DEF vars, serverVars, chainVars
  <2>3. QED
    BY <1>1, <2>1, <2>2, WorldInv
<1>7. QED
  BY <1>1, <1>2, <1>3, <1>4, <1>5, <1>6 DEF Next

LEMMA Invariance == Spec => []Inv
  BY InitInv, StepInv, PTL DEF Spec

-----------------------------------------------------------------------------
(* A 4xx, and an end before X-PAYMENT was sent, mean that nothing was paid *)
(* and that nothing will be, whatever the server was doing.                *)
THEOREM SafeToPayAgain == Spec => []RefusedMeansUnpaid
<1>1. Inv => RefusedMeansUnpaid
  <2>1. SUFFICES ASSUME Inv, outcome.status = "4xx" \/ outcome.channel = "initial"
                 PROVE  ~Landed
    BY DEF RefusedMeansUnpaid
  <2>2. called = {}
    <3>1. CASE outcome.status = "4xx"
      BY <2>1, <3>1 DEF Inv, RelayOK, AnswerOK, Callers
    <3>2. CASE outcome.channel = "initial"
      BY <2>1, <3>2 DEF Inv, PhaseOK
    <3>3. QED
      BY <2>1, <3>1, <3>2
  <2>3. QED
    BY <2>1, <2>2 DEF Inv, RelayOK, Landed
<1>2. QED
  BY <1>1, Invariance, PTL

(* Every action that an open exchange's envelope advertises is the buyer's *)
(* to take, without the seller's help.                                     *)
LEMMA PostCommitEntries ==
  ASSUME NEW action \in COMMIT_ACTION_IDS, NEW registry, registry.escrow # Absent,
         NEW entry \in emitNextActions(ACTION_POST_STATE[action], registry).next
  PROVE  /\ isLegalTransition(ACTION_POST_STATE[action], entry.id, "client")
         /\ hasBuyerOnchainFallback(entry)
<1> DEFINE state == ACTION_POST_STATE[action]
<1>1. state \in {InState("COMMITTED"), InState("REDEEMED")}
  BY DEF ACTION_POST_STATE, COMMIT_ACTION_IDS, EXCHANGE_ACTION_IDS
<1>2. PICK a \in clientLegalActions(state) : entry = stampEntry(buildEntry(a, registry))
  BY DEF emitNextActions, stampFacilitatorEndpoints, deriveNextActions, buildEnvelope
<1>3. entry.id = a /\ entry.channels = buildEntry(a, registry).channels
  BY <1>2 DEF stampEntry, buildEntry
<1>4. "onchain" \in buildEntry(a, registry).channels
  BY DEF buildEntry, effectiveChannels, isUsableChannel
<1>5. a \in {"boson-redeem", "boson-cancelVoucher", "boson-completeExchange", "boson-raiseDispute"}
  BY <1>1, <1>2 DEF clientLegalActions, legalActions, InState, CLIENT_BY_EXCHANGE
<1>6. a \in EXCHANGE_ACTION_IDS /\ BUYER_ONCHAIN_FALLBACK[a]
  BY <1>5 DEF BUYER_ONCHAIN_FALLBACK, EXCHANGE_ACTION_IDS, POST_COMMIT_ACTION_IDS
<1>7. QED
  BY <1>2, <1>3, <1>4, <1>6 DEF isLegalTransition, clientLegalActions, hasBuyerOnchainFallback

(* The state that a commit leaves reads the same on the other side.        *)
LEMMA PostCommitState ==
  ASSUME NEW action \in COMMIT_ACTION_IDS, NEW registry
  PROVE  parsePaymentResponse(emitNextActions(ACTION_POST_STATE[action], registry))
           = {ACTION_POST_STATE[action]}
<1> DEFINE state == ACTION_POST_STATE[action]
<1>1. state \in {InState("COMMITTED"), InState("REDEEMED")}
  BY DEF ACTION_POST_STATE, COMMIT_ACTION_IDS, EXCHANGE_ACTION_IDS
<1>2. emitNextActions(state, registry).state.exchangeState = state.exchange
  BY DEF emitNextActions, StateFields
<1>3. QED
  BY <1>1, <1>2 DEF parsePaymentResponse, InState, NoDispute, Absent

(* A 200 is a payment that landed through the channel it names; the        *)
(* server's own names the exchange's state and the buyer's next actions.   *)
THEOREM TruthfulAnswer == Spec => []AnswerTellsTheTruth
<1>1. Inv => AnswerTellsTheTruth
  <2>1. SUFFICES ASSUME Inv, outcome.status = "200", outcome.channel = "server"
                 PROVE  /\ Session = "server" /\ visible
                        /\ outcome.state = {ACTION_POST_STATE[P.action]}
                        /\ \A entry \in outcome.next :
                             /\ isLegalTransition(ACTION_POST_STATE[P.action], entry.id, "client")
                             /\ hasBuyerOnchainFallback(entry)
    BY DEF AnswerTellsTheTruth, Inv, AnswerOK, Session
  <2> DEFINE registry == ServerConfig(setup).channelRegistry
             told == emitNextActions(ACTION_POST_STATE[P.action], registry)
  <2>2. /\ P.action \in COMMIT_ACTION_IDS /\ Session = "server" /\ visible
        /\ answer.body = {told}
        /\ outcome.state = UNION {parsePaymentResponse(n) : n \in answer.body}
        /\ outcome.next = UNION {n.next : n \in answer.body}
    BY <2>1 DEF Inv, AnswerOK, stampXPaymentResponseIfOk
  <2>3. registry.escrow # Absent
    BY <2>1, ConfigAssumption DEF Inv, PhaseOK, ValidConfig, buildChannelRegistry
  <2> HIDE DEF registry, told
  <2>4. outcome.state = parsePaymentResponse(told) /\ outcome.next = told.next
    BY <2>2
  <2>5. QED
    BY <2>2, <2>3, <2>4, PostCommitEntries, PostCommitState DEF told
<1>2. QED
  BY <1>1, Invariance, PTL

-----------------------------------------------------------------------------
(* For any payload, requirements and time, what the facilitator verifies   *)
(* the server would accept, but for the spelling of the seller's           *)
(* signature: rule by rule the facilitator is at least as strict.          *)
LEMMA NoLooser ==
  ASSUME NEW p, NEW requirements, NEW config, NEW time \in Int,
         requirements.maxTimeoutSeconds \in Nat, Whole(p),
         verify(p, requirements, config, time),
         p.offerRef.sellerSig = requirements.offer.sellerSig
  PROVE  PaymentAcceptedByServer(p, requirements, time)
<1>1. /\ p.scheme = "escrow" /\ requirements.scheme = "escrow"
      /\ p.network = requirements.network
      /\ p.offerRef.fullOffer = requirements.offer.fullOffer
      /\ Advertised(p.action, requirements)
      /\ p.tokenAuthStrategy \in requirements.tokenAuthStrategies
  BY DEF verify, validateScheme, validateNetworkMatch, validateOfferRefMatchesRequirements,
         validateTokenAuthStrategyInRequirements
<1>2. Rule7(p)
  BY <1>1 DEF verify, validateMetaTxCalldataMatchesRequirements, Rule7
<1>3. Rule8(p, requirements)
  BY DEF verify, verifyMetaTxSignature, validateNetworkMatch, LegacyV, NormalizableV, Rule8
<1>4. checkTokenAuthRules(p, requirements, time)
  <2>1. ASSUME NEW deadline \in Int,
               validateDeadlineWindow(deadline, requirements.maxTimeoutSeconds, time)
        PROVE  deadline <= time + requirements.maxTimeoutSeconds
    BY <2>1 DEF validateDeadlineWindow
  <2>2. /\ p.tokenAuth.kind = IF p.tokenAuthStrategy = "none" THEN Absent ELSE p.tokenAuthStrategy
        /\ requirements.escrowAddress = config.escrow
        /\ verifyTokenAuthSignature(p.tokenAuth, requirements, p.buyer, config.escrow, time)
    BY DEF verify, validateTokenAuthStrategyInRequirements
  <2>3. QED
    BY <2>1, <2>2 DEF checkTokenAuthRules, verifyTokenAuthSignature, verifyErc3009, verifyPermit,
                      verifyPermit2, Whole
<1>5. QED
  BY <1>1, <1>2, <1>3, <1>4 DEF PaymentAcceptedByServer

(* Whatever client made the payload, and whichever of the two offers it is *)
(* held against: what the facilitator takes the server would have taken.   *)
THEOREM FacilitatorAsStrict == Spec => []FacilitatorNoLooser
<1>1. Inv => FacilitatorNoLooser
  <2>1. SUFFICES ASSUME Inv, NEW p \in payment, NEW build,
                        verify(p, Requirements(build), Facilitator, now),
                        p.offerRef.sellerSig = Requirements(build).offer.sellerSig
                 PROVE  PaymentAcceptedByServer(p, Requirements(build), now)
    BY DEF FacilitatorNoLooser
  <2>2. now \in Int /\ Whole(p)
    BY <2>1 DEF Inv, PhaseOK, PayloadOK
  <2>3. Requirements(build).maxTimeoutSeconds \in Nat
    BY PaymentAssumption DEF Requirements, buildPaymentRequirements
  <2>4. QED
    BY <2>1, <2>2, <2>3, NoLooser
<1>2. QED
  BY <1>1, Invariance, PTL

(* An authorization signed by the buyer's own client pays before its last  *)
(* second is over.                                                         *)
LEMMA PaysInTime ==
  ASSUME Inv, setup.sdk, payment # {}, P.tokenAuthStrategy # "none",
         ContractAccepts(buildSettleCalldata(P))
  PROVE  now <= LastSecond
<1> DEFINE deadline == computeTokenAuthDeadline(MaxTimeoutSeconds, signedAt)
           call == buildSettleCalldata(P)
           slots == [i \in 1 .. preBuyerSkipSlots(P.action) |-> EmptySlot]
<1>1. P = HonestPayload /\ CanPay(Requirements(challenge), Client)
      /\ setup \in Setups /\ signedAt \in Int /\ now \in Int
  BY DEF Inv, PayloadOK, PhaseOK
<1>2. /\ P.tokenAuthStrategy \in STRATEGIES /\ P.tokenAuth.kind = P.tokenAuthStrategy
      /\ deadline \in Int
      /\ P.tokenAuthStrategy = "erc3009" => P.tokenAuth.data.validBefore = deadline
      /\ P.tokenAuthStrategy \in {"permit", "permit2"} => P.tokenAuth.data.deadline = deadline
  BY <1>1, HonestParts
<1>3. deadline = LastSecond
  BY <1>1, MarginAssumption, PaymentAssumption
  DEF computeTokenAuthDeadline, LastSecond, Margin
<1>4. call.queue = Append(slots, encodeAuthEntry(P.tokenAuth))
      /\ call.entrypoint # "executeMetaTransaction"
  BY DEF buildSettleCalldata, buildBpip12Calldata, buildBpip12Queue
<1>5. call.queue[2] = encodeAuthEntry(P.tokenAuth)
  <2>1. slots \in Seq({EmptySlot}) /\ Len(slots) \in {0, 1}
    BY DEF preBuyerSkipSlots
  <2>2. Len(call.queue) = 2
    BY <1>4 DEF ContractAccepts
  <2> HIDE DEF slots, call
  <2>3. QED
    BY <1>4, <2>1, <2>2
<1>6. \E pull : EntryPays(call.queue[2], pull, Chain, now)
  BY <1>4 DEF ContractAccepts
<1> HIDE DEF deadline, call, slots
<1>7. CASE P.tokenAuthStrategy = "erc3009"
  <2>1. /\ encodeAuthEntry(P.tokenAuth).strategy = "erc3009"
        /\ encodeAuthEntry(P.tokenAuth).validBefore = deadline
    BY <1>2, <1>7 DEF encodeAuthEntry
  <2>2. now < deadline
    BY <1>5, <1>6, <2>1 DEF EntryPays
  <2>3. QED
    BY <1>1, <1>2, <1>3, <2>2
<1>8. CASE P.tokenAuthStrategy \in {"permit", "permit2"}
  <2>1. /\ encodeAuthEntry(P.tokenAuth).strategy = P.tokenAuthStrategy
        /\ encodeAuthEntry(P.tokenAuth).deadline = deadline
    BY <1>2, <1>8 DEF encodeAuthEntry
  <2>2. QED
    BY <1>3, <1>5, <1>6, <1>8, <2>1 DEF EntryPays
<1>9. QED
  BY <1>2, <1>7, <1>8 DEF STRATEGIES

LEMMA OnlyLandLands == ASSUME [Next]_vars, ~Landed, Landed' PROVE \E c \in Callers : Land(c)
<1>1. landedBy' # landedBy
  BY DEF Landed
<1>2. ASSUME BuyerStep PROVE UNCHANGED landedBy
  BY <1>2 DEF BuyerStep, Ask, AskFails, handle402, SignTokenAuth, SendRetry, RetryResponse,
     RetryBreaks, DirectAnswered, DirectTimesOut, DirectRead, Recover5xx, Relay!Call, Relay!Accept,
     Relay!Fail, relayVars
<1>3. ASSUME ServerReceives \/ ServerValidates \/ ServerReplies \/ ServerRestarts
      PROVE  UNCHANGED landedBy
  BY <1>3 DEF ServerReceives, ServerValidates, ServerReplies, ServerRestarts, Relay!Call,
     Relay!Accept, Relay!Fail, relayVars
<1>4. ASSUME \/ \E c \in Callers : Check(c)
             \/ Tick \/ PaysElsewhere \/ Index \/ OthersAsk \/ BuildEnds
      PROVE  UNCHANGED landedBy
  BY <1>4 DEF Check, Tick, PaysElsewhere, Index, OthersAsk, BuildEnds, relayVars
<1>5. ASSUME UNCHANGED vars PROVE UNCHANGED landedBy
  BY <1>5 DEF vars, relayVars
<1>6. QED
  BY <1>1, <1>2, <1>3, <1>4, <1>5 DEF Next

(* Whoever submits the payment and however late: it lands the margin       *)
(* before the buyer's timeout is over, or not at all.                      *)
THEOREM LandsBeforeTimeout == Spec => LandsInTime
<1>1. ASSUME Inv, [Next]_vars
      PROVE  [setup.sdk /\ ~Landed /\ Landed' /\ P.tokenAuthStrategy # "none" =>
                now <= LastSecond]_vars
  <2>1. SUFFICES ASSUME setup.sdk, ~Landed, Landed', P.tokenAuthStrategy # "none"
                 PROVE  now <= LastSecond
    OBVIOUS
  <2>2. PICK c \in Callers : Land(c)
    BY <1>1, <2>1, OnlyLandLands
  <2>3. payment # {}
    BY <1>1, <2>2 DEF Land, Relay!Land, Inv, PhaseOK
  <2>4. QED
    BY <1>1, <2>1, <2>2, <2>3, PaysInTime DEF Land
<1>2. QED
  BY <1>1, Invariance, PTL DEF Spec, LandsInTime

-----------------------------------------------------------------------------
(* What the buyer's own client signs passes every check: those of the      *)
(* server, of the facilitator and of the contract, field by field, as long *)
(* as its deadline does on the clock it is held against.                   *)
LEMMA RequirementsSay ==
  ASSUME NEW build
  PROVE  LET r == Requirements(build)
         IN  /\ r.scheme = "escrow" /\ r.network = Chain /\ r.asset = Token /\ r.amount = Amount
             /\ r.escrowAddress = Escrow /\ r.maxTimeoutSeconds = MaxTimeoutSeconds
             /\ r.offer.fullOffer = FullOffer(build)
             /\ r.offer.sellerSig = OfferSignature(Seller, Chain, Escrow, FullOffer(build))
             /\ r.fulfillment = Fulfillment
  BY DEF Requirements, buildPaymentRequirements, ServerConfig

(* The clock reads a time at which the deadline is neither due nor too far *)
(* away.                                                                   *)
Within(deadline, clock) == clock < deadline /\ deadline - clock <= MaxTimeoutSeconds

LEMMA AuthPasses ==
  ASSUME NEW r, r.asset = Token, r.network = Chain, r.amount = Amount, r.escrowAddress = Escrow,
         r.maxTimeoutSeconds = MaxTimeoutSeconds,
         NEW strategy \in STRATEGIES, NEW buyer, NEW nonce, NEW time \in Int, NEW clock \in Int,
         NEW deadline, deadline = computeTokenAuthDeadline(MaxTimeoutSeconds, time),
         NEW auth, auth = buildAndSignTokenAuth(strategy, r, buyer, nonce, time),
         strategy # "none" => Within(deadline, clock) /\ 0 < clock
  PROVE  /\ verifyTokenAuthSignature(auth, r, buyer, Escrow, clock)
         /\ \A p : p.tokenAuth = auth /\ p.tokenAuthStrategy = strategy =>
              checkTokenAuthRules(p, r, clock)
         /\ auth.kind = Absent \/ tokenAuthSchema(auth)
         /\ strategy # "none" =>
              EntryPays(encodeAuthEntry(auth),
                        [from |-> buyer, to |-> Escrow, value |-> Amount, token |-> Token,
                         permitNonce |-> nonce], Chain, clock)
<1>1. MaxTimeoutSeconds \in Nat /\ Amount \in Nat /\ deadline \in Int
  BY MarginAssumption, PaymentAssumption, ClientAssumption DEF computeTokenAuthDeadline
<1>2. strategy # "none" => /\ clock < deadline /\ deadline - clock <= MaxTimeoutSeconds
                           /\ deadline <= clock + MaxTimeoutSeconds /\ 0 <= deadline /\ 0 < clock
                           /\ clock <= deadline /\ 0 <= Amount
  BY <1>1 DEF Within
<1>3. CASE strategy = "none"
  <2>1. auth = NoTokenAuth /\ auth.kind = Absent
    BY <1>3 DEF buildAndSignTokenAuth, NoTokenAuth
  <2>2. QED
    BY <1>3, <2>1 DEF verifyTokenAuthSignature, checkTokenAuthRules, Absent
<1>4. CASE strategy = "erc3009"
  <2> DEFINE data == [from |-> buyer, to |-> Escrow, value |-> Amount, validAfter |-> 0,
                      validBefore |-> deadline, nonce |-> nonce]
             msg == Erc3009Message(Token, Chain, data)
             sig == Sign(buyer, msg)
  <2>1. auth = [kind |-> "erc3009", data |-> data, sig |-> sig]
    BY <1>4 DEF buildAndSignTokenAuth, signErc3009
  <2>2. Recover(sig, msg) = buyer /\ LegacyV(sig)
    BY DEF Recover, Sign, LegacyV
  <2>3. verifyTokenAuthSignature(auth, r, buyer, Escrow, clock)
    <3>1. verifyErc3009(auth, r, buyer, Escrow, clock)
      BY <1>2, <1>4, <2>1, <2>2 DEF verifyErc3009, validateDeadlineWindow
    <3>2. QED
      BY <2>1, <3>1 DEF verifyTokenAuthSignature
  <2>4. ASSUME NEW p, p.tokenAuth = auth, p.tokenAuthStrategy = strategy
        PROVE  checkTokenAuthRules(p, r, clock)
    BY <1>2, <1>4, <2>1, <2>4 DEF checkTokenAuthRules
  <2>5. tokenAuthSchema(auth)
    BY <1>1, <1>2, <1>4, <2>1 DEF tokenAuthSchema
  <2>6. EntryPays(encodeAuthEntry(auth),
                  [from |-> buyer, to |-> Escrow, value |-> Amount, token |-> Token,
                   permitNonce |-> nonce], Chain, clock)
    <3>1. encodeAuthEntry(auth) = [strategy |-> "erc3009", validAfter |-> 0,
                                   validBefore |-> deadline, nonce |-> nonce, sig |-> sig]
      BY <2>1 DEF encodeAuthEntry
    <3>2. QED
      BY <1>2, <1>4, <2>2, <3>1 DEF EntryPays
  <2>7. QED
    BY <2>3, <2>4, <2>5, <2>6
<1>5. CASE strategy = "permit"
  <2> DEFINE data == [owner |-> buyer, spender |-> Escrow, value |-> Amount, nonce |-> nonce,
                      deadline |-> deadline]
             msg == PermitMessage(Token, Chain, data)
             sig == Sign(buyer, msg)
  <2>1. auth = [kind |-> "permit", data |-> data, sig |-> sig]
    BY <1>5 DEF buildAndSignTokenAuth, signPermit
  <2>2. Recover(sig, msg) = buyer /\ LegacyV(sig)
    BY DEF Recover, Sign, LegacyV
  <2>3. verifyTokenAuthSignature(auth, r, buyer, Escrow, clock)
    <3>1. verifyPermit(auth, r, buyer, Escrow, clock)
      BY <1>2, <1>5, <2>1, <2>2 DEF verifyPermit, validateDeadlineWindow
    <3>2. QED
      BY <2>1, <3>1 DEF verifyTokenAuthSignature
  <2>4. ASSUME NEW p, p.tokenAuth = auth, p.tokenAuthStrategy = strategy
        PROVE  checkTokenAuthRules(p, r, clock)
    BY <1>2, <1>5, <2>1, <2>4 DEF checkTokenAuthRules
  <2>5. tokenAuthSchema(auth)
    BY <1>1, <1>2, <1>5, <2>1 DEF tokenAuthSchema
  <2>6. EntryPays(encodeAuthEntry(auth),
                  [from |-> buyer, to |-> Escrow, value |-> Amount, token |-> Token,
                   permitNonce |-> nonce], Chain, clock)
    <3>1. encodeAuthEntry(auth) = [strategy |-> "permit", deadline |-> deadline, sig |-> sig]
      BY <2>1 DEF encodeAuthEntry
    <3>2. QED
      BY <1>2, <1>5, <2>2, <3>1 DEF EntryPays
  <2>7. QED
    BY <2>3, <2>4, <2>5, <2>6
<1>6. CASE strategy = "permit2"
  <2> DEFINE data == [token |-> Token, amount |-> Amount, spender |-> Escrow, nonce |-> nonce,
                      deadline |-> deadline]
             msg == Permit2Message(Chain, data)
             sig == Sign(buyer, msg)
  <2>1. auth = [kind |-> "permit2", data |-> data, sig |-> sig]
    BY <1>6 DEF buildAndSignTokenAuth, signPermit2
  <2>2. Recover(sig, msg) = buyer /\ LegacyV(sig)
    BY DEF Recover, Sign, LegacyV
  <2>3. verifyTokenAuthSignature(auth, r, buyer, Escrow, clock)
    <3>1. verifyPermit2(auth, r, buyer, Escrow, clock)
      BY <1>2, <1>6, <2>1, <2>2 DEF verifyPermit2, validateDeadlineWindow
    <3>2. QED
      BY <2>1, <3>1 DEF verifyTokenAuthSignature
  <2>4. ASSUME NEW p, p.tokenAuth = auth, p.tokenAuthStrategy = strategy
        PROVE  checkTokenAuthRules(p, r, clock)
    BY <1>2, <1>6, <2>1, <2>4 DEF checkTokenAuthRules
  <2>5. tokenAuthSchema(auth)
    BY <1>1, <1>2, <1>6, <2>1 DEF tokenAuthSchema
  <2>6. EntryPays(encodeAuthEntry(auth),
                  [from |-> buyer, to |-> Escrow, value |-> Amount, token |-> Token,
                   permitNonce |-> nonce], Chain, clock)
    <3>1. encodeAuthEntry(auth) = [strategy |-> "permit2", nonce |-> nonce, deadline |-> deadline,
                                   sig |-> sig]
      BY <2>1 DEF encodeAuthEntry
    <3>2. QED
      BY <1>2, <1>6, <2>2, <3>1 DEF EntryPays
  <2>7. QED
    BY <2>3, <2>4, <2>5, <2>6
<1>7. QED
  BY <1>3, <1>4, <1>5, <1>6 DEF STRATEGIES

LEMMA SignedPasses ==
  ASSUME NEW r, r.asset = Token, r.network = Chain, r.amount = Amount, r.escrowAddress = Escrow,
         r.maxTimeoutSeconds = MaxTimeoutSeconds,
         NEW p, p.tokenAuthStrategy \in STRATEGIES, NEW buyer, NEW nonce, NEW time \in Int,
         NEW clock \in Int,
         p.tokenAuth = buildAndSignTokenAuth(p.tokenAuthStrategy, r, buyer, nonce, time),
         p.tokenAuthStrategy # "none" =>
           Within(computeTokenAuthDeadline(MaxTimeoutSeconds, time), clock) /\ 0 < clock
  PROVE  /\ verifyTokenAuthSignature(p.tokenAuth, r, buyer, Escrow, clock)
         /\ checkTokenAuthRules(p, r, clock)
         /\ p.tokenAuth.kind = Absent \/ tokenAuthSchema(p.tokenAuth)
         /\ p.tokenAuthStrategy # "none" =>
              EntryPays(encodeAuthEntry(p.tokenAuth),
                        [from |-> buyer, to |-> Escrow, value |-> Amount, token |-> Token,
                         permitNonce |-> nonce], Chain, clock)
  BY AuthPasses

LEMMA ClientMode ==
  ASSUME setup \in Setups
  PROVE  Client.redeemMode \in {"auto", "commit-only", "commit-and-redeem"}
<1>1. CASE setup.front = "paywall"
  BY <1>1 DEF Client, PaywallClient
<1>2. CASE setup.front # "paywall"
  BY <1>2, ClientAssumption DEF Client, AllowedActions
<1>3. QED
  BY <1>1, <1>2

LEMMA OneChoice == ASSUME setup \in Setups PROVE Optional(Client.fulfillment)
<1>1. CASE setup.front = "paywall"
  BY <1>1 DEF Client, PaywallClient, Optional
<1>2. CASE setup.front # "paywall"
  <2> DEFINE negotiated == UNION {negotiateFulfillment(Fulfillment.options, n) : n \in setup.negotiation}
  <2>1. Client.fulfillment = setup.buyer.fulfillment \cup negotiated
    BY <1>2, ClientAssumption DEF Client
  <2>2. ASSUME NEW n \in setup.negotiation PROVE Optional(negotiateFulfillment(Fulfillment.options, n))
    <3>1. Optional(n.collectInteractive)
      BY ClientAssumption
    <3>2. ASSUME NEW o PROVE Optional(DataFor(o, n))
      BY <3>1 DEF DataFor, extractFromAgentContext, Optional
    <3>3. QED
      BY <3>2 DEF negotiateFulfillment, Optional
  <2>3. Optional(negotiated)
    BY <2>2, ClientAssumption DEF Optional
  <2>4. setup.buyer.fulfillment = {} \/ negotiated = {}
    BY ClientAssumption
  <2>5. QED
    BY <2>1, <2>3, <2>4, ClientAssumption DEF Optional
<1>3. QED
  BY <1>1, <1>2

LEMMA HonestSays ==
  ASSUME setup \in Setups, CanPay(Requirements(challenge), Client),
         NEW p, p = HonestPayload, NEW r, r = Requirements(challenge),
         NEW buyer, buyer = Client.account
  PROVE  /\ p.scheme = "escrow" /\ p.network = Chain /\ p.buyer = buyer
         /\ p.action \in COMMIT_ACTION_IDS /\ Advertised(p.action, r)
         /\ p.offerRef.fullOffer = FullOffer(challenge)
         /\ p.offerRef.sellerSig = OfferSignature(Seller, Chain, Escrow, FullOffer(challenge))
         /\ p.tokenAuthStrategy \in STRATEGIES \cap r.tokenAuthStrategies
         /\ p.tokenAuth =
              buildAndSignTokenAuth(p.tokenAuthStrategy, r, buyer,
                IF p.tokenAuthStrategy = "permit" THEN nonceRead ELSE MySession, signedAt)
         /\ p.metaTx =
              [from |-> buyer, nonce |-> MySession, functionName |-> FUNCTION_NAME[p.action],
               functionSignature |->
                 CommitCalldata(p.action,
                   WithSellerSignatureAndCommitter(p.offerRef.fullOffer, p.offerRef.sellerSig, buyer))]
         /\ p.metaTxSig = Sign(buyer, MetaTransaction(Chain, Escrow, p.metaTx))
         /\ p.fulfillment = fulfillmentSlot(p.action, r, Client)
<1> DEFINE action == pickAction(r, Client)
           strategy == pickStrategy(r, Client)
           nonces == [metaTx |-> MySession,
                      tokenAuth |-> IF strategy = "permit" THEN nonceRead ELSE MySession]
           signed == signMetaTx(action, r, buyer, MySession)
<1>1. p = [scheme |-> "escrow", network |-> r.network,
           action |-> action, tokenAuthStrategy |-> strategy,
           offerRef |-> [fullOffer |-> r.offer.fullOffer, sellerSig |-> r.offer.sellerSig],
           buyer |-> buyer, metaTx |-> signed.metaTx, metaTxSig |-> signed.sig,
           tokenAuth |-> buildAndSignTokenAuth(strategy, r, buyer, nonces.tokenAuth, signedAt),
           fulfillment |-> fulfillmentSlot(action, r, Client)]
  BY DEF HonestPayload, assemblePayload
<1>2. /\ r.network = Chain /\ r.escrowAddress = Escrow
      /\ r.offer.fullOffer = FullOffer(challenge)
      /\ r.offer.sellerSig = OfferSignature(Seller, Chain, Escrow, FullOffer(challenge))
  BY RequirementsSay
<1>3. action \in PossibleActions(r, Client)
  <2>1. PossibleActions(r, Client) \subseteq ToSet(AllowedActions[Client.redeemMode])
    BY DEF PossibleActions
  <2>2. QED
    BY <2>1, ClientMode, PreferredAction DEF pickAction, CanPay
<1>4. action \in COMMIT_ACTION_IDS /\ Advertised(action, r)
  <2>1. action \in ToSet(AllowedActions[Client.redeemMode]) /\ OfferedByServer(action, r)
    BY <1>3 DEF PossibleActions
  <2>2. AllowedActions[Client.redeemMode] \in {<<FLOW_A, FLOW_B>>, <<FLOW_A>>, <<FLOW_B>>}
    BY ClientMode DEF AllowedActions
  <2>3. action \in {FLOW_A, FLOW_B}
    BY <2>1, <2>2 DEF ToSet
  <2>4. QED
    BY <2>1, <2>3 DEF OfferedByServer, Advertised, COMMIT_ACTION_IDS, FLOW_A, FLOW_B
<1>5. strategy \in STRATEGIES \cap r.tokenAuthStrategies
  BY PickedStrategy DEF PossibleStrategies
<1>6. /\ signed.metaTx =
           [from |-> buyer, nonce |-> MySession, functionName |-> FUNCTION_NAME[action],
            functionSignature |->
              CommitCalldata(action,
                WithSellerSignatureAndCommitter(r.offer.fullOffer, r.offer.sellerSig, buyer))]
      /\ signed.sig = Sign(buyer, MetaTransaction(r.network, r.escrowAddress, signed.metaTx))
  BY DEF signMetaTx
<1> HIDE DEF action, strategy, signed
<1>7. QED
  BY <1>1, <1>2, <1>4, <1>5, <1>6

(* On either server's clock the deadline is where the client has put it.   *)
LEMMA DeadlineWithin ==
  ASSUME setup \in Setups, setup.start <= signedAt, signedAt \in Int, NEW clock \in Int,
         signedAt - Margin <= clock /\ clock < LastSecond
  PROVE  Within(computeTokenAuthDeadline(MaxTimeoutSeconds, signedAt), clock) /\ 0 < clock
<1>1. /\ MaxTimeoutSeconds \in Nat /\ setup.start \in Nat
      /\ setup.start > TOKEN_AUTH_DEADLINE_SAFETY_MARGIN_SECONDS
      /\ TOKEN_AUTH_DEADLINE_SAFETY_MARGIN_SECONDS \in Nat
  BY MarginAssumption, PaymentAssumption, ClientAssumption
<1>2. Margin \in Int /\ Margin <= TOKEN_AUTH_DEADLINE_SAFETY_MARGIN_SECONDS
  BY <1>1 DEF Margin
<1>3. computeTokenAuthDeadline(MaxTimeoutSeconds, signedAt) = LastSecond
  BY <1>1 DEF computeTokenAuthDeadline, LastSecond, Margin
<1>4. LastSecond = signedAt + MaxTimeoutSeconds - Margin
  BY DEF LastSecond
<1>5. LastSecond - clock <= MaxTimeoutSeconds /\ 0 < clock
  BY <1>1, <1>2, <1>4
<1>6. QED
  BY <1>3, <1>5 DEF Within

(* The state an honest payment is in, from its signing on.                 *)
HonestInv ==
  /\ DOMAIN checked = Callers
  /\ setup.start <= now
  /\ phase = "signing" \/ payment # {} => setup.start <= signedAt
  /\ setup.sdk /\ "server" \in called => settling = challenge

(* The server's half: the payload, held against its own offer.             *)
LEMMA ServerTakes ==
  ASSUME Inv, HonestInv, setup.sdk, payment # {}, settling = challenge, setup.flow = Absent,
         \A f \in Client.fulfillment : validateFulfillmentData(setup.catalog, f.option, f.data),
         InTime(ServerClock)
  PROVE  Settles
<1> DEFINE p == P
           r == Requirements(challenge)
           buyer == Client.account
<1>1. /\ p = HonestPayload /\ CanPay(r, Client) /\ setup \in Setups
      /\ setup.start <= signedAt /\ signedAt \in Int /\ now \in Int
  BY DEF Inv, PhaseOK, PayloadOK, HonestInv
<1>2. /\ p.scheme = "escrow" /\ p.network = Chain /\ p.buyer = buyer
      /\ p.action \in COMMIT_ACTION_IDS /\ Advertised(p.action, r)
      /\ p.offerRef.fullOffer = FullOffer(challenge)
      /\ p.offerRef.sellerSig = OfferSignature(Seller, Chain, Escrow, FullOffer(challenge))
      /\ p.tokenAuthStrategy \in STRATEGIES \cap r.tokenAuthStrategies
      /\ p.tokenAuth =
           buildAndSignTokenAuth(p.tokenAuthStrategy, r, buyer,
             IF p.tokenAuthStrategy = "permit" THEN nonceRead ELSE MySession, signedAt)
      /\ p.metaTx =
           [from |-> buyer, nonce |-> MySession, functionName |-> FUNCTION_NAME[p.action],
            functionSignature |->
              CommitCalldata(p.action,
                WithSellerSignatureAndCommitter(p.offerRef.fullOffer, p.offerRef.sellerSig, buyer))]
      /\ p.metaTxSig = Sign(buyer, MetaTransaction(Chain, Escrow, p.metaTx))
      /\ p.fulfillment = fulfillmentSlot(p.action, r, Client)
  BY <1>1, HonestSays
<1>3. /\ r.scheme = "escrow" /\ r.network = Chain /\ r.asset = Token /\ r.amount = Amount
      /\ r.escrowAddress = Escrow /\ r.maxTimeoutSeconds = MaxTimeoutSeconds
      /\ r.offer.fullOffer = FullOffer(challenge)
      /\ r.offer.sellerSig = OfferSignature(Seller, Chain, Escrow, FullOffer(challenge))
  BY RequirementsSay
<1>4. ServerClock \in Int
  BY <1>1, ClientAssumption DEF ServerClock
<1>5. p.tokenAuthStrategy # "none" =>
        /\ Within(computeTokenAuthDeadline(MaxTimeoutSeconds, signedAt), ServerClock)
        /\ 0 < ServerClock
  BY <1>1, <1>4, DeadlineWithin DEF InTime
<1>6. HandlerAction = p.action
  BY DEF HandlerAction
<1>7. FulfillmentResolves(r, Client) /\ Optional(Client.fulfillment)
  BY <1>1, OneChoice DEF CanPay
<1> HIDE DEF p, r, buyer
<1>8. checkTokenAuthRules(p, r, ServerClock) /\ (p.tokenAuth.kind = Absent \/ tokenAuthSchema(p.tokenAuth))
  <2> DEFINE nonce == IF p.tokenAuthStrategy = "permit" THEN nonceRead ELSE MySession
  <2>1. p.tokenAuthStrategy \in STRATEGIES
        /\ p.tokenAuth = buildAndSignTokenAuth(p.tokenAuthStrategy, r, buyer, nonce, signedAt)
    BY <1>2
  <2> HIDE DEF nonce
  <2>2. /\ \A q : q.tokenAuth = p.tokenAuth /\ q.tokenAuthStrategy = p.tokenAuthStrategy =>
               checkTokenAuthRules(q, r, ServerClock)
        /\ p.tokenAuth.kind = Absent \/ tokenAuthSchema(p.tokenAuth)
    BY <1>1, <1>3, <1>4, <1>5, <2>1, SignedPasses
  <2>3. QED
    BY <2>2
<1>9. decodeXPaymentHeader(p)
  BY <1>2, <1>8 DEF decodeXPaymentHeader, escrowPaymentPayloadSchema
<1>10. Rule7(p)
  BY <1>2 DEF Rule7
<1>11. Rule8(p, r)
  BY <1>2, <1>3 DEF Rule8, NormalizableV, Recover, Sign
<1>12. Rule13(p, r, setup.catalog)
  <2>1. CASE ~r.fulfillment.required
    BY <1>2, <2>1 DEF Rule13, fulfillmentSlot
  <2>2. CASE r.fulfillment.required
    <3>1. PICK f \in Client.fulfillment : \E o \in ToSet(r.fulfillment.options) : o.id = f.option
      BY <1>7, <2>2 DEF FulfillmentResolves
    <3>2. Client.fulfillment = {f}
      BY <1>7, <3>1 DEF Optional
    <3>3. p.fulfillment = {[option |-> f.option, data |-> IF p.action = FLOW_B THEN {f.data} ELSE {}]}
      BY <1>2, <2>2, <3>2 DEF fulfillmentSlot
    <3>4. QED
      BY <3>1, <3>3 DEF Rule13
  <2>3. QED
    BY <2>1, <2>2
<1>13. PaymentAcceptedByServer(p, r, ServerClock)
  BY <1>2, <1>3, <1>8, <1>10, <1>11 DEF PaymentAcceptedByServer
<1>14. QED
  BY <1>6, <1>9, <1>12, <1>13 DEF Settles, validatePaymentPayload, p, r

(* The facilitator's half, and the contract's: for either caller.          *)
LEMMA FacilitatorTakes ==
  ASSUME Inv, HonestInv, setup.sdk, NEW c \in called, ~Landed, funded, tokenNonce = nonceRead,
         InTime(FacilitatorClock), InTime(now)
  PROVE  Passes(c)
<1> DEFINE p == P
           r == Requirements(challenge)
           buyer == Client.account
           call == buildSettleCalldata(p)
           nonce == IF p.tokenAuthStrategy = "permit" THEN nonceRead ELSE MySession
           offer == WithSellerSignatureAndCommitter(p.offerRef.fullOffer, p.offerRef.sellerSig, buyer)
           slots == [i \in 1 .. 1 |-> EmptySlot]
<1>1. /\ payment # {} /\ p = HonestPayload /\ CanPay(r, Client) /\ setup \in Setups
      /\ setup.start <= signedAt /\ signedAt \in Int /\ now \in Int
  BY DEF Inv, PhaseOK, PayloadOK, HonestInv
<1>2. RequirementsOf(c) = r
  BY DEF Inv, RelayOK, HonestInv, RequirementsOf, Callers
<1>3. /\ p.scheme = "escrow" /\ p.network = Chain /\ p.buyer = buyer
      /\ p.action \in COMMIT_ACTION_IDS /\ Advertised(p.action, r)
      /\ p.offerRef.fullOffer = FullOffer(challenge)
      /\ p.offerRef.sellerSig = OfferSignature(Seller, Chain, Escrow, FullOffer(challenge))
      /\ p.tokenAuthStrategy \in STRATEGIES \cap r.tokenAuthStrategies
      /\ p.tokenAuth = buildAndSignTokenAuth(p.tokenAuthStrategy, r, buyer, nonce, signedAt)
      /\ p.metaTx =
           [from |-> buyer, nonce |-> MySession, functionName |-> FUNCTION_NAME[p.action],
            functionSignature |-> CommitCalldata(p.action, offer)]
      /\ p.metaTxSig = Sign(buyer, MetaTransaction(Chain, Escrow, p.metaTx))
  BY <1>1, HonestSays
<1>4. /\ r.scheme = "escrow" /\ r.network = Chain /\ r.asset = Token /\ r.amount = Amount
      /\ r.escrowAddress = Escrow /\ r.maxTimeoutSeconds = MaxTimeoutSeconds
      /\ r.offer.fullOffer = FullOffer(challenge)
      /\ r.offer.sellerSig = OfferSignature(Seller, Chain, Escrow, FullOffer(challenge))
  BY RequirementsSay
<1>5. FacilitatorClock \in Int
  BY <1>1, ClientAssumption DEF FacilitatorClock
<1>6. p.tokenAuthStrategy # "none" =>
        /\ Within(computeTokenAuthDeadline(MaxTimeoutSeconds, signedAt), FacilitatorClock)
        /\ 0 < FacilitatorClock
        /\ Within(computeTokenAuthDeadline(MaxTimeoutSeconds, signedAt), now)
        /\ 0 < now
  BY <1>1, <1>5, DeadlineWithin DEF InTime
<1>7. escrowPaymentRequirementsSchema(r)
  BY <1>1 DEF CanPay
<1>8. p.tokenAuth.kind = IF p.tokenAuthStrategy = "none" THEN Absent ELSE p.tokenAuthStrategy
  BY <1>1, HonestParts
<1>9. /\ offer.creator = Seller /\ offer.price = Amount /\ offer.token = Token
      /\ offer.terms = challenge /\ offer.committer = buyer
      /\ offer.signature.by = Seller
      /\ offer.signature.over = FullOfferMessage(Chain, Escrow, FullOffer(challenge))
  BY <1>3 DEF WithSellerSignatureAndCommitter, FullOffer, OfferSignature
<1>10. FullOfferMessage(Chain, Escrow, offer) = FullOfferMessage(Chain, Escrow, FullOffer(challenge))
  BY <1>9 DEF FullOfferMessage, FullOffer
<1>11. P = p /\ Facilitator.network = Chain /\ Facilitator.escrow = Escrow
  BY DEF Facilitator
<1> HIDE DEF p, r, buyer, nonce, offer
<1>12. /\ verifyTokenAuthSignature(p.tokenAuth, r, buyer, Escrow, FacilitatorClock)
       /\ p.tokenAuth.kind = Absent \/ tokenAuthSchema(p.tokenAuth)
  BY ONLY <1>1, <1>3, <1>4, <1>5, <1>6, SignedPasses
<1>13. p.tokenAuthStrategy # "none" =>
         EntryPays(encodeAuthEntry(p.tokenAuth),
                   [from |-> buyer, to |-> Escrow, value |-> Amount, token |-> Token,
                    permitNonce |-> nonce], Chain, now)
  BY <1>1, <1>3, <1>4, <1>6, SignedPasses
<1>14. verify(p, r, Facilitator, FacilitatorClock)
  <2>1. escrowPaymentPayloadSchema(p)
    BY <1>3, <1>12 DEF escrowPaymentPayloadSchema
  <2>2. validateScheme(p, r) /\ validateNetworkMatch(p, r, Chain)
    BY <1>3, <1>4 DEF validateScheme, validateNetworkMatch
  <2>3. validateOfferRefMatchesRequirements(p, r)
    BY <1>3, <1>4 DEF validateOfferRefMatchesRequirements, SameHex
  <2>4. validateMetaTxCalldataMatchesRequirements(p, r)
    BY <1>3, <1>4 DEF validateMetaTxCalldataMatchesRequirements, offer
  <2>5. validateTokenAuthStrategyInRequirements(p, r)
    BY <1>3, <1>8 DEF validateTokenAuthStrategyInRequirements
  <2>6. verifyMetaTxSignature(p, Chain, Escrow)
    BY <1>3 DEF verifyMetaTxSignature, LegacyV, Recover, Sign
  <2>7. QED
    BY <1>3, <1>4, <1>7, <1>11, <1>12, <2>1, <2>2, <2>3, <2>4, <2>5, <2>6 DEF verify
<1>15. /\ call.user = buyer /\ call.metaTx = p.metaTx /\ call.sig = p.metaTxSig
       /\ p.tokenAuthStrategy = "none" => /\ call.entrypoint = "executeMetaTransaction"
                                         /\ call.queue = <<>>
       /\ p.tokenAuthStrategy # "none" =>
            /\ call.entrypoint # "executeMetaTransaction"
            /\ call.queue = buildBpip12Queue(p.action, p.tokenAuth)
  BY <1>3 DEF buildSettleCalldata, buildBpip12Calldata
<1> HIDE DEF call
<1>16. p.tokenAuthStrategy # "none" =>
         /\ Len(call.queue) = 2 /\ call.queue[1] = EmptySlot
         /\ call.queue[2] = encodeAuthEntry(p.tokenAuth)
  <2>1. buildBpip12Queue(p.action, p.tokenAuth) = Append(slots, encodeAuthEntry(p.tokenAuth))
    BY <1>3 DEF buildBpip12Queue, preBuyerSkipSlots
  <2>2. slots \in Seq({EmptySlot}) /\ Len(slots) = 1 /\ slots[1] = EmptySlot
    OBVIOUS
  <2> HIDE DEF slots
  <2>3. ASSUME NEW e PROVE /\ Len(Append(slots, e)) = 2 /\ Append(slots, e)[1] = EmptySlot
                           /\ Append(slots, e)[2] = e
    <3> DEFINE T == {EmptySlot, e}
    <3>1. slots \in Seq(T) /\ e \in T
      BY <2>2
    <3> HIDE DEF T
    <3>2. /\ Len(Append(slots, e)) = Len(slots) + 1
          /\ \A i \in 1 .. Len(slots) : Append(slots, e)[i] = slots[i]
          /\ Append(slots, e)[Len(slots) + 1] = e
      BY <3>1, AppendProperties
    <3>3. QED
      BY <2>2, <3>2
  <2>4. QED
    <3> DEFINE e == encodeAuthEntry(p.tokenAuth)
               q == Append(slots, e)
    <3>1. Len(q) = 2 /\ q[1] = EmptySlot /\ q[2] = e
      BY <2>3
    <3>2. p.tokenAuthStrategy # "none" => call.queue = q
      BY <1>15, <2>1
    <3> HIDE DEF e, q
    <3>3. QED
      BY <3>1, <3>2 DEF e
<1>17. p.tokenAuthStrategy # "none" =>
         EntryPays(call.queue[2],
                   [from |-> buyer, to |-> Escrow, value |-> Amount, token |-> Token,
                    permitNonce |-> tokenNonce], Chain, now)
  <2>1. CASE p.tokenAuthStrategy = "permit"
    BY <1>13, <1>16, <2>1 DEF nonce
  <2>2. CASE p.tokenAuthStrategy \in {"erc3009", "permit2"}
    <3>1. encodeAuthEntry(p.tokenAuth).strategy # "permit"
      BY <1>8, <2>2 DEF encodeAuthEntry
    <3>2. QED
      BY <1>13, <1>16, <2>2, <3>1 DEF EntryPays
  <2>3. QED
    BY <1>3, <2>1, <2>2 DEF STRATEGIES
<1>18. ContractAccepts(call)
  <2>1. call.metaTx.functionSignature.offer = offer
    BY <1>3, <1>15 DEF CommitCalldata
  <2>2. Recover(call.sig, MetaTransaction(Chain, Escrow, call.metaTx)) = call.user /\ LegacyV(call.sig)
    BY <1>3, <1>15 DEF Recover, Sign, LegacyV
  <2>3. QED
    BY <1>9, <1>10, <1>15, <1>16, <1>17, <2>1, <2>2 DEF ContractAccepts
<1>19. QED
  BY <1>2, <1>11, <1>14, <1>18 DEF Passes, call

-----------------------------------------------------------------------------
LEMMA InitHonest == Init => HonestInv
  BY PaymentAssumption DEF Init, HonestInv, Relay!Init

(* An accepted payment is for the offer of the challenge: no two builds    *)
(* have the same terms.                                                    *)
LEMMA SettledIsAsked == ASSUME Inv, setup.sdk, payment # {}, Settles PROVE settling = challenge
<1>1. P.offerRef.fullOffer = Requirements(settling).offer.fullOffer
  BY DEF Settles, validatePaymentPayload, PaymentAcceptedByServer
<1>2. P.offerRef.fullOffer = FullOffer(challenge)
  BY HonestSays DEF Inv, PhaseOK, PayloadOK
<1>3. Requirements(settling).offer.fullOffer = FullOffer(settling)
  BY RequirementsSay
<1>4. FullOffer(settling).terms = settling /\ FullOffer(challenge).terms = challenge
  BY DEF FullOffer
<1>5. QED
  BY <1>1, <1>2, <1>3, <1>4

LEMMA StepHonest == Inv /\ HonestInv /\ [Next]_vars => HonestInv'
<1>1. SUFFICES ASSUME Inv, HonestInv, [Next]_vars PROVE HonestInv'
  OBVIOUS
<1>2. /\ setup \in Setups /\ setup.start \in Nat /\ now \in Int
      /\ setup.start <= now /\ setup.start <= now + 1
  BY <1>1, PaymentAssumption DEF Inv, PhaseOK, HonestInv
<1>3. CASE Ask
  <2>1. payment = {} /\ called = {}
    BY <1>1, <1>3 DEF Ask, Inv, PhaseOK
  <2>2. QED
    BY <1>1, <1>2, <1>3, <2>1 DEF Ask, HonestInv, relayVars
<1>4. CASE handle402
  <2>1. payment = {} /\ called = {}
    BY <1>1, <1>4 DEF handle402, Inv, PhaseOK
  <2>2. QED
    BY <1>1, <1>2, <1>4, <2>1 DEF handle402, End, HonestInv, relayVars
<1>5. CASE AskFails \/ SignTokenAuth \/ SendRetry
  <2>1. /\ UNCHANGED <<setup, now, challenge, signedAt, settling, checked, called>>
        /\ phase' # "signing" /\ (payment' = payment \/ phase = "signing")
    BY <1>5 DEF AskFails, SignTokenAuth, SendRetry, End, serverVars, relayVars
  <2>2. QED
    BY <1>1, <2>1 DEF HonestInv
<1>6. CASE RetryResponse \/ RetryBreaks \/ DirectAnswered \/ DirectTimesOut \/ DirectRead
  <2>1. /\ UNCHANGED <<setup, now, challenge, signedAt, payment, settling, checked>>
        /\ phase' # "signing" /\ called' \subseteq called \cup {"wrapper"}
    BY <1>6 DEF RetryResponse, RetryBreaks, DirectAnswered, DirectTimesOut, DirectRead, Recover5xx,
       synthesizeCommitFallbackResponse, End, serverVars, relayVars, Relay!Call, Relay!Accept,
       Relay!Fail
  <2>2. QED
    BY <1>1, <2>1 DEF HonestInv
<1>7. CASE ServerReceives
  <2>1. "server" \notin called
    BY <1>1, <1>7 DEF ServerReceives, Inv, RelayOK
  <2>2. QED
    BY <1>1, <1>7, <2>1 DEF ServerReceives, HonestInv, buyerVars, relayVars
<1>8. CASE ServerValidates
  <2>1. /\ UNCHANGED <<setup, now, challenge, signedAt, phase, payment, settling, checked>>
        /\ called' = called \/ Settles
        /\ payment # {}
    BY <1>1, <1>8 DEF ServerValidates, Inv, PhaseOK, buyerVars, relayVars
  <2>2. QED
    BY <1>1, <2>1, SettledIsAsked DEF HonestInv
<1>9. CASE ServerReplies \/ ServerRestarts \/ PaysElsewhere \/ Index \/ OthersAsk \/ BuildEnds
           \/ UNCHANGED vars
  <2>1. UNCHANGED <<setup, now, challenge, signedAt, phase, payment, settling, checked, called>>
    BY <1>9 DEF ServerReplies, ServerRestarts, PaysElsewhere, Index, OthersAsk, BuildEnds, vars,
       buyerVars, serverVars, relayVars, Relay!Accept, Relay!Fail
  <2>2. QED
    BY <1>1, <2>1 DEF HonestInv
<1>10. CASE Tick
  BY <1>1, <1>2, <1>10 DEF Tick, HonestInv, buyerVars, serverVars, relayVars
<1>11. CASE \E c \in Callers : Check(c) \/ Land(c)
  <2>1. /\ UNCHANGED <<setup, now, challenge, signedAt, phase, payment, settling, called>>
        /\ DOMAIN checked' = DOMAIN checked
    BY <1>11 DEF Check, Land, buyerVars, serverVars, relayVars, Relay!Land
  <2>2. QED
    BY <1>1, <2>1 DEF HonestInv
<1>12. QED
  BY <1>1, <1>3, <1>4, <1>5, <1>6, <1>7, <1>8, <1>9, <1>10, <1>11 DEF Next, BuyerStep

LEMMA HonestInvariance == Spec => [](Inv /\ HonestInv)
  BY InitInv, InitHonest, StepInv, StepHonest, PTL DEF Spec

-----------------------------------------------------------------------------
(* Only a check refuses, and only the server's validation answers a 4xx.   *)
LEMMA OnlyChecksRefuse ==
  ASSUME Inv, HonestInv, [Next]_vars, NEW c \in Callers, "refused" \in checked'[c] \ checked[c]
  PROVE  Check(c) /\ ~Passes(c)
<1>1. ASSUME BuyerStep PROVE UNCHANGED checked
  BY <1>1 DEF BuyerStep, Ask, AskFails, handle402, SignTokenAuth, SendRetry, RetryResponse,
     RetryBreaks, DirectAnswered, DirectTimesOut, DirectRead
<1>2. ASSUME \/ ServerReceives \/ ServerValidates \/ ServerReplies \/ ServerRestarts
             \/ \E d \in Callers : Land(d)
             \/ Tick \/ PaysElsewhere \/ Index \/ OthersAsk \/ BuildEnds \/ UNCHANGED vars
      PROVE  UNCHANGED checked
  BY <1>2 DEF ServerReceives, ServerValidates, ServerReplies, ServerRestarts, Land, Tick,
     PaysElsewhere, Index, OthersAsk, BuildEnds, vars
<1>3. PICK d \in Callers : Check(d)
  BY <1>1, <1>2 DEF Next
<1>4. checked'[c] = IF c = d THEN checked[c] \cup {IF Passes(d) THEN "passed" ELSE "refused"}
                             ELSE checked[c]
  BY <1>3 DEF Check, HonestInv
<1>5. QED
  BY <1>3, <1>4

LEMMA OnlyValidationAnswers4xx ==
  ASSUME [Next]_vars, answer.status # "4xx", answer'.status = "4xx"
  PROVE  job = "resolving" /\ ~Settles
<1>1. ASSUME BuyerStep PROVE UNCHANGED answer
  BY <1>1 DEF BuyerStep, Ask, AskFails, handle402, SignTokenAuth, SendRetry, RetryResponse,
     RetryBreaks, DirectAnswered, DirectTimesOut, DirectRead, serverVars
<1>2. ASSUME \/ ServerReceives \/ ServerRestarts
             \/ \E d \in Callers : Check(d) \/ Land(d)
             \/ Tick \/ PaysElsewhere \/ Index \/ OthersAsk \/ BuildEnds \/ UNCHANGED vars
      PROVE  UNCHANGED answer
  BY <1>2 DEF ServerReceives, ServerRestarts, Check, Land, Tick, PaysElsewhere, Index, OthersAsk,
     BuildEnds, vars, serverVars
<1>3. ASSUME ServerReplies PROVE answer'.status \in {"200", "5xx"}
  BY <1>3 DEF ServerReplies, Respond
<1>4. ServerValidates
  BY <1>1, <1>2, <1>3 DEF Next
<1>5. QED
  BY <1>4 DEF ServerValidates, Respond

(* What the buyer's own client signed is refused for reasons outside the   *)
(* payload only: the server, the facilitator and the contract, each with   *)
(* code of its own, agree with the client on what an acceptable payment is.*)
THEOREM HonestIsTaken == Spec => NoHonestRefusal
<1>1. ASSUME Inv, HonestInv, [Next]_vars, setup.sdk, NEW c \in Callers,
             "refused" \in checked'[c] \ checked[c]
      PROVE  \/ Landed \/ ~funded \/ tokenNonce # nonceRead
             \/ ~InTime(FacilitatorClock) \/ ~InTime(now)
  <2>1. c \in called /\ ~Passes(c)
    BY <1>1, OnlyChecksRefuse DEF Check
  <2>2. QED
    BY <1>1, <2>1, FacilitatorTakes
<1>2. ASSUME Inv, HonestInv, [Next]_vars, setup.sdk, answer.status # "4xx", answer'.status = "4xx"
      PROVE  \/ settling # challenge \/ setup.flow # Absent
             \/ \E f \in Client.fulfillment :
                  ~validateFulfillmentData(setup.catalog, f.option, f.data)
             \/ ~InTime(ServerClock)
  <2>1. job = "resolving" /\ ~Settles /\ payment # {}
    BY <1>2, OnlyValidationAnswers4xx DEF Inv, PhaseOK
  <2>2. QED
    BY <1>2, <2>1, ServerTakes
<1>3. Inv /\ HonestInv /\ [Next]_vars =>
        [setup.sdk =>
           /\ \A c \in Callers : "refused" \in checked'[c] \ checked[c] =>
                \/ Landed \/ ~funded \/ tokenNonce # nonceRead
                \/ ~InTime(FacilitatorClock) \/ ~InTime(now)
           /\ answer.status # "4xx" /\ answer'.status = "4xx" =>
                \/ settling # challenge \/ setup.flow # Absent
                \/ \E f \in Client.fulfillment :
                     ~validateFulfillmentData(setup.catalog, f.option, f.data)
                \/ ~InTime(ServerClock)]_vars
  BY <1>1, <1>2
<1>4. QED
  BY <1>3, HonestInvariance, PTL DEF Spec, NoHonestRefusal

-----------------------------------------------------------------------------
(* The session cache, as any sequence of requests leaves it: a Map in the  *)
(* order of insertion, with at most so many entries.                       *)
Slots == SessionIds \cup {FALLBACK_KEY}

CacheEntry == [key : Slots, build : Nat, expiresAt : SUBSET Int, after : SUBSET Slots]

(* Two entries differ in their keys, and one comes after the other and     *)
(* after whatever that one comes after.                                    *)
MapOK(C) ==
  /\ IsFiniteSet(C) /\ C \subseteq CacheEntry
  /\ \A e, f \in C : e.key = f.key => e = f
  /\ \A e \in C : e.after \subseteq Keys(C) /\ e.key \notin e.after
  /\ \A e, f \in C : e # f =>
       \/ f.key \in e.after /\ f.after \subseteq e.after
       \/ e.key \in f.after /\ e.after \subseteq f.after

(* The same entry, but for what comes after it.                            *)
SameEntry(e, f) == e.key = f.key /\ e.build = f.build /\ e.expiresAt = f.expiresAt

LEMMA AfterSet ==
  ASSUME NEW e \in CacheEntry, NEW S \in SUBSET Slots
  PROVE  /\ [e EXCEPT !.after = S] \in CacheEntry /\ SameEntry([e EXCEPT !.after = S], e)
         /\ [e EXCEPT !.after = S].after = S
  BY DEF CacheEntry, SameEntry

LEMMA RemainingSays ==
  ASSUME NEW D, D \subseteq CacheEntry
  PROVE  /\ Remaining(D) \subseteq CacheEntry /\ Keys(Remaining(D)) = Keys(D)
         /\ \A e \in D : \E r \in Remaining(D) : SameEntry(r, e) /\ r.after = e.after \cap Keys(D)
         /\ \A r \in Remaining(D) : \E e \in D : SameEntry(r, e) /\ r.after = e.after \cap Keys(D)
<1> DEFINE Cut(e) == [e EXCEPT !.after = @ \cap Keys(D)]
<1>1. ASSUME NEW e \in D
      PROVE  Cut(e) \in CacheEntry /\ SameEntry(Cut(e), e) /\ Cut(e).after = e.after \cap Keys(D)
  <2>1. e.after \cap Keys(D) \in SUBSET Slots
    BY DEF CacheEntry
  <2>2. QED
    BY <2>1, AfterSet
<1>2. Remaining(D) = {Cut(e) : e \in D}
  BY DEF Remaining
<1> HIDE DEF Cut
<1>3. QED
  BY <1>1, <1>2 DEF Keys, SameEntry

LEMMA ImageSmaller ==
  ASSUME NEW S, IsFiniteSet(S), NEW f, DOMAIN f = S
  PROVE  IsFiniteSet({f[x] : x \in S}) /\ Cardinality({f[x] : x \in S}) <= Cardinality(S)
<1> DEFINE T == {f[x] : x \in S}
           g == [x \in S |-> f[x]]
<1>1. g \in Surjection(S, T)
  BY DEF Surjection
<1>2. QED
  BY <1>1, FS_Surjection

LEMMA RemainingOK ==
  ASSUME NEW C, MapOK(C), NEW D, D \subseteq C
  PROVE  MapOK(Remaining(D)) /\ Cardinality(Remaining(D)) <= Cardinality(C)
<1>1. D \subseteq CacheEntry /\ IsFiniteSet(D) /\ Cardinality(D) <= Cardinality(C)
      /\ Cardinality(C) \in Nat /\ Cardinality(D) \in Nat
  BY FS_Subset, FS_CardinalityType DEF MapOK
<1>2. IsFiniteSet(Remaining(D)) /\ Cardinality(Remaining(D)) <= Cardinality(D)
  <2> DEFINE f == [e \in D |-> [e EXCEPT !.after = @ \cap Keys(D)]]
  <2>1. Remaining(D) = {f[e] : e \in D} /\ DOMAIN f = D
    BY DEF Remaining
  <2> HIDE DEF f
  <2>2. QED
    BY <1>1, <2>1, ImageSmaller
<1>3. /\ Remaining(D) \subseteq CacheEntry /\ Keys(Remaining(D)) = Keys(D)
      /\ \A r \in Remaining(D) : \E e \in D : SameEntry(r, e) /\ r.after = e.after \cap Keys(D)
  BY <1>1, RemainingSays
<1>4. ASSUME NEW r \in Remaining(D), NEW q \in Remaining(D), r.key = q.key PROVE r = q
  <2>1. PICK e \in D : SameEntry(r, e) /\ r.after = e.after \cap Keys(D)
    BY <1>3
  <2>2. PICK d \in D : SameEntry(q, d) /\ q.after = d.after \cap Keys(D)
    BY <1>3
  <2>3. e = d
    <3>1. e.key = d.key /\ e \in C /\ d \in C
      BY <1>4, <2>1, <2>2 DEF SameEntry
    <3>2. QED
      BY <3>1 DEF MapOK
  <2>4. r \in CacheEntry /\ q \in CacheEntry
    BY <1>3
  <2>5. QED
    BY <2>1, <2>2, <2>3, <2>4 DEF CacheEntry, SameEntry
<1>5. ASSUME NEW r \in Remaining(D)
      PROVE  r.after \subseteq Keys(Remaining(D)) /\ r.key \notin r.after
  BY <1>3 DEF MapOK, SameEntry
<1>6. ASSUME NEW r \in Remaining(D), NEW q \in Remaining(D), r # q
      PROVE  \/ q.key \in r.after /\ q.after \subseteq r.after
             \/ r.key \in q.after /\ r.after \subseteq q.after
  <2>1. PICK e \in D : SameEntry(r, e) /\ r.after = e.after \cap Keys(D)
    BY <1>3
  <2>2. PICK d \in D : SameEntry(q, d) /\ q.after = d.after \cap Keys(D)
    BY <1>3
  <2>3. e # d /\ e.key \in Keys(D) /\ d.key \in Keys(D)
    BY <1>4, <1>6, <2>1, <2>2 DEF SameEntry, Keys
  <2>4. \/ d.key \in e.after /\ d.after \subseteq e.after
        \/ e.key \in d.after /\ e.after \subseteq d.after
    BY <2>3 DEF MapOK
  <2>5. QED
    BY <2>1, <2>2, <2>3, <2>4 DEF SameEntry
<1>7. IsFiniteSet(Remaining(D)) /\ Remaining(D) \subseteq CacheEntry
  BY <1>2, <1>3
<1>8. MapOK(Remaining(D))
  BY ONLY <1>4, <1>5, <1>6, <1>7 DEF MapOK
<1>9. Cardinality(Remaining(D)) \in Nat
  BY <1>7, FS_CardinalityType
<1>10. QED
  BY <1>1, <1>2, <1>8, <1>9

LEMMA InsertSays ==
  ASSUME NEW D, D \subseteq CacheEntry, NEW entry \in CacheEntry
  PROVE  /\ Insert(D, entry) \subseteq CacheEntry
         /\ \A e \in D : \E r \in Insert(D, entry) :
              SameEntry(r, e) /\ r.after = (e.after \cap Keys(D)) \cup {entry.key}
         /\ \A r \in Insert(D, entry) :
              \/ SameEntry(r, entry) /\ r.after = {}
              \/ \E e \in D : SameEntry(r, e) /\ r.after = (e.after \cap Keys(D)) \cup {entry.key}
         /\ \E r \in Insert(D, entry) : SameEntry(r, entry) /\ r.after = {}
<1> DEFINE Push(e) == [e EXCEPT !.after = @ \cup {entry.key}]
           first == [entry EXCEPT !.after = {}]
<1>1. /\ Remaining(D) \subseteq CacheEntry
      /\ \A e \in D : \E r \in Remaining(D) : SameEntry(r, e) /\ r.after = e.after \cap Keys(D)
      /\ \A r \in Remaining(D) : \E e \in D : SameEntry(r, e) /\ r.after = e.after \cap Keys(D)
  BY RemainingSays
<1>2. ASSUME NEW e \in CacheEntry
      PROVE  Push(e) \in CacheEntry /\ SameEntry(Push(e), e) /\ Push(e).after = e.after \cup {entry.key}
  <2>1. e.after \cup {entry.key} \in SUBSET Slots
    BY DEF CacheEntry
  <2>2. QED
    BY <2>1, AfterSet
<1>3. first \in CacheEntry /\ SameEntry(first, entry) /\ first.after = {}
  BY AfterSet
<1>4. Insert(D, entry) = {Push(e) : e \in Remaining(D)} \cup {first}
  BY DEF Insert
<1> HIDE DEF Push, first
<1>5. ASSUME NEW e \in D
      PROVE  \E r \in Insert(D, entry) :
               SameEntry(r, e) /\ r.after = (e.after \cap Keys(D)) \cup {entry.key}
  <2>1. PICK q \in Remaining(D) : SameEntry(q, e) /\ q.after = e.after \cap Keys(D)
    BY <1>1
  <2>2. Push(q) \in Insert(D, entry)
    BY <1>4
  <2>3. SameEntry(Push(q), q) /\ Push(q).after = q.after \cup {entry.key}
    BY <1>1, <1>2
  <2>4. SameEntry(Push(q), e) /\ Push(q).after = (e.after \cap Keys(D)) \cup {entry.key}
    BY <2>1, <2>3 DEF SameEntry
  <2>5. QED
    BY <2>2, <2>4
<1>6. ASSUME NEW q \in Remaining(D)
      PROVE  \E e \in D : SameEntry(Push(q), e)
                         /\ Push(q).after = (e.after \cap Keys(D)) \cup {entry.key}
  <2>1. PICK e \in D : SameEntry(q, e) /\ q.after = e.after \cap Keys(D)
    BY <1>1
  <2>2. SameEntry(Push(q), q) /\ Push(q).after = q.after \cup {entry.key}
    BY <1>1, <1>2
  <2>3. QED
    BY <2>1, <2>2 DEF SameEntry
<1>7. QED
  BY <1>1, <1>2, <1>3, <1>4, <1>5, <1>6

LEMMA InsertOK ==
  ASSUME NEW C, MapOK(C), NEW D, D \subseteq C, NEW entry \in CacheEntry, entry.key \notin Keys(D)
  PROVE  MapOK(Insert(D, entry)) /\ Cardinality(Insert(D, entry)) <= Cardinality(D) + 1
<1> DEFINE I == Insert(D, entry)
           R == Remaining(D)
<1>1. /\ D \subseteq CacheEntry /\ MapOK(R) /\ Keys(R) = Keys(D) /\ R \subseteq CacheEntry
      /\ IsFiniteSet(D) /\ Cardinality(D) \in Nat
  BY RemainingOK, RemainingSays, FS_Subset, FS_CardinalityType DEF MapOK
<1>2. IsFiniteSet(R) /\ Cardinality(R) <= Cardinality(D)
  <2> DEFINE f == [e \in D |-> [e EXCEPT !.after = @ \cap Keys(D)]]
  <2>1. R = {f[e] : e \in D} /\ DOMAIN f = D
    BY DEF Remaining
  <2> HIDE DEF f
  <2>2. QED
    BY <1>1, <2>1, ImageSmaller
<1>3. IsFiniteSet(I) /\ Cardinality(I) <= Cardinality(D) + 1
  <2> DEFINE f == [e \in R |-> [e EXCEPT !.after = @ \cup {entry.key}]]
             J == {f[e] : e \in R}
             first == [entry EXCEPT !.after = {}]
  <2>1. I = J \cup {first} /\ DOMAIN f = R
    BY DEF Insert
  <2>2. IsFiniteSet(J) /\ Cardinality(J) <= Cardinality(R)
    <3> HIDE DEF f, R
    <3>1. QED
      BY <1>2, <2>1, ImageSmaller
  <2> HIDE DEF J, I, R, first
  <2>3. IsFiniteSet(I) /\ Cardinality(I) \in {Cardinality(J), Cardinality(J) + 1}
    BY <2>1, <2>2, FS_AddElement
  <2>4. Cardinality(J) \in Nat /\ Cardinality(R) \in Nat
    BY <1>2, <2>2, FS_CardinalityType
  <2>5. QED
    BY <1>1, <1>2, <2>2, <2>3, <2>4
<1>4. /\ I \subseteq CacheEntry
      /\ \A e \in D : \E r \in I :
           SameEntry(r, e) /\ r.after = (e.after \cap Keys(D)) \cup {entry.key}
      /\ \A r \in I :
           \/ SameEntry(r, entry) /\ r.after = {}
           \/ \E e \in D : SameEntry(r, e) /\ r.after = (e.after \cap Keys(D)) \cup {entry.key}
      /\ \E r \in I : SameEntry(r, entry) /\ r.after = {}
  BY <1>1, InsertSays
<1> HIDE DEF I, R
<1>5. Keys(I) = Keys(D) \cup {entry.key}
  <2>1. ASSUME NEW k \in Keys(I) PROVE k \in Keys(D) \cup {entry.key}
    BY <1>4, <2>1 DEF Keys, SameEntry
  <2>2. ASSUME NEW k \in Keys(D) PROVE k \in Keys(I)
    BY <1>4, <2>2 DEF Keys, SameEntry
  <2>3. entry.key \in Keys(I)
    BY <1>4 DEF Keys, SameEntry
  <2>4. QED
    BY <2>1, <2>2, <2>3
<1>6. ASSUME NEW r \in I, NEW q \in I, r.key = q.key PROVE r = q
  <2>1. r \in CacheEntry /\ q \in CacheEntry
    BY <1>4
  <2>2. SameEntry(r, q) /\ r.after = q.after
    <3>1. CASE r.key = entry.key
      <4>1. ASSUME NEW e \in D PROVE e.key # entry.key
        BY DEF Keys
      <4>2. ASSUME NEW x \in I, x.key = entry.key
            PROVE  x.key = entry.key /\ x.build = entry.build /\ x.expiresAt = entry.expiresAt
                   /\ x.after = {}
        BY <1>4, <4>1, <4>2 DEF SameEntry
      <4>3. QED
        BY <1>6, <3>1, <4>2 DEF SameEntry
    <3>2. CASE r.key # entry.key
      <4>1. PICK e \in D : SameEntry(r, e) /\ r.after = (e.after \cap Keys(D)) \cup {entry.key}
        BY <1>4, <3>2 DEF SameEntry
      <4>2. PICK d \in D : SameEntry(q, d) /\ q.after = (d.after \cap Keys(D)) \cup {entry.key}
        BY <1>4, <1>6, <3>2 DEF SameEntry
      <4>3. e = d
        <5>1. e.key = d.key /\ e \in C /\ d \in C
          BY <1>6, <4>1, <4>2 DEF SameEntry
        <5>2. QED
          BY <5>1 DEF MapOK
      <4>4. QED
        BY <4>1, <4>2, <4>3 DEF SameEntry
    <3>3. QED
      BY <3>1, <3>2
  <2>3. QED
    BY <2>1, <2>2 DEF CacheEntry, SameEntry
<1>7. ASSUME NEW r \in I PROVE r.after \subseteq Keys(I) /\ r.key \notin r.after
  <2>1. CASE r.after = {}
    BY <2>1
  <2>2. CASE \E e \in D : SameEntry(r, e) /\ r.after = (e.after \cap Keys(D)) \cup {entry.key}
    <3>1. PICK e \in D : SameEntry(r, e) /\ r.after = (e.after \cap Keys(D)) \cup {entry.key}
      BY <2>2
    <3>2. e.key \notin e.after /\ e.key # entry.key
      BY DEF MapOK, Keys
    <3>3. QED
      BY <1>5, <3>1, <3>2 DEF SameEntry
  <2>3. QED
    BY <1>4, <2>1, <2>2
<1>8. ASSUME NEW r \in I, NEW q \in I, r # q
      PROVE  \/ q.key \in r.after /\ q.after \subseteq r.after
             \/ r.key \in q.after /\ r.after \subseteq q.after
  <2> DEFINE Pushed(x, e) == SameEntry(x, e) /\ x.after = (e.after \cap Keys(D)) \cup {entry.key}
             First(x) == SameEntry(x, entry) /\ x.after = {}
  <2>1. \A x \in I : First(x) \/ \E e \in D : Pushed(x, e)
    BY <1>4
  <2>2. CASE First(r)
    <3>1. PICK d \in D : Pushed(q, d)
      BY <1>6, <1>8, <2>1, <2>2 DEF SameEntry
    <3>2. QED
      BY <2>2, <3>1 DEF SameEntry
  <2>3. CASE First(q)
    <3>1. PICK e \in D : Pushed(r, e)
      BY <1>6, <1>8, <2>1, <2>3 DEF SameEntry
    <3>2. QED
      BY <2>3, <3>1 DEF SameEntry
  <2>4. ASSUME NEW e \in D, NEW d \in D, Pushed(r, e), Pushed(q, d)
        PROVE  \/ q.key \in r.after /\ q.after \subseteq r.after
               \/ r.key \in q.after /\ r.after \subseteq q.after
    <3>1. e # d /\ e.key \in Keys(D) /\ d.key \in Keys(D)
      BY <1>6, <1>8, <2>4 DEF SameEntry, Keys
    <3>2. \/ d.key \in e.after /\ d.after \subseteq e.after
          \/ e.key \in d.after /\ e.after \subseteq d.after
      BY <3>1 DEF MapOK
    <3>3. QED
      BY <2>4, <3>1, <3>2 DEF SameEntry
  <2>5. QED
    BY <2>1, <2>2, <2>3, <2>4
<1>9. MapOK(I)
  <2>1. IsFiniteSet(I) /\ I \subseteq CacheEntry
    BY <1>3, <1>4
  <2>2. QED
    BY ONLY <1>6, <1>7, <1>8, <2>1 DEF MapOK
<1>10. QED
  BY <1>3, <1>9 DEF I

(* Fewer than n entries come after n entries at most.                      *)
LEMMA RecentAreFew ==
  ASSUME NEW C, MapOK(C), NEW n \in Nat, NEW D, D = {e \in C : Cardinality(e.after) < n}
  PROVE  IsFiniteSet(D) /\ Cardinality(D) <= n
<1>1. IsFiniteSet(Keys(C))
  <2> DEFINE f == [e \in C |-> e.key]
  <2>1. Keys(C) = {f[e] : e \in C} /\ DOMAIN f = C
    BY DEF Keys
  <2> HIDE DEF f
  <2>2. QED
    BY <2>1, ImageSmaller DEF MapOK
<1>2. ASSUME NEW e \in C PROVE IsFiniteSet(e.after) /\ Cardinality(e.after) \in Nat
  <2>1. e.after \subseteq Keys(C)
    BY DEF MapOK
  <2>2. QED
    BY <1>1, <2>1, FS_Subset, FS_CardinalityType
<1>3. ASSUME NEW e \in C, NEW f \in C, f.key \in e.after, f.after \subseteq e.after
      PROVE  Cardinality(f.after) < Cardinality(e.after)
  <2>1. f.key \notin f.after
    BY DEF MapOK
  <2>2. Cardinality(f.after) <= Cardinality(e.after) /\ Cardinality(f.after) # Cardinality(e.after)
    BY <1>2, <1>3, <2>1, FS_Subset
  <2>3. QED
    BY <1>2, <2>2
<1> DEFINE g == [e \in D |-> Cardinality(e.after)]
<1>4. \A e \in D : g[e] \in 0 .. (n - 1)
  BY <1>2
<1>5. ASSUME NEW e \in D, NEW f \in D, e # f PROVE g[e] # g[f]
  <2>1. \/ f.key \in e.after /\ f.after \subseteq e.after
        \/ e.key \in f.after /\ e.after \subseteq f.after
    BY <1>5 DEF MapOK
  <2>2. g[e] = Cardinality(e.after) /\ g[f] = Cardinality(f.after)
    OBVIOUS
  <2>3. e \in C /\ f \in C /\ Cardinality(e.after) \in Nat /\ Cardinality(f.after) \in Nat
    BY <1>2
  <2>4. QED
    BY <1>3, <2>1, <2>2, <2>3
<1>6. g \in Injection(D, 0 .. (n - 1))
  <2>1. g \in [D -> 0 .. (n - 1)]
    BY <1>4
  <2> HIDE DEF g
  <2>2. QED
    BY <1>5, <2>1 DEF Injection, IsInjective
<1>7. IsFiniteSet(0 .. (n - 1)) /\ Cardinality(0 .. (n - 1)) = n
  BY FS_Interval
<1> HIDE DEF g
<1>8. QED
  BY <1>6, <1>7, FS_Injection

(* Map.set keeps the map a map, within its room.                           *)
LEMMA SetOK ==
  ASSUME NEW C, MapOK(C), Cardinality(C) <= MAX_SESSION_CACHE_ENTRIES,
         NEW entry \in CacheEntry, NEW time
  PROVE  /\ MapOK(set(C, entry, time))
         /\ Cardinality(set(C, entry, time)) <= MAX_SESSION_CACHE_ENTRIES
<1> DEFINE live == Remaining({e \in C : Live(e, time)})
           others == {e \in live : e.key # entry.key}
           room == MAX_SESSION_CACHE_ENTRIES - 1
           recent == {e \in live : Cardinality(e.after) < room}
<1>1. room \in Nat /\ room + 1 = MAX_SESSION_CACHE_ENTRIES
  BY SessionCacheAssumption
<1>2. MapOK(live) /\ Cardinality(live) <= Cardinality(C)
  BY RemainingOK
<1>3. IsFiniteSet(live) /\ Cardinality(live) \in Nat /\ Cardinality(C) \in Nat
  BY <1>2, FS_CardinalityType DEF MapOK
<1>4. set(C, entry, time) = Insert(IF others # live THEN others ELSE recent, entry)
  BY DEF set
<1>5. entry.key \notin Keys(others) /\ others \subseteq live /\ recent \subseteq live
  BY DEF Keys
<1>6. ASSUME NEW D, D \subseteq live, entry.key \notin Keys(D), Cardinality(D) <= room,
             set(C, entry, time) = Insert(D, entry)
      PROVE  /\ MapOK(set(C, entry, time))
             /\ Cardinality(set(C, entry, time)) <= MAX_SESSION_CACHE_ENTRIES
  <2>1. /\ MapOK(set(C, entry, time))
        /\ Cardinality(set(C, entry, time)) <= Cardinality(D) + 1
    BY <1>2, <1>6, InsertOK
  <2>2. Cardinality(set(C, entry, time)) \in Nat /\ Cardinality(D) \in Nat
    BY <1>3, <1>6, <2>1, FS_Subset, FS_CardinalityType DEF MapOK
  <2>3. QED
    BY <1>1, <1>6, <2>1, <2>2
<1> HIDE DEF live, others, recent, room
<1>7. CASE others # live
  <2>1. Cardinality(others) \in Nat /\ Cardinality(others) < Cardinality(live)
    BY <1>3, <1>5, <1>7, FS_Subset, FS_CardinalityType
  <2>2. Cardinality(others) <= room
    BY <1>1, <1>2, <1>3, <2>1
  <2>3. QED
    BY <1>4, <1>5, <1>6, <1>7, <2>2
<1>8. CASE others = live
  <2>1. Cardinality(recent) <= room
    BY <1>1, <1>2, RecentAreFew DEF recent
  <2>2. entry.key \notin Keys(recent)
    BY <1>5, <1>8 DEF Keys
  <2>3. QED
    BY <1>4, <1>5, <1>6, <1>8, <2>1, <2>2
<1>9. QED
  BY <1>7, <1>8

(* An entry outlives the insertion of another key, unless it is the oldest *)
(* of a full map: then as many keys have been inserted since as there is   *)
(* room for.                                                               *)
LEMMA SetKeeps ==
  ASSUME NEW C, MapOK(C), NEW entry \in CacheEntry, NEW time,
         NEW e \in C, Live(e, time), e.key # entry.key,
         ~ MAX_SESSION_CACHE_ENTRIES <= Cardinality(e.after \cup {entry.key})
  PROVE  \E r \in set(C, entry, time) : SameEntry(r, e) /\ r.after \subseteq e.after \cup {entry.key}
<1> DEFINE D == {f \in C : Live(f, time)}
           live == Remaining(D)
           others == {f \in live : f.key # entry.key}
           room == MAX_SESSION_CACHE_ENTRIES - 1
           recent == {f \in live : Cardinality(f.after) < room}
<1>1. set(C, entry, time) = Insert(IF others # live THEN others ELSE recent, entry)
  BY DEF set
<1>2. D \subseteq CacheEntry /\ e \in D
  BY DEF MapOK
<1>3. PICK r \in live : SameEntry(r, e) /\ r.after = e.after \cap Keys(D)
  BY <1>2, RemainingSays
<1>4. MapOK(live) /\ live \subseteq CacheEntry /\ others \subseteq live /\ recent \subseteq live
  BY RemainingOK DEF MapOK
<1>5. ASSUME NEW S, S \subseteq live, r \in S, set(C, entry, time) = Insert(S, entry)
      PROVE  \E q \in set(C, entry, time) :
               SameEntry(q, e) /\ q.after \subseteq e.after \cup {entry.key}
  <2>1. S \subseteq CacheEntry
    BY <1>4, <1>5
  <2> HIDE DEF live
  <2>2. \A f \in S : \E q \in Insert(S, entry) :
          SameEntry(q, f) /\ q.after = (f.after \cap Keys(S)) \cup {entry.key}
    BY <2>1, InsertSays
  <2>3. PICK q \in Insert(S, entry) :
          SameEntry(q, r) /\ q.after = (r.after \cap Keys(S)) \cup {entry.key}
    BY <1>5, <2>2
  <2>4. SameEntry(q, e) /\ q.after \subseteq e.after \cup {entry.key}
    BY <1>3, <2>3 DEF SameEntry
  <2>5. QED
    BY <1>5, <2>4
<1>6. r \in others
  BY <1>3 DEF SameEntry
<1>7. others = live => r \in recent
  <2>1. SUFFICES ASSUME others = live PROVE Cardinality(r.after) < room
    BY <1>3
  <2>2. entry.key \notin Keys(live)
    BY <2>1 DEF Keys
  <2>3. r.after \subseteq Keys(live)
    BY <1>3, <1>4 DEF MapOK
  <2>4. entry.key \notin r.after /\ r.after \subseteq e.after
    BY <1>3, <2>2, <2>3
  <2>5. IsFiniteSet(e.after)
    <3>1. IsFiniteSet(Keys(C))
      <4> DEFINE g == [f \in C |-> f.key]
      <4>1. Keys(C) = {g[f] : f \in C} /\ DOMAIN g = C
        BY DEF Keys
      <4> HIDE DEF g
      <4>2. QED
        BY <4>1, ImageSmaller DEF MapOK
    <3>2. e.after \subseteq Keys(C)
      BY DEF MapOK
    <3>3. QED
      BY <3>1, <3>2, FS_Subset
  <2>6. /\ IsFiniteSet(e.after \cup {entry.key}) /\ IsFiniteSet(r.after)
        /\ Cardinality(r.after \cup {entry.key}) = Cardinality(r.after) + 1
        /\ Cardinality(r.after) \in Nat
    BY <2>4, <2>5, FS_AddElement, FS_Subset, FS_CardinalityType
  <2>7. r.after \cup {entry.key} \in SUBSET (e.after \cup {entry.key})
    BY <2>4
  <2>8. Cardinality(r.after \cup {entry.key}) <= Cardinality(e.after \cup {entry.key})
        /\ Cardinality(e.after \cup {entry.key}) \in Nat
    BY <2>6, <2>7, FS_Subset, FS_CardinalityType
  <2>9. QED
    BY <2>6, <2>8, SessionCacheAssumption
<1> HIDE DEF others, recent, live
<1>8. QED
  BY <1>1, <1>4, <1>5, <1>6, <1>7

(* Nothing gets into the map but the entry that is set.                    *)
LEMMA SetSays ==
  ASSUME NEW C, MapOK(C), NEW entry \in CacheEntry, NEW time
  PROVE  /\ \A r \in set(C, entry, time) : SameEntry(r, entry) \/ \E e \in C : SameEntry(r, e)
         /\ \E r \in set(C, entry, time) : SameEntry(r, entry) /\ r.after = {}
<1> DEFINE D == {f \in C : Live(f, time)}
           live == Remaining(D)
<1>1. D \subseteq CacheEntry
  BY DEF MapOK
<1>2. /\ live \subseteq CacheEntry
      /\ \A r \in live : \E e \in D : SameEntry(r, e)
  BY <1>1, RemainingSays
<1>3. PICK S \in SUBSET live : set(C, entry, time) = Insert(S, entry)
  BY DEF set
<1> HIDE DEF live
<1>4. S \subseteq CacheEntry
  BY <1>2
<1>5. /\ \A r \in Insert(S, entry) : SameEntry(r, entry) \/ \E e \in S : SameEntry(r, e)
      /\ \E r \in Insert(S, entry) : SameEntry(r, entry) /\ r.after = {}
  <2>1. \A r \in Insert(S, entry) :
          \/ SameEntry(r, entry) /\ r.after = {}
          \/ \E e \in S : SameEntry(r, e) /\ r.after = (e.after \cap Keys(S)) \cup {entry.key}
    BY <1>4, InsertSays
  <2>2. \E r \in Insert(S, entry) : SameEntry(r, entry) /\ r.after = {}
    BY <1>4, InsertSays
  <2>3. QED
    BY <2>1, <2>2
<1>6. ASSUME NEW r \in Insert(S, entry), NEW e \in S, SameEntry(r, e)
      PROVE  \E f \in C : SameEntry(r, f)
  BY <1>2, <1>6 DEF SameEntry
<1>7. QED
  BY <1>3, <1>5, <1>6

CacheInv ==
  /\ MapOK(sessionCache) /\ Cardinality(sessionCache) <= MAX_SESSION_CACHE_ENTRIES
  /\ builds \in Seq({"building", "built", "failed"})
  /\ \A e \in sessionCache : e.build \in 1 .. Len(builds)

LEMMA PrunedOK ==
  ASSUME CacheInv, NEW time
  PROVE  /\ MapOK(pruneExpiredSessions(time))
         /\ Cardinality(pruneExpiredSessions(time)) <= MAX_SESSION_CACHE_ENTRIES
         /\ \A r \in pruneExpiredSessions(time) : \E e \in sessionCache : SameEntry(r, e)
         /\ \A r \in pruneExpiredSessions(time) : r.build \in 1 .. Len(builds)
         /\ \A e \in sessionCache : Live(e, time) =>
              \E r \in pruneExpiredSessions(time) : SameEntry(r, e) /\ r.after \subseteq e.after
<1> DEFINE D == {e \in sessionCache : Live(e, time)}
           R == Remaining(D)
<1>1. /\ MapOK(R) /\ Cardinality(R) <= Cardinality(sessionCache)
      /\ Cardinality(R) \in Nat /\ Cardinality(sessionCache) \in Nat
  BY RemainingOK, FS_CardinalityType DEF CacheInv, MapOK
<1>2. /\ \A e \in D : \E r \in R : SameEntry(r, e) /\ r.after = e.after \cap Keys(D)
      /\ \A r \in R : \E e \in D : SameEntry(r, e) /\ r.after = e.after \cap Keys(D)
  BY RemainingSays DEF CacheInv, MapOK
<1>3. pruneExpiredSessions(time) = R
  BY DEF pruneExpiredSessions
<1> HIDE DEF R
<1>4. Cardinality(R) <= MAX_SESSION_CACHE_ENTRIES
  BY <1>1, SessionCacheAssumption DEF CacheInv
<1>5. \A r \in R : \E e \in sessionCache : SameEntry(r, e)
  BY <1>2
<1>6. \A r \in R : r.build \in 1 .. Len(builds)
  BY <1>5 DEF CacheInv, SameEntry
<1>7. ASSUME NEW e \in sessionCache, Live(e, time)
      PROVE  \E r \in R : SameEntry(r, e) /\ r.after \subseteq e.after
  <2>1. e \in D
    BY <1>7
  <2>2. PICK r \in R : SameEntry(r, e) /\ r.after = e.after \cap Keys(D)
    BY <1>2, <2>1
  <2>3. r.after \subseteq e.after
    BY <2>2
  <2>4. QED
    BY <2>2, <2>3
<1>8. QED
  BY <1>1, <1>3, <1>4, <1>5, <1>6, <1>7

LEMMA SlotOf == ASSUME NEW header PROVE normalizeSessionId(header) \in Slots
  BY DEF normalizeSessionId, Slots

(* What a request leaves in the cache: its key's entry, and its build.     *)
LEMMA ResolveCache ==
  ASSUME CacheInv, NEW header, NEW time, resolveRequirements(header, time)
  PROVE  /\ CacheInv'
         /\ Len(builds) <= Len(builds') /\ \A b \in 1 .. Len(builds) : builds'[b] = builds[b]
         /\ \E C, entry : /\ MapOK(C) /\ entry \in CacheEntry
                          /\ C = pruneExpiredSessions(time)
                          /\ entry.key = normalizeSessionId(header)
                          /\ sessionCache' = set(C, entry, time)
                          /\ Hits(normalizeSessionId(header), time) = {} =>
                               /\ entry.build = Len(builds) + 1 /\ entry.expiresAt = {}
                               /\ Len(builds') = Len(builds) + 1 /\ builds'[Len(builds')] = "building"
<1> DEFINE key == normalizeSessionId(header)
           C == pruneExpiredSessions(time)
           fresh == [key |-> key, build |-> Len(builds) + 1, expiresAt |-> {}, after |-> {}]
<1>1. /\ MapOK(C) /\ Cardinality(C) <= MAX_SESSION_CACHE_ENTRIES
      /\ \A r \in C : r.build \in 1 .. Len(builds)
      /\ C \subseteq CacheEntry /\ Len(builds) \in Nat
      /\ builds \in Seq({"building", "built", "failed"})
  BY PrunedOK DEF CacheInv, MapOK
<1>2. ASSUME NEW entry \in CacheEntry, sessionCache' = set(C, entry, time),
             entry.build \in 1 .. Len(builds'), Len(builds) <= Len(builds'),
             builds' \in Seq({"building", "built", "failed"})
      PROVE  CacheInv'
  <2>1. /\ MapOK(sessionCache') /\ Cardinality(sessionCache') <= MAX_SESSION_CACHE_ENTRIES
        /\ \A r \in sessionCache' : SameEntry(r, entry) \/ \E e \in C : SameEntry(r, e)
    BY <1>1, <1>2, SetOK, SetSays
  <2>2. Len(builds') \in Nat
    BY <1>2
  <2>3. \A e \in C : e.build \in 1 .. Len(builds')
    BY <1>1, <1>2, <2>2
  <2> HIDE DEF C
  <2>4. \A r \in sessionCache' : r.build \in 1 .. Len(builds')
    BY <1>2, <2>1, <2>3 DEF SameEntry
  <2>5. QED
    BY <1>2, <2>1, <2>4 DEF CacheInv
<1>3. CASE (\E e \in Hits(key, time) : sessionCache' = set(C, e, time)) /\ UNCHANGED builds
  <2>1. PICK e \in Hits(key, time) : sessionCache' = set(C, e, time)
    BY <1>3
  <2>2. e \in C /\ e.key = key /\ e \in CacheEntry /\ e.build \in 1 .. Len(builds)
    BY <1>1, <2>1 DEF Hits
  <2>3. CacheInv'
    BY <1>1, <1>2, <1>3, <2>1, <2>2
  <2>4. QED
    BY <1>1, <1>3, <2>1, <2>2, <2>3
<1>4. CASE /\ Hits(key, time) = {} /\ sessionCache' = set(C, fresh, time)
           /\ builds' = Append(builds, "building")
  <2>1. /\ Len(builds') = Len(builds) + 1 /\ builds'[Len(builds) + 1] = "building"
        /\ builds' \in Seq({"building", "built", "failed"})
        /\ \A b \in 1 .. Len(builds) : builds'[b] = builds[b]
    BY <1>1, <1>4
  <2>2. fresh \in CacheEntry /\ fresh.key = key /\ fresh.build = Len(builds) + 1
        /\ fresh.expiresAt = {}
    BY <1>1, SlotOf DEF CacheEntry
  <2>3. /\ fresh.build \in 1 .. Len(builds') /\ Len(builds) <= Len(builds')
    BY <1>1, <2>1, <2>2
  <2> HIDE DEF fresh, C, key
  <2>4. CacheInv'
    BY <1>1, <1>2, <1>4, <2>1, <2>2, <2>3
  <2>5. QED
    BY <1>1, <1>4, <2>1, <2>2, <2>3, <2>4 DEF C, key
<1>5. QED
  BY <1>3, <1>4 DEF resolveRequirements

LEMMA SucceedsCache ==
  ASSUME CacheInv, NEW time \in Int, BuildSucceeds(time)
  PROVE  /\ CacheInv' /\ Len(builds') = Len(builds)
         /\ \A b \in 1 .. Len(builds) : builds[b] # "building" => builds'[b] = builds[b]
         /\ \A e \in sessionCache : \E r \in sessionCache' :
              /\ r.key = e.key /\ r.build = e.build /\ r.after = e.after
              /\ r.expiresAt \in {e.expiresAt, {time + SESSION_CACHE_TTL}}
         /\ Keys(sessionCache') = Keys(sessionCache)
<1>1. PICK b \in DOMAIN builds :
        /\ builds[b] = "building" /\ builds' = [builds EXCEPT ![b] = "built"]
        /\ sessionCache' =
             {IF e.build = b THEN [e EXCEPT !.expiresAt = {time + SESSION_CACHE_TTL}] ELSE e
                : e \in sessionCache}
  BY DEF BuildSucceeds
<1> DEFINE g == [e \in sessionCache |->
                   IF e.build = b THEN [e EXCEPT !.expiresAt = {time + SESSION_CACHE_TTL}] ELSE e]
<1>2. /\ builds' \in Seq({"building", "built", "failed"}) /\ Len(builds') = Len(builds)
      /\ \A c \in 1 .. Len(builds) : builds[c] # "building" => builds'[c] = builds[c]
  BY <1>1 DEF CacheInv
<1>3. ASSUME NEW e \in sessionCache
      PROVE  /\ g[e] \in CacheEntry
             /\ g[e].key = e.key /\ g[e].build = e.build /\ g[e].after = e.after
             /\ g[e].expiresAt \in {e.expiresAt, {time + SESSION_CACHE_TTL}}
  <2>1. e \in CacheEntry /\ {time + SESSION_CACHE_TTL} \in SUBSET Int
    BY SessionCacheAssumption DEF CacheInv, MapOK
  <2>2. QED
    BY <2>1 DEF CacheEntry
<1>4. sessionCache' = {g[e] : e \in sessionCache} /\ DOMAIN g = sessionCache
  BY <1>1
<1> HIDE DEF g
<1>5. /\ IsFiniteSet(sessionCache') /\ sessionCache' \subseteq CacheEntry
      /\ Cardinality(sessionCache') <= Cardinality(sessionCache)
      /\ Cardinality(sessionCache') \in Nat /\ Cardinality(sessionCache) \in Nat
  BY <1>3, <1>4, ImageSmaller, FS_CardinalityType DEF CacheInv, MapOK
<1>6. Keys(sessionCache') = Keys(sessionCache)
  BY <1>3, <1>4 DEF Keys
<1>7. ASSUME NEW r \in sessionCache', NEW q \in sessionCache', r.key = q.key PROVE r = q
  BY <1>3, <1>4, <1>7 DEF CacheInv, MapOK
<1>8. ASSUME NEW r \in sessionCache' PROVE r.after \subseteq Keys(sessionCache') /\ r.key \notin r.after
  <2>1. PICK e \in sessionCache : r = g[e]
    BY <1>4
  <2>2. e.after \subseteq Keys(sessionCache) /\ e.key \notin e.after
    BY DEF CacheInv, MapOK
  <2>3. QED
    BY <1>3, <1>6, <2>1, <2>2
<1>9. ASSUME NEW r \in sessionCache', NEW q \in sessionCache', r # q
      PROVE  \/ q.key \in r.after /\ q.after \subseteq r.after
             \/ r.key \in q.after /\ r.after \subseteq q.after
  <2>1. PICK e \in sessionCache, d \in sessionCache : r = g[e] /\ q = g[d]
    BY <1>4
  <2>2. e # d
    BY <1>9, <2>1
  <2>3. \/ d.key \in e.after /\ d.after \subseteq e.after
        \/ e.key \in d.after /\ e.after \subseteq d.after
    BY <2>2 DEF CacheInv, MapOK
  <2>4. QED
    BY <1>3, <2>1, <2>3
<1>10. MapOK(sessionCache')
  BY ONLY <1>5, <1>7, <1>8, <1>9 DEF MapOK
<1>11. Cardinality(sessionCache') <= MAX_SESSION_CACHE_ENTRIES
  BY <1>5, SessionCacheAssumption DEF CacheInv
<1>12. \A r \in sessionCache' : r.build \in 1 .. Len(builds')
  BY <1>2, <1>3, <1>4 DEF CacheInv
<1>13. CacheInv'
  BY <1>2, <1>10, <1>11, <1>12 DEF CacheInv
<1>14. QED
  BY <1>2, <1>3, <1>4, <1>6, <1>13

LEMMA FailsCache ==
  ASSUME CacheInv, BuildFails
  PROVE  /\ CacheInv' /\ Len(builds') = Len(builds)
         /\ \A b \in 1 .. Len(builds) : builds[b] # "building" => builds'[b] = builds[b]
         /\ \A e \in sessionCache : builds'[e.build] # "failed" =>
              \E r \in sessionCache' : SameEntry(r, e) /\ r.after \subseteq e.after
         /\ Keys(sessionCache') \subseteq Keys(sessionCache)
<1>1. PICK b \in DOMAIN builds :
        /\ builds[b] = "building" /\ builds' = [builds EXCEPT ![b] = "failed"]
        /\ sessionCache' = Remaining({e \in sessionCache : e.build # b})
  BY DEF BuildFails
<1> DEFINE D == {e \in sessionCache : e.build # b}
<1>2. /\ builds' \in Seq({"building", "built", "failed"}) /\ Len(builds') = Len(builds)
      /\ \A c \in 1 .. Len(builds) : builds[c] # "building" => builds'[c] = builds[c]
      /\ builds'[b] = "failed"
  BY <1>1 DEF CacheInv
<1>3. MapOK(sessionCache') /\ Cardinality(sessionCache') <= Cardinality(sessionCache)
  BY <1>1, RemainingOK DEF CacheInv
<1>4. Cardinality(sessionCache') \in Nat /\ Cardinality(sessionCache) \in Nat
  BY <1>3, FS_CardinalityType DEF MapOK, CacheInv
<1>5. /\ \A e \in D : \E r \in sessionCache' : SameEntry(r, e) /\ r.after = e.after \cap Keys(D)
      /\ \A r \in sessionCache' : \E e \in D : SameEntry(r, e) /\ r.after = e.after \cap Keys(D)
      /\ Keys(sessionCache') = Keys(D)
  BY <1>1, RemainingSays DEF CacheInv, MapOK
<1>6. Cardinality(sessionCache') <= MAX_SESSION_CACHE_ENTRIES
  BY <1>3, <1>4, SessionCacheAssumption DEF CacheInv
<1>7. \A r \in sessionCache' : r.build \in 1 .. Len(builds')
  BY <1>2, <1>5 DEF CacheInv, SameEntry
<1>8. CacheInv'
  BY <1>2, <1>3, <1>6, <1>7 DEF CacheInv
<1>9. Keys(sessionCache') \subseteq Keys(sessionCache)
  <2>1. Keys(D) \subseteq Keys(sessionCache)
    BY DEF Keys
  <2>2. QED
    BY ONLY <1>5, <2>1
<1>10. ASSUME NEW e \in sessionCache, builds'[e.build] # "failed"
       PROVE  \E r \in sessionCache' : SameEntry(r, e) /\ r.after \subseteq e.after
  <2>1. e \in D
    BY <1>2, <1>10
  <2> HIDE DEF D
  <2>2. PICK r \in sessionCache' : SameEntry(r, e) /\ r.after = e.after \cap Keys(D)
    BY <1>5, <2>1
  <2>3. QED
    BY <2>2
<1>11. QED
  BY ONLY <1>2, <1>8, <1>9, <1>10

LEMMA RestartCache ==
  ASSUME CacheInv, CacheRestart
  PROVE  /\ CacheInv' /\ Len(builds') = Len(builds) /\ sessionCache' = {}
         /\ \A b \in 1 .. Len(builds) : builds[b] # "building" => builds'[b] = builds[b]
<1>1. /\ builds' \in Seq({"building", "built", "failed"}) /\ Len(builds') = Len(builds)
      /\ \A b \in 1 .. Len(builds) : builds[b] # "building" => builds'[b] = builds[b]
  <2> DEFINE S == {"building", "built", "failed"}
             n == Len(builds)
  <2>1. builds \in [1 .. n -> S] /\ n \in Nat /\ DOMAIN builds = 1 .. n
    BY DEF CacheInv
  <2>2. builds' \in [1 .. n -> S]
    BY <2>1 DEF CacheRestart
  <2>3. \A b \in 1 .. n : builds[b] # "building" => builds'[b] = builds[b]
    BY <2>1 DEF CacheRestart
  <2> HIDE DEF n, S
  <2>4. builds' \in Seq(S) /\ Len(builds') = n
    BY <2>1, <2>2
  <2>5. QED
    BY <2>3, <2>4 DEF n, S
<1>2. sessionCache' = {} /\ IsFiniteSet({}) /\ Cardinality({}) = 0
  BY FS_EmptySet DEF CacheRestart
<1>3. MapOK({})
  BY <1>2 DEF MapOK
<1>4. 0 <= MAX_SESSION_CACHE_ENTRIES
  BY SessionCacheAssumption
<1>5. QED
  BY <1>1, <1>2, <1>3, <1>4 DEF CacheInv

-----------------------------------------------------------------------------
(* The offer of the challenge is still in the cache, with nothing after it *)
(* but the crowd's, until one of the things happens that may take it away. *)
Remembered ==
  \/ askedAt + SESSION_CACHE_TTL <= now
  \/ MySession \in crowd
  \/ MAX_SESSION_CACHE_ENTRIES <= Cardinality(crowd)
  \/ builds[challenge] = "failed"
  \/ \E e \in sessionCache :
       /\ e.key = MySession /\ e.build = challenge /\ e.after \subseteq crowd
       /\ \A t \in e.expiresAt : askedAt + SESSION_CACHE_TTL <= t

OfferInv ==
  /\ CacheInv
  /\ IsFiniteSet(crowd) /\ askedAt \in Int /\ askedAt <= now
  /\ settling \in 0 .. Len(builds)
  /\ phase = "idle" => challenge = 0 /\ MySession \notin Keys(sessionCache)
  /\ phase # "idle" => challenge \in 1 .. Len(builds)
  /\ phase = "signing" \/ payment # {} => phase # "idle" /\ builds[challenge] = "built"
  /\ phase # "idle" /\ job = "none" => Remembered

LEMMA InitOffer == Init => OfferInv
<1>1. SUFFICES ASSUME Init PROVE OfferInv
  OBVIOUS
<1>2. IsFiniteSet({}) /\ Cardinality({}) = 0
  BY FS_EmptySet
<1>3. CacheInv
  <2>1. sessionCache = {} /\ builds = <<>> /\ 0 <= MAX_SESSION_CACHE_ENTRIES
    BY <1>1, SessionCacheAssumption DEF Init, CacheInit
  <2>2. MapOK({})
    BY <1>2 DEF MapOK
  <2>3. QED
    BY <1>2, <2>1, <2>2 DEF CacheInv
<1>4. /\ phase = "idle" /\ challenge = 0 /\ settling = 0 /\ askedAt = 0 /\ payment = {}
      /\ crowd = {} /\ sessionCache = {} /\ builds = <<>> /\ setup \in Setups /\ now = setup.start
  BY <1>1 DEF Init, CacheInit
<1>5. Len(builds) = 0 /\ askedAt <= now
  BY <1>4, PaymentAssumption
<1>6. QED
  BY <1>2, <1>3, <1>4, <1>5 DEF OfferInv, Keys

(* Steps that leave the cache alone.                                       *)
LEMMA QuietOffer ==
  ASSUME Inv, OfferInv, UNCHANGED <<cacheVars, crowd, askedAt, challenge, settling>>,
         now' \in Int, now <= now', job' = "none" => job = "none",
         phase' = "idle" <=> phase = "idle",
         phase' = "signing" \/ payment' # {} =>
           phase = "signing" \/ payment # {} \/ (phase # "idle" /\ builds[challenge] = "built")
  PROVE  OfferInv'
<1>1. UNCHANGED <<sessionCache, builds>>
  BY DEF cacheVars
<1>2. CacheInv'
  BY <1>1 DEF OfferInv, CacheInv
<1>3. askedAt + SESSION_CACHE_TTL <= now => askedAt + SESSION_CACHE_TTL <= now'
  BY SessionCacheAssumption DEF OfferInv, Inv, PhaseOK
<1>4. askedAt <= now'
  BY DEF OfferInv, Inv, PhaseOK
<1>5. Remembered => Remembered'
  BY <1>1, <1>3 DEF Remembered
<1>6. QED
  BY <1>1, <1>2, <1>4, <1>5 DEF OfferInv

LEMMA MyKey == normalizeSessionId(MySession) = MySession
  BY SessionAssumption DEF normalizeSessionId

LEMMA OfferForSays ==
  ASSUME CacheInv, NEW time, resolveRequirements(MySession, time)
  PROVE  OfferFor(MySession, time) \in 1 .. Len(builds')
<1>1. Len(builds) \in Nat /\ Len(builds') \in Nat /\ Len(builds) <= Len(builds')
  BY ResolveCache DEF CacheInv
<1>2. CASE Hits(MySession, time) = {}
  <2>1. Len(builds') = Len(builds) + 1
    BY <1>2, MyKey, ResolveCache
  <2>2. QED
    BY <1>1, <1>2, <2>1 DEF OfferFor
<1>3. CASE Hits(MySession, time) # {}
  <2>1. (CHOOSE e \in Hits(MySession, time) : TRUE).build \in 1 .. Len(builds)
    BY <1>3, PrunedOK DEF Hits
  <2>2. QED
    BY <1>1, <1>3, <2>1 DEF OfferFor
<1>4. QED
  BY <1>2, <1>3

LEMMA AskOffer == ASSUME Inv, OfferInv, Ask PROVE OfferInv'
<1>1. /\ phase = "idle" /\ payment' = {} /\ phase' = "asked" /\ challenge' = OfferFor(MySession, now)
      /\ resolveRequirements(MySession, now) /\ askedAt' = now /\ crowd' = {}
      /\ UNCHANGED <<now, settling>> /\ CacheInv /\ now \in Int
  BY DEF Ask, Inv, PhaseOK, OfferInv, serverVars
<1>2. Hits(MySession, now) = {}
  <2>1. MySession \notin Keys(sessionCache)
    BY <1>1 DEF OfferInv
  <2>2. \A r \in pruneExpiredSessions(now) : \E e \in sessionCache : SameEntry(r, e)
    BY <1>1, PrunedOK
  <2>3. QED
    BY <2>1, <2>2 DEF Hits, SameEntry, Keys
<1>3. CacheInv' /\ Len(builds) <= Len(builds')
  BY <1>1, ResolveCache
<1>4. PICK C, entry :
        /\ MapOK(C) /\ entry \in CacheEntry /\ entry.key = MySession
        /\ sessionCache' = set(C, entry, now)
        /\ entry.build = Len(builds) + 1 /\ entry.expiresAt = {}
        /\ Len(builds') = Len(builds) + 1
  BY <1>1, <1>2, MyKey, ResolveCache
<1>5. challenge' = Len(builds) + 1
  BY <1>1, <1>2 DEF OfferFor
<1>6. \E e \in sessionCache' :
        /\ e.key = MySession /\ e.build = challenge' /\ e.after = {} /\ e.expiresAt = {}
  BY <1>4, <1>5, SetSays DEF SameEntry
<1>7. Remembered'
  BY <1>1, <1>6 DEF Remembered
<1>8. /\ IsFiniteSet(crowd') /\ askedAt' \in Int /\ askedAt' <= now'
      /\ settling' \in 0 .. Len(builds') /\ challenge' \in 1 .. Len(builds')
  <2>1. Len(builds) \in Nat /\ settling \in 0 .. Len(builds)
    BY DEF OfferInv, CacheInv
  <2>2. QED
    BY <1>1, <1>4, <1>5, <2>1, FS_EmptySet
<1>9. QED
  BY <1>1, <1>3, <1>7, <1>8 DEF OfferInv

LEMMA ServerReceivesOffer == ASSUME Inv, OfferInv, ServerReceives PROVE OfferInv'
<1>1. /\ job' = "resolving" /\ payment # {} /\ phase # "idle" /\ builds[challenge] = "built"
      /\ settling' = OfferFor(MySession, now) /\ resolveRequirements(MySession, now)
      /\ UNCHANGED <<now, phase, payment, challenge, askedAt, crowd>> /\ CacheInv
      /\ challenge \in 1 .. Len(builds)
  BY DEF ServerReceives, OfferInv, buyerVars
<1>2. /\ CacheInv' /\ Len(builds) <= Len(builds') /\ builds'[challenge] = builds[challenge]
  BY <1>1, ResolveCache
<1>3. settling' \in 1 .. Len(builds') /\ Len(builds) \in Nat /\ Len(builds') \in Nat
  BY <1>1, <1>2, OfferForSays DEF CacheInv
<1>4. settling' \in 0 .. Len(builds') /\ challenge \in 1 .. Len(builds')
  BY <1>1, <1>2, <1>3
<1>5. QED
  BY <1>1, <1>2, <1>4 DEF OfferInv

(* What others ask pushes the offer back, and is counted.                  *)
LEMMA OthersAskOffer == ASSUME Inv, OfferInv, OthersAsk PROVE OfferInv'
<1>1. PICK header \in setup.others :
        resolveRequirements(header, now) /\ crowd' = crowd \cup {normalizeSessionId(header)}
  BY DEF OthersAsk
<1> DEFINE key == normalizeSessionId(header)
<1>2. /\ UNCHANGED <<now, phase, payment, challenge, askedAt, job, settling>>
      /\ CacheInv /\ now \in Int /\ IsFiniteSet(crowd)
  BY DEF OthersAsk, Inv, PhaseOK, OfferInv, buyerVars, serverVars
<1>3. key # MySession
  BY SessionAssumption, SessionCacheAssumption DEF normalizeSessionId, Inv, PhaseOK
<1>4. /\ CacheInv' /\ Len(builds) <= Len(builds') /\ Len(builds) \in Nat /\ Len(builds') \in Nat
      /\ \A b \in 1 .. Len(builds) : builds'[b] = builds[b]
  BY <1>1, <1>2, ResolveCache DEF CacheInv
<1>5. PICK C, entry :
        /\ MapOK(C) /\ entry \in CacheEntry /\ C = pruneExpiredSessions(now) /\ entry.key = key
        /\ sessionCache' = set(C, entry, now)
  BY <1>1, <1>2, ResolveCache
<1> HIDE DEF key
<1>6. \A r \in C : \E e \in sessionCache : SameEntry(r, e)
  BY <1>2, <1>5, PrunedOK
<1>7. phase = "idle" => MySession \notin Keys(sessionCache')
  <2>1. \A r \in sessionCache' : SameEntry(r, entry) \/ \E e \in C : SameEntry(r, e)
    BY <1>5, SetSays
  <2>2. QED
    BY <1>3, <1>5, <1>6, <2>1 DEF OfferInv, Keys, SameEntry
<1>8. IsFiniteSet(crowd') /\ crowd' = crowd \cup {key}
  BY <1>1, <1>2, FS_AddElement DEF key
<1>9. CASE phase # "idle" /\ job = "none"
  <2>1. Remembered /\ challenge \in 1 .. Len(builds)
    BY <1>9 DEF OfferInv
  <2>2. ASSUME \/ askedAt + SESSION_CACHE_TTL <= now
               \/ MySession \in crowd \/ builds[challenge] = "failed"
        PROVE  Remembered'
    BY <1>2, <1>4, <1>8, <2>1, <2>2 DEF Remembered
  <2>3. ASSUME MAX_SESSION_CACHE_ENTRIES <= Cardinality(crowd) PROVE Remembered'
    <3>1. Cardinality(crowd) <= Cardinality(crowd')
          /\ Cardinality(crowd) \in Nat /\ Cardinality(crowd') \in Nat
      BY <1>2, <1>8, FS_Subset, FS_CardinalityType
    <3>2. MAX_SESSION_CACHE_ENTRIES <= Cardinality(crowd')
      BY <2>3, <3>1, SessionCacheAssumption
    <3>3. QED
      BY <3>2 DEF Remembered
  <2>4. ASSUME NEW e \in sessionCache, e.key = MySession, e.build = challenge,
               e.after \subseteq crowd, \A t \in e.expiresAt : askedAt + SESSION_CACHE_TTL <= t,
               ~ askedAt + SESSION_CACHE_TTL <= now,
               ~ MAX_SESSION_CACHE_ENTRIES <= Cardinality(crowd')
        PROVE  Remembered'
    <3>1. /\ e.expiresAt \subseteq Int /\ askedAt \in Int /\ SESSION_CACHE_TTL \in Nat
      BY SessionCacheAssumption DEF OfferInv, CacheInv, MapOK, CacheEntry
    <3>2. Live(e, now)
      <4>1. ASSUME NEW t \in e.expiresAt PROVE now < t
        BY <1>2, <2>4, <3>1
      <4>2. QED
        BY <4>1 DEF Live
    <3>3. PICK r \in C : SameEntry(r, e) /\ r.after \subseteq e.after
      BY <1>2, <1>5, <3>2, PrunedOK
    <3>4. Live(r, now) /\ r.key # entry.key
      BY <1>3, <1>5, <2>4, <3>2, <3>3 DEF Live, SameEntry
    <3>5. r.after \cup {key} \subseteq crowd'
      BY <1>8, <2>4, <3>3
    <3>6. ~ MAX_SESSION_CACHE_ENTRIES <= Cardinality(r.after \cup {key})
      <4>1. Cardinality(r.after \cup {key}) <= Cardinality(crowd')
            /\ Cardinality(r.after \cup {key}) \in Nat /\ Cardinality(crowd') \in Nat
        BY <1>8, <3>5, FS_Subset, FS_CardinalityType
      <4>2. QED
        BY <2>4, <4>1, SessionCacheAssumption
    <3>7. PICK q \in sessionCache' : SameEntry(q, r) /\ q.after \subseteq r.after \cup {key}
      BY <1>5, <3>4, <3>6, SetKeeps
    <3>8. /\ q.key = MySession /\ q.build = challenge' /\ q.after \subseteq crowd'
          /\ \A t \in q.expiresAt : askedAt' + SESSION_CACHE_TTL <= t
      BY <1>2, <2>4, <3>3, <3>5, <3>7 DEF SameEntry
    <3>9. QED
      BY <3>8 DEF Remembered
  <2>5. Remembered'
    <3>1. CASE \E e \in sessionCache :
                 /\ e.key = MySession /\ e.build = challenge /\ e.after \subseteq crowd
                 /\ \A t \in e.expiresAt : askedAt + SESSION_CACHE_TTL <= t
      <4>1. CASE MAX_SESSION_CACHE_ENTRIES <= Cardinality(crowd')
        BY <4>1 DEF Remembered
      <4>2. QED
        BY <2>2, <2>4, <3>1, <4>1
    <3>2. QED
      BY <2>1, <2>2, <2>3, <3>1 DEF Remembered
  <2>6. QED
    BY <1>2, <1>4, <1>8, <1>9, <2>1, <2>5 DEF OfferInv
<1>10. CASE ~(phase # "idle" /\ job = "none")
  <2>1. /\ settling' \in 0 .. Len(builds')
        /\ phase # "idle" => challenge \in 1 .. Len(builds) /\ challenge \in 1 .. Len(builds')
    BY <1>2, <1>4 DEF OfferInv
  <2>2. QED
    BY <1>2, <1>4, <1>7, <1>8, <1>10, <2>1 DEF OfferInv
<1>11. QED
  BY <1>9, <1>10

LEMMA ServerRestartsOffer == ASSUME Inv, OfferInv, ServerRestarts PROVE OfferInv'
<1>1. /\ crowd' = crowd \cup {MySession} /\ CacheRestart
      /\ UNCHANGED <<now, phase, payment, challenge, askedAt, settling>>
      /\ CacheInv /\ IsFiniteSet(crowd)
  BY DEF ServerRestarts, OfferInv, buyerVars
<1>2. /\ CacheInv' /\ Len(builds') = Len(builds) /\ sessionCache' = {}
      /\ \A b \in 1 .. Len(builds) : builds[b] # "building" => builds'[b] = builds[b]
  BY <1>1, RestartCache
<1>3. IsFiniteSet(crowd') /\ MySession \in crowd'
  BY <1>1, FS_AddElement
<1>4. Remembered'
  BY <1>3 DEF Remembered
<1>5. phase = "signing" \/ payment # {} => builds'[challenge] = "built"
  BY <1>2 DEF OfferInv
<1>6. QED
  BY <1>1, <1>2, <1>3, <1>4, <1>5 DEF OfferInv, Keys

(* An offer that is signed later than it was asked for is kept longer.     *)
LEMMA BuildEndsOffer == ASSUME Inv, OfferInv, BuildEnds PROVE OfferInv'
<1>1. /\ BuildSucceeds(now) \/ BuildFails
      /\ UNCHANGED <<now, phase, payment, challenge, askedAt, settling, job, crowd>>
      /\ CacheInv /\ now \in Int
  BY DEF BuildEnds, OfferInv, Inv, PhaseOK, buyerVars, serverVars
<1>2. ASSUME CacheInv', Len(builds') = Len(builds),
             \A b \in 1 .. Len(builds) : builds[b] # "building" => builds'[b] = builds[b],
             Keys(sessionCache') \subseteq Keys(sessionCache),
             phase # "idle" /\ job = "none" /\ Remembered => Remembered'
      PROVE  OfferInv'
  <2>1. phase = "signing" \/ payment # {} => builds'[challenge] = "built"
    BY <1>2 DEF OfferInv
  <2>2. phase = "idle" => MySession \notin Keys(sessionCache')
    BY <1>2 DEF OfferInv
  <2>3. QED
    BY <1>1, <1>2, <2>1, <2>2 DEF OfferInv
<1>3. CASE BuildSucceeds(now)
  <2>1. /\ CacheInv' /\ Len(builds') = Len(builds)
        /\ \A b \in 1 .. Len(builds) : builds[b] # "building" => builds'[b] = builds[b]
        /\ \A e \in sessionCache : \E r \in sessionCache' :
             /\ r.key = e.key /\ r.build = e.build /\ r.after = e.after
             /\ r.expiresAt \in {e.expiresAt, {now + SESSION_CACHE_TTL}}
        /\ Keys(sessionCache') = Keys(sessionCache)
    BY <1>1, <1>3, SucceedsCache
  <2>2. ASSUME phase # "idle", Remembered PROVE Remembered'
    <3>1. challenge \in 1 .. Len(builds) /\ askedAt + SESSION_CACHE_TTL <= now + SESSION_CACHE_TTL
      BY <1>1, <2>2, SessionCacheAssumption DEF OfferInv
    <3>2. ASSUME NEW e \in sessionCache, e.key = MySession, e.build = challenge,
                 e.after \subseteq crowd, \A t \in e.expiresAt : askedAt + SESSION_CACHE_TTL <= t
          PROVE  Remembered'
      <4>1. PICK r \in sessionCache' :
              /\ r.key = e.key /\ r.build = e.build /\ r.after = e.after
              /\ r.expiresAt \in {e.expiresAt, {now + SESSION_CACHE_TTL}}
        BY <2>1
      <4>2. \A t \in r.expiresAt : askedAt + SESSION_CACHE_TTL <= t
        BY <3>1, <3>2, <4>1
      <4>3. QED
        BY <1>1, <3>2, <4>1, <4>2 DEF Remembered
    <3>3. builds[challenge] = "failed" => builds'[challenge] = "failed"
      BY <2>1, <3>1
    <3>4. QED
      BY <1>1, <2>2, <3>2, <3>3 DEF Remembered
  <2>3. QED
    BY <1>2, <2>1, <2>2
<1>4. CASE BuildFails
  <2>1. /\ CacheInv' /\ Len(builds') = Len(builds)
        /\ \A b \in 1 .. Len(builds) : builds[b] # "building" => builds'[b] = builds[b]
        /\ \A e \in sessionCache : builds'[e.build] # "failed" =>
             \E r \in sessionCache' : SameEntry(r, e) /\ r.after \subseteq e.after
        /\ Keys(sessionCache') \subseteq Keys(sessionCache)
    BY <1>1, <1>4, FailsCache
  <2>2. ASSUME phase # "idle", Remembered PROVE Remembered'
    <3>1. challenge \in 1 .. Len(builds)
      BY <2>2 DEF OfferInv
    <3>2. ASSUME NEW e \in sessionCache, e.key = MySession, e.build = challenge,
                 e.after \subseteq crowd, \A t \in e.expiresAt : askedAt + SESSION_CACHE_TTL <= t,
                 builds'[challenge] # "failed"
          PROVE  Remembered'
      <4>1. PICK r \in sessionCache' : SameEntry(r, e) /\ r.after \subseteq e.after
        BY <2>1, <3>2
      <4>2. /\ r.key = MySession /\ r.build = challenge' /\ r.after \subseteq crowd'
            /\ \A t \in r.expiresAt : askedAt' + SESSION_CACHE_TTL <= t
        BY <1>1, <3>2, <4>1 DEF SameEntry
      <4>3. QED
        BY <4>2 DEF Remembered
    <3>3. builds'[challenge] = "failed" => Remembered'
      BY <1>1 DEF Remembered
    <3>4. builds[challenge] = "failed" => builds'[challenge] = "failed"
      BY <2>1, <3>1
    <3>5. QED
      BY <1>1, <2>2, <3>2, <3>3, <3>4 DEF Remembered
  <2>3. QED
    BY <1>2, <2>1, <2>2
<1>5. QED
  BY <1>1, <1>3, <1>4

LEMMA StepOffer == Inv /\ OfferInv /\ [Next]_vars => OfferInv'
<1>1. SUFFICES ASSUME Inv, OfferInv, [Next]_vars PROVE OfferInv'
  OBVIOUS
<1>2. now \in Int /\ now <= now /\ now <= now + 1 /\ now + 1 \in Int
  BY <1>1 DEF Inv, PhaseOK
<1>3. CASE Ask
  BY <1>1, <1>3, AskOffer
<1>4. CASE ServerReceives
  BY <1>1, <1>4, ServerReceivesOffer
<1>5. CASE OthersAsk
  BY <1>1, <1>5, OthersAskOffer
<1>6. CASE ServerRestarts
  BY <1>1, <1>6, ServerRestartsOffer
<1>7. CASE BuildEnds
  BY <1>1, <1>7, BuildEndsOffer
<1>8. CASE handle402
  <2>1. /\ phase = "asked" /\ builds[challenge] = "built" /\ phase' \in {"signing", "done"}
        /\ UNCHANGED <<cacheVars, crowd, askedAt, challenge, settling, now, job, payment>>
    BY <1>8 DEF handle402, End, serverVars
  <2>2. QED
    BY <1>1, <1>2, <2>1, QuietOffer
<1>9. CASE AskFails \/ SignTokenAuth \/ SendRetry
  <2>1. /\ UNCHANGED <<cacheVars, crowd, askedAt, challenge, settling, now, job>>
        /\ phase \notin {"idle"} /\ phase' \notin {"idle", "signing"}
        /\ payment' = payment \/ phase = "signing"
    BY <1>9 DEF AskFails, SignTokenAuth, SendRetry, End, serverVars
  <2>2. QED
    BY <1>1, <1>2, <2>1, QuietOffer
<1>10. CASE RetryResponse \/ RetryBreaks \/ DirectAnswered \/ DirectTimesOut \/ DirectRead
  <2>1. /\ UNCHANGED <<cacheVars, crowd, askedAt, challenge, settling, now, job, payment>>
        /\ phase # "idle" /\ phase' \notin {"idle", "signing"}
    BY <1>10 DEF RetryResponse, RetryBreaks, DirectAnswered, DirectTimesOut, DirectRead, Recover5xx,
       synthesizeCommitFallbackResponse, End, serverVars
  <2>2. QED
    BY <1>1, <1>2, <2>1, QuietOffer
<1>11. CASE ServerValidates \/ ServerReplies
  <2>1. /\ UNCHANGED <<cacheVars, crowd, askedAt, challenge, settling, now, phase, payment>>
        /\ job' # "none"
    BY <1>11 DEF ServerValidates, ServerReplies, Respond, buyerVars
  <2>2. QED
    BY <1>1, <1>2, <2>1, QuietOffer
<1>12. CASE PaysElsewhere \/ Index \/ Tick \/ (\E c \in Callers : Check(c) \/ Land(c))
            \/ UNCHANGED vars
  <2>1. /\ UNCHANGED <<cacheVars, crowd, askedAt, challenge, settling, phase, payment, job>>
        /\ now' = now \/ now' = now + 1
    BY <1>12 DEF PaysElsewhere, Index, Tick, Check, Land, vars, buyerVars, serverVars
  <2>2. now' \in Int /\ now <= now'
    BY <1>2, <2>1
  <2>3. QED
    BY <1>1, <2>1, <2>2, QuietOffer
<1>13. QED
  BY <1>1, <1>3, <1>4, <1>5, <1>6, <1>7, <1>8, <1>9, <1>10, <1>11, <1>12 DEF Next, BuyerStep

LEMMA OfferInvariance == Spec => [](Inv /\ OfferInv)
  BY InitInv, InitOffer, StepInv, StepOffer, PTL DEF Spec

(* A key has one entry, so that what is remembered is what a request gets. *)
LEMMA GetsItsOffer ==
  ASSUME Inv, OfferInv, ServerReceives,
         ~ askedAt + SESSION_CACHE_TTL <= now, MySession \notin crowd,
         ~ MAX_SESSION_CACHE_ENTRIES <= Cardinality(crowd)
  PROVE  settling' = challenge
<1>1. /\ payment # {} /\ job = "none" /\ phase # "idle" /\ builds[challenge] = "built"
      /\ settling' = OfferFor(MySession, now) /\ CacheInv /\ now \in Int /\ Remembered
  BY DEF ServerReceives, OfferInv, Inv, PhaseOK
<1>2. PICK e \in sessionCache :
        /\ e.key = MySession /\ e.build = challenge
        /\ \A t \in e.expiresAt : askedAt + SESSION_CACHE_TTL <= t
  BY <1>1 DEF Remembered
<1>3. /\ e.expiresAt \subseteq Int /\ askedAt \in Int /\ SESSION_CACHE_TTL \in Nat
  BY SessionCacheAssumption DEF OfferInv, CacheInv, MapOK, CacheEntry
<1>4. Live(e, now)
  <2>1. ASSUME NEW t \in e.expiresAt PROVE now < t
    BY <1>1, <1>2, <1>3
  <2>2. QED
    BY <2>1 DEF Live
<1>5. PICK r \in pruneExpiredSessions(now) : SameEntry(r, e)
  BY <1>1, <1>4, PrunedOK
<1>6. MapOK(pruneExpiredSessions(now)) /\ r.key = MySession /\ r.build = challenge
  BY <1>1, <1>2, <1>5, PrunedOK DEF SameEntry
<1>7. Hits(MySession, now) = {r}
  BY <1>6 DEF Hits, MapOK
<1>8. QED
  BY <1>1, <1>6, <1>7 DEF OfferFor

(* The retry is settled against the offer of the challenge, unless the     *)
(* buyer took longer than the cache keeps it, the server restarted, or as  *)
(* many other sessions came in between as the cache has room for: for any  *)
(* room, lifetime, number of sessions and outcome of the builds.           *)
THEOREM OfferKept == Spec => SessionKeepsItsOffer
<1>1. ASSUME Inv, OfferInv, [Next]_vars, settling' # settling PROVE ServerReceives
  BY <1>1 DEF Next, BuyerStep, vars, Ask, AskFails, handle402, SignTokenAuth, SendRetry,
     RetryResponse, RetryBreaks, DirectAnswered, DirectTimesOut, DirectRead, Recover5xx,
     synthesizeCommitFallbackResponse, End, ServerValidates, ServerReplies, ServerRestarts, Check,
     Land, Tick, PaysElsewhere, Index, OthersAsk, BuildEnds, serverVars
<1>2. ASSUME Inv, OfferInv, [Next]_vars, settling' # settling
      PROVE  \/ settling' = challenge
             \/ now >= askedAt + SESSION_CACHE_TTL
             \/ MySession \in crowd
             \/ Cardinality(crowd) >= MAX_SESSION_CACHE_ENTRIES
  BY <1>1, <1>2, GetsItsOffer
<1>3. Inv /\ OfferInv /\ [Next]_vars =>
        [settling' # settling =>
           \/ settling' = challenge
           \/ now >= askedAt + SESSION_CACHE_TTL
           \/ MySession \in crowd
           \/ Cardinality(crowd) >= MAX_SESSION_CACHE_ENTRIES]_vars
  BY <1>2
<1>4. QED
  BY OfferInvariance, <1>3, PTL DEF Spec, SessionKeepsItsOffer

-----------------------------------------------------------------------------
Shape ==
  /\ now \in setup.start .. setup.end /\ askedAt \in 0 .. now /\ signedAt \in 0 .. now
  /\ tokenNonce \in {0, 1} /\ nonceRead \in 0 .. tokenNonce
  /\ job \in {"none", "resolving", "relayed", "answered", "lost"}
  /\ outcome.status \in {"none", "200", "4xx", "5xx", "threw"}
  /\ checked \in [Callers -> SUBSET {"passed", "refused"}]
  /\ funded \in BOOLEAN /\ visible \in BOOLEAN

LEMMA InitShape == Init => Shape
<1>1. SUFFICES ASSUME Init PROVE Shape
  OBVIOUS
<1>2. now = setup.start /\ now \in Nat /\ setup.end \in Nat /\ now <= setup.end
  BY <1>1, PaymentAssumption DEF Init
<1>3. now \in setup.start .. setup.end /\ 0 \in 0 .. now /\ 0 \in 0 .. 0
  BY <1>2
<1>4. QED
  BY <1>1, <1>3 DEF Init, Shape, NoOutcome

LEMMA StepShape == Inv /\ Shape /\ [Next]_vars => Shape'
<1>1. SUFFICES ASSUME Inv, Shape, [Next]_vars PROVE Shape'
  OBVIOUS
<1>2. now \in Nat /\ setup.start \in Nat /\ setup.end \in Nat /\ now \in 0 .. now
  BY <1>1, PaymentAssumption DEF Inv, PhaseOK, Shape
<1>3. CASE Ask \/ AskFails
  <2>1. /\ UNCHANGED <<setup, now, signedAt, nonceRead, tokenNonce, job, checked, funded, visible>>
        /\ askedAt' \in {askedAt, now} /\ outcome'.status \in {outcome.status, "5xx"}
    BY <1>3 DEF Ask, AskFails, End, serverVars, chainVars
  <2>2. QED
    BY <1>1, <1>2, <2>1 DEF Shape
<1>4. CASE handle402
  <2>1. /\ UNCHANGED <<setup, now, askedAt, tokenNonce, job, checked, funded, visible>>
        /\ signedAt' \in {signedAt, now} /\ nonceRead' \in {nonceRead, tokenNonce}
        /\ outcome'.status \in {outcome.status, "threw"}
    BY <1>4 DEF handle402, End, serverVars, chainVars
  <2>2. tokenNonce \in 0 .. tokenNonce
    BY <1>1 DEF Shape
  <2>3. QED
    BY <1>1, <1>2, <2>1, <2>2 DEF Shape
<1>5. CASE SignTokenAuth \/ SendRetry \/ RetryResponse \/ RetryBreaks \/ DirectAnswered
           \/ DirectTimesOut \/ DirectRead
  <2>1. /\ UNCHANGED <<setup, now, askedAt, signedAt, nonceRead, tokenNonce, job, checked, funded,
                       visible>>
        /\ outcome'.status \in {outcome.status, "threw", "5xx", "200", answer.status}
    BY <1>5 DEF SignTokenAuth, SendRetry, RetryResponse, RetryBreaks, DirectAnswered,
       DirectTimesOut, DirectRead, Recover5xx, synthesizeCommitFallbackResponse, End, serverVars,
       chainVars
  <2>2. answer.status \in {"none", "200", "4xx", "5xx"}
    BY <1>1 DEF Inv, AnswerOK
  <2>3. QED
    BY <1>1, <2>1, <2>2 DEF Shape
<1>6. CASE ServerReceives \/ ServerValidates \/ ServerReplies \/ ServerRestarts
  <2>1. /\ UNCHANGED <<setup, now, askedAt, signedAt, nonceRead, tokenNonce, checked, funded,
                       visible, outcome>>
        /\ job' \in {job, "resolving", "relayed", "answered", "lost"}
    BY <1>6 DEF ServerReceives, ServerValidates, ServerReplies, ServerRestarts, Respond, buyerVars,
       chainVars
  <2>2. QED
    BY <1>1, <2>1 DEF Shape
<1>7. CASE \E c \in Callers : Check(c)
  <2>1. PICK c \in Callers :
          checked' = [checked EXCEPT ![c] = @ \cup {IF Passes(c) THEN "passed" ELSE "refused"}]
    BY <1>7 DEF Check
  <2>2. UNCHANGED <<setup, now, askedAt, signedAt, nonceRead, tokenNonce, funded, visible, outcome,
                    job>>
    BY <1>7 DEF Check, buyerVars, chainVars, serverVars
  <2>3. checked' \in [Callers -> SUBSET {"passed", "refused"}]
    BY <1>1, <2>1 DEF Shape
  <2>4. QED
    BY <1>1, <2>2, <2>3 DEF Shape
<1>8. CASE Tick
  <2>1. /\ UNCHANGED <<setup, askedAt, signedAt, nonceRead, tokenNonce, checked, funded, visible,
                       outcome, job>>
        /\ now < setup.end /\ now' = now + 1
    BY <1>8 DEF Tick, buyerVars, chainVars, serverVars
  <2>2. now' \in setup.start .. setup.end /\ askedAt \in 0 .. now' /\ signedAt \in 0 .. now'
    BY <1>1, <1>2, <2>1 DEF Shape
  <2>3. QED
    BY <1>1, <2>1, <2>2 DEF Shape
<1>9. CASE PaysElsewhere
  <2>1. /\ UNCHANGED <<setup, now, askedAt, signedAt, nonceRead, checked, visible, outcome, job>>
        /\ \/ tokenNonce' = 1 /\ funded' = funded
           \/ tokenNonce' = tokenNonce /\ funded' = FALSE
    BY <1>9 DEF PaysElsewhere, buyerVars, serverVars
  <2>2. nonceRead \in 0 .. tokenNonce'
    BY <1>1, <2>1 DEF Shape
  <2>3. QED
    BY <1>1, <2>1, <2>2 DEF Shape
<1>10. CASE Index \/ (\E c \in Callers : Land(c)) \/ OthersAsk \/ BuildEnds \/ UNCHANGED vars
  <2>1. /\ UNCHANGED <<setup, now, askedAt, signedAt, nonceRead, tokenNonce, checked, funded,
                       outcome, job>>
        /\ visible' \in {visible, TRUE}
    BY <1>10 DEF Index, Land, OthersAsk, BuildEnds, vars, buyerVars, serverVars, chainVars
  <2>2. QED
    BY <1>1, <2>1 DEF Shape
<1>11. QED
  BY <1>1, <1>3, <1>4, <1>5, <1>6, <1>7, <1>8, <1>9, <1>10 DEF Next, BuyerStep

(* The shape of the state; the session cache never holds more than it may, *)
(* in whatever order requests, builds, expiries and restarts come.         *)
THEOREM TypeCorrect == Spec => []TypeOK
<1>1. ASSUME Inv, OfferInv, Shape PROVE TypeOK
  <2>1. Cardinality(payment) <= 1
    <3>1. Cardinality(payment) = 0 \/ Cardinality(payment) = 1
      BY <1>1, FS_EmptySet, FS_Singleton DEF Inv, PayloadOK
    <3>2. QED
      BY <3>1
  <2>2. challenge \in 0 .. Len(builds) /\ settling \in 0 .. Len(builds)
    <3>1. Len(builds) \in Nat
      BY <1>1 DEF OfferInv, CacheInv
    <3>2. QED
      BY <1>1, <3>1 DEF OfferInv
  <2>3. QED
    BY <1>1, <2>1, <2>2 DEF TypeOK, Inv, PhaseOK, AnswerOK, OfferInv, CacheInv, Shape
<1>2. QED
  BY InitInv, InitOffer, InitShape, StepInv, StepOffer, StepShape, <1>1, PTL DEF Spec
=============================================================================
