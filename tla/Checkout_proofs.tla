---------------------------- MODULE Checkout_proofs ----------------------------
(***************************************************************************)
(* The buyer agents keep their word to their operator, for any number of   *)
(* runs, any wallet, quote and session offer: nothing is spent outside the *)
(* guardrails, and a run that says nothing moved has spent nothing,        *)
(* whatever the terminal answers and does with what it was handed.         *)
(***************************************************************************)
EXTENDS Checkout, TLAPS, FiniteSetTheorems

(* The authorization is over the amount, the token and the chain that the  *)
(* guardrails have passed.                                                 *)
Guarded(p) ==
  LET authorized == p.tokenAuth.sig.over
  IN  /\ authorized.chainId = Chain /\ authorized.token = USDC
      /\ authorized.value = p.tokenAuth.data.value
      /\ p.tokenAuth.data.value \in Nat
      /\ 0 < authorized.value /\ authorized.value <= MAX_ATOMIC

StepsOK ==
  /\ setup \in Setups /\ current \in Runs
  /\ step \in {"browse", "create", "guard", "settle", "answer", "confirm", "redeem", "ended"}
  /\ balance \in 0 .. setup.balance /\ polls \in 0 .. CONFIRM_ATTEMPTS
  /\ verdict \in [Runs -> {"none", "nothing moved", "failed", "commit stands", "redeem stored"}]

(* What has been signed, handed over and committed.                        *)
MoneyOK ==
  /\ session \subseteq {setup.offered}
  /\ step = "guard" => session # {}
  /\ Cardinality(payment) <= 1 /\ \A p, q \in payment : p = q
  /\ \A p \in payment : Guarded(p)
  /\ \A h \in handed : h.run \in Runs /\ Guarded(h.request.body)
  /\ commits \subseteq handed

(* Nothing is said of a run before its end, and "nothing moved" only of a  *)
(* run that has handed over nothing; a run hands over one request.         *)
WordsOK ==
  /\ \A r \in Runs : r > current \/ (r = current /\ step # "ended") => verdict[r] = "none"
  /\ \A h \in handed :
       /\ h.run <= current /\ verdict[h.run] # "nothing moved"
       /\ h.run = current => step \in {"answer", "confirm", "redeem", "ended"}
  /\ \A h, k \in handed : h.run = k.run => h = k

Inv == StepsOK /\ MoneyOK /\ WordsOK

-----------------------------------------------------------------------------
LEMMA RunNumbers == Runs \subseteq Nat
  BY CheckoutAssumption

LEMMA LaterRuns == \A r, q \in Runs : r > q => r # q
  BY RunNumbers

LEMMA OneOrNone == ASSUME NEW x PROVE Cardinality({}) <= 1 /\ Cardinality({x}) <= 1
<1>1. Cardinality({}) = 0 /\ Cardinality({x}) = 1
  BY FS_EmptySet, FS_Singleton
<1>2. QED
  BY <1>1

LEMMA InitInv == Init => Inv
<1>1. SUFFICES ASSUME Init PROVE Inv
  OBVIOUS
<1>2. StepsOK
  BY <1>1, CheckoutAssumption DEF Init, StepsOK
<1>3. MoneyOK
  BY <1>1, FS_EmptySet DEF Init, MoneyOK
<1>4. WordsOK
  BY <1>1 DEF Init, WordsOK
<1>5. QED
  BY <1>2, <1>3, <1>4 DEF Inv

(* The wallet signs an ERC-3009 authorization or nothing.                  *)
LEMMA OnlyErc3009 ==
  ASSUME NEW offer, CanPay(offer, Config)
  PROVE  pickStrategy(offer, Config) = "erc3009"
<1>1. PossibleStrategies(offer, Config) = {"erc3009"}
  BY DEF CanPay, PossibleStrategies, Config, strategyIsAvailable
<1>2. DOMAIN STRATEGY_PREFERENCE = 1 .. 3 /\ STRATEGY_PREFERENCE[1] = "erc3009"
      /\ \A i \in 1 .. 3 : STRATEGY_PREFERENCE[i] = "erc3009" => i = 1
  BY DEF STRATEGY_PREFERENCE
<1>3. pickStrategy(offer, Config) = Preferred(STRATEGY_PREFERENCE, {"erc3009"})
  BY <1>1 DEF pickStrategy, Config
<1>4. QED
  BY <1>2, <1>3 DEF Preferred

LEMMA SignedIsGuarded ==
  ASSUME NEW offer, offer.amount \in Nat, NEW nonces, NEW time,
         WithinGuardrails(offer), CanPay(offer, Config)
  PROVE  Guarded(assemblePayload(offer, Config, nonces, time))
<1>1. assemblePayload(offer, Config, nonces, time).tokenAuth
        = signErc3009(offer, Buyer, nonces.tokenAuth, time)
  BY OnlyErc3009 DEF assemblePayload, buildAndSignTokenAuth, Config
<1>2. QED
  BY <1>1 DEF Guarded, WithinGuardrails, signErc3009, Sign, Erc3009Message

-----------------------------------------------------------------------------
(* A step of the script that leaves handed and commits alone, and either   *)
(* goes on or says its last words.                                         *)
LEMMA ScriptStep ==
  ASSUME Inv, UNCHANGED <<setup, current, balance, session, payment, handed, commits>>,
         step # "ended", polls' \in 0 .. CONFIRM_ATTEMPTS,
         NEW words \in {"nothing moved", "failed", "commit stands", "redeem stored"},
         \/ Says(words)
         \/ /\ step' \in {"browse", "create", "settle", "answer", "confirm", "redeem"}
            /\ UNCHANGED verdict,
         words = "nothing moved" => step \in {"browse", "create", "guard", "settle"},
         step \in {"answer", "confirm", "redeem"} =>
           step' \in {"answer", "confirm", "redeem", "ended"}
  PROVE  Inv'
<1>1. StepsOK'
  BY DEF Inv, StepsOK, Says
<1>2. MoneyOK'
  BY DEF Inv, MoneyOK, Says
<1>3. WordsOK /\ current \in Nat /\ current \in Runs
  BY CheckoutAssumption DEF Inv, StepsOK
<1>4. \A h \in handed : h.run \in Runs /\ h.run \in Nat
  BY CheckoutAssumption DEF Inv, MoneyOK
<1>5. CASE Says(words)
  <2>1. /\ verdict'[current] = words
        /\ \A r \in Runs : r # current => verdict'[r] = verdict[r]
    BY <1>3, <1>5 DEF Inv, StepsOK, Says
  <2>2. \A r \in Runs : r > current => r # current
    BY <1>3, LaterRuns
  <2>3. \A r \in Runs : r > current \/ (r = current /\ step' # "ended") => verdict'[r] = "none"
    BY <1>3, <1>5, <2>1, <2>2 DEF WordsOK, Says
  <2>4. ASSUME NEW h \in handed PROVE verdict'[h.run] # "nothing moved"
    <3>1. CASE h.run = current
      <4>1. step \in {"answer", "confirm", "redeem", "ended"}
        BY <1>3, <3>1 DEF WordsOK
      <4>2. QED
        BY <2>1, <3>1, <4>1
    <3>2. CASE h.run # current
      <4>1. verdict[h.run] # "nothing moved"
        BY <1>3 DEF WordsOK
      <4>2. QED
        BY <1>4, <2>1, <3>2, <4>1
    <3>3. QED
      BY <3>1, <3>2
  <2>5. step' = "ended"
    BY <1>5 DEF Says
  <2>6. WordsOK'
    BY <1>3, <2>3, <2>4, <2>5 DEF WordsOK
  <2>7. QED
    BY <1>1, <1>2, <2>6 DEF Inv
<1>6. CASE UNCHANGED verdict /\ step' # "ended"
  <2>1. WordsOK'
    BY <1>3, <1>6 DEF WordsOK
  <2>2. QED
    BY <1>1, <1>2, <2>1 DEF Inv
<1>7. QED
  BY <1>5, <1>6

-----------------------------------------------------------------------------
LEMMA CreateInv == ASSUME Inv, Create PROVE Inv'
<1>1. CASE Says("nothing moved") /\ UNCHANGED session
  BY <1>1, ScriptStep DEF Create, Says, Inv, StepsOK
<1>2. CASE session' = {setup.offered} /\ step' = "guard" /\ UNCHANGED verdict
  <2>1. StepsOK'
    BY <1>2 DEF Create, Inv, StepsOK
  <2>2. MoneyOK'
    BY <1>2 DEF Create, Inv, MoneyOK
  <2>3. WordsOK'
    BY <1>2 DEF Create, Inv, WordsOK
  <2>4. QED
    BY <2>1, <2>2, <2>3 DEF Inv
<1>3. QED
  BY <1>1, <1>2 DEF Create

(* What is signed has passed the guardrails as it stands in the offer.     *)
LEMMA AuthorizeInv == ASSUME Inv, Authorize PROVE Inv'
<1>1. CASE Says("nothing moved") /\ UNCHANGED payment
  BY <1>1, ScriptStep DEF Authorize, Says, Inv, StepsOK
<1>2. CASE /\ WithinGuardrails(Offer) /\ CanPay(Offer, Config)
           /\ payment' = {assemblePayload(Offer, Config,
                                          [metaTx |-> current, tokenAuth |-> current], 0)}
           /\ step' = "settle" /\ UNCHANGED verdict
  <2>1. Offer = setup.offered /\ Offer.amount \in Nat
    BY CheckoutAssumption DEF Authorize, Inv, MoneyOK, StepsOK, Offer
  <2>2. \A p \in payment' : Guarded(p)
    BY <1>2, <2>1, SignedIsGuarded
  <2>3. Cardinality(payment') <= 1 /\ \A p, q \in payment' : p = q
    BY <1>2, OneOrNone
  <2>4. StepsOK'
    BY <1>2 DEF Authorize, Inv, StepsOK
  <2>5. MoneyOK'
    BY <1>2, <2>2, <2>3 DEF Authorize, Inv, MoneyOK, Guarded
  <2>6. WordsOK'
    BY <1>2 DEF Authorize, Inv, WordsOK
  <2>7. QED
    BY <2>4, <2>5, <2>6 DEF Inv
<1>3. QED
  BY <1>1, <1>2 DEF Authorize

(* The step after which a run can no longer say that nothing moved.        *)
LEMMA CompleteInv == ASSUME Inv, Complete PROVE Inv'
<1>1. CASE Says("nothing moved") /\ UNCHANGED handed
  BY <1>1, ScriptStep DEF Complete, Says, Inv, StepsOK
<1>2. CASE /\ handed' = handed \cup {[run |-> current, request |-> q] : q \in CompleteRequests}
           /\ step' = "answer" /\ UNCHANGED verdict
  <2>1. \A h \in handed' \ handed : h.run = current /\ Guarded(h.request.body)
    <3>1. SUFFICES ASSUME NEW h \in handed' \ handed
                   PROVE  h.run = current /\ Guarded(h.request.body)
      OBVIOUS
    <3>2. PICK q \in CompleteRequests : h = [run |-> current, request |-> q]
      BY <1>2, <3>1
    <3>3. PICK p \in payment : q = signRequest("complete", current, p)
      BY <3>2 DEF CompleteRequests
    <3>4. q.body = p
      BY <3>3 DEF signRequest
    <3>5. h.run = current /\ h.request.body = p
      BY <3>2, <3>4
    <3>6. QED
      BY <3>5 DEF Inv, MoneyOK
  <2>2. \A h, k \in handed' \ handed : h = k
    BY <1>2 DEF CompleteRequests, Inv, MoneyOK
  <2>3. \A h \in handed : h.run # current
    BY DEF Complete, Inv, WordsOK
  <2>4. current \in Runs /\ current <= current /\ verdict[current] = "none"
    <3>1. current \in Runs /\ verdict[current] = "none"
      BY DEF Complete, Inv, StepsOK, WordsOK
    <3>2. current \in Nat
      BY <3>1, RunNumbers
    <3>3. QED
      BY <3>1, <3>2
  <2>5. StepsOK'
    BY <1>2 DEF Complete, Inv, StepsOK
  <2>6. MoneyOK'
    BY <1>2, <2>1, <2>4 DEF Complete, Inv, MoneyOK, Guarded
  <2>7. \A h, k \in handed' : h.run = k.run => h = k
    BY <2>1, <2>2, <2>3 DEF Inv, WordsOK
  <2>8. WordsOK'
    BY <1>2, <2>1, <2>4, <2>7 DEF Complete, Inv, WordsOK
  <2>9. QED
    BY <2>5, <2>6, <2>8 DEF Inv
<1>3. QED
  BY <1>1, <1>2 DEF Complete

LEMMA AnswersInv ==
  ASSUME Inv, CompleteAnswered \/ resolveExchangeId \/ doRedeem PROVE Inv'
<1>1. /\ polls \in 0 .. CONFIRM_ATTEMPTS /\ 0 \in 0 .. CONFIRM_ATTEMPTS
      /\ polls < CONFIRM_ATTEMPTS => polls + 1 \in 0 .. CONFIRM_ATTEMPTS
  <2>1. polls \in 0 .. CONFIRM_ATTEMPTS /\ CONFIRM_ATTEMPTS \in Nat
    BY CheckoutAssumption DEF Inv, StepsOK
  <2>2. QED
    BY <2>1
<1>2. CASE CompleteAnswered
  <2>0. polls' \in 0 .. CONFIRM_ATTEMPTS /\ step = "answer"
        /\ UNCHANGED <<setup, current, balance, session, payment, handed, commits>>
    BY <1>1, <1>2 DEF CompleteAnswered
  <2>1. CASE Says("failed")
    BY <2>0, <2>1, ScriptStep DEF Says
  <2>2. CASE step' \in {"redeem", "confirm"} /\ UNCHANGED verdict
    BY <2>0, <2>2, ScriptStep DEF Says
  <2>3. CASE Says("commit stands")
    BY <2>0, <2>3, ScriptStep DEF Says
  <2>4. QED
    BY <1>2, <2>1, <2>2, <2>3 DEF CompleteAnswered
<1>3. CASE resolveExchangeId
  <2>1. polls' \in 0 .. CONFIRM_ATTEMPTS
    BY <1>1, <1>3 DEF resolveExchangeId
  <2>2. CASE Says("failed") \/ Says("commit stands")
    BY <1>3, <2>1, <2>2, ScriptStep DEF resolveExchangeId, Says
  <2>3. CASE step' \in {"redeem", "confirm"} /\ UNCHANGED verdict
    BY <1>3, <2>1, <2>3, ScriptStep DEF resolveExchangeId
  <2>4. QED
    BY <1>3, <2>2, <2>3 DEF resolveExchangeId
<1>4. CASE doRedeem
  BY <1>1, <1>4, ScriptStep DEF doRedeem, Says
<1>5. QED
  BY <1>2, <1>3, <1>4

LEMMA TerminalCommitsInv == ASSUME Inv, TerminalCommits PROVE Inv'
<1>1. PICK h \in handed \ commits :
        /\ h.request.body.tokenAuth.data.value <= balance
        /\ commits' = commits \cup {h}
        /\ balance' = balance - h.request.body.tokenAuth.data.value
  BY DEF TerminalCommits
<1>2. balance' \in 0 .. setup.balance
  <2>1. h.request.body.tokenAuth.data.value \in Nat
    BY <1>1 DEF Inv, MoneyOK, Guarded
  <2>2. balance \in 0 .. setup.balance /\ setup.balance \in Nat
    BY CheckoutAssumption DEF Inv, StepsOK
  <2>3. QED
    BY <1>1, <2>1, <2>2
<1>3. StepsOK'
  BY <1>2 DEF TerminalCommits, Inv, StepsOK
<1>4. MoneyOK'
  BY <1>1 DEF TerminalCommits, Inv, MoneyOK
<1>5. WordsOK'
  BY <1>1 DEF TerminalCommits, Inv, WordsOK
<1>6. QED
  BY <1>3, <1>4, <1>5 DEF Inv

LEMMA RerunInv == ASSUME Inv, Rerun PROVE Inv'
<1>1. current \in Nat /\ current' = current + 1 /\ step' = "browse"
  BY RunNumbers DEF Rerun, Inv, StepsOK
<1>2. StepsOK'
  <2>1. 0 \in 0 .. CONFIRM_ATTEMPTS
    BY CheckoutAssumption
  <2>2. QED
    BY <1>1, <2>1 DEF Rerun, Inv, StepsOK
<1>3. MoneyOK'
  BY <1>1, FS_EmptySet DEF Rerun, Inv, MoneyOK
<1>4. WordsOK'
  <2>1. \A h \in handed : h.run <= current' /\ h.run # current'
    <3>1. SUFFICES ASSUME NEW h \in handed PROVE h.run <= current' /\ h.run # current'
      OBVIOUS
    <3>2. h.run \in Nat /\ h.run <= current
      BY RunNumbers DEF Inv, MoneyOK, WordsOK
    <3>3. QED
      BY <1>1, <3>2
  <2>2. ASSUME NEW r \in Runs, r > current' \/ r = current' PROVE r > current
    <3>1. r \in Nat
      BY RunNumbers
    <3>2. QED
      BY <1>1, <2>2, <3>1
  <2>3. QED
    BY <1>1, <2>1, <2>2 DEF Rerun, Inv, WordsOK
<1>5. QED
  BY <1>2, <1>3, <1>4 DEF Inv

LEMMA StepInv == Inv /\ [Next]_vars => Inv'
<1>1. SUFFICES ASSUME Inv, [Next]_vars PROVE Inv'
  OBVIOUS
<1>2. CASE Browse
  BY <1>1, <1>2, ScriptStep DEF Browse, Says, Inv, StepsOK
<1>3. CASE Create
  BY <1>1, <1>3, CreateInv
<1>4. CASE Authorize
  BY <1>1, <1>4, AuthorizeInv
<1>5. CASE Complete
  BY <1>1, <1>5, CompleteInv
<1>6. CASE CompleteAnswered \/ resolveExchangeId \/ doRedeem
  BY <1>1, <1>6, AnswersInv
<1>7. CASE TerminalCommits
  BY <1>1, <1>7, TerminalCommitsInv
<1>8. CASE Rerun
  BY <1>1, <1>8, RerunInv
<1>9. CASE UNCHANGED vars
  BY <1>1, <1>9 DEF vars, Inv, StepsOK, MoneyOK, WordsOK, Guarded
<1>10. QED
  BY <1>1, <1>2, <1>3, <1>4, <1>5, <1>6, <1>7, <1>8, <1>9 DEF Next

LEMMA Invariance == Spec => []Inv
  BY InitInv, StepInv, PTL DEF Spec

(* The state of the scripts keeps its shape, whatever the terminal does.   *)
THEOREM TypeCorrect == Spec => []TypeOK
<1>1. Inv => TypeOK
  <2>1. SUFFICES ASSUME Inv PROVE TypeOK
    OBVIOUS
  <2>2. Cardinality(session) <= 1
    <3>1. session = {} \/ session = {setup.offered}
      BY <2>1 DEF Inv, MoneyOK
    <3>2. QED
      BY <3>1, OneOrNone
  <2>3. QED
    BY <2>1, <2>2 DEF Inv, StepsOK, MoneyOK, TypeOK
<1>2. QED
  BY <1>1, Invariance, PTL

(* A run that ended with "nothing moved" has no commit to its name and     *)
(* gets none later, and none is committed twice, whatever the terminal     *)
(* answers (the exits of purchase-ucp.ts and purchase.ts before COMPLETE). *)
THEOREM NothingMovedForGood == Spec => []NothingMovedIsTrue
<1>1. Inv => NothingMovedIsTrue
  <2>1. SUFFICES ASSUME Inv, NEW r \in Runs
                 PROVE  LET mine == {c \in commits : c.run = r}
                        IN  /\ verdict[r] = "nothing moved" => mine = {}
                            /\ \A c, d \in mine : c = d
    BY DEF NothingMovedIsTrue
  <2>2. \A c \in commits : verdict[c.run] # "nothing moved"
    BY <2>1 DEF Inv, MoneyOK, WordsOK
  <2>3. \A c, d \in commits : c.run = d.run => c = d
    BY <2>1 DEF Inv, MoneyOK, WordsOK
  <2>4. QED
    BY <2>2, <2>3
<1>2. QED
  BY <1>1, Invariance, PTL

(* Every commit is on the configured chain, in USDC and within the cap,    *)
(* however the session's offer differs from the quote.                     *)
THEOREM WithinTheGuardrails == Spec => []SpendsWithinGuardrails
<1>1. Inv => SpendsWithinGuardrails
  BY DEF Inv, MoneyOK, Guarded, SpendsWithinGuardrails
<1>2. QED
  BY <1>1, Invariance, PTL
=============================================================================
