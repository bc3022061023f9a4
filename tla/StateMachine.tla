---------------------------- MODULE StateMachine ----------------------------
(***************************************************************************)
(* The exchange and dispute state machines every package of the repository *)
(* agrees on (core/src/state-machine): the composite client state, the     *)
(* action ids, who may invoke which action from where, and the state an    *)
(* action leaves the exchange in.                                          *)
(***************************************************************************)

PRE_COMMIT == "PRE_COMMIT"

ExchangeState ==
  {"COMMITTED", "REDEEMED", "COMPLETED", "DISPUTED", "CANCELLED", "REVOKED"}

DisputeState ==
  {"RESOLVING", "RESOLVED", "ESCALATED", "RETRACTED", "DECIDED", "REFUSED"}

NoDispute == "none"

(* A dispute sub-state is present exactly when the exchange is DISPUTED.   *)
ClientState ==
  [exchange : (ExchangeState \ {"DISPUTED"}) \cup {PRE_COMMIT},
   dispute  : {NoDispute}]
    \cup [exchange : {"DISPUTED"}, dispute : DisputeState]

InState(e) == [exchange |-> e, dispute |-> NoDispute]
InDispute(d) == [exchange |-> "DISPUTED", dispute |-> d]

COMMIT_ACTION_IDS ==
  {"boson-createOfferAndCommit", "boson-createOfferCommitAndRedeem"}

POST_COMMIT_ACTION_IDS ==
  {"boson-redeem", "boson-cancelVoucher", "boson-revokeVoucher",
   "boson-completeExchange", "boson-raiseDispute", "boson-resolveDispute",
   "boson-escalateDispute", "boson-retractDispute"}

EXCHANGE_ACTION_IDS == COMMIT_ACTION_IDS \cup POST_COMMIT_ACTION_IDS

ENTITY_ACTION_IDS == {"boson-withdrawFunds"}

ACTION_IDS == EXCHANGE_ACTION_IDS \cup ENTITY_ACTION_IDS

Side == {"client", "server"}

-----------------------------------------------------------------------------
(* Who may invoke what. The records are the tables of transitions.ts.      *)

CLIENT_BY_EXCHANGE ==
  [PRE_COMMIT |-> COMMIT_ACTION_IDS,
   COMMITTED  |-> {"boson-redeem", "boson-cancelVoucher"},
   REDEEMED   |-> {"boson-completeExchange", "boson-raiseDispute"},
   DISPUTED   |-> {},
   CANCELLED  |-> {},
   COMPLETED  |-> {},
   REVOKED    |-> {}]

CLIENT_BY_DISPUTE ==
  [RESOLVING |-> {"boson-resolveDispute", "boson-escalateDispute",
                  "boson-retractDispute"},
   ESCALATED |-> {},
   RESOLVED  |-> {"boson-withdrawFunds"},
   RETRACTED |-> {},
   DECIDED   |-> {},
   REFUSED   |-> {}]

SERVER_BY_EXCHANGE ==
  [PRE_COMMIT |-> {},
   COMMITTED  |-> {"boson-revokeVoucher"},
   REDEEMED   |-> {},
   DISPUTED   |-> {},
   CANCELLED  |-> {},
   COMPLETED  |-> {},
   REVOKED    |-> {}]

SERVER_BY_DISPUTE ==
  [RESOLVING |-> {"boson-resolveDispute"},
   ESCALATED |-> {},
   RESOLVED  |-> {"boson-withdrawFunds"},
   RETRACTED |-> {},
   DECIDED   |-> {},
   REFUSED   |-> {}]

legalActions(s, side) ==
  IF s.exchange = "DISPUTED"
    THEN IF side = "client" THEN CLIENT_BY_DISPUTE[s.dispute]
                            ELSE SERVER_BY_DISPUTE[s.dispute]
    ELSE IF side = "client" THEN CLIENT_BY_EXCHANGE[s.exchange]
                            ELSE SERVER_BY_EXCHANGE[s.exchange]

isLegalTransition(s, a, side) == a \in legalActions(s, side)

(* The state an exchange-keyed action leaves the exchange in.              *)
ACTION_POST_STATE ==
  [a \in EXCHANGE_ACTION_IDS |->
     CASE a = "boson-createOfferAndCommit"       -> InState("COMMITTED")
       [] a = "boson-createOfferCommitAndRedeem" -> InState("REDEEMED")
       [] a = "boson-redeem"                     -> InState("REDEEMED")
       [] a = "boson-cancelVoucher"              -> InState("CANCELLED")
       [] a = "boson-revokeVoucher"              -> InState("REVOKED")
       [] a = "boson-completeExchange"           -> InState("COMPLETED")
       [] a = "boson-raiseDispute"               -> InDispute("RESOLVING")
       [] a = "boson-resolveDispute"             -> InDispute("RESOLVED")
       [] a = "boson-escalateDispute"            -> InDispute("ESCALATED")
       [] a = "boson-retractDispute"             -> InDispute("RETRACTED")]
=============================================================================
