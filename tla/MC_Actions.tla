------------------------------ MODULE MC_Actions ------------------------------
(***************************************************************************)
(* Withdrawals by each kind of selector and route, with a second account   *)
(* that turns up, and every action of the buyer on an exchange.            *)
(***************************************************************************)
EXTENDS Actions

Seller == [id |-> "1", address |-> Account, otherRoles |-> {}, role |-> "seller"]
Buyer  == [id |-> "2", address |-> Account, otherRoles |-> {}, role |-> "buyer"]

(* A seller for whom the account is the clerk.                             *)
Clerk  == [id |-> "3", address |-> "assistant", otherRoles |-> {Account}, role |-> "seller"]

ById(e) == [by |-> "entityId", entityId |-> e]
ByAddress(role) == [by |-> "address", address |-> Account, role |-> role]

Base ==
  [action |-> "boson-withdrawFunds", route |-> "server", strategy |-> "none",
   read |-> "subgraph", sign |-> ByAddress(Absent), send |-> ByAddress(Absent),
   entities |-> {Seller}, joins |-> {Buyer},
   exchange |-> InDispute("RESOLVED"), funded |-> Tokens, sells |-> {}, skew |-> 0, end |-> 2]

Withdrawals ==
  {Base,
   [Base EXCEPT !.joins = {}, !.sells = Tokens],
   [Base EXCEPT !.entities = {Seller, Buyer}, !.sign = ByAddress("seller"),
                !.send = ByAddress("buyer")],
   [Base EXCEPT !.entities = {Seller, Buyer}, !.sign = ById("2"), !.send = ByAddress("seller")],
   [Base EXCEPT !.read = "server", !.entities = {Buyer}, !.joins = {},
                !.sells = {CHOOSE t \in Tokens : TRUE}, !.sign = ById("2")],
   [Base EXCEPT !.read = "server", !.route = "facilitator"],
   [Base EXCEPT !.entities = {Clerk}, !.sign = ByAddress("seller")],
   [Base EXCEPT !.joins = {Clerk}, !.read = "server", !.sign = ById("1")],
   [Base EXCEPT !.entities = {}, !.route = "facilitator", !.sign = ByAddress("buyer"),
                !.funded = {}, !.sells = {CHOOSE t \in Tokens : TRUE}]}

(* Each action from a state that allows it.                                *)
OnExchange ==
  {[Base EXCEPT !.action = a, !.route = "facilitator", !.funded = {},
                !.exchange = CHOOSE s \in ClientState : isLegalTransition(s, a, "client")]
     : a \in POST_COMMIT_ACTION_IDS \ {"boson-revokeVoucher"}}

(* An escalation whose caller adds the deposit, and clocks apart.          *)
Escalations ==
  {[Base EXCEPT !.action = "boson-escalateDispute", !.route = "facilitator", !.funded = {},
                !.strategy = "erc3009", !.exchange = InDispute("RESOLVING"),
                !.skew = d, !.end = 6] : d \in {-1, 0, 1}}

MCSetups == Withdrawals \cup OnExchange \cup Escalations
=============================================================================
