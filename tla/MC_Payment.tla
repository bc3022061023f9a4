------------------------------ MODULE MC_Payment ------------------------------
(***************************************************************************)
(* Purchases with every strategy, policy, front and kind of trouble. Each  *)
(* setup has one trouble of its own; the two calls, the broken connection  *)
(* and the lagging indexer are in all of them. Time starts at 2, so that a *)
(* lagging clock is still past the epoch.                                  *)
(***************************************************************************)
EXTENDS Payment, TLC

CONSTANTS o1, mine

Sessions == {mine, o1}

(* One channel with data, one without.                                     *)
Email == {("email" :> "address")}
Asks == [required |-> {"email"}, accepts |-> [email |-> {"address"}]]
EmailChannel == [id |-> "email", schema |-> {Asks}, validates |-> {Email}]
InlineChannel == [id |-> "inline", schema |-> Null, validates |-> {Null}]

MCClient ==
  [account |-> Buyer, redeemMode |-> "auto", maxAmount |-> {Amount}, forcedStrategy |-> {},
   tokenDomainResolver |-> TRUE, publicClient |-> TRUE,
   fulfillment |-> {[option |-> "email", data |-> Email]}]

Forced(s) == [MCClient EXCEPT !.forcedStrategy = {s}]

(* Time runs in the setups that are about time.                            *)
Base ==
  [buyer |-> MCClient, strategies |-> STRATEGIES, channels |-> <<"server", "facilitator">>,
   required |-> TRUE, catalog |-> <<EmailChannel, InlineChannel>>, negotiation |-> {},
   selected |-> "inline", flow |-> Absent, front |-> "wrapper", commitFallback |-> "auto", sdk |-> TRUE,
   serverSkew |-> 0, facilitatorSkew |-> 0, start |-> 2, end |-> 2, rival |-> "none",
   restarts |-> FALSE, signerFails |-> FALSE, others |-> {}]

(* One per strategy, the permit with a rival for its nonce.                *)
ByStrategy ==
  {[Base EXCEPT !.buyer = Forced(s), !.rival = IF s = "permit" THEN "nonce" ELSE "funds",
                !.end = IF s = "permit" THEN 5 ELSE 4]
     : s \in STRATEGIES}

(* The clocks of the two servers, up to the margin and beyond.             *)
Skewed ==
  {[Base EXCEPT !.serverSkew = d[1], !.facilitatorSkew = d[2], !.buyer = Forced(d[3]), !.end = 5]
     : d \in {<<-1, -1, "permit2">>, <<-2, -2, "erc3009">>, <<1, 1, "permit">>}}

Atomic == [MCClient EXCEPT !.redeemMode = "commit-and-redeem"]

Policies ==
  {[Base EXCEPT !.buyer = Atomic],
   [Base EXCEPT !.buyer = Atomic, !.flow = FLOW_A],
   [Base EXCEPT !.buyer = Atomic, !.catalog[1].validates = {}],
   [Base EXCEPT !.buyer.maxAmount = {Amount - 1}],
   [Base EXCEPT !.buyer.tokenDomainResolver = FALSE, !.strategies = {"erc3009", "permit"}],
   [Base EXCEPT !.required = FALSE, !.buyer.fulfillment = {}],
   [Base EXCEPT !.commitFallback = "off"],
   [Base EXCEPT !.channels = <<"server">>]}

(* A visitor of the paywall on a busy, and on a failing, server; one who   *)
(* picks what the paywall cannot ask for; and a server set up wrongly.     *)
Busy ==
  {[Base EXCEPT !.others = {o1, "no session"}, !.front = "paywall",
                !.end = 6],
   [Base EXCEPT !.restarts = TRUE, !.signerFails = TRUE, !.front = "paywall"],
   [Base EXCEPT !.front = "paywall", !.selected = "email"],
   [Base EXCEPT !.strategies = {}]}

(* A program that would rather take what it must not wait for, one that    *)
(* asks its user, one that knows the address, one that has a wrong one.    *)
Knows(context) ==
  [supports |-> {"email", "xmtp"}, prefer |-> <<"xmtp", "inline">>, agentContext |-> context,
   collectInteractive |-> {}]

Negotiators ==
  {[Base EXCEPT !.buyer = [Atomic EXCEPT !.fulfillment = {}], !.negotiation = {n}]
     : n \in {[Knows(<<>>) EXCEPT !.supports = {"email", "inline"}],
              [Knows(<<>>) EXCEPT !.collectInteractive = {("email" :> "address")}],
              Knows("email" :> "address" @@ "name" :> "n"), Knows("email" :> "garbled"),
              Knows(<<>>)}}

OtherClients ==
  {[Base EXCEPT !.sdk = FALSE, !.strategies = {"erc3009", "permit2"}, !.end = 3]}

MCSetups == ByStrategy \cup Skewed \cup Policies \cup Busy \cup Negotiators \cup OtherClients

(* A buyer who insists on the atomic flow.                                 *)
AtomicOnly == {[Base EXCEPT !.buyer = Atomic]}
=============================================================================
