-------------------------- MODULE MC_RedeemServer --------------------------
(***************************************************************************)
(* Small deployments of RedeemServer. Two voucher holders race to redeem   *)
(* while a third request of the same exchange waits behind them; options:  *)
(* one advertised, one merely registered.                                  *)
(***************************************************************************)
EXTENDS RedeemServer, TLC

CONSTANTS r1, r2, d1, p1, email, webhook

MCRedeems == {r1, r2}
MCOneRedeem == {r1}
MCOthers == {d1}
MCOtherActions == {"boson-raiseDispute", "boson-completeExchange"}
MCReplays == {p1}
MCOptions == {email, webhook}
MCAdvertised == {email}
NoRequests == {}

(* Every adapter implements onFulfill.                                     *)
Dispatching == {[registered |-> MCOptions, delivering |-> MCOptions]}
(* The host delivers out of band from what onCommit stored.                *)
OutOfBand == {[registered |-> MCOptions, delivering |-> {}]}
(* A redeployment may drop an adapter, or its onFulfill.                   *)
Redeployed == Dispatching \cup OutOfBand
  \cup {[registered |-> {webhook}, delivering |-> {webhook}]}

(* Environments: see RedeemServer.                                         *)
Calm == {}
Hostile == {"elsewhere", "lostAnswer", "ioFault", "crash", "anytimeReplay"}
Failing ==
  {"elsewhere", "lostAnswer", "ioFault", "crash", "ambiguousFailure", "unseeded",
   "volatileChannels"}

RedeemersAlike == Permutations(MCRedeems)
=============================================================================
