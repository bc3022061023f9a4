---------------------------- MODULE RelayContract ----------------------------
(***************************************************************************)
(* What a handler may rely on when it relays a signed meta-transaction     *)
(* through the facilitator: the contract executes it at most once, on      *)
(* behalf of one call; only that call is ever answered ok, and only once   *)
(* it has executed. Any other answer, a rejection included, says nothing:  *)
(* the meta-transaction may have executed, or may execute later.           *)
(***************************************************************************)
CONSTANTS Calls, Payloads, PayloadOf, NoCall

VARIABLES called, landedBy, reply

vars == <<called, landedBy, reply>>

Init ==
  /\ called = {}
  /\ landedBy = [p \in Payloads |-> NoCall]
  /\ reply = [c \in Calls |-> "none"]

Call(c) ==
  /\ c \notin called
  /\ called' = called \cup {c}
  /\ UNCHANGED <<landedBy, reply>>

Land(c) ==
  /\ c \in called
  /\ landedBy[PayloadOf[c]] = NoCall
  /\ landedBy' = [landedBy EXCEPT ![PayloadOf[c]] = c]
  /\ UNCHANGED <<called, reply>>

Accept(c) ==
  /\ c \in called /\ reply[c] = "none"
  /\ landedBy[PayloadOf[c]] = c
  /\ reply' = [reply EXCEPT ![c] = "ok"]
  /\ UNCHANGED <<called, landedBy>>

Fail(c) ==
  /\ c \in called /\ reply[c] = "none"
  /\ \E answer \in {"rejected", "threw"} : reply' = [reply EXCEPT ![c] = answer]
  /\ UNCHANGED <<called, landedBy>>

Next == \E c \in Calls : Call(c) \/ Land(c) \/ Accept(c) \/ Fail(c)

Spec == Init /\ [][Next]_vars
=============================================================================
