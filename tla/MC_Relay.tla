------------------------------- MODULE MC_Relay -------------------------------
(***************************************************************************)
(* Two calls with the same signed payload and two attempts each, so that   *)
(* an abandoned attempt meets a retry of its own call and one of another.  *)
(***************************************************************************)
EXTENDS Relay

CONSTANTS c1, c2, m1

TwoCalls == {c1, c2}
ThePayload == {m1}
SamePayload == [c \in TwoCalls |-> m1]
=============================================================================
