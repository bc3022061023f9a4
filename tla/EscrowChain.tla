----------------------------- MODULE EscrowChain -----------------------------
(***************************************************************************)
(* One exchange on the Boson escrow contract, and the reader that reports  *)
(* it. Both are outside the repository: the contract executes an action    *)
(* exactly when the shared state machine allows it, and the reader (a      *)
(* subgraph or an RPC node behind ExchangeReader.read) trails the chain,   *)
(* possibly from before the exchange existed.                              *)
(***************************************************************************)
EXTENDS StateMachine, Naturals, Sequences

VARIABLES
  history,   \* the client states the exchange has gone through, oldest first
  seen       \* how many of them the reader has indexed; 0 is "no such exchange"

chainVars == <<history, seen>>

ChainTypeOK ==
  /\ history \in Seq(ClientState)
  /\ seen \in 0 .. Len(history)

Now == history[Len(history)]

Reached(s) == \E i \in 1 .. Len(history) : history[i] = s

Executable(a) ==
  /\ history # <<>>
  /\ \E side \in Side : isLegalTransition(Now, a, side)

(* The contract executes a meta-transaction carrying action a.             *)
Execute(a) ==
  /\ Executable(a)
  /\ history' = Append(history, ACTION_POST_STATE[a])
  /\ UNCHANGED seen

(* The reader catches up with one more state.                              *)
Index ==
  /\ seen < Len(history)
  /\ seen' = seen + 1
  /\ UNCHANGED history

Visible == seen > 0

Snapshot == history[seen]
=============================================================================
