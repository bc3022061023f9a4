------------------------------ MODULE FifoMutex ------------------------------
(***************************************************************************)
(* What KeyedMutex.runExclusive promises: work for a key runs once all the *)
(* work queued before it for that key has settled, whatever its outcome,   *)
(* and work for other keys does not matter. ticket is the order of arrival.*)
(***************************************************************************)
EXTENDS Naturals

CONSTANTS Calls, Keys

VARIABLES work, key, ticket

vars == <<work, key, ticket>>

Arrived == {c \in Calls : work[c] # "idle"}

Before(c) == {d \in Arrived : key[d] = key[c] /\ ticket[d] < ticket[c]}

Init ==
  /\ work = [c \in Calls |-> "idle"]
  /\ key \in [Calls -> Keys]
  /\ ticket = [c \in Calls |-> 0]

Queue(c) ==
  /\ work[c] = "idle"
  /\ work' = [work EXCEPT ![c] = "queued"]
  /\ \E k \in Keys : key' = [key EXCEPT ![c] = k]
  /\ ticket' = [ticket EXCEPT ![c] = ticket'[c]]
  /\ ticket'[c] \in Nat
  /\ \A d \in Arrived : ticket[d] < ticket'[c]

Run(c) ==
  /\ work[c] = "queued"
  /\ \A d \in Before(c) : work[d] = "settled"
  /\ work' = [work EXCEPT ![c] = "running"]
  /\ UNCHANGED <<key, ticket>>

Settle(c) ==
  /\ work[c] = "running"
  /\ work' = [work EXCEPT ![c] = "settled"]
  /\ UNCHANGED <<key, ticket>>

Next == \E c \in Calls : Queue(c) \/ Run(c) \/ Settle(c)

Spec == Init /\ [][Next]_vars
=============================================================================
