------------------------------ MODULE KeyedMutex ------------------------------
(***************************************************************************)
(* createKeyedMutex: a Map from each key to the last promise chained on    *)
(* it. A call takes the promise it finds as prev, chains its work behind   *)
(* it, and stores its own tracked promise in its place; when that settles, *)
(* it removes it, if it is still the one stored.                           *)
(*                                                                         *)
(* A promise is named by the call that made it. A call may come between    *)
(* any two reactions: the microtasks of a settled promise run one by one,  *)
(* and each may call runExclusive again. ticket, the order of the calls,   *)
(* is only there to say what the properties mean by FIFO.                  *)
(***************************************************************************)
EXTENDS Naturals

CONSTANTS Calls, Keys, None

ASSUME NoneAssumption == None \notin Calls

VARIABLES
  chains,   \* the Map: per key the tracked promise stored, or None
  phase,    \* per call: how far its promises have got
  key, prev,
  outcome,  \* per call: how its work ended
  ticket, clock

vars == <<chains, phase, key, prev, outcome, ticket, clock>>

Phases == {"idle", "chained", "running", "settled", "tracked", "cleaned"}

TypeOK ==
  /\ chains \in [Keys -> Calls \cup {None}]
  /\ phase \in [Calls -> Phases]
  /\ key \in [Calls -> Keys]
  /\ prev \in [Calls -> Calls \cup {None}]
  /\ outcome \in [Calls -> {"pending", "resolved", "rejected"}]
  /\ ticket \in [Calls -> Nat]
  /\ clock \in Nat

Init ==
  /\ chains = [k \in Keys |-> None]
  /\ phase = [c \in Calls |-> "idle"]
  /\ key \in [Calls -> Keys]
  /\ prev = [c \in Calls |-> None]
  /\ outcome = [c \in Calls |-> "pending"]
  /\ ticket = [c \in Calls |-> 0]
  /\ clock = 0

(* The tracked promise has settled: its reactions may run.                 *)
Tracked(c) == phase[c] \in {"tracked", "cleaned"}

(* Mutant: a call chains behind the oldest work it knows of.               *)
runExclusiveUnchained(c, k) ==
  /\ phase[c] = "idle"
  /\ phase' = [phase EXCEPT ![c] = "chained"]
  /\ key' = [key EXCEPT ![c] = k]
  /\ prev' = [prev EXCEPT ![c] = chains[k]]
  /\ chains' = IF chains[k] = None THEN [chains EXCEPT ![k] = c] ELSE chains
  /\ clock' = clock + 1
  /\ ticket' = [ticket EXCEPT ![c] = clock]
  /\ UNCHANGED outcome

runExclusive(c, k) ==
  /\ phase[c] = "idle"
  /\ phase' = [phase EXCEPT ![c] = "chained"]
  /\ key' = [key EXCEPT ![c] = k]
  /\ prev' = [prev EXCEPT ![c] = chains[k]]
  /\ chains' = [chains EXCEPT ![k] = c]
  /\ clock' = clock + 1
  /\ ticket' = [ticket EXCEPT ![c] = clock]
  /\ UNCHANGED outcome

(* Mutant: prev.then(fn) on the run promise itself, so that a rejection    *)
(* before it keeps the work from ever running.                             *)
FollowsResolved(c) ==
  prev[c] # None => Tracked(prev[c]) /\ outcome[prev[c]] = "resolved"

(* prev.then(fn, fn), with prev = Promise.resolve() when nothing is stored.*)
Follows(c) == prev[c] # None => Tracked(prev[c])

StartWork(c) ==
  /\ phase[c] = "chained"
  /\ Follows(c)
  /\ phase' = [phase EXCEPT ![c] = "running"]
  /\ UNCHANGED <<chains, key, prev, outcome, ticket, clock>>

(* The work ends by itself, and run takes its outcome.                     *)
SettleWork(c) ==
  /\ phase[c] = "running"
  /\ phase' = [phase EXCEPT ![c] = "settled"]
  /\ \E o \in {"resolved", "rejected"} : outcome' = [outcome EXCEPT ![c] = o]
  /\ UNCHANGED <<chains, key, prev, ticket, clock>>

(* tracked = run.catch(...) resolves one turn later, whatever run did.     *)
SettleTracked(c) ==
  /\ phase[c] = "settled"
  /\ phase' = [phase EXCEPT ![c] = "tracked"]
  /\ UNCHANGED <<chains, key, prev, outcome, ticket, clock>>

(* Mutant: the entry is deleted without looking whose it is.               *)
CleanUpUnchecked(c) ==
  /\ phase[c] = "tracked"
  /\ phase' = [phase EXCEPT ![c] = "cleaned"]
  /\ chains' = [chains EXCEPT ![key[c]] = None]
  /\ UNCHANGED <<key, prev, outcome, ticket, clock>>

(* Mutant: the entry is left behind.                                       *)
CleanUpNothing(c) ==
  /\ phase[c] = "tracked"
  /\ phase' = [phase EXCEPT ![c] = "cleaned"]
  /\ UNCHANGED <<chains, key, prev, outcome, ticket, clock>>

CleanUp(c) ==
  /\ phase[c] = "tracked"
  /\ phase' = [phase EXCEPT ![c] = "cleaned"]
  /\ chains' = IF chains[key[c]] = c THEN [chains EXCEPT ![key[c]] = None]
                                     ELSE chains
  /\ UNCHANGED <<key, prev, outcome, ticket, clock>>

Reaction(c) == StartWork(c) \/ SettleTracked(c) \/ CleanUp(c)

Next ==
  \E c \in Calls :
    \/ \E k \in Keys : runExclusive(c, k)
    \/ SettleWork(c)
    \/ Reaction(c)

Spec == Init /\ [][Next]_vars

(* The event loop runs every reaction that is due, and the work, bounded   *)
(* by timeouts, ends.                                                      *)
FairSpec ==
  Spec /\ \A c \in Calls : WF_vars(Reaction(c)) /\ WF_vars(SettleWork(c))

-----------------------------------------------------------------------------
(* At most one handler holds an exchange at a time, although a call that   *)
(* finds no entry starts at once and an entry is deleted behind the back   *)
(* of the calls still waiting (concurrency.ts, "only one handler holds the *)
(* exchange at a time").                                                   *)
OneAtATime ==
  \A c, d \in Calls :
    phase[c] = "running" /\ phase[d] = "running" /\ key[c] = key[d] => c = d

(* The Map does not grow: once all work for a key is done and cleaned up,  *)
(* the key is gone from it.                                                *)
NoStaleEntry ==
  \A k \in Keys :
    chains[k] # None => key[chains[k]] = k /\ phase[chains[k]] # "cleaned"

(* "A previous fn rejecting must not pin the key forever": whatever the    *)
(* outcomes before it, every call's work runs.                             *)
EveryCallRuns ==
  \A c \in Calls : phase[c] = "chained" ~> phase[c] = "cleaned"

(* The promises of the abstract mutex: work counts as settled once its     *)
(* tracked promise is.                                                     *)
Work(c) ==
  CASE phase[c] = "idle"                  -> "idle"
    [] phase[c] = "chained"               -> "queued"
    [] phase[c] \in {"running", "settled"} -> "running"
    [] phase[c] \in {"tracked", "cleaned"} -> "settled"

Fifo == INSTANCE FifoMutex WITH work <- [c \in Calls |-> Work(c)]

(* FIFO per key: no call's work starts before all earlier work for its key *)
(* has settled.                                                            *)
RunsInOrder == Fifo!Spec
=============================================================================
