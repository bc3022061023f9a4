-------------------------- MODULE KeyedMutex_proofs --------------------------
(***************************************************************************)
(* KeyedMutex excludes, keeps its Map clean and implements FifoMutex, for  *)
(* any number of calls and keys. The invariant follows the chain of prev   *)
(* promises: a call's prev is the call right before it for its key, or     *)
(* there was none that still mattered.                                     *)
(***************************************************************************)
EXTENDS KeyedMutex, TLAPS

Called(c) == phase[c] # "idle"

Earlier(d, c) == Called(d) /\ key[d] = key[c] /\ ticket[d] < ticket[c]

(* Tickets order the calls.                                                *)
TicketInv ==
  /\ \A c \in Calls : Called(c) => ticket[c] < clock
  /\ \A c, d \in Calls :
       Called(c) /\ Called(d) /\ ticket[c] = ticket[d] => c = d

(* Work starts after all earlier work of its key.                          *)
OrderInv ==
  \A c, d \in Calls :
    Called(c) /\ phase[c] # "chained" /\ Earlier(d, c) => Tracked(d)

(* prev is the last call before this one, or they had all settled.         *)
PrevInv ==
  \A c \in Calls : Called(c) =>
    /\ prev[c] = None => \A d \in Calls : Earlier(d, c) => Tracked(d)
    /\ prev[c] # None =>
         /\ Earlier(prev[c], c)
         /\ \A d \in Calls : Earlier(d, c) => d = prev[c] \/ Earlier(d, prev[c])

(* What the Map stores is the last call of the key; no entry means nothing *)
(* of the key is pending.                                                  *)
ChainsInv ==
  \A k \in Keys :
    /\ chains[k] = None =>
         \A c \in Calls : Called(c) /\ key[c] = k => Tracked(c)
    /\ chains[k] # None =>
         /\ Called(chains[k]) /\ key[chains[k]] = k
         /\ phase[chains[k]] # "cleaned"
         /\ \A c \in Calls :
              Called(c) /\ key[c] = k => c = chains[k] \/ Earlier(c, chains[k])

Inv == TypeOK /\ TicketInv /\ OrderInv /\ PrevInv /\ ChainsInv

LEMMA InvInit == ASSUME Init PROVE Inv
BY DEF Init, Inv, TypeOK, TicketInv, OrderInv, PrevInv, ChainsInv, Called, Phases

(* A step of one call that keeps keys, tickets and prevs, and never turns  *)
(* a settled call back.                                                    *)
LEMMA PhaseStep ==
  ASSUME Inv, NEW c \in Calls, NEW p \in Phases \ {"idle"}, Called(c),
         phase' = [phase EXCEPT ![c] = p],
         UNCHANGED <<key, prev, ticket, clock>>,
         outcome' \in [Calls -> {"pending", "resolved", "rejected"}],
         Tracked(c) => p = "cleaned",
         p # "chained",
         \A d \in Calls : Earlier(d, c) => Tracked(d),
         \/ chains' = chains /\ (p = "cleaned" => chains[key[c]] # c)
         \/ p = "cleaned" /\ chains[key[c]] = c
            /\ chains' = [chains EXCEPT ![key[c]] = None]
  PROVE  Inv'
<1>1. /\ phase' \in [Calls -> Phases]
      /\ phase'[c] = p /\ \A d \in Calls \ {c} : phase'[d] = phase[d]
      /\ \A d \in Calls : Called(d)' <=> Called(d)
      /\ \A d, e \in Calls : Earlier(d, e)' <=> Earlier(d, e)
      /\ \A d \in Calls : Tracked(d) => Tracked(d)'
  BY DEF Inv, TypeOK, Phases, Called, Earlier, Tracked
<1>2. TypeOK'
  BY <1>1 DEF Inv, TypeOK
<1>3. TicketInv'
  BY <1>1 DEF Inv, TicketInv
<1>4. OrderInv'
  BY <1>1 DEF Inv, OrderInv
<1>5. PrevInv'
  BY <1>1, NoneAssumption DEF Inv, PrevInv, TypeOK
<1>6. ChainsInv'
  <2>1. CASE chains' = chains /\ (p = "cleaned" => chains[key[c]] # c)
    BY <1>1, <2>1, NoneAssumption DEF Inv, ChainsInv, TypeOK
  <2>2. CASE p = "cleaned" /\ chains[key[c]] = c
             /\ chains' = [chains EXCEPT ![key[c]] = None]
    <3>1. Tracked(c)'
      BY <1>1, <2>2 DEF Tracked
    <3>2. \A d \in Calls : Called(d) /\ key[d] = key[c] => d = c \/ Earlier(d, c)
      BY <2>2, NoneAssumption DEF Inv, ChainsInv, TypeOK
    <3>3. \A d \in Calls : Called(d)' /\ key'[d] = key[c] => Tracked(d)'
      BY <1>1, <3>1, <3>2
    <3>4. /\ chains'[key[c]] = None
          /\ \A k \in Keys \ {key[c]} : chains'[k] = chains[k]
      BY <2>2 DEF Inv, TypeOK
    <3>5. \A k \in Keys \ {key[c]} : chains[k] # c
      BY NoneAssumption DEF Inv, ChainsInv
    <3> QED
      BY <1>1, <3>3, <3>4, <3>5, NoneAssumption DEF Inv, ChainsInv, TypeOK
  <2> QED BY <2>1, <2>2
<1> QED BY <1>2, <1>3, <1>4, <1>5, <1>6 DEF Inv

LEMMA CallStep ==
  ASSUME Inv, NEW c \in Calls, NEW k \in Keys, runExclusive(c, k)
  PROVE  Inv'
<1> USE DEF runExclusive
<1>1. /\ phase[c] = "idle" /\ phase'[c] = "chained"
      /\ \A d \in Calls \ {c} : phase'[d] = phase[d]
      /\ key'[c] = k /\ ticket'[c] = clock /\ prev'[c] = chains[k]
      /\ \A d \in Calls \ {c} : /\ key'[d] = key[d] /\ ticket'[d] = ticket[d]
                                /\ prev'[d] = prev[d]
      /\ chains'[k] = c
      /\ \A j \in Keys \ {k} : chains'[j] = chains[j]
      /\ clock \in Nat /\ clock' = clock + 1
  BY DEF Inv, TypeOK
<1>2. TypeOK'
  BY <1>1 DEF Inv, TypeOK, Phases
<1>3. /\ ~Called(c) /\ Called(c)'
      /\ \A d \in Calls \ {c} : Called(d)' <=> Called(d)
      /\ \A d \in Calls : Tracked(d)' <=> Tracked(d)
      /\ ~Tracked(c)
  BY <1>1 DEF Called, Tracked
<1>4. \A d \in Calls : ticket[d] \in Nat
  BY DEF Inv, TypeOK
<1>5. /\ \A d, e \in Calls \ {c} : Earlier(d, e)' <=> Earlier(d, e)
      /\ \A e \in Calls : Called(e)' => ~Earlier(c, e)'
      /\ \A d \in Calls : Earlier(d, c)' <=> Called(d) /\ key[d] = k
  BY <1>1, <1>3, <1>4 DEF Earlier, Inv, TicketInv
<1>6. TicketInv'
  BY <1>1, <1>3, <1>4 DEF Inv, TicketInv
<1>7. OrderInv'
  BY <1>1, <1>3, <1>5 DEF Inv, OrderInv
<1>8. chains[k] # None => chains[k] \in Calls \ {c}
  BY <1>3 DEF Inv, TypeOK, ChainsInv
<1>9. PrevInv'
  <2>1. ASSUME NEW e \in Calls \ {c}, Called(e), prev[e] # None
        PROVE  prev[e] \in Calls \ {c}
    BY <2>1, <1>3 DEF Inv, TypeOK, PrevInv, Earlier
  <2>2. ASSUME NEW e \in Calls \ {c}, Called(e)'
        PROVE  /\ prev'[e] = None => \A d \in Calls : Earlier(d, e)' => Tracked(d)'
               /\ prev'[e] # None =>
                    /\ Earlier(prev[e], e)'
                    /\ \A d \in Calls : Earlier(d, e)' => d = prev'[e] \/ Earlier(d, prev[e])'
    BY <1>1, <1>3, <1>5, <2>1, <2>2 DEF Inv, PrevInv
  <2>3. /\ prev'[c] = None => \A d \in Calls : Earlier(d, c)' => Tracked(d)'
        /\ prev'[c] # None =>
             /\ Earlier(prev[c], c)'
             /\ \A d \in Calls : Earlier(d, c)' => d = prev'[c] \/ Earlier(d, prev[c])'
    BY <1>1, <1>3, <1>5, <1>8 DEF Inv, ChainsInv
  <2> QED BY <1>1, <2>2, <2>3 DEF PrevInv
<1>10. ChainsInv'
  <2>1. ASSUME NEW j \in Keys \ {k}, chains[j] # None
        PROVE  chains[j] \in Calls \ {c}
    BY <1>3, <2>1 DEF Inv, TypeOK, ChainsInv
  <2>2. ASSUME NEW j \in Keys \ {k}
        PROVE  /\ chains'[j] = None =>
                    \A d \in Calls : Called(d)' /\ key'[d] = j => Tracked(d)'
               /\ chains'[j] # None =>
                    /\ Called(chains[j])' /\ key'[chains'[j]] = j
                    /\ phase'[chains'[j]] # "cleaned"
                    /\ \A d \in Calls : Called(d)' /\ key'[d] = j
                         => d = chains'[j] \/ Earlier(d, chains[j])'
    BY <1>1, <1>3, <1>5, <2>1, <2>2 DEF Inv, ChainsInv
  <2>3. /\ Called(c)' /\ key'[c] = k /\ phase'[c] # "cleaned"
        /\ \A d \in Calls : Called(d)' /\ key'[d] = k => d = c \/ Earlier(d, c)'
    BY <1>1, <1>3, <1>5
  <2> QED BY <1>1, <2>2, <2>3, NoneAssumption DEF ChainsInv
<1> QED BY <1>2, <1>6, <1>7, <1>9, <1>10 DEF Inv

LEMMA InvStep == ASSUME Inv, [Next]_vars PROVE Inv'
<1>1. ASSUME NEW c \in Calls, NEW k \in Keys, runExclusive(c, k) PROVE Inv'
  BY <1>1, CallStep
<1>2. ASSUME NEW c \in Calls, SettleWork(c) PROVE Inv'
  <2>1. outcome' \in [Calls -> {"pending", "resolved", "rejected"}]
    BY <1>2 DEF SettleWork, Inv, TypeOK
  <2>2. Called(c) /\ ~Tracked(c) /\ \A d \in Calls : Earlier(d, c) => Tracked(d)
    BY <1>2 DEF SettleWork, Called, Tracked, Inv, OrderInv
  <2> QED BY <1>2, <2>1, <2>2, PhaseStep DEF SettleWork, Phases
<1>3. ASSUME NEW c \in Calls, StartWork(c) PROVE Inv'
  <2>1. Called(c) /\ ~Tracked(c)
    BY <1>3 DEF StartWork, Called, Tracked
  <2>2. \A d \in Calls : Earlier(d, c) => Tracked(d)
    <3>1. CASE prev[c] = None
      BY <2>1, <3>1 DEF Inv, PrevInv
    <3>2. CASE prev[c] # None
      <4>1. prev[c] \in Calls /\ Tracked(prev[c]) /\ Earlier(prev[c], c)
        BY <1>3, <2>1, <3>2 DEF StartWork, Follows, Inv, TypeOK, PrevInv
      <4>2. \A d \in Calls : Earlier(d, prev[c]) => Tracked(d)
        BY <4>1 DEF Inv, OrderInv, Tracked, Called
      <4> QED BY <2>1, <3>2, <4>1, <4>2 DEF Inv, PrevInv
    <3> QED BY <3>1, <3>2
  <2> QED
    BY <1>3, <2>1, <2>2, PhaseStep DEF StartWork, Phases, Inv, TypeOK
<1>4. ASSUME NEW c \in Calls, SettleTracked(c) PROVE Inv'
  <2>1. Called(c) /\ ~Tracked(c) /\ \A d \in Calls : Earlier(d, c) => Tracked(d)
    BY <1>4 DEF SettleTracked, Called, Tracked, Inv, OrderInv
  <2> QED
    BY <1>4, <2>1, PhaseStep DEF SettleTracked, Phases, Inv, TypeOK
<1>5. ASSUME NEW c \in Calls, CleanUp(c) PROVE Inv'
  <2>1. Called(c) /\ \A d \in Calls : Earlier(d, c) => Tracked(d)
    BY <1>5 DEF CleanUp, Called, Inv, OrderInv
  <2> QED
    BY <1>5, <2>1, PhaseStep DEF CleanUp, Phases, Inv, TypeOK
<1>6. CASE UNCHANGED vars
  BY <1>6 DEF vars, Inv, TypeOK, TicketInv, OrderInv, PrevInv, ChainsInv, Called,
     Earlier, Tracked
<1> QED BY <1>1, <1>2, <1>3, <1>4, <1>5, <1>6 DEF Next, Reaction

(* At most one call of a key runs its work at any time.                    *)
THEOREM Exclusion == Spec => []OneAtATime
<1>1. Init => Inv
  BY InvInit
<1>2. Inv /\ [Next]_vars => Inv'
  BY InvStep
<1>3. Inv => OneAtATime
  <2> SUFFICES ASSUME Inv, NEW c \in Calls, NEW d \in Calls, phase[c] = "running",
                      phase[d] = "running", key[c] = key[d]
               PROVE  c = d
    BY DEF OneAtATime
  <2>1. ticket[c] \in Nat /\ ticket[d] \in Nat
    BY DEF Inv, TypeOK
  <2>2. ~Earlier(c, d) /\ ~Earlier(d, c)
    BY DEF Inv, OrderInv, Called, Tracked
  <2> QED BY <2>1, <2>2 DEF Inv, TicketInv, Earlier, Called
<1> QED BY <1>1, <1>2, <1>3, PTL DEF Spec

(* The Map holds no entry of a key whose work is done and cleaned up.      *)
THEOREM MapStaysClean == Spec => []NoStaleEntry
<1>1. Init => Inv
  BY InvInit
<1>2. Inv /\ [Next]_vars => Inv'
  BY InvStep
<1>3. Inv => NoStaleEntry
  BY DEF Inv, ChainsInv, NoStaleEntry
<1> QED BY <1>1, <1>2, <1>3, PTL DEF Spec

(* The chained promises implement a FIFO lock per key.                     *)
THEOREM Implementation == Spec => RunsInOrder
<1>1. Init => Inv
  BY InvInit
<1>2. Inv /\ [Next]_vars => Inv'
  BY InvStep
<1>3. Init => Fifo!Init
  BY DEF Init, Fifo!Init, Work
<1>4. ASSUME Inv, [Next]_vars PROVE [Fifo!Next]_Fifo!vars
  <2> DEFINE W == [c \in Calls |-> Work(c)]
  <2>a. ASSUME NEW c \in Calls, NEW p \in Phases, phase' = [phase EXCEPT ![c] = p]
        PROVE  /\ phase'[c] = p
               /\ \A d \in Calls \ {c} : Work(d)' = Work(d)
    <3>1. phase'[c] = p /\ \A d \in Calls \ {c} : phase'[d] = phase[d]
      BY <1>4, <2>a DEF Inv, TypeOK
    <3> QED BY <3>1 DEF Work
  <2>1. ASSUME NEW c \in Calls, NEW k \in Keys, runExclusive(c, k)
        PROVE  Fifo!Queue(c)
    <3>1. phase'[c] = "chained" /\ phase[c] = "idle"
          /\ \A d \in Calls \ {c} : Work(d)' = Work(d)
      BY <2>1, <2>a DEF runExclusive, Phases
    <3>2. Work(c) = "idle" /\ Work(c)' = "queued"
      BY <3>1 DEF Work
    <3>3. W' = [W EXCEPT ![c] = "queued"]
      BY <3>1, <3>2
    <3>4. ticket'[c] = clock /\ clock \in Nat /\ ticket' = [ticket EXCEPT ![c] = ticket'[c]]
      BY <1>4, <2>1 DEF runExclusive, Inv, TypeOK
    <3>5. \A d \in Fifo!Arrived : ticket[d] < ticket'[c]
      BY <1>4, <3>4 DEF Fifo!Arrived, Work, Inv, TicketInv, Called
    <3> QED
      BY <2>1, <3>2, <3>3, <3>4, <3>5 DEF Fifo!Queue, runExclusive
  <2>2. ASSUME NEW c \in Calls, StartWork(c) PROVE Fifo!Run(c)
    <3>1. phase'[c] = "running" /\ phase[c] = "chained"
          /\ \A d \in Calls \ {c} : Work(d)' = Work(d)
      BY <2>2, <2>a DEF StartWork, Phases
    <3>2. Work(c) = "queued" /\ Work(c)' = "running"
      BY <3>1 DEF Work
    <3>3. W' = [W EXCEPT ![c] = "running"]
      BY <3>1, <3>2
    <3>4. Inv'
      BY <1>2, <1>4
    <3>5. \A d \in Calls : Earlier(d, c) => Tracked(d)
      <4>1. \A d \in Calls : Earlier(d, c)' => Tracked(d)'
        BY <3>1, <3>4 DEF Inv, OrderInv, Called
      <4>2. \A d \in Calls : Earlier(d, c) => Earlier(d, c)' /\ d # c
        BY <1>4, <2>2, <3>1 DEF StartWork, Earlier, Called, Inv, TypeOK
      <4>3. \A d \in Calls \ {c} : phase'[d] = phase[d]
        BY <1>4, <2>2 DEF StartWork, Inv, TypeOK
      <4> QED BY <4>1, <4>2, <4>3 DEF Tracked
    <3>6. \A d \in Fifo!Before(c) : W[d] = "settled"
      BY <3>5 DEF Fifo!Before, Fifo!Arrived, Earlier, Called, Tracked, Work
    <3> QED
      BY <2>2, <3>2, <3>3, <3>6 DEF Fifo!Run, StartWork
  <2>3. ASSUME NEW c \in Calls, SettleTracked(c) PROVE Fifo!Settle(c)
    <3>1. phase'[c] = "tracked" /\ phase[c] = "settled"
          /\ \A d \in Calls \ {c} : Work(d)' = Work(d)
      BY <2>3, <2>a DEF SettleTracked, Phases
    <3>2. Work(c) = "running" /\ Work(c)' = "settled"
      BY <3>1 DEF Work
    <3>3. W' = [W EXCEPT ![c] = "settled"]
      BY <3>1, <3>2
    <3> QED
      BY <2>3, <3>2, <3>3 DEF Fifo!Settle, SettleTracked
  <2>4. ASSUME NEW c \in Calls, SettleWork(c) \/ CleanUp(c)
        PROVE  UNCHANGED Fifo!vars
    <3>1. /\ Work(c)' = Work(c)
          /\ \A d \in Calls \ {c} : Work(d)' = Work(d)
      BY <2>4, <2>a DEF SettleWork, CleanUp, Phases, Work
    <3> QED BY <2>4, <3>1 DEF Fifo!vars, SettleWork, CleanUp
  <2>5. CASE UNCHANGED vars
    BY <2>5 DEF vars, Fifo!vars, Work
  <2> QED
    BY <1>4, <2>1, <2>2, <2>3, <2>4, <2>5 DEF Next, Reaction, Fifo!Next
<1> QED BY <1>1, <1>2, <1>3, <1>4, PTL DEF Spec, RunsInOrder, Fifo!Spec
=============================================================================
