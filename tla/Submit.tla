------------------------------- MODULE Submit -------------------------------
(***************************************************************************)
(* submitAction of the buyer's client: one signed post-commit action is    *)
(* offered to the channels its next-action entry advertises, in order,     *)
(* until one answers 2xx. Giving up on a channel does not stop it: the     *)
(* server and the facilitator may both be working on the same payload.     *)
(* What either does with it is the contract of RelayContract, with the two *)
(* channels as callers.                                                    *)
(***************************************************************************)
EXTENDS Sequences, SequencesExt

CONSTANTS
  Entries,    \* advertised entries: [channels : a sequence, endpoints : those
              \* of the submittable channels that have a URL]
  Payload,
  NoChannel

SUBMIT_CHANNELS == {"server", "facilitator"}

ASSUME EntriesAssumption ==
  /\ NoChannel \notin SUBMIT_CHANNELS
  /\ \A e \in Entries : e.endpoints \subseteq SUBMIT_CHANNELS

VARIABLES
  entry,     \* the next-action entry
  flaw,      \* what is wrong with what the buyer sends
  phase,     \* submitAction: "idle", "walking", "waiting", "reading", ...
  at,        \* the position in the walk
  attempts,  \* the attempt log
  job,       \* per channel: what its process is doing with the request
  status,    \* per channel: the HTTP response, once there is one
  kept,      \* whether the server has confirmed the action to itself
  called, landedBy, reply   \* the relay

buyerVars == <<phase, at, attempts>>
relayVars == <<called, landedBy, reply>>
channelVars == <<job, status, kept>>
vars == <<entry, flaw, buyerVars, channelVars, relayVars>>

Relay ==
  INSTANCE RelayContract WITH
    Calls <- SUBMIT_CHANNELS, Payloads <- {Payload},
    PayloadOf <- [c \in SUBMIT_CHANNELS |-> Payload], NoCall <- NoChannel

(* The submittable channels in advertised order, each at its first place.  *)
orderedChannels(e) ==
  LET submittable == SelectSeq(e.channels, LAMBDA c : c \in SUBMIT_CHANNELS)
      firsts == {i \in DOMAIN submittable :
                   \A j \in 1 .. (i - 1) : submittable[j] # submittable[i]}
  IN  [i \in 1 .. Cardinality(firsts) |->
         submittable[CHOOSE k \in firsts : Cardinality({m \in firsts : m <= k}) = i]]

Ordered == orderedChannels(entry)
Channel == Ordered[at]

Init ==
  /\ entry \in Entries
  /\ flaw \in {"none", "request", "payload"}
  /\ phase = "idle" /\ at = 1 /\ attempts = <<>>
  /\ job = [c \in SUBMIT_CHANNELS |-> "none"]
  /\ status = [c \in SUBMIT_CHANNELS |-> "none"]
  /\ kept = FALSE
  /\ Relay!Init

-----------------------------------------------------------------------------
(* The buyer.                                                              *)
submitAction ==
  /\ phase = "idle"
  /\ phase' = IF Ordered = <<>> THEN "incompatible" ELSE "walking"
  /\ UNCHANGED <<entry, flaw, at, attempts, channelVars, relayVars>>

Log(outcome) == attempts' = Append(attempts, [channel |-> Channel, outcome |-> outcome])

(* Mutant: the loop ends without throwing.                                 *)
NextChannelFallsThrough ==
  \/ at < Len(Ordered) /\ at' = at + 1 /\ phase' = "walking"
  \/ at = Len(Ordered) /\ UNCHANGED at /\ phase' = "returned"

NextChannel ==
  \/ at < Len(Ordered) /\ at' = at + 1 /\ phase' = "walking"
  \/ at = Len(Ordered) /\ UNCHANGED at /\ phase' = "failed"

NoEndpoint ==
  /\ phase = "walking" /\ Channel \notin entry.endpoints
  /\ Log("no-endpoint") /\ NextChannel
  /\ UNCHANGED <<entry, flaw, channelVars, relayVars>>

Post ==
  /\ phase = "walking" /\ Channel \in entry.endpoints
  /\ phase' = "waiting"
  /\ job' = [job EXCEPT ![Channel] = "received"]
  /\ UNCHANGED <<entry, flaw, at, attempts, status, kept, relayVars>>

(* The timeout elapses or the connection breaks, wherever the channel is.  *)
(* The timer is gone once the response headers are there.                  *)
GiveUp ==
  /\ phase = "waiting"
  /\ Log("timeout") \/ Log("network")
  /\ NextChannel
  /\ UNCHANGED <<entry, flaw, channelVars, relayVars>>

Headers ==
  /\ phase = "waiting" /\ status[Channel] # "none"
  /\ phase' = "reading"
  /\ UNCHANGED <<entry, flaw, at, attempts, channelVars, relayVars>>

(* Mutant: any response that is not a 4xx is a success.                    *)
ReadUnlessRefused ==
  /\ phase = "reading"
  /\ \/ status[Channel] # "4xx" /\ Log("ok") /\ phase' = "ok" /\ UNCHANGED at
     \/ status[Channel] = "4xx" /\ Log("4xx") /\ phase' = "failed" /\ UNCHANGED at
  /\ UNCHANGED <<entry, flaw, channelVars, relayVars>>

(* A 2xx whose body breaks off or makes no sense is recoverable; a 4xx     *)
(* ends the walk.                                                          *)
ReadResponse ==
  /\ phase = "reading"
  /\ \/ status[Channel] = "2xx" /\ Log("ok") /\ phase' = "ok" /\ UNCHANGED at
     \/ status[Channel] = "2xx" /\ Log("invalid-response") /\ NextChannel
     \/ status[Channel] = "5xx" /\ Log("5xx") /\ NextChannel
     \/ status[Channel] = "4xx" /\ Log("4xx") /\ phase' = "failed" /\ UNCHANGED at
  /\ UNCHANGED <<entry, flaw, channelVars, relayVars>>

-----------------------------------------------------------------------------
(* The channels, as far as the buyer can tell them apart (RedeemServer and *)
(* Relay have the detail). What the contract refuses never executes.       *)
Respond(c, code) ==
  /\ job' = [job EXCEPT ![c] = "responded"]
  /\ status' = [status EXCEPT ![c] = code]

(* The server's own checks of the request come before its relay call; a    *)
(* missing pre-action snapshot is a 502.                                   *)
ServerReceives ==
  /\ job["server"] = "received"
  /\ \/ flaw = "request" /\ Respond("server", "4xx") /\ UNCHANGED relayVars
     \/ flaw # "request" /\ Respond("server", "5xx") /\ UNCHANGED relayVars
     \/ /\ flaw # "request"
        /\ Relay!Call("server")
        /\ job' = [job EXCEPT !["server"] = "relayed"]
        /\ UNCHANGED status
  /\ UNCHANGED <<entry, flaw, kept, buyerVars>>

(* Mutant: a rejected result is taken for a settled one.                   *)
ServerRepliesAnyhow ==
  /\ job["server"] = "relayed"
  /\ Relay!Accept("server") \/ Relay!Fail("server")
  /\ Respond("server", "2xx") /\ kept' = TRUE
  /\ UNCHANGED <<entry, flaw, buyerVars>>

(* Accepted and verified is a 200; accepted but not verified, rejected and *)
(* unreachable are all a 502.                                              *)
ServerReplies ==
  /\ job["server"] = "relayed"
  /\ \/ Relay!Accept("server") /\ Respond("server", "2xx") /\ kept' = TRUE
     \/ Relay!Accept("server") /\ Respond("server", "5xx") /\ UNCHANGED kept
     \/ Relay!Fail("server") /\ Respond("server", "5xx") /\ UNCHANGED kept
  /\ UNCHANGED <<entry, flaw, buyerVars>>

FacilitatorReceives ==
  /\ job["facilitator"] = "received"
  /\ Relay!Call("facilitator")
  /\ job' = [job EXCEPT !["facilitator"] = "relayed"]
  /\ UNCHANGED <<entry, flaw, status, kept, buyerVars>>

(* The facilitator's routes answer a failed result with 400; what throws   *)
(* goes to the host's error handler.                                       *)
FacilitatorReplies ==
  /\ job["facilitator"] = "relayed"
  /\ \/ Relay!Accept("facilitator") /\ Respond("facilitator", "2xx")
     \/ /\ Relay!Fail("facilitator")
        /\ Respond("facilitator", IF reply'["facilitator"] = "rejected" THEN "4xx"
                                                                        ELSE "5xx")
  /\ UNCHANGED <<entry, flaw, kept, buyerVars>>

Land(c) ==
  /\ flaw # "payload"
  /\ Relay!Land(c)
  /\ UNCHANGED <<entry, flaw, buyerVars, channelVars>>

BuyerStep == submitAction \/ NoEndpoint \/ Post \/ GiveUp \/ Headers \/ ReadResponse

Next ==
  \/ BuyerStep
  \/ ServerReceives \/ ServerReplies \/ FacilitatorReceives \/ FacilitatorReplies
  \/ \E c \in SUBMIT_CHANNELS : Land(c)

Spec == Init /\ [][Next]_vars

(* The buyer's own steps are due, his timer's included. The body of a      *)
(* response is read under no timer: it may never end.                      *)
FairSpec ==
  Spec /\ WF_vars(submitAction) /\ WF_vars(NoEndpoint \/ Post \/ GiveUp \/ Headers)

-----------------------------------------------------------------------------
(* A result of submitAction is the action's execution by the channel it    *)
(* names, not by one abandoned earlier in the walk, and if that is the     *)
(* server, the server knows: a fulfillment the buyer sent is not lost.     *)
ResultIsTheChannelsOwn ==
  phase = "ok" =>
    /\ landedBy[Payload] = Channel
    /\ Channel = "server" => kept

(* However many channels are at work on a payload the buyer gave up on, at *)
(* most one of them ever answers 2xx.                                      *)
OneChannelSucceeds ==
  \A c, d \in SUBMIT_CHANNELS : status[c] = "2xx" /\ status[d] = "2xx" => c = d

(* A walk comes to an end whatever the channels do, or hangs on a response *)
(* body that does not end: nothing else keeps the buyer waiting.           *)
WalkEndsOrStalls ==
  phase = "walking" ~> phase \in {"ok", "failed"} \/ [](phase = "reading")
=============================================================================
