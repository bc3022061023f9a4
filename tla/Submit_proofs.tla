---------------------------- MODULE Submit_proofs ----------------------------
(***************************************************************************)
(* That a result of submitAction is its channel's own, and that at most    *)
(* one channel ever answers 2xx, for every entry. The argument: a 2xx      *)
(* comes after the relay has accepted the channel's own execution, which   *)
(* the contract makes unique for good, so both facts, once true, stay so.  *)
(***************************************************************************)
EXTENDS Submit, TLAPS

(* What a 2xx of channel c vouches for.                                    *)
Executed(c) == landedBy[Payload] = c /\ (c = "server" => kept)

Types ==
  /\ entry \in Entries
  /\ status \in [SUBMIT_CHANNELS -> {"none", "2xx", "4xx", "5xx"}]
  /\ landedBy \in [{Payload} -> SUBMIT_CHANNELS \cup {NoChannel}]
  /\ kept \in BOOLEAN

Inv ==
  /\ Types
  /\ phase \in {"waiting", "reading", "ok"} => Channel \in SUBMIT_CHANNELS
  /\ \A c \in SUBMIT_CHANNELS : status[c] = "2xx" => Executed(c)
  /\ phase = "ok" => Executed(Channel)

LEMMA InitInv == Init => Inv
BY DEF Init, Inv, Types, Relay!Init, Executed

(* Nothing that is executed is ever undone.                                *)
LEMMA ExecutedStays ==
  ASSUME NEW c \in SUBMIT_CHANNELS, Executed(c), UNCHANGED kept \/ kept' = TRUE,
         UNCHANGED landedBy
  PROVE  Executed(c)'
BY DEF Executed

(* A step of the buyer.                                                    *)
LEMMA BuyerInv == ASSUME Inv, BuyerStep PROVE Inv'
<1> USE DEF Inv, Types, Executed, Channel, Ordered, buyerVars, channelVars, relayVars
<1>1. CASE submitAction
  BY <1>1 DEF submitAction
<1>2. CASE NoEndpoint
  BY <1>2 DEF NoEndpoint, NextChannel
<1>3. CASE Post
  BY <1>3, EntriesAssumption DEF Post
<1>4. CASE GiveUp
  BY <1>4 DEF GiveUp, NextChannel
<1>5. CASE Headers
  BY <1>5 DEF Headers
<1>6. CASE ReadResponse
  BY <1>6 DEF ReadResponse, NextChannel
<1> QED BY <1>1, <1>2, <1>3, <1>4, <1>5, <1>6 DEF BuyerStep

(* A response other than 2xx.                                              *)
LEMMA OtherResponse ==
  ASSUME Inv, NEW c \in SUBMIT_CHANNELS, NEW code \in {"4xx", "5xx"},
         Respond(c, code), UNCHANGED <<entry, buyerVars, landedBy>>,
         UNCHANGED kept \/ kept' = TRUE
  PROVE  Inv'
BY DEF Inv, Types, Executed, Channel, Ordered, buyerVars, Respond

(* A 2xx after the relay's acceptance.                                     *)
LEMMA GoodResponse ==
  ASSUME Inv, NEW c \in SUBMIT_CHANNELS, Respond(c, "2xx"), landedBy[Payload] = c,
         UNCHANGED <<entry, buyerVars, landedBy>>,
         kept' = (kept \/ c = "server")
  PROVE  Inv'
BY DEF Inv, Types, Executed, Channel, Ordered, buyerVars, Respond

(* A step that leaves the responses alone.                                 *)
LEMMA SilentStep ==
  ASSUME Inv, UNCHANGED <<entry, buyerVars, status, kept>>,
         UNCHANGED landedBy
           \/ (\E c \in SUBMIT_CHANNELS :
                 /\ landedBy[Payload] = NoChannel
                 /\ landedBy' = [landedBy EXCEPT ![Payload] = c])
  PROVE  Inv'
BY EntriesAssumption DEF Inv, Types, Executed, Channel, Ordered, buyerVars, SUBMIT_CHANNELS

LEMMA StepInv == Inv /\ [Next]_vars => Inv'
<1> SUFFICES ASSUME Inv, [Next]_vars PROVE Inv'
  OBVIOUS
<1> USE DEF relayVars, buyerVars, channelVars
<1>1. CASE BuyerStep
  BY <1>1, BuyerInv
<1>2. CASE ServerReceives
  <2>1. CASE \E code \in {"4xx", "5xx"} : Respond("server", code) /\ UNCHANGED relayVars
    BY <1>2, <2>1, OtherResponse DEF ServerReceives, SUBMIT_CHANNELS
  <2>2. CASE Relay!Call("server") /\ UNCHANGED status
    BY <1>2, <2>2, SilentStep DEF ServerReceives, Relay!Call
  <2> QED BY <1>2, <2>1, <2>2 DEF ServerReceives
<1>3. CASE ServerReplies
  <2>1. CASE Relay!Accept("server") /\ Respond("server", "2xx") /\ kept' = TRUE
    BY <1>3, <2>1, GoodResponse DEF ServerReplies, Relay!Accept, SUBMIT_CHANNELS
  <2>2. CASE /\ Relay!Accept("server") \/ Relay!Fail("server")
             /\ Respond("server", "5xx") /\ UNCHANGED kept
    BY <1>3, <2>2, OtherResponse DEF ServerReplies, Relay!Accept, Relay!Fail, SUBMIT_CHANNELS
  <2> QED BY <1>3, <2>1, <2>2 DEF ServerReplies
<1>4. CASE FacilitatorReceives
  BY <1>4, SilentStep DEF FacilitatorReceives, Relay!Call
<1>5. CASE FacilitatorReplies
  <2>1. CASE Relay!Accept("facilitator") /\ Respond("facilitator", "2xx")
    <3>1. kept' = (kept \/ "facilitator" = "server")
      BY <1>5 DEF FacilitatorReplies, Inv, Types
    <3> QED BY <1>5, <2>1, <3>1, GoodResponse DEF FacilitatorReplies, Relay!Accept, SUBMIT_CHANNELS
  <2>2. CASE \E code \in {"4xx", "5xx"} : Relay!Fail("facilitator") /\ Respond("facilitator", code)
    BY <1>5, <2>2, OtherResponse DEF FacilitatorReplies, Relay!Fail, SUBMIT_CHANNELS
  <2> QED BY <1>5, <2>1, <2>2 DEF FacilitatorReplies
<1>6. CASE \E c \in SUBMIT_CHANNELS : Land(c)
  BY <1>6, SilentStep DEF Land, Relay!Land
<1>7. CASE UNCHANGED vars
  BY <1>7, SilentStep DEF vars
<1> QED BY <1>1, <1>2, <1>3, <1>4, <1>5, <1>6, <1>7 DEF Next

LEMMA Invariance == Spec => []Inv
BY InitInv, StepInv, PTL DEF Spec

(* Whatever the entry lists and however late its channels act: a result of *)
(* submitAction is the execution by the channel it names, which the server *)
(* knows of if it is the server.                                           *)
THEOREM ChannelsOwnResult == Spec => []ResultIsTheChannelsOwn
<1>1. Inv => ResultIsTheChannelsOwn
  BY DEF Inv, Executed, ResultIsTheChannelsOwn
<1> QED BY <1>1, Invariance, PTL

(* At most one of the channels ever answers 2xx.                           *)
THEOREM SingleSuccess == Spec => []OneChannelSucceeds
<1>1. Inv => OneChannelSucceeds
  BY DEF Inv, Executed, OneChannelSucceeds
<1> QED BY <1>1, Invariance, PTL
=============================================================================
