------------------------------ MODULE MC_Submit ------------------------------
(***************************************************************************)
(* Every way an entry may list the two submittable channels among others,  *)
(* in either order, listed twice or without an endpoint.                   *)
(***************************************************************************)
EXTENDS Submit

ChannelLists ==
  {<<"server", "facilitator", "onchain">>, <<"facilitator", "onchain", "server">>,
   <<"server", "server", "facilitator">>, <<"onchain", "facilitator">>,
   <<"server">>, <<"onchain">>}

EveryEntry ==
  [channels : ChannelLists, endpoints : SUBSET SUBMIT_CHANNELS]
=============================================================================
