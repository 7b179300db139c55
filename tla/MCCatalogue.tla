---------------------------- MODULE MCCatalogue ----------------------------
(* Two fetches and a check over four parts: one of the blueprints' own, the *)
(* side channel, which is a script, and two of vendors.                     *)
EXTENDS Catalogue

MCParts == <<"bracket", "don1-side-channel", "hub", "u_channel_9">>
MCLocal == {"bracket", "don1-side-channel"}
MCScripted == {"don1-side-channel"}
MCChannel == "u_channel_9"
=============================================================================
