-------------------------------- MODULE MCCli --------------------------------
EXTENDS Cli, TLC

(* A gateway may take the socket of a helper.                               *)
MCPrograms == 1 :> {"helper"} @@ 2 :> {"helper", "gateway"}

Text(items) == [bracketed |-> TRUE, items |-> items]

(* Two items and a blank in every order, twice the same, none at all, and a *)
(* value without brackets.                                                  *)
MCTexts == {[bracketed |-> FALSE, items |-> <<1>>]} \cup
    {Text(items) : items \in {<<0>>, <<1>>, <<1, 2>>, <<2, 1>>, <<1, 1>>, <<1, 0>>}}

Agreed == [parses |-> TRUE, valid |-> TRUE, mode |-> "GATEWAY_ONLY", network |-> "DENY",
           gateways |-> Text(<<2, 1>>), tools |-> Text(<<0>>)]

(* Manifests that deviate in one field or in their gateways.                *)
MCManifests ==
    {[Agreed EXCEPT !.gateways = t] : t \in MCTexts} \cup
    {[Agreed EXCEPT !.tools = Text(<<1>>)], [Agreed EXCEPT !.mode = "DENY"],
     [Agreed EXCEPT !.network = "ALLOW"], [Agreed EXCEPT !.valid = FALSE],
     [Agreed EXCEPT !.parses = FALSE]}

MCProfiles == [mode : {"GATEWAY_ONLY"}, network : {"DENY"}, tools : {<<>>},
               gateways : {<<>>, <<1>>, <<1, 2>>, <<2, 1>>, <<1, 1>>}]
=============================================================================
