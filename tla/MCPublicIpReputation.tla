------------------------ MODULE MCPublicIpReputation ------------------------
(* Small instance of PublicIpReputation: two addresses, the Tor exit list  *)
(* and one more provider, which finds a proxy or nothing.                  *)
EXTENDS PublicIpReputation

CONSTANTS home, exit

MCIPs == {home, exit}

MCProviders == {"tor", "ip_api"}
MCAnswers == {"proxy", "clean"}
MCExitLists == {{}, {exit}}
MCFailOn == {"tor", "proxy"}

=============================================================================
