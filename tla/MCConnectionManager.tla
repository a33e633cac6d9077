------------------------ MODULE MCConnectionManager ------------------------
(***************************************************************************)
(* Instances of ConnectionManager for TLC.                                 *)
(***************************************************************************)
EXTENDS ConnectionManager, TLC

CONSTANTS Window, Other

\* All profiles on the default local ports: SSH full tunnel with UDPGW, SSH
\* proxy only with UDPGW, and a full tunnel without SSH.
DefaultPorts ==
    {[ssh |-> TRUE,  tun |-> TRUE,  udpgw |-> TRUE,  port |-> 1080],
     [ssh |-> TRUE,  tun |-> FALSE, udpgw |-> TRUE,  port |-> 1080],
     [ssh |-> FALSE, tun |-> TRUE,  udpgw |-> FALSE, port |-> 1080]}

\* A full tunnel over SSH and a proxy-only profile without SSH.
TunnelAndProxy ==
    {[ssh |-> TRUE,  tun |-> TRUE,  udpgw |-> FALSE, port |-> 1080],
     [ssh |-> FALSE, tun |-> FALSE, udpgw |-> FALSE, port |-> 1080]}

Both == {"connect", "disconnect"}
TwoWindows == (Window :> Both) @@ (Other :> Both)
=============================================================================
