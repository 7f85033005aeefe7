---------------------------- MODULE MCPeerTable -----------------------------
(***************************************************************************)
(* Two nodes that discover and dial each other, and the address of a third *)
(* that does not run.                                                      *)
(***************************************************************************)
EXTENDS PeerTable

CONSTANTS a, b, c

\* Each discovers the other; one is told to connect, or has a list.
MCDialer == {<<a, "udp">>, <<b, "udp">>, <<b, "connect">>, <<b, "list">>}
=============================================================================
