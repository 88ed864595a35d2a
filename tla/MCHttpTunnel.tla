---------------------------- MODULE MCHttpTunnel ----------------------------
(* Bodies for TLC: none at all, one piece, chunks around the size of a piece,  *)
(* and an empty part between two others.                                       *)
EXTENDS HttpTunnel

MCBodies == {<<>>, <<1>>, <<3, 5>>, <<2, 2, 3>>}
=============================================================================
