------------------------------- MODULE MCPam -------------------------------
(* AuthPam on small instances: the constants are numbers given in the cfg. *)
EXTENDS AuthPam
=============================================================================
