---------------------------- MODULE MCToolGateway ---------------------------
(* Instance of ToolGateway for TLC. *)
EXTENDS ToolGatewayProperties, TLC

RequestSymmetry == Permutations(Calls) \cup Permutations(Ids)
=============================================================================
