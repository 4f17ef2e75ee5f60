------------------------------ MODULE MCQueue ------------------------------
(* AuthMsgQueue on small instances. *)
EXTENDS AuthMsgQueue

MCKinds == {"prompt", "message"}
=============================================================================
