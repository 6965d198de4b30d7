-------------------------- MODULE MCServerConnection --------------------------
(* Instances of ServerConnection for TLC; the .cfg files give the constants. *)
EXTENDS ServerConnection
==============================================================================
