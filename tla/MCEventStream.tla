---------------------------- MODULE MCEventStream ----------------------------
(* An instance of EventStream.                                             *)
EXTENDS EventStream
=============================================================================
