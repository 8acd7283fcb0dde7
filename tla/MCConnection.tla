---------------------------- MODULE MCConnection ----------------------------
(* Connection on a small instance: a client that logs in and then sends a  *)
(* command the mux does not know, two without a handler, one without an    *)
(* answer and an ordinary one.                                             *)
EXTENDS Connection

MCCommand ==
  <<"login", "hello", "editChannel", "delServer", "pushLog", "ping">>
=============================================================================
