---------------------------- MODULE MCMysockConn ----------------------------
(* An instance of MysockConn for TLC *)
EXTENDS MysockConn

\* the transport layer waits for every kind of event
AnyEventOnly == {ANY_EVENT}
=============================================================================
