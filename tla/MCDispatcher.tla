---------------------------- MODULE MCDispatcher ----------------------------
(* Dispatcher with a channel of one event and a chain of a few blocks. *)
EXTENDS Dispatcher
=============================================================================
