---------------------------- MODULE MCEchoStream ----------------------------
(***************************************************************************)
(* EchoStream with two rings of twelve bytes, which the client's window of *)
(* three messages just fills; a ring of 13 bytes wraps at another byte of  *)
(* a message each time.                                                    *)
(***************************************************************************)
EXTENDS EchoStream
=============================================================================
