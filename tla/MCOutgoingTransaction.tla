----------------------- MODULE MCOutgoingTransaction -----------------------
(* Small instances of OutgoingTransaction; every constant is a number.       *)
EXTENDS OutgoingTransaction
=============================================================================
