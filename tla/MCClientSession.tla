---------------------------- MODULE MCClientSession ----------------------------
(* One account: no step of ClientSession looks at which account a credential *)
(* is of, and sessions are told apart by their numbers.                      *)
EXTENDS ClientSession

CONSTANT a

MCAccounts == {a}
===============================================================================
