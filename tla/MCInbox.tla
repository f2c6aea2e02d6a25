-------------------------------- MODULE MCInbox --------------------------------
(***************************************************************************)
(* The broker's views of one conversation, for model checking.             *)
(***************************************************************************)
EXTENDS Inbox
===============================================================================
