------------------------------ MODULE MCOutbox ------------------------------
(***************************************************************************)
(* An event, a push and a mail for Outbox.                                 *)
(***************************************************************************)
EXTENDS Outbox, TLC

CONSTANTS event, push, mail

EntryKinds == (event :> "event") @@ (push :> "push") @@ (mail :> "mail")
=============================================================================
