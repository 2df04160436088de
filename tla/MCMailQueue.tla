---------------------------- MODULE MCMailQueue ----------------------------
(* An instance of MailQueue for TLC.                                       *)
EXTENDS MailQueue

OwnKeys == [s \in Senders |-> s]
=============================================================================
