--------------------------- MODULE MCInboxTriage ---------------------------
(* Instances of InboxTriage for TLC: the messages that two mails come to.  *)
EXTENDS InboxTriage

CONSTANTS e1, e2, u, v

BothThenOne == <<e1, e1, e2>>
Recipients  == <<u, v, u>>

=============================================================================
