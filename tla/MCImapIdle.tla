----------------------------- MODULE MCImapIdle -----------------------------
(* Instances of ImapIdle for TLC. *)
EXTENDS ImapIdle, TLC

CONSTANTS a, b, inbox, other, m1, m2
=============================================================================
