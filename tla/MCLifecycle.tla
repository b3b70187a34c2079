---------------------------- MODULE MCLifecycle ----------------------------
(* Instances of Lifecycle for TLC. *)
EXTENDS Lifecycle

CONSTANTS smtp, imap, w1, w2

\* The second certificate is a reissue of the first with its expiry
TwoAlike == <<1, 1, 2>>
=============================================================================
