---------------------------- MODULE MCMailStore ----------------------------
(* Instances of MailStore for TLC. *)
EXTENDS MailStore, TLC

CONSTANTS ann, bob, web1, imap1, imap2, m1, m2

\* Two connections of ann, one of bob.
ThreeClients == (web1 :> ann) @@ (imap1 :> ann) @@ (imap2 :> bob)

\* Two connections of ann.
OneUser == (web1 :> ann) @@ (imap1 :> ann)

Connections == Permutations({web1, imap1})

\* SQLite only: nothing runs beside the transaction of a forced deletion, and what is
\* left is the deletion without one.
SqliteSpec == Init /\ db = "sqlite" /\ [][Next]_vars
=============================================================================
