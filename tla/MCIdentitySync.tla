--------------------------- MODULE MCIdentitySync ---------------------------
(* A small instance of IdentitySync for the statistics of identities. *)
EXTENDS IdentitySync

CONSTANTS a1, m1

OneFile    == {a1}
NoKeys     == {}
OneManual  == {m1}
NoTogglers == {}

=============================================================================
