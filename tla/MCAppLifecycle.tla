--------------------------- MODULE MCAppLifecycle ---------------------------
(* Small instances of AppLifecycle for TLC. *)
EXTENDS AppLifecycle

CONSTANTS r1, r2, w1, b1, k1

TwoRequests == {r1, r2}
OneWorker   == {w1}
OneRunner   == {b1}
OneCloser   == {k1}

=============================================================================
