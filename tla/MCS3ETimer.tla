----------------------------- MODULE MCS3ETimer -----------------------------
(* Small instances of S3ETimer for TLC. *)
EXTENDS S3ETimer

CONSTANTS main, worker, e1, e2, e3

=============================================================================
