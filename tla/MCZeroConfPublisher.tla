------------------------ MODULE MCZeroConfPublisher ------------------------
(* ZeroConfPublisher with short intervals. *)
EXTENDS ZeroConfPublisher
=============================================================================
