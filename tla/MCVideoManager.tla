--------------------------- MODULE MCVideoManager ---------------------------
(* Live video with two cameras.                                            *)
EXTENDS VideoManager, TLC

CONSTANTS c1, c2

=============================================================================
