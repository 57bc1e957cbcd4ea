------------------------------ MODULE MCStreams ------------------------------
(* Instance of the streams for TLC.                                        *)
EXTENDS Streams, TLC
=============================================================================
