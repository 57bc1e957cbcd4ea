------------------------------ MODULE MCPanel ------------------------------
(* Instance of the pages for TLC.                                          *)
EXTENDS Panel, TLC
=============================================================================
