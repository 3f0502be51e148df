------------------------- MODULE MCRotatingFileSink --------------------------
(* Instances of RotatingFileSink for TLC; the values are in the .cfg files.  *)
EXTENDS RotatingFileSink
==============================================================================
