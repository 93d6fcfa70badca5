--------------------------- MODULE MCWaveformCore ---------------------------
(* Masters and slaves, with and without a double buffer. *)
EXTENDS WaveformCore

MCGenerics == BOOLEAN \X BOOLEAN
=============================================================================
