------------------------ MODULE MCWaveformGenerator -------------------------
(* Waveforms of every length that fits the memory. *)
EXTENDS WaveformGenerator

MCCounts == 1..Depth
=============================================================================
