------------------------------ MODULE MCIoView ------------------------------
(* Two cores: one with more outputs than inputs, one with more inputs. *)
EXTENDS IoView, TLC

MCWidths == {[nIn |-> 1, nOut |-> 2], [nIn |-> 2, nOut |-> 1]}
=============================================================================
