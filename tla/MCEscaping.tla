----------------------------- MODULE MCEscaping -----------------------------
EXTENDS Escaping, TLC
=============================================================================
