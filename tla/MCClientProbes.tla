--------------------------- MODULE MCClientProbes ---------------------------
EXTENDS ClientProbes
=============================================================================
