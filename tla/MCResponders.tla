---------------------------- MODULE MCResponders ----------------------------
EXTENDS Responders
=============================================================================
