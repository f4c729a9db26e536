------------------------------ MODULE MCBcast ------------------------------
\* The broadcaster for TLC; the configuration gives the constants.
EXTENDS Bcast
=============================================================================
