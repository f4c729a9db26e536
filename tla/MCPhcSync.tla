----------------------------- MODULE MCPhcSync -----------------------------
\* The phcsync controller for TLC; the configurations give the constants.
EXTENDS PhcSync
=============================================================================
