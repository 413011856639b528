-------------------------- MODULE MCSessionStream ---------------------------
EXTENDS SessionStream
=============================================================================
