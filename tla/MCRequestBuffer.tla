--------------------------- MODULE MCRequestBuffer ---------------------------
EXTENDS RequestBuffer
=============================================================================
