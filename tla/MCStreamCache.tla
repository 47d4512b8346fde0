---------------------------- MODULE MCStreamCache ---------------------------
EXTENDS StreamCache
=============================================================================
