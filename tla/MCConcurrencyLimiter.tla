------------------------ MODULE MCConcurrencyLimiter ------------------------
EXTENDS ConcurrencyLimiter
=============================================================================
