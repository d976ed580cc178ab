--------------------------- MODULE MCProviderChain ---------------------------
\* An instance of ProviderChain for TLC.  A context may expire while the
\* circuit of its rung opens, waits and is tried: the cap on a rung is longer
\* than the shortest Retry-After.
EXTENDS ProviderChain
=============================================================================
