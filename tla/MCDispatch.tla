----------------------------- MODULE MCDispatch -----------------------------
\* Dispatch with two informer goroutines (services and endpoint slices, as run
\* registers them) and three contents of the cache.
EXTENDS Dispatch

CONSTANTS svc, es, c0, c1, c2

MCHandlers == {svc, es}
MCCacheStates == {c0, c1, c2}
=============================================================================
