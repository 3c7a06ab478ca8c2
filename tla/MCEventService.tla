--------------------------- MODULE MCEventService ---------------------------
EXTENDS EventService, TLC

\* Workers are interchangeable; the events of this configuration are not.
WorkerSym == Permutations(Workers)
=============================================================================
