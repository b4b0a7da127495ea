------------------------- MODULE MCWorkerContainer -------------------------
EXTENDS WorkerContainer
=============================================================================
