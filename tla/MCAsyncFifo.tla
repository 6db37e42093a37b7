---------------------------- MODULE MCAsyncFifo -----------------------------
EXTENDS AsyncFifo
=============================================================================
