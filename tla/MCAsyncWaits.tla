---------------------------- MODULE MCAsyncWaits ----------------------------
EXTENDS AsyncWaits
=============================================================================
