--------------------------- MODULE MCIntentQueue ---------------------------
EXTENDS IntentQueue

\* What may fail without undoing the claim protocol: everything but the delete
\* of the pending blob.
AllButDelete == Fault \ {"del-pending"}
=============================================================================
