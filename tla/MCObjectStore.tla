---------------------------- MODULE MCObjectStore ----------------------------
\* Three puts of two contents and an oversized one, with two faults.
EXTENDS ObjectStore
=============================================================================
