---------------------------- MODULE GuestThreads ----------------------------
\* The guest's threads, which the synchronisation objects of core/kernel share.
CONSTANT Threads
=============================================================================
