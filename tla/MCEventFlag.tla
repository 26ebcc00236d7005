---------------------------- MODULE MCEventFlag ----------------------------
\* A small instance of EventFlag for TLC: three threads, two bits, and one
\* argument record of wait for every mode that behaves differently.
EXTENDS EventFlag, TLC

CONSTANTS t1, t2, t3

MCThreads == {t1, t2, t3}
MCBits == {1, 2}
MCBitArgs == {{}, {1}, {1, 2}}
MCWaitArgs ==
    {[bits |-> {1, 2}, wait_mode |-> "And", clear_mode |-> "Bits", timed |-> FALSE],
     [bits |-> {1},    wait_mode |-> "Or",  clear_mode |-> "All",  timed |-> TRUE],
     [bits |-> {1, 2}, wait_mode |-> "Or",  clear_mode |-> "None", timed |-> TRUE]}
=============================================================================
