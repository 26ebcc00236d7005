--------------------------- MODULE FlexibleMemory ---------------------------
(***************************************************************************)
(* Flexible memory (core/dmem/types/flexiblemem.cpp): host memory that is  *)
(* reserved and committed at once, limited to the configured size.  map    *)
(* registers with the parent while it holds m_mutexInt and counts the new  *)
(* mapping only then.                                                      *)
(***************************************************************************)
EXTENDS AddressMaps

CONSTANT m_configuresSize    \* the limit

VARIABLES
    flexible,    \* m_mappings: host address -> [size]
    flexUsed,    \* m_usedSize
    flexLock,    \* owner of m_mutexInt while it calls the parent
    flexAddr,    \* the mapping it registers
    host         \* the host pages that are reserved

flexVars == <<flexible, flexUsed, flexLock, flexAddr, host>>

Init ==
    /\ flexible = <<>>
    /\ flexUsed = 0
    /\ flexLock = NoThread
    /\ flexAddr = 0
    /\ host = {}

Ready == flexLock = NoThread
\* VirtualAlloc2 with MEM_RESERVE: some range that is not reserved.
FitsHost(len) == {a \in Pages : Span(a, len) \subseteq Pages \ host}

Map(t, len, fixed, vaddr) ==
    /\ Ready
    /\ flexUsed + len < m_configuresSize
    /\ \E a \in FitsHost(len) :
        /\ fixed => a = vaddr
        /\ host' = host \cup Span(a, len)
        /\ flexible' = Emplace(flexible, a, [size |-> len])
        /\ flexAddr' = a
    /\ flexLock' = t
    /\ UNCHANGED flexUsed

\* registerMapping has returned.
Registered(t) ==
    /\ flexLock = t
    /\ flexUsed' = flexUsed + flexible[flexAddr].size
    /\ flexLock' = NoThread /\ flexAddr' = 0
    /\ UNCHANGED <<flexible, host>>

\* unmap; the VirtualFree names no type, and the range stays reserved.
Unmap(a) ==
    /\ Ready
    /\ \E k \in DOMAIN flexible :
        /\ Names(flexible, a, k)
        /\ flexible' = Without(flexible, k)
        /\ flexUsed' = flexUsed - flexible[k].size
    /\ UNCHANGED <<flexLock, flexAddr, host>>
=============================================================================
