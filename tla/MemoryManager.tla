---------------------------- MODULE MemoryManager ----------------------------
(***************************************************************************)
(* The memory manager (core/dmem/memoryManager.cpp) over its two memory    *)
(* types, with mmap and munmap of core/kernel/filesystem.cpp.  The manager *)
(* keeps the type of each registered address; munmap asks it which type to *)
(* unmap from.  alloc, reserve, free and map of a type call the manager    *)
(* with the type's mutex held, virtualQuery calls the types with the       *)
(* manager's mutex held.                                                   *)
(***************************************************************************)
EXTENDS DirectMemory, FiniteSets

CONSTANTS
    m_configuresSize, \* the limit of flexible memory
    MaxCalls          \* bound on the calls of the guest

ASSUME LimitAssumption == m_configuresSize \in Nat

VARIABLES
    flexible, flexUsed, flexLock, flexAddr,   \* FlexibleMemory, with the same host
    registered,  \* the manager's m_mappings: address -> type
    queries,     \* the thread in virtualQuery, which holds the manager's mutex
    asks,        \* the type whose virtualQuery it calls, or "none"
    pending,     \* per thread: what mmap or munmap does next, [todo, addr]
    views,       \* the file views of MapViewOfFile: address -> [size]
    calls

F == INSTANCE FlexibleMemory

flexOnly == <<flexible, flexUsed, flexLock, flexAddr>>
directTables == <<m_objects, m_mappings, m_usedSize, device, lock, work, heap>>
directOnly == <<directTables, life>>
managerVars == <<registered, queries, asks, pending, views>>
vars == <<directOnly, flexOnly, host, managerVars, calls>>

Nothing == [todo |-> "none", addr |-> 0]

Init ==
    /\ DirectInit /\ F!Init
    /\ registered = <<>>
    /\ queries = NoThread /\ asks = "none"
    /\ pending = [t \in Threads |-> Nothing]
    /\ views = <<>>
    /\ calls = 0

\* A thread makes its next call when it is out of the one before.
Call(t) ==
    /\ life = "running"
    /\ lock # t /\ flexLock # t /\ queries # t /\ pending[t] = Nothing
    /\ calls < MaxCalls /\ calls' = calls + 1

ManagerFree == life = "running" /\ queries = NoThread
Continue == life = "running" /\ UNCHANGED calls

-----------------------------------------------------------------------------
\* Calls that go to one memory type.
CallDirect(t) ==
    /\ Call(t)
    /\ \/ \E len \in Lens : Alloc(t, len) \/ Reserve(t, len)
       \/ \E a \in Pages \cup DevicePages : Free(t, a)
       \/ \E len \in Lens, prot \in Prots, vaddr \in Pages, fixed \in BOOLEAN :
            \/ fixed /\ MapReservation(vaddr, len, prot)
            \/ MapNullBlock(len, prot, fixed, vaddr)
            \/ Map(len, prot, fixed, vaddr)
    /\ UNCHANGED <<flexOnly, managerVars>>

\* sceKernelMapFlexibleMemory, or mmap of anonymous memory.
CallFlexible(t) ==
    /\ Call(t)
    /\ \/ \E len \in Lens, fixed \in BOOLEAN, vaddr \in Pages : F!Map(t, len, fixed, vaddr)
       \/ \E a \in Pages : F!Unmap(a)      \* sceKernelReleaseFlexibleMemory
    /\ UNCHANGED <<directOnly, managerVars>>

\* registerMapping and unregisterMapping, called by the types.
RegisterDirect(t) ==
    /\ Continue /\ ManagerFree
    /\ Registered(t)
    /\ registered' = Emplace(registered, heap, "Direct")
    /\ UNCHANGED <<flexOnly, queries, asks, pending, views>>

RegisterFlexible(t) ==
    /\ Continue /\ ManagerFree
    /\ F!Registered(t)
    /\ registered' = Emplace(registered, flexAddr, "Flexible")
    /\ UNCHANGED <<directOnly, queries, asks, pending, views>>

FreeDirect(t) ==
    /\ Continue
    /\ \/ /\ ManagerFree
          /\ FreeMapping(t)
          /\ \E k \in MappedFrom(heap) :
                IsFirst(k, MappedFrom(heap)) /\ registered' = Without(registered, k)
       \/ FreeObject(t) /\ UNCHANGED registered
    /\ UNCHANGED <<flexOnly, queries, asks, pending, views>>

-----------------------------------------------------------------------------
\* mmap of a file: MapViewOfFile finds the address, then it is registered.
MapFile(t) ==
    /\ Call(t)
    /\ \E len \in Lens : \E a \in F!FitsHost(len) :
        /\ views' = With(views, a, [size |-> len])
        /\ host' = host \cup Span(a, len)
        /\ pending' = [pending EXCEPT ![t] = [todo |-> "register", addr |-> a]]
    /\ UNCHANGED <<directOnly, flexOnly, registered, queries, asks>>

RegisterFile(t) ==
    /\ Continue /\ ManagerFree
    /\ pending[t].todo = "register"
    /\ registered' = Emplace(registered, pending[t].addr, "File")
    /\ pending' = [pending EXCEPT ![t] = Nothing]
    /\ UNCHANGED <<directOnly, flexOnly, host, queries, asks, views>>

\* munmap unregisters the address, and then unmaps from the type it was told.
Munmap(t, a) ==
    /\ Call(t) /\ ManagerFree
    /\ a \in DOMAIN registered
    /\ registered' = Without(registered, a)
    /\ pending' = [pending EXCEPT ![t] = [todo |-> registered[a], addr |-> a]]
    /\ UNCHANGED <<directOnly, flexOnly, host, queries, asks, views>>

\* An unmap that finds no mapping changes nothing.
MunmapDirect(t) ==
    /\ Continue /\ pending[t].todo = "Direct" /\ lock = NoThread
    /\ IF \E k \in DOMAIN m_mappings : Names(m_mappings, pending[t].addr, k)
       THEN \E len \in Lens : Unmap(pending[t].addr, len)
       ELSE UNCHANGED <<directOnly, host>>
    /\ pending' = [pending EXCEPT ![t] = Nothing]
    /\ UNCHANGED <<flexOnly, registered, queries, asks, views>>

MunmapFlexible(t) ==
    /\ Continue /\ pending[t].todo = "Flexible" /\ flexLock = NoThread
    /\ IF \E k \in DOMAIN flexible : Names(flexible, pending[t].addr, k)
       THEN F!Unmap(pending[t].addr)
       ELSE UNCHANGED <<flexOnly, host>>
    /\ pending' = [pending EXCEPT ![t] = Nothing]
    /\ UNCHANGED <<directOnly, registered, queries, asks, views>>

\* Mutant of MunmapFile: a fixed length is given back, not the view's.
UnmapTwoPages(t) ==
    /\ Continue /\ pending[t].todo = "File"
    /\ views' = Without(views, pending[t].addr)
    /\ host' = host \ Span(pending[t].addr, 2)
    /\ pending' = [pending EXCEPT ![t] = Nothing]
    /\ UNCHANGED <<directOnly, flexOnly, registered, queries, asks>>

\* UnmapViewOfFile.
MunmapFile(t) ==
    /\ Continue /\ pending[t].todo = "File"
    /\ LET a == pending[t].addr
       IN  IF a \in DOMAIN views
           THEN views' = Without(views, a) /\ host' = host \ Span(a, views[a].size)
           ELSE UNCHANGED <<views, host>>
    /\ pending' = [pending EXCEPT ![t] = Nothing]
    /\ UNCHANGED <<directOnly, flexOnly, registered, queries, asks>>

-----------------------------------------------------------------------------
\* virtualQuery, with the manager's mutex; other types answer EACCES at once, as an address
\* above the last entry may be answered, where the end of the table is read.  Of an empty
\* table the entry before its end is read, which has any type, or ends the program.
VirtualQuery(t, a) ==
    /\ Call(t) /\ ManagerFree
    /\ \/ \E k \in DOMAIN registered :
            /\ IsNearest(registered, a, k) /\ registered[k] \in {"Direct", "Flexible"}
            /\ asks' = registered[k] /\ UNCHANGED life
       \/ /\ DOMAIN registered = {}
          /\ asks' \in {"Direct", "Flexible"} /\ life' \in {"running", "crashed"}
    /\ queries' = t
    /\ UNCHANGED <<directTables, flexOnly, host, registered, pending, views>>

\* Mutant of QueryAnswered: each of the types is asked in turn.
QueryAllTypes(t) ==
    /\ Continue /\ queries = t
    /\ lock = NoThread /\ flexLock = NoThread
    /\ queries' = NoThread /\ asks' = "none"
    /\ UNCHANGED <<directOnly, flexOnly, host, registered, pending, views>>

\* The type has answered, for which it locks its mutex.  It steps back from the end of its
\* mappings even when it has none.
NoMappings ==
    \/ asks = "Direct" /\ DOMAIN m_objects # {} /\ DOMAIN m_mappings = {}
    \/ asks = "Flexible" /\ DOMAIN flexible = {}

QueryAnswered(t) ==
    /\ Continue /\ queries = t
    /\ asks = "Direct" => lock = NoThread
    /\ asks = "Flexible" => flexLock = NoThread
    /\ queries' = NoThread /\ asks' = "none"
    /\ life' = "running" \/ (NoMappings /\ life' = "crashed")
    /\ UNCHANGED <<directTables, flexOnly, host, registered, pending, views>>

Advance(t) ==
    \/ RegisterDirect(t) \/ RegisterFlexible(t) \/ FreeDirect(t) \/ RegisterFile(t)
    \/ MunmapDirect(t) \/ MunmapFlexible(t) \/ MunmapFile(t) \/ QueryAnswered(t)

Next ==
    \E t \in Threads :
        \/ CallDirect(t) \/ CallFlexible(t) \/ MapFile(t) \/ Advance(t)
        \/ \E a \in Pages \cup DevicePages : Munmap(t, a) \/ VirtualQuery(t, a)

Spec == Init /\ [][Next]_vars
FairSpec == Spec /\ \A t \in Threads : WF_vars(Advance(t))

-----------------------------------------------------------------------------
\* What the guest was given stays apart and backed: direct mappings in committed
\* memory of their object (directmem.cpp:267, 357), and no page in two of the
\* direct, flexible and file mappings, whichever of the keys a free or an unmap hit.
Held(f) == UNION {Span(k, f[k].size) : k \in DOMAIN f}
MappingsApart ==
    /\ MappingsBacked /\ MappingsDisjoint
    /\ Disjoint(flexible) /\ Disjoint(views)
    /\ Held(m_mappings) \cap Held(flexible) = {}
    /\ Held(views) \cap (Held(m_mappings) \cup Held(flexible)) = {}

\* The used sizes are those of the pages that are mapped, through forced unmaps,
\* unmaps that hit a neighbour and calls in progress (directmem.cpp:273, 428;
\* flexiblemem.cpp:163), and flexible memory stays below its limit (line 136).
SizesCounted ==
    LET mapped == Cardinality(Held(flexible))
    IN  /\ m_usedSize = Cardinality(Held(m_mappings))
        /\ mapped = flexUsed + (IF flexLock = NoThread THEN 0 ELSE flexible[flexAddr].size)
        /\ mapped = 0 \/ mapped < m_configuresSize

\* Every step is a step of DirectMemory, so what is proved of it holds here.
UsesDirectMemory == DirectSpec

\* The locks of the manager and of a type are taken in both orders.
LockCycle ==
    \/ asks = "Direct" /\ lock # NoThread
    \/ asks = "Flexible" /\ flexLock # NoThread

\* A call in progress returns, unless a virtualQuery meets an alloc, reserve, free
\* or map that is about to call the manager (memoryManager.cpp:103 against
\* directmem.cpp:225): no other pair of calls can wait for each other.
InCall(t) == lock = t \/ flexLock = t \/ queries = t \/ pending[t] # Nothing
CallReturns ==
    \A t \in Threads : InCall(t) ~> (~InCall(t) \/ LockCycle \/ life = "crashed")
=============================================================================
