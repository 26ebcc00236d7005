---------------------------- MODULE DirectMemory ----------------------------
(***************************************************************************)
(* Direct memory (core/dmem/types/directmem.cpp).  `alloc' takes a block   *)
(* of the console's device memory, `reserve' a range of host addresses,    *)
(* and both become an object of m_objects; `map' takes a part of an object *)
(* that fits and commits host memory for the whole object on first use.    *)
(* Addresses are page numbers counted from DIRECTMEM_START.  Keys of       *)
(* m_objects are device addresses for alloc and host addresses for         *)
(* reserve: both start at DIRECTMEM_START, so one table has two kinds of   *)
(* key.  Whatever calls the parent with m_mutexInt held is split there     *)
(* (`work'); all else is one step under the mutex.  Alignments, the memory *)
(* type and m_allocSize, which nothing reads, are left out.                *)
(***************************************************************************)
EXTENDS AddressMaps

VARIABLES
    m_objects,    \* address -> [size, state, prot, allocAddr, block, taken]
    m_mappings,   \* host address -> [heapAddr, size, part]
    m_usedSize,
    device,       \* the pages VMA has handed out of m_virtualDeviceMemory
    host,         \* the host pages that are reserved
    lock,         \* owner of m_mutexInt while it calls the parent
    work,         \* what the owner is doing: "none", "register", "free"
    heap,         \* the object it is doing it to
    life          \* "running", or "crashed" after undefined behaviour

directVars == <<m_objects, m_mappings, m_usedSize, device, host, lock, work, heap, life>>

\* vmaVirtualAllocate, vmaVirtualFree: some free part of the block.
FitsBlock(o, len) ==
    {x \in 0..(m_objects[o].size - 1) :
        Span(x, len) \subseteq (0..(m_objects[o].size - 1)) \ m_objects[o].taken}
FitsDevice(len) == {a \in DevicePages : Span(a, len) \subseteq DevicePages \ device}
\* VirtualAlloc2 with MEM_RESERVE: some range that is not reserved.
FitsHost(len) == {a \in Pages : Span(a, len) \subseteq Pages \ host}

DirectInit ==
    /\ m_objects = <<>>
    /\ m_mappings = <<>>
    /\ m_usedSize = 0
    /\ device = {}
    /\ host = {}
    /\ lock = NoThread
    /\ work = "none"
    /\ heap = 0
    /\ life = "running"

Ready == life = "running" /\ lock = NoThread
CallParent(t, what, a) == lock' = t /\ work' = what /\ heap' = a
NoCall == UNCHANGED <<lock, work, heap, life>>

-----------------------------------------------------------------------------
\* alloc; when the block for the mappings cannot be created the device memory
\* is not given back.  An address that is a key already keeps its object.
Alloc(t, len) ==
    /\ Ready
    /\ \E a \in FitsDevice(len) :
        /\ device' = device \cup Span(a, len)
        /\ \/ UNCHANGED m_objects /\ NoCall
           \/ /\ m_objects' = Emplace(m_objects, a,
                    [size |-> len, state |-> "Free", prot |-> 0, allocAddr |-> 0,
                     block |-> TRUE, taken |-> {}])
              /\ CallParent(t, "register", a) /\ UNCHANGED life
    /\ UNCHANGED <<m_mappings, m_usedSize, host>>

Reserve(t, len) ==
    /\ Ready
    /\ \E a \in FitsHost(len) :
        /\ host' = host \cup Span(a, len)
        /\ m_objects' = Emplace(m_objects, a,
              [size |-> len, state |-> "Reserved", prot |-> 0, allocAddr |-> 0,
               block |-> FALSE, taken |-> {}])
        /\ CallParent(t, "register", a)
    /\ UNCHANGED <<m_mappings, m_usedSize, device, life>>

\* m_parent->registerMapping has returned; alloc and reserve leave.
Registered(t) ==
    /\ life = "running" /\ lock = t /\ work = "register"
    /\ lock' = NoThread /\ work' = "none" /\ heap' = 0
    /\ UNCHANGED <<m_objects, m_mappings, m_usedSize, device, host, life>>

-----------------------------------------------------------------------------
\* The end of map: the mapping is entered and counted.
EnterMapping(addr, o, len, part) ==
    /\ m_mappings' = Emplace(m_mappings, addr, [heapAddr |-> o, size |-> len, part |-> part])
    /\ m_usedSize' = m_usedSize + len

Committed(o, prot, addr, taken) ==
    [size |-> m_objects[o].size, state |-> "Committed", prot |-> prot,
     allocAddr |-> addr, block |-> m_objects[o].block, taken |-> taken]

\* The reservations a FIXED map may commit; the loop ends with the last of them.
Reservations(vaddr, len) ==
    {o \in DOMAIN m_objects : /\ m_objects[o].state = "Reserved"
                              /\ o <= vaddr /\ len <= m_objects[o].size}

MapReservation(vaddr, len, prot) ==
    /\ Ready
    /\ \E o \in Reservations(vaddr, len) :
        /\ \A p \in Reservations(vaddr, len) : p <= o
        /\ m_objects' = [m_objects EXCEPT ![o] = Committed(o, prot, o, m_objects[o].taken)]
        /\ EnterMapping(o, o, len, {})
    /\ UNCHANGED <<device, host>> /\ NoCall

\* getMemoryInfo tries the objects in the order of their addresses.  One that was
\* reserved and is committed by now has no block to allocate from.
Candidates(len, prot) ==
    {o \in DOMAIN m_objects :
        /\ m_objects[o].state # "Reserved"
        /\ m_objects[o].state = "Committed" => m_objects[o].prot = prot
        /\ m_objects[o].block => FitsBlock(o, len) # {}}

MapNullBlock(len, prot, fixed, vaddr) ==
    /\ Ready
    /\ fixed => Reservations(vaddr, len) = {}
    /\ \E o \in Candidates(len, prot) :
        IsFirst(o, Candidates(len, prot)) /\ ~m_objects[o].block
    /\ life' = "crashed"
    /\ UNCHANGED <<m_objects, m_mappings, m_usedSize, device, host, lock, work, heap>>

\* map.  Host memory is committed for the whole object, at `vaddr' if FIXED; when
\* that fails the part stays taken in the block.
MapObject(o, x, len, prot, fixed, vaddr) ==
    LET taken == m_objects[o].taken \cup Span(x, len)
    IN  IF m_objects[o].state = "Committed"
        THEN /\ m_objects' = [m_objects EXCEPT ![o].taken = taken]
             /\ EnterMapping(m_objects[o].allocAddr + x, o, len, Span(x, len))
             /\ UNCHANGED host
        ELSE \/ /\ m_objects' = [m_objects EXCEPT ![o].taken = taken]
                /\ UNCHANGED <<m_mappings, m_usedSize, host>>
             \/ \E h \in FitsHost(m_objects[o].size) :
                /\ fixed => h = vaddr
                /\ m_objects' = [m_objects EXCEPT ![o] = Committed(o, prot, h, taken)]
                /\ EnterMapping(h + x, o, len, Span(x, len))
                /\ host' = host \cup Span(h, m_objects[o].size)

Map(len, prot, fixed, vaddr) ==
    /\ Ready
    /\ fixed => Reservations(vaddr, len) = {}
    /\ \E o \in Candidates(len, prot) :
        /\ IsFirst(o, Candidates(len, prot)) /\ m_objects[o].block
        /\ \E x \in FitsBlock(o, len) : MapObject(o, x, len, prot, fixed, vaddr)
    /\ UNCHANGED device /\ NoCall

\* Mutant of Unmap: the size that was passed is subtracted, not the mapping's.
UnmapPassedSize(a, size) ==
    /\ Ready
    /\ \E k \in DOMAIN m_mappings :
        /\ Names(m_mappings, a, k)
        /\ m_mappings' = Without(m_mappings, k)
        /\ m_usedSize' = m_usedSize - size
        /\ LET o == m_mappings[k].heapAddr
           IN  m_objects' = IF o \notin DOMAIN m_objects THEN m_objects
                            ELSE [m_objects EXCEPT ![o].taken = @ \ m_mappings[k].part]
    /\ UNCHANGED <<device, host>> /\ NoCall

\* unmap.
Unmap(a, size) ==
    /\ Ready
    /\ \E k \in DOMAIN m_mappings :
        /\ Names(m_mappings, a, k)
        /\ m_mappings' = Without(m_mappings, k)
        /\ m_usedSize' = m_usedSize - m_mappings[k].size
        /\ LET o == m_mappings[k].heapAddr
           IN  m_objects' = IF o \notin DOMAIN m_objects THEN m_objects
                            ELSE [m_objects EXCEPT ![o].taken = @ \ m_mappings[k].part]
    /\ UNCHANGED <<device, host>> /\ NoCall

-----------------------------------------------------------------------------
\* free finds the object; a reservation stays.  VirtualFree is called with no
\* type and frees nothing.
Free(t, a) ==
    /\ Ready
    /\ \E o \in DOMAIN m_objects :
        /\ Names(m_objects, a, o) /\ m_objects[o].state # "Reserved"
        /\ CallParent(t, "free", o)
    /\ UNCHANGED <<m_objects, m_mappings, m_usedSize, device, host, life>>

MappedFrom(o) == {k \in DOMAIN m_mappings : m_mappings[k].heapAddr = o}

\* One round of the loop over the mappings that are left, which calls the parent's
\* unregisterMapping and erases the element the loop stands on.
FreeMapping(t) ==
    /\ life = "running" /\ lock = t /\ work = "free"
    /\ \E k \in MappedFrom(heap) :
        /\ IsFirst(k, MappedFrom(heap))
        /\ m_mappings' = Without(m_mappings, k)
        /\ m_usedSize' = m_usedSize - m_mappings[k].size
        /\ m_objects' = [m_objects EXCEPT ![heap].taken = @ \ m_mappings[k].part]
    /\ life' \in {"running", "crashed"}
    /\ UNCHANGED <<device, host, lock, work, heap>>

\* Mutant of FreeObject: the object is freed while mappings of it are left.
FreeObjectEarly(t) ==
    /\ life = "running" /\ lock = t /\ work = "free"
    /\ device' = IF m_objects[heap].block THEN device \ Span(heap, m_objects[heap].size)
                 ELSE device
    /\ m_objects' = Without(m_objects, heap)
    /\ lock' = NoThread /\ work' = "none" /\ heap' = 0
    /\ UNCHANGED <<m_mappings, m_usedSize, host, life>>

FreeObject(t) ==
    /\ life = "running" /\ lock = t /\ work = "free"
    /\ MappedFrom(heap) = {}
    /\ device' = IF m_objects[heap].block THEN device \ Span(heap, m_objects[heap].size)
                 ELSE device
    /\ m_objects' = Without(m_objects, heap)
    /\ lock' = NoThread /\ work' = "none" /\ heap' = 0
    /\ UNCHANGED <<m_mappings, m_usedSize, host, life>>

-----------------------------------------------------------------------------
\* The host pages of an object: a committed one's memory, a reserved one's range.
HostRange(o) ==
    IF m_objects[o].state = "Committed" THEN Span(m_objects[o].allocAddr, m_objects[o].size)
    ELSE IF m_objects[o].state = "Reserved" THEN Span(o, m_objects[o].size) ELSE {}

\* Flexible memory and file views reserve and release host memory of their own, and the
\* undefined behaviour of a query ends the program.
OthersUseHost ==
    /\ host' \in SUBSET Pages
    /\ \A o \in DOMAIN m_objects : HostRange(o) \subseteq host'
    /\ life' \in {life, "crashed"}
    /\ UNCHANGED <<m_objects, m_mappings, m_usedSize, device, lock, work, heap>>

DirectStep ==
    \/ \E t \in Threads :
        \/ \E len \in Lens : Alloc(t, len) \/ Reserve(t, len)
        \/ Registered(t) \/ FreeMapping(t) \/ FreeObject(t)
        \/ \E a \in Pages \cup DevicePages : Free(t, a)
    \/ \E len \in Lens, prot \in Prots, vaddr \in Pages, fixed \in BOOLEAN :
        \/ fixed /\ MapReservation(vaddr, len, prot)
        \/ MapNullBlock(len, prot, fixed, vaddr)
        \/ Map(len, prot, fixed, vaddr)
    \/ \E a \in Pages \cup DevicePages, len \in Lens : Unmap(a, len)

DirectNext == OthersUseHost \/ DirectStep

DirectSpec == DirectInit /\ [][DirectNext]_directVars

-----------------------------------------------------------------------------
Objects ==
    [size : Lens, state : {"Free", "Reserved", "Committed"}, prot : Prots \cup {0},
     allocAddr : Nat, block : BOOLEAN, taken : SUBSET Nat]
Mappings == [heapAddr : Nat, size : Lens, part : SUBSET Nat]

DirectTypeOK ==
    /\ DOMAIN m_objects \subseteq Pages \cup DevicePages
    /\ \A o \in DOMAIN m_objects : m_objects[o] \in Objects
    /\ DOMAIN m_mappings \subseteq Pages
    /\ \A k \in DOMAIN m_mappings : m_mappings[k] \in Mappings
    /\ m_usedSize \in Int
    /\ device \subseteq DevicePages /\ host \subseteq Pages
    /\ lock \in Threads \cup {NoThread}
    /\ work \in {"none", "register", "free"}
    /\ heap \in Nat
    /\ life \in {"running", "crashed"}

\* Every mapping lies in the committed host memory of an object that exists, in
\* the part of the block that was allocated for it: free (directmem.cpp:267) may
\* not forget one, whichever of the two kinds of key found the object.
MappingsBacked ==
    \A k \in DOMAIN m_mappings :
        LET m == m_mappings[k]
            o == m_mappings[k].heapAddr
        IN  /\ o \in DOMAIN m_objects
            /\ m_objects[o].state = "Committed"
            /\ Span(k, m.size) \subseteq
                  Span(m_objects[o].allocAddr, m_objects[o].size) \cap host
            /\ m.part \subseteq m_objects[o].taken

\* Two mappings never share a page of host memory (directmem.cpp:357): not by two
\* parts of one object and not by two objects.
MappingsDisjoint == Disjoint(m_mappings)
=============================================================================
