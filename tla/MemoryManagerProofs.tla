------------------------- MODULE MemoryManagerProofs -------------------------
(***************************************************************************)
(* Direct memory, and the composition of the memory types, for any         *)
(* threads, pages, lengths and protections.  The argument about direct     *)
(* memory is one of ranges: the host ranges of two objects never meet, and *)
(* inside one object a mapping covers exactly the part of the block that   *)
(* was allocated for it.  The types keep nothing of each other: what holds *)
(* them apart is the host's reservation of pages, so the invariant of the  *)
(* manager is that each type's ranges are reserved and no two types'       *)
(* ranges meet, also those of direct objects without any mapping, and that *)
(* a step of direct memory takes free pages only.                          *)
(***************************************************************************)
EXTENDS MemoryManager, FiniteSetTheorems, TLAPS

\* A reservation has no block; what has none is a reservation, or was one.
KindsOK ==
    \A o \in DOMAIN m_objects :
        IF m_objects[o].block THEN m_objects[o].state # "Reserved"
        ELSE m_objects[o].state # "Free"

RangesApart ==
    /\ \A o \in DOMAIN m_objects : HostRange(o) \subseteq host
    /\ \A o, p \in DOMAIN m_objects : o # p => HostRange(o) \cap HostRange(p) = {}

\* A mapping of an object with a block covers its part of the block; one of a
\* reservation takes no part.
Placed(k) ==
    LET m == m_mappings[k]
        o == m_mappings[k].heapAddr
    IN  /\ o \in DOMAIN m_objects
        /\ m_objects[o].state = "Committed"
        /\ Span(k, m.size) \subseteq HostRange(o)
        /\ m.part \subseteq m_objects[o].taken
        /\ ~m_objects[o].block => m.part = {}
        /\ m_objects[o].block =>
              \A i \in Nat : i \in m.part <=> m_objects[o].allocAddr + i \in Span(k, m.size)

AllPlaced == \A k \in DOMAIN m_mappings : Placed(k)

SpansApart ==
    \A j, k \in DOMAIN m_mappings :
        j # k => Span(j, m_mappings[j].size) \cap Span(k, m_mappings[k].size) = {}

Working == work = "free" => heap \in DOMAIN m_objects

DirectInv == DirectTypeOK /\ KindsOK /\ RangesApart /\ AllPlaced /\ SpansApart /\ Working

tables == <<m_objects, m_mappings, m_usedSize, device, host, work, heap>>

LEMMA SpanFacts ==
    ASSUME NEW a \in Nat, NEW len \in Lens
    PROVE  /\ \A x : x \in Span(a, len) <=> x \in Int /\ a <= x /\ x < a + len
           /\ a \in Span(a, len)
           /\ len \in Nat /\ len >= 1
  BY LensAssumption DEF Span

LEMMA WithoutFacts ==
    ASSUME NEW f, NEW k
    PROVE  /\ DOMAIN Without(f, k) = DOMAIN f \ {k}
           /\ \A x \in DOMAIN f \ {k} : Without(f, k)[x] = f[x]
  BY DEF Without

\* Ranges and placement depend on the tables of objects and mappings alone.
LEMMA Typed ==
    ASSUME DirectInv
    PROVE  /\ \A o \in DOMAIN m_objects :
                 /\ o \in Nat /\ m_objects[o] \in Objects
                 /\ m_objects[o].size \in Lens /\ m_objects[o].allocAddr \in Nat
                 /\ m_objects[o].taken \subseteq Nat
           /\ \A k \in DOMAIN m_mappings :
                 /\ k \in Nat /\ m_mappings[k] \in Mappings
                 /\ m_mappings[k].size \in Lens /\ m_mappings[k].part \subseteq Nat
                 /\ m_mappings[k].heapAddr \in Nat
           /\ host \subseteq Nat
  BY PagesAssumption DEF DirectInv, DirectTypeOK, Objects, Mappings

-----------------------------------------------------------------------------
\* A new object, with a range no other object has.
LEMMA NewObject ==
    ASSUME DirectInv, NEW a \in Pages \cup DevicePages, NEW v \in Objects,
           v.block => v.state = "Free", ~v.block => v.state = "Reserved",
           m_objects' = Emplace(m_objects, a, v),
           host' \in SUBSET Pages, host \subseteq host',
           v.state = "Reserved" => Span(a, v.size) \subseteq host' \ host,
           DirectTypeOK', UNCHANGED m_mappings, work' # "free"
    PROVE  DirectInv'
  <1>1. CASE a \in DOMAIN m_objects
    <2>1. UNCHANGED m_objects
      BY <1>1 DEF Emplace
    <2>2. RangesApart'
      BY <2>1 DEF DirectInv, RangesApart, HostRange
    <2>3. KindsOK' /\ AllPlaced' /\ SpansApart' /\ Working'
      BY <2>1 DEF DirectInv, KindsOK, HostRange, AllPlaced, Placed, SpansApart, Working
    <2>4. QED
      BY <2>2, <2>3 DEF DirectInv
  <1>2. CASE a \notin DOMAIN m_objects
    <2>1. /\ DOMAIN m_objects' = DOMAIN m_objects \cup {a}
          /\ \A o \in DOMAIN m_objects : m_objects'[o] = m_objects[o]
          /\ m_objects'[a] = v
      BY <1>2 DEF Emplace, With
    <2>2. \A o \in DOMAIN m_objects : HostRange(o)' = HostRange(o)
      BY <2>1 DEF HostRange
    <2>3. HostRange(a)' \subseteq host' \ host
      BY <2>1 DEF HostRange, Objects
    <2>4. RangesApart'
      BY <1>2, <2>1, <2>2, <2>3 DEF DirectInv, RangesApart
    <2>5. KindsOK'
      BY <2>1 DEF DirectInv, KindsOK
    <2>6. AllPlaced'
      BY <2>1, <2>2 DEF DirectInv, AllPlaced, Placed
    <2>7. SpansApart' /\ Working'
      BY DEF DirectInv, SpansApart, Working
    <2>8. QED
      BY <2>4, <2>5, <2>6, <2>7 DEF DirectInv
  <1>3. QED
    BY <1>1, <1>2

\* An object with other parts taken, no mapping of it more.
LEMMA Retaken ==
    ASSUME DirectInv, NEW o \in DOMAIN m_objects, NEW taken \in SUBSET Nat,
           m_objects' = [m_objects EXCEPT ![o].taken = taken]
    PROVE  /\ DOMAIN m_objects' = DOMAIN m_objects
           /\ \A p \in DOMAIN m_objects :
                 /\ m_objects'[p] \in Objects
                 /\ m_objects'[p].state = m_objects[p].state
                 /\ m_objects'[p].size = m_objects[p].size
                 /\ m_objects'[p].block = m_objects[p].block
                 /\ m_objects'[p].allocAddr = m_objects[p].allocAddr
                 /\ m_objects'[p].prot = m_objects[p].prot
                 /\ p # o => m_objects'[p] = m_objects[p]
                 /\ HostRange(p)' = HostRange(p)
           /\ m_objects'[o].taken = taken
           /\ KindsOK'
  <1>1. m_objects[o] \in Objects /\ \A p \in DOMAIN m_objects : m_objects[p] \in Objects
    BY Typed
  <1>2. /\ DOMAIN m_objects' = DOMAIN m_objects
        /\ \A p \in DOMAIN m_objects : p # o => m_objects'[p] = m_objects[p]
        /\ m_objects'[o] = [m_objects[o] EXCEPT !.taken = taken]
    OBVIOUS
  <1>3. /\ m_objects'[o] \in Objects
        /\ m_objects'[o].state = m_objects[o].state
        /\ m_objects'[o].size = m_objects[o].size
        /\ m_objects'[o].block = m_objects[o].block
        /\ m_objects'[o].allocAddr = m_objects[o].allocAddr
        /\ m_objects'[o].prot = m_objects[o].prot
        /\ m_objects'[o].taken = taken
    BY <1>1, <1>2 DEF Objects
  <1>4. \A p \in DOMAIN m_objects : HostRange(p)' = HostRange(p)
    BY <1>2, <1>3 DEF HostRange
  <1>5. KindsOK'
    BY <1>2, <1>3 DEF DirectInv, KindsOK
  <1>6. QED
    BY <1>1, <1>2, <1>3, <1>4, <1>5

\* A new mapping inside its object's range, clear of the mappings there are.
LEMMA NewMapping ==
    ASSUME DirectInv, NEW k \in Pages, NEW m \in Mappings,
           m_mappings' = Emplace(m_mappings, k, m),
           \A j \in DOMAIN m_mappings :
              /\ Placed(j)'
              /\ Span(j, m_mappings[j].size) \cap Span(k, m.size) = {}
    PROVE  /\ DOMAIN m_mappings' = DOMAIN m_mappings \cup {k}
           /\ m_mappings'[k] = m
           /\ SpansApart'
           /\ \A j \in DOMAIN m_mappings' : m_mappings'[j] \in Mappings
           /\ DOMAIN m_mappings' \subseteq Pages
           /\ Placed(k)' => AllPlaced'
  <1>1. k \in Nat /\ m.size \in Lens
    BY PagesAssumption DEF Mappings
  <1>2. k \notin DOMAIN m_mappings
    BY <1>1, Typed, SpanFacts
  <1>3. /\ DOMAIN m_mappings' = DOMAIN m_mappings \cup {k}
        /\ m_mappings'[k] = m
        /\ \A j \in DOMAIN m_mappings : m_mappings'[j] = m_mappings[j]
    BY <1>2 DEF Emplace, With
  <1>4. SpansApart'
    BY <1>2, <1>3 DEF DirectInv, SpansApart
  <1>5. ASSUME Placed(k)' PROVE AllPlaced'
    <2>1. SUFFICES ASSUME NEW j \in DOMAIN m_mappings' PROVE Placed(j)'
      BY DEF AllPlaced
    <2>2. QED
      BY <1>3, <1>5 DEF Placed
  <1>6. \A j \in DOMAIN m_mappings' : m_mappings'[j] \in Mappings
    BY <1>3, Typed
  <1>7. DOMAIN m_mappings' \subseteq Pages
    BY <1>3 DEF DirectInv, DirectTypeOK
  <1>8. QED
    BY <1>3, <1>4, <1>5, <1>6, <1>7

-----------------------------------------------------------------------------
LEMMA DirectInitStep == DirectInit => DirectInv
  BY DEF DirectInit, DirectInv, DirectTypeOK, KindsOK, RangesApart, AllPlaced, SpansApart, Working

LEMMA AllocStep ==
    ASSUME DirectInv, NEW t \in Threads, NEW len \in Lens, Alloc(t, len)
    PROVE  DirectInv'
  <1>1. PICK a \in FitsDevice(len) :
          /\ device' = device \cup Span(a, len)
          /\ \/ UNCHANGED m_objects /\ NoCall
             \/ /\ m_objects' = Emplace(m_objects, a,
                      [size |-> len, state |-> "Free", prot |-> 0, allocAddr |-> 0,
                       block |-> TRUE, taken |-> {}])
                /\ CallParent(t, "register", a) /\ UNCHANGED life
    BY DEF Alloc
  <1>2. /\ a \in DevicePages /\ device' \subseteq DevicePages
        /\ UNCHANGED <<m_mappings, m_usedSize, host>>
    BY <1>1 DEF Alloc, FitsDevice, DirectInv, DirectTypeOK
  <1>3. CASE UNCHANGED m_objects /\ NoCall
    <2>1. DirectTypeOK'
      BY <1>2, <1>3 DEF NoCall, DirectInv, DirectTypeOK
    <2>2. RangesApart'
      BY <1>2, <1>3 DEF DirectInv, RangesApart, HostRange
    <2>3. KindsOK' /\ AllPlaced' /\ SpansApart' /\ Working'
      BY <1>2, <1>3 DEF NoCall, DirectInv, KindsOK, HostRange, AllPlaced, Placed, SpansApart, Working
    <2>4. QED
      BY <2>1, <2>2, <2>3 DEF DirectInv
  <1>4. CASE ~(UNCHANGED m_objects /\ NoCall)
    <2> DEFINE v == [size |-> len, state |-> "Free", prot |-> 0, allocAddr |-> 0,
                     block |-> TRUE, taken |-> {}]
    <2>1. m_objects' = Emplace(m_objects, a, v) /\ CallParent(t, "register", a) /\ UNCHANGED life
      BY <1>1, <1>4
    <2>2. v \in Objects /\ v.block /\ v.state = "Free"
      BY DEF Objects
    <2>3. DirectTypeOK'
      BY <1>2, <2>1, <2>2, PagesAssumption DEF CallParent, DirectInv, DirectTypeOK, Emplace, With
    <2>4. work' # "free"
      BY <2>1 DEF CallParent
    <2> HIDE DEF v
    <2>5. QED
      BY <1>2, <2>1, <2>2, <2>3, <2>4, NewObject DEF DirectInv, DirectTypeOK
  <1>5. QED
    BY <1>3, <1>4

LEMMA ReserveStep ==
    ASSUME DirectInv, NEW t \in Threads, NEW len \in Lens, Reserve(t, len)
    PROVE  DirectInv'
  <1> DEFINE v == [size |-> len, state |-> "Reserved", prot |-> 0, allocAddr |-> 0,
                   block |-> FALSE, taken |-> {}]
  <1>1. PICK a \in FitsHost(len) :
          /\ host' = host \cup Span(a, len)
          /\ m_objects' = Emplace(m_objects, a, v)
          /\ CallParent(t, "register", a)
    BY DEF Reserve
  <1>2. /\ a \in Pages /\ Span(a, len) \subseteq Pages \ host
        /\ host' \in SUBSET Pages /\ host \subseteq host'
        /\ UNCHANGED <<m_mappings, m_usedSize, device, life>>
    BY <1>1 DEF Reserve, FitsHost, DirectInv, DirectTypeOK
  <1>3. v \in Objects /\ ~v.block /\ v.state = "Reserved" /\ v.size = len
    BY DEF Objects
  <1>4. DirectTypeOK'
    BY <1>1, <1>2, <1>3, PagesAssumption DEF CallParent, DirectInv, DirectTypeOK, Emplace, With
  <1>5. work' # "free" /\ Span(a, len) \subseteq host' \ host
    BY <1>1, <1>2 DEF CallParent
  <1> HIDE DEF v
  <1>6. QED
    BY <1>1, <1>2, <1>3, <1>4, <1>5, NewObject

LEMMA RegisteredStep ==
    ASSUME DirectInv, NEW t \in Threads, Registered(t)
    PROVE  DirectInv'
  <1>1. DirectTypeOK' /\ Working'
    BY DEF Registered, DirectInv, DirectTypeOK, Working
  <1>2. RangesApart' /\ KindsOK'
    BY DEF Registered, DirectInv, RangesApart, HostRange, KindsOK
  <1>3. AllPlaced' /\ SpansApart'
    BY DEF Registered, DirectInv, HostRange, AllPlaced, Placed, SpansApart
  <1>4. QED
    BY <1>1, <1>2, <1>3 DEF DirectInv

LEMMA OthersStep ==
    ASSUME DirectInv, OthersUseHost
    PROVE  DirectInv'
  <1>1. DirectTypeOK' /\ Working'
    BY DEF OthersUseHost, DirectInv, DirectTypeOK, Working
  <1>2. RangesApart' /\ KindsOK'
    BY DEF OthersUseHost, DirectInv, RangesApart, HostRange, KindsOK
  <1>3. AllPlaced' /\ SpansApart'
    BY DEF OthersUseHost, DirectInv, HostRange, AllPlaced, Placed, SpansApart
  <1>4. QED
    BY <1>1, <1>2, <1>3 DEF DirectInv

LEMMA FreeStep ==
    ASSUME DirectInv, NEW t \in Threads, NEW a, Free(t, a)
    PROVE  DirectInv'
  <1>1. PICK o \in DOMAIN m_objects : CallParent(t, "free", o)
    BY DEF Free
  <1>2. UNCHANGED <<m_objects, m_mappings, m_usedSize, device, host, life>>
    BY DEF Free
  <1>3. DirectTypeOK' /\ Working'
    BY <1>1, <1>2, Typed DEF CallParent, DirectInv, DirectTypeOK, Working
  <1>4. RangesApart' /\ KindsOK'
    BY <1>2 DEF DirectInv, RangesApart, HostRange, KindsOK
  <1>5. AllPlaced' /\ SpansApart'
    BY <1>2 DEF DirectInv, HostRange, AllPlaced, Placed, SpansApart
  <1>6. QED
    BY <1>3, <1>4, <1>5 DEF DirectInv
-----------------------------------------------------------------------------
\* A mapping goes and its part of the block is free again: no other mapping of
\* the object has a page of that part.
LEMMA MappingGone ==
    ASSUME DirectInv, NEW k \in DOMAIN m_mappings, NEW o, o = m_mappings[k].heapAddr,
           m_mappings' = Without(m_mappings, k),
           m_objects' = [m_objects EXCEPT ![o].taken = @ \ m_mappings[k].part],
           UNCHANGED host
    PROVE  /\ RangesApart' /\ KindsOK' /\ AllPlaced' /\ SpansApart'
           /\ DOMAIN m_objects' = DOMAIN m_objects
           /\ \A p \in DOMAIN m_objects : m_objects'[p] \in Objects
           /\ DOMAIN m_mappings' \subseteq DOMAIN m_mappings
           /\ \A j \in DOMAIN m_mappings' : m_mappings'[j] = m_mappings[j]
  <1> DEFINE part == m_mappings[k].part
             taken == m_objects[o].taken \ part
  <1>1. o \in DOMAIN m_objects /\ Placed(k)
    BY DEF DirectInv, AllPlaced, Placed
  <1>2. taken \in SUBSET Nat
    BY <1>1, Typed
  <1>3. m_objects' = [m_objects EXCEPT ![o].taken = taken]
    BY <1>1
  <1> HIDE DEF taken, part
  <1>4. /\ DOMAIN m_objects' = DOMAIN m_objects
        /\ \A p \in DOMAIN m_objects :
              /\ m_objects'[p] \in Objects
              /\ m_objects'[p].state = m_objects[p].state
              /\ m_objects'[p].size = m_objects[p].size
              /\ m_objects'[p].block = m_objects[p].block
              /\ m_objects'[p].allocAddr = m_objects[p].allocAddr
              /\ m_objects'[p].prot = m_objects[p].prot
              /\ p # o => m_objects'[p] = m_objects[p]
              /\ HostRange(p)' = HostRange(p)
        /\ m_objects'[o].taken = taken
        /\ KindsOK'
    BY <1>1, <1>2, <1>3, Retaken
  <1>5. /\ DOMAIN m_mappings' = DOMAIN m_mappings \ {k}
        /\ \A j \in DOMAIN m_mappings \ {k} : m_mappings'[j] = m_mappings[j]
    BY WithoutFacts
  <1>6. RangesApart'
    BY <1>4 DEF DirectInv, RangesApart
  <1>7. SpansApart'
    BY <1>5 DEF DirectInv, SpansApart
  <1>8. ASSUME NEW j \in DOMAIN m_mappings \ {k} PROVE Placed(j)'
    <2>1. Placed(j) /\ m_mappings'[j] = m_mappings[j]
      BY <1>5 DEF DirectInv, AllPlaced
    <2>2. m_mappings[j].heapAddr = o => m_mappings[j].part \cap part = {}
      <3>1. SUFFICES ASSUME m_mappings[j].heapAddr = o,
                            NEW i \in m_mappings[j].part, i \in part
                     PROVE  FALSE
        OBVIOUS
      <3>2. i \in Nat
        BY <1>1, <3>1, Typed
      <3>3. CASE m_objects[o].block
        <4>1. m_objects[o].allocAddr + i \in Span(j, m_mappings[j].size)
          BY <2>1, <3>1, <3>2, <3>3 DEF Placed
        <4>2. m_objects[o].allocAddr + i \in Span(k, m_mappings[k].size)
          BY <1>1, <3>1, <3>2, <3>3 DEF Placed, part
        <4>3. QED
          BY <4>1, <4>2 DEF DirectInv, SpansApart
      <3>4. QED
        BY <1>1, <3>1, <3>3 DEF Placed, part
    <2>3. QED
      BY <1>4, <2>1, <2>2 DEF Placed, taken
  <1>9. AllPlaced'
    BY <1>5, <1>8 DEF AllPlaced
  <1>10. QED
    BY <1>4, <1>5, <1>6, <1>7, <1>9
LEMMA UnmapStep ==
    ASSUME DirectInv, NEW a, NEW size, Unmap(a, size)
    PROVE  DirectInv'
  <1>1. PICK k \in DOMAIN m_mappings :
          /\ m_mappings' = Without(m_mappings, k)
          /\ m_usedSize' = m_usedSize - m_mappings[k].size
          /\ LET o == m_mappings[k].heapAddr
             IN  m_objects' = IF o \notin DOMAIN m_objects THEN m_objects
                              ELSE [m_objects EXCEPT ![o].taken = @ \ m_mappings[k].part]
    BY DEF Unmap
  <1>2. PICK o : o = m_mappings[k].heapAddr
    OBVIOUS
  <1>3. o \in DOMAIN m_objects
    BY <1>2 DEF DirectInv, AllPlaced, Placed
  <1>4. m_objects' = [m_objects EXCEPT ![o].taken = @ \ m_mappings[k].part]
    BY <1>1, <1>2, <1>3
  <1>5. UNCHANGED <<device, host, lock, work, heap, life>>
    BY DEF Unmap, NoCall
  <1>6. /\ RangesApart' /\ KindsOK' /\ AllPlaced' /\ SpansApart'
        /\ DOMAIN m_objects' = DOMAIN m_objects
        /\ \A p \in DOMAIN m_objects : m_objects'[p] \in Objects
        /\ DOMAIN m_mappings' \subseteq DOMAIN m_mappings
        /\ \A j \in DOMAIN m_mappings' : m_mappings'[j] = m_mappings[j]
    BY <1>1, <1>2, <1>4, <1>5, MappingGone
  <1>7. m_usedSize' \in Int
    BY <1>1, Typed, LensAssumption DEF DirectInv, DirectTypeOK
  <1>8. DirectTypeOK' /\ Working'
    BY <1>5, <1>6, <1>7 DEF DirectInv, DirectTypeOK, Working
  <1>9. QED
    BY <1>6, <1>8 DEF DirectInv

LEMMA FreeMappingStep ==
    ASSUME DirectInv, NEW t \in Threads, FreeMapping(t)
    PROVE  DirectInv'
  <1>1. PICK k \in MappedFrom(heap) :
          /\ m_mappings' = Without(m_mappings, k)
          /\ m_usedSize' = m_usedSize - m_mappings[k].size
          /\ m_objects' = [m_objects EXCEPT ![heap].taken = @ \ m_mappings[k].part]
    BY DEF FreeMapping
  <1>2. k \in DOMAIN m_mappings /\ heap = m_mappings[k].heapAddr
    BY <1>1 DEF MappedFrom
  <1>3. UNCHANGED <<device, host, lock, work, heap>> /\ life' \in {"running", "crashed"}
    BY DEF FreeMapping
  <1>4. PICK o : o = heap
    OBVIOUS
  <1>5. /\ RangesApart' /\ KindsOK' /\ AllPlaced' /\ SpansApart'
        /\ DOMAIN m_objects' = DOMAIN m_objects
        /\ \A p \in DOMAIN m_objects : m_objects'[p] \in Objects
        /\ DOMAIN m_mappings' \subseteq DOMAIN m_mappings
        /\ \A j \in DOMAIN m_mappings' : m_mappings'[j] = m_mappings[j]
    BY <1>1, <1>2, <1>3, <1>4, MappingGone
  <1>6. m_usedSize' \in Int
    BY <1>1, <1>2, Typed, LensAssumption DEF DirectInv, DirectTypeOK
  <1>7. DirectTypeOK' /\ Working'
    BY <1>3, <1>5, <1>6 DEF DirectInv, DirectTypeOK, Working
  <1>8. QED
    BY <1>5, <1>7 DEF DirectInv

\* The object goes when no mapping of it is left.
LEMMA FreeObjectStep ==
    ASSUME DirectInv, NEW t \in Threads, FreeObject(t)
    PROVE  DirectInv'
  <1>1. /\ MappedFrom(heap) = {}
        /\ m_objects' = Without(m_objects, heap)
        /\ lock' = NoThread /\ work' = "none" /\ heap' = 0
        /\ UNCHANGED <<m_mappings, m_usedSize, host, life>>
        /\ device' \subseteq device
    BY DEF FreeObject
  <1>2. /\ DOMAIN m_objects' = DOMAIN m_objects \ {heap}
        /\ \A o \in DOMAIN m_objects \ {heap} : m_objects'[o] = m_objects[o]
    BY <1>1, WithoutFacts
  <1>3. \A o \in DOMAIN m_objects \ {heap} : HostRange(o)' = HostRange(o)
    BY <1>2 DEF HostRange
  <1>4. RangesApart' /\ KindsOK'
    BY <1>1, <1>2, <1>3 DEF DirectInv, RangesApart, KindsOK
  <1>5. AllPlaced' /\ SpansApart'
    BY <1>1, <1>2, <1>3 DEF DirectInv, AllPlaced, Placed, SpansApart, MappedFrom
  <1>6. DirectTypeOK' /\ Working'
    BY <1>1, <1>2 DEF DirectInv, DirectTypeOK, Working
  <1>7. QED
    BY <1>4, <1>5, <1>6 DEF DirectInv

\* A fixed map of a reservation: the range stays the object's, the state changes.
LEMMA MapReservationStep ==
    ASSUME DirectInv, NEW vaddr \in Pages, NEW len \in Lens, NEW prot \in Prots,
           MapReservation(vaddr, len, prot)
    PROVE  DirectInv'
  <1>1. PICK o \in Reservations(vaddr, len) :
          /\ m_objects' = [m_objects EXCEPT ![o] = Committed(o, prot, o, m_objects[o].taken)]
          /\ EnterMapping(o, o, len, {})
    BY DEF MapReservation
  <1>2. /\ o \in DOMAIN m_objects /\ m_objects[o].state = "Reserved" /\ len <= m_objects[o].size
        /\ o \in Nat /\ m_objects[o].size \in Lens /\ ~m_objects[o].block
    BY <1>1, Typed DEF Reservations, DirectInv, KindsOK
  <1>3. UNCHANGED <<device, host, lock, work, heap, life>>
    BY DEF MapReservation, NoCall
  <1> DEFINE m == [heapAddr |-> o, size |-> len, part |-> {}]
             c == Committed(o, prot, o, m_objects[o].taken)
  <1>4. m_mappings' = Emplace(m_mappings, o, m) /\ m_usedSize' = m_usedSize + len
    BY <1>1 DEF EnterMapping
  <1>5. m \in Mappings /\ m.size = len /\ m.heapAddr = o /\ m.part = {}
    BY <1>2 DEF Mappings
  <1>6. /\ c \in Objects /\ c.state = "Committed" /\ c.size = m_objects[o].size
        /\ c.allocAddr = o /\ c.taken = m_objects[o].taken /\ ~c.block
    BY <1>2, Typed DEF Committed, Objects
  <1>7. /\ DOMAIN m_objects' = DOMAIN m_objects
        /\ \A p \in DOMAIN m_objects : p # o => m_objects'[p] = m_objects[p]
        /\ m_objects'[o] = c
    BY <1>1, <1>2
  <1> HIDE DEF m, c
  <1>8. \A p \in DOMAIN m_objects : HostRange(p)' = HostRange(p)
    BY <1>2, <1>6, <1>7 DEF HostRange
  <1>9. RangesApart' /\ KindsOK'
    BY <1>3, <1>6, <1>7, <1>8 DEF DirectInv, RangesApart, KindsOK
  <1>10. Span(o, len) \subseteq HostRange(o)
    BY <1>2, SpanFacts DEF HostRange
  <1>11. o \in Pages
    <2>1. o \in HostRange(o)
      BY <1>2, <1>10, SpanFacts
    <2>2. QED
      BY <1>2, <2>1 DEF DirectInv, RangesApart, DirectTypeOK
  <1>12. ASSUME NEW j \in DOMAIN m_mappings
         PROVE  m_mappings[j].heapAddr # o /\ Span(j, m_mappings[j].size) \cap Span(o, m.size) = {}
    <2>1. Placed(j)
      BY DEF DirectInv, AllPlaced
    <2>2. m_mappings[j].heapAddr # o
      BY <1>2, <2>1 DEF Placed
    <2>3. QED
      BY <1>2, <1>5, <1>10, <2>1, <2>2 DEF Placed, DirectInv, RangesApart
  <1>13. \A j \in DOMAIN m_mappings : o # j
    BY <1>2, <1>5, <1>12, Typed, SpanFacts
  <1>14. \A j \in DOMAIN m_mappings : m_mappings'[j] = m_mappings[j]
    BY <1>4 DEF Emplace, With
  <1>15. ASSUME NEW j \in DOMAIN m_mappings PROVE Placed(j)'
    <2>1. Placed(j)
      BY DEF DirectInv, AllPlaced
    <2>2. QED
      BY <1>7, <1>8, <1>12, <1>14, <2>1 DEF Placed
  <1>16. /\ DOMAIN m_mappings' = DOMAIN m_mappings \cup {o}
         /\ m_mappings'[o] = m
         /\ SpansApart'
         /\ \A j \in DOMAIN m_mappings' : m_mappings'[j] \in Mappings
         /\ DOMAIN m_mappings' \subseteq Pages
         /\ Placed(o)' => AllPlaced'
    BY <1>4, <1>5, <1>11, <1>12, <1>15, NewMapping
  <1>17. Placed(o)'
    BY <1>2, <1>5, <1>6, <1>7, <1>8, <1>10, <1>16 DEF Placed
  <1>18. DirectTypeOK' /\ Working'
    BY <1>3, <1>4, <1>6, <1>7, <1>16, Typed, LensAssumption DEF DirectInv, DirectTypeOK, Working
  <1>19. QED
    BY <1>9, <1>16, <1>17, <1>18 DEF DirectInv
-----------------------------------------------------------------------------
\* A part of an object's block that was free is mapped: the object is, or has just
\* become, committed at `base'.
LEMMA PartMapped ==
    ASSUME DirectInv, NEW o \in DOMAIN m_objects, m_objects[o].block,
           NEW len \in Lens, NEW x \in FitsBlock(o, len), NEW base \in Nat, NEW m \in Mappings,
           m.heapAddr = o, m.size = len, m.part = Span(x, len),
           m_mappings' = Emplace(m_mappings, base + x, m),
           DOMAIN m_objects' = DOMAIN m_objects,
           \A p \in DOMAIN m_objects : p # o => m_objects'[p] = m_objects[p],
           m_objects'[o].size = m_objects[o].size, m_objects'[o].block,
           m_objects'[o].state = "Committed", m_objects'[o].allocAddr = base,
           m_objects'[o].taken = m_objects[o].taken \cup Span(x, len),
           m_objects[o].state = "Committed" => m_objects[o].allocAddr = base,
           RangesApart', host' \subseteq Pages
    PROVE  /\ KindsOK' /\ AllPlaced' /\ SpansApart'
           /\ \A j \in DOMAIN m_mappings' : m_mappings'[j] \in Mappings
           /\ DOMAIN m_mappings' \subseteq Pages
  <1>1. /\ x \in Nat /\ o \in Nat /\ m_objects[o].size \in Lens
        /\ Span(x, len) \subseteq (0..(m_objects[o].size - 1)) \ m_objects[o].taken
    BY Typed DEF FitsBlock
  <1>2. KindsOK'
    BY DEF DirectInv, KindsOK
  <1>3. HostRange(o)' = Span(base, m_objects[o].size)
    BY DEF HostRange
  <1>4. \A p \in DOMAIN m_objects : p # o => HostRange(p)' = HostRange(p)
    BY DEF HostRange
  <1>5. /\ x + len <= m_objects[o].size /\ x + len - 1 \in Span(x, len)
        /\ base + x \in Nat /\ m_objects[o].size \in Nat /\ len \in Nat
    <2>a. len \in Nat /\ len >= 1 /\ m_objects[o].size \in Nat
      BY <1>1, SpanFacts
    <2>1. x + len - 1 \in Span(x, len) /\ len \in Nat /\ m_objects[o].size \in Nat
      BY <1>1, <2>a DEF Span
    <2>2. x + len - 1 \in 0..(m_objects[o].size - 1)
      BY <1>1, <2>1
    <2>3. QED
      BY <1>1, <2>1, <2>2
  <1>6. \A y : y \in Span(base + x, len) <=> y \in Int /\ base + x <= y /\ y < base + x + len
    BY <1>5, SpanFacts
  <1>7. \A y : y \in Span(base, m_objects[o].size)
                <=> y \in Int /\ base <= y /\ y < base + m_objects[o].size
    BY <1>1, SpanFacts
  <1>8. Span(base + x, len) \subseteq HostRange(o)'
    BY <1>1, <1>3, <1>5, <1>6, <1>7
  <1>9. base + x \in Pages
    <2>1. base + x \in HostRange(o)'
      BY <1>5, <1>8, SpanFacts
    <2>2. HostRange(o)' \subseteq host'
      BY DEF RangesApart
    <2>3. QED
      BY <2>1, <2>2
  <1>10. \A i \in Nat : i \in Span(x, len) <=> base + i \in Span(base + x, len)
    BY <1>1, <1>5, <1>6, SpanFacts
  <1>11. ASSUME NEW j \in DOMAIN m_mappings
         PROVE  Span(j, m_mappings[j].size) \cap Span(base + x, len) = {}
    <2>1. Placed(j) /\ j \in Nat /\ m_mappings[j].size \in Lens
      BY Typed DEF DirectInv, AllPlaced
    <2>2. CASE m_mappings[j].heapAddr # o
      BY <1>4, <1>8, <2>1, <2>2 DEF Placed, RangesApart
    <2>3. CASE m_mappings[j].heapAddr = o
      <3>1. /\ m_objects[o].allocAddr = base /\ HostRange(o) = Span(base, m_objects[o].size)
            /\ m_mappings[j].part \subseteq m_objects[o].taken
            /\ Span(j, m_mappings[j].size) \subseteq HostRange(o)
            /\ \A i \in Nat : i \in m_mappings[j].part <=> base + i \in Span(j, m_mappings[j].size)
        BY <2>1, <2>3 DEF Placed, HostRange
      <3>2. SUFFICES ASSUME NEW y \in Span(j, m_mappings[j].size), y \in Span(base + x, len)
                     PROVE  FALSE
        OBVIOUS
      <3>3. y - base \in Nat /\ base + (y - base) = y
        BY <1>1, <1>6, <3>2
      <3>4. y - base \in m_mappings[j].part /\ y - base \in Span(x, len)
        BY <1>10, <3>1, <3>2, <3>3
      <3>5. QED
        BY <1>1, <3>1, <3>4
    <2>4. QED
      BY <2>2, <2>3
  <1>12. base + x \notin DOMAIN m_mappings
    BY <1>5, <1>6, <1>11, Typed, SpanFacts
  <1>13. \A j \in DOMAIN m_mappings : m_mappings'[j] = m_mappings[j]
    BY <1>12 DEF Emplace, With
  <1>14. ASSUME NEW j \in DOMAIN m_mappings PROVE Placed(j)'
    <2>1. Placed(j)
      BY DEF DirectInv, AllPlaced
    <2>2. CASE m_mappings[j].heapAddr # o
      BY <1>4, <1>13, <2>1, <2>2 DEF Placed
    <2>3. CASE m_mappings[j].heapAddr = o
      <3>1. /\ m_objects[o].allocAddr = base /\ HostRange(o) = Span(base, m_objects[o].size)
        BY <2>1, <2>3 DEF Placed, HostRange
      <3>2. HostRange(o)' = HostRange(o) /\ m_mappings'[j] = m_mappings[j]
        BY <1>3, <1>13, <3>1
      <3>3. /\ Span(j, m_mappings[j].size) \subseteq HostRange(o)
            /\ m_mappings[j].part \subseteq m_objects'[o].taken
            /\ \A i \in Nat : i \in m_mappings[j].part
                              <=> base + i \in Span(j, m_mappings[j].size)
        BY <2>1, <2>3, <3>1 DEF Placed
      <3>4. QED
        BY <2>3, <3>2, <3>3 DEF Placed
    <2>4. QED
      BY <2>2, <2>3
  <1>15. /\ DOMAIN m_mappings' = DOMAIN m_mappings \cup {base + x}
         /\ m_mappings'[base + x] = m
         /\ SpansApart'
         /\ \A j \in DOMAIN m_mappings' : m_mappings'[j] \in Mappings
         /\ DOMAIN m_mappings' \subseteq Pages
         /\ Placed(base + x)' => AllPlaced'
    <2> DEFINE k == base + x
    <2>1. /\ k \in Pages /\ m_mappings' = Emplace(m_mappings, k, m)
          /\ \A j \in DOMAIN m_mappings :
                Placed(j)' /\ Span(j, m_mappings[j].size) \cap Span(k, m.size) = {}
      BY <1>9, <1>11, <1>14
    <2> HIDE DEF k
    <2>2. /\ DOMAIN m_mappings' = DOMAIN m_mappings \cup {k}
          /\ m_mappings'[k] = m
          /\ SpansApart'
          /\ \A j \in DOMAIN m_mappings' : m_mappings'[j] \in Mappings
          /\ DOMAIN m_mappings' \subseteq Pages
          /\ Placed(k)' => AllPlaced'
      BY <2>1, NewMapping
    <2>3. QED
      BY <2>2 DEF k
  <1>16. Placed(base + x)'
    <2> DEFINE k == base + x
    <2>1. /\ m_mappings'[k].heapAddr = o /\ m_mappings'[k].size = len
          /\ m_mappings'[k].part = Span(x, len)
      BY <1>15
    <2>2. \A i \in Nat : i \in Span(x, len) <=> m_objects'[o].allocAddr + i \in Span(k, len)
      BY <1>10
    <2>3. Span(k, len) \subseteq HostRange(o)' /\ Span(x, len) \subseteq m_objects'[o].taken
      BY <1>8
    <2> HIDE DEF k
    <2>4. Placed(k)'
      BY <2>1, <2>2, <2>3 DEF Placed
    <2>5. QED
      BY <2>4 DEF k
  <1>17. QED
    BY <1>2, <1>15, <1>16

LEMMA MapStep ==
    ASSUME DirectInv, NEW len \in Lens, NEW prot \in Prots, NEW fixed \in BOOLEAN,
           NEW vaddr \in Pages, Map(len, prot, fixed, vaddr)
    PROVE  DirectInv'
  <1>a. PICK o \in Candidates(len, prot) :
          /\ m_objects[o].block
          /\ \E x \in FitsBlock(o, len) : MapObject(o, x, len, prot, fixed, vaddr)
    BY DEF Map
  <1>1. PICK x \in FitsBlock(o, len) :
          m_objects[o].block /\ MapObject(o, x, len, prot, fixed, vaddr)
    BY <1>a
  <1>2. UNCHANGED <<device, lock, work, heap, life>>
    BY DEF Map, NoCall
  <1>3. /\ o \in DOMAIN m_objects /\ o \in Nat /\ m_objects[o].size \in Lens
        /\ m_objects[o] \in Objects /\ m_objects[o].allocAddr \in Nat
        /\ m_objects[o].state \in {"Free", "Committed"} /\ len \in Nat
    BY <1>1, Typed, LensAssumption DEF Candidates, Objects
  <1> DEFINE taken == m_objects[o].taken \cup Span(x, len)
             m == [heapAddr |-> o, size |-> len, part |-> Span(x, len)]
  <1>4. taken \in SUBSET Nat /\ Span(x, len) \in SUBSET Nat
    BY <1>3, Typed DEF FitsBlock
  <1>5. m \in Mappings /\ m.heapAddr = o /\ m.size = len /\ m.part = Span(x, len)
    BY <1>3, <1>4 DEF Mappings
  <1>6. m_usedSize + len \in Int
    BY <1>3 DEF DirectInv, DirectTypeOK
  <1>7. CASE m_objects[o].state = "Committed"
    <2> DEFINE base == m_objects[o].allocAddr
    <2>1. /\ m_objects' = [m_objects EXCEPT ![o].taken = taken]
          /\ m_mappings' = Emplace(m_mappings, base + x, m) /\ m_usedSize' = m_usedSize + len
          /\ UNCHANGED host
      BY <1>1, <1>7 DEF MapObject, EnterMapping
    <2> HIDE DEF taken, m
    <2>2. /\ DOMAIN m_objects' = DOMAIN m_objects
          /\ \A p \in DOMAIN m_objects :
                /\ m_objects'[p] \in Objects
                /\ m_objects'[p].state = m_objects[p].state
                /\ m_objects'[p].size = m_objects[p].size
                /\ m_objects'[p].block = m_objects[p].block
                /\ m_objects'[p].allocAddr = m_objects[p].allocAddr
                /\ m_objects'[p].prot = m_objects[p].prot
                /\ p # o => m_objects'[p] = m_objects[p]
                /\ HostRange(p)' = HostRange(p)
          /\ m_objects'[o].taken = taken
          /\ KindsOK'
      BY <1>3, <1>4, <2>1, Retaken
    <2>3. RangesApart' /\ host' \subseteq Pages
      BY <2>1, <2>2 DEF DirectInv, RangesApart, DirectTypeOK
    <2>4. m_objects'[o].taken = m_objects[o].taken \cup Span(x, len)
      BY <2>2 DEF taken
    <2>5. /\ m_objects'[o].size = m_objects[o].size /\ m_objects'[o].block
          /\ m_objects'[o].state = "Committed" /\ m_objects'[o].allocAddr = base
          /\ \A p \in DOMAIN m_objects : p # o => m_objects'[p] = m_objects[p]
          /\ DOMAIN m_objects' = DOMAIN m_objects
      BY <1>1, <1>3, <1>7, <2>2
    <2>6. base \in Nat /\ (m_objects[o].state = "Committed" => m_objects[o].allocAddr = base)
      BY <1>3
    <2>b. m_mappings' = Emplace(m_mappings, base + x, m)
      BY <2>1
    <2> HIDE DEF base
    <2>7. /\ KindsOK' /\ AllPlaced' /\ SpansApart'
          /\ \A j \in DOMAIN m_mappings' : m_mappings'[j] \in Mappings
          /\ DOMAIN m_mappings' \subseteq Pages
      BY <1>1, <1>3, <1>5, <2>b, <2>3, <2>4, <2>5, <2>6, PartMapped
    <2>8. DirectTypeOK' /\ Working'
      BY <1>2, <1>6, <2>1, <2>2, <2>7 DEF DirectInv, DirectTypeOK, Working
    <2>9. QED
      BY <2>3, <2>7, <2>8 DEF DirectInv
  <1>8. CASE /\ m_objects[o].state = "Free"
             /\ m_objects' = [m_objects EXCEPT ![o].taken = taken]
             /\ UNCHANGED <<m_mappings, m_usedSize, host>>
    <2> HIDE DEF taken, m
    <2>1. /\ DOMAIN m_objects' = DOMAIN m_objects
          /\ \A p \in DOMAIN m_objects :
                /\ m_objects'[p] \in Objects
                /\ m_objects'[p].state = m_objects[p].state
                /\ m_objects'[p].size = m_objects[p].size
                /\ m_objects'[p].block = m_objects[p].block
                /\ m_objects'[p].allocAddr = m_objects[p].allocAddr
                /\ m_objects'[p].prot = m_objects[p].prot
                /\ p # o => m_objects'[p] = m_objects[p]
                /\ HostRange(p)' = HostRange(p)
          /\ m_objects'[o].taken = taken
          /\ KindsOK'
      BY <1>3, <1>4, <1>8, Retaken
    <2>2. RangesApart' /\ SpansApart'
      BY <1>8, <2>1 DEF DirectInv, RangesApart, SpansApart
    <2>3. AllPlaced'
      BY <1>8, <2>1 DEF DirectInv, AllPlaced, Placed, taken
    <2>4. DirectTypeOK' /\ Working'
      BY <1>2, <1>8, <2>1 DEF DirectInv, DirectTypeOK, Working
    <2>5. QED
      BY <2>1, <2>2, <2>3, <2>4 DEF DirectInv
  <1>9. CASE /\ m_objects[o].state = "Free"
             /\ \E h \in FitsHost(m_objects[o].size) :
                  /\ m_objects' = [m_objects EXCEPT ![o] = Committed(o, prot, h, taken)]
                  /\ EnterMapping(h + x, o, len, Span(x, len))
                  /\ host' = host \cup Span(h, m_objects[o].size)
    <2>1. PICK h \in FitsHost(m_objects[o].size) :
                  /\ m_objects' = [m_objects EXCEPT ![o] = Committed(o, prot, h, taken)]
                  /\ EnterMapping(h + x, o, len, Span(x, len))
                  /\ host' = host \cup Span(h, m_objects[o].size)
      BY <1>9
    <2> DEFINE c == Committed(o, prot, h, taken)
    <2>2. /\ h \in Nat /\ Span(h, m_objects[o].size) \subseteq Pages \ host
      BY PagesAssumption DEF FitsHost
    <2>3. /\ c \in Objects /\ c.state = "Committed" /\ c.size = m_objects[o].size
          /\ c.allocAddr = h /\ c.taken = taken /\ c.block
      BY <1>1, <1>3, <1>4, <2>2 DEF Committed, Objects
    <2>4. m_mappings' = Emplace(m_mappings, h + x, m) /\ m_usedSize' = m_usedSize + len
      BY <2>1 DEF EnterMapping
    <2> HIDE DEF taken, m, c
    <2>5. /\ DOMAIN m_objects' = DOMAIN m_objects
          /\ \A p \in DOMAIN m_objects : p # o => m_objects'[p] = m_objects[p]
          /\ m_objects'[o] = c
      BY <1>3, <2>1 DEF c
    <2>6. HostRange(o)' = Span(h, m_objects[o].size)
      BY <2>3, <2>5 DEF HostRange
    <2>7. \A p \in DOMAIN m_objects : p # o => HostRange(p)' = HostRange(p)
      BY <2>5 DEF HostRange
    <2>8. RangesApart' /\ host' \subseteq Pages
      BY <1>3, <2>1, <2>2, <2>5, <2>6, <2>7 DEF DirectInv, RangesApart, DirectTypeOK
    <2>9. /\ m_objects'[o].size = m_objects[o].size /\ m_objects'[o].block
          /\ m_objects'[o].state = "Committed" /\ m_objects'[o].allocAddr = h
          /\ m_objects'[o].taken = m_objects[o].taken \cup Span(x, len)
      BY <2>3, <2>5 DEF taken
    <2>10. m_objects[o].state = "Committed" => m_objects[o].allocAddr = h
      BY <1>9
    <2>11. /\ KindsOK' /\ AllPlaced' /\ SpansApart'
           /\ \A j \in DOMAIN m_mappings' : m_mappings'[j] \in Mappings
           /\ DOMAIN m_mappings' \subseteq Pages
      BY <1>1, <1>3, <1>5, <2>2, <2>4, <2>5, <2>8, <2>9, <2>10, PartMapped
    <2>12. DirectTypeOK' /\ Working'
      BY <1>2, <1>6, <2>3, <2>4, <2>5, <2>8, <2>11 DEF DirectInv, DirectTypeOK, Working
    <2>13. QED
      BY <2>8, <2>11, <2>12 DEF DirectInv
  <1>10. QED
    BY <1>1, <1>3, <1>7, <1>8, <1>9 DEF MapObject

LEMMA CrashStep ==
    ASSUME DirectInv, NEW len, NEW prot, NEW fixed, NEW vaddr, MapNullBlock(len, prot, fixed, vaddr)
    PROVE  DirectInv'
  <1>1. UNCHANGED tables /\ UNCHANGED lock /\ life' = "crashed"
    BY DEF MapNullBlock, tables
  <1>2. DirectTypeOK' /\ Working' /\ KindsOK' /\ SpansApart'
    BY <1>1 DEF tables, DirectInv, DirectTypeOK, Working, KindsOK, SpansApart
  <1>3. RangesApart' /\ AllPlaced'
    BY <1>1 DEF tables, DirectInv, RangesApart, HostRange, AllPlaced, Placed
  <1>4. QED
    BY <1>2, <1>3 DEF DirectInv

LEMMA DirectStutter ==
    ASSUME DirectInv, UNCHANGED directVars
    PROVE  DirectInv'
  <1>1. DirectTypeOK' /\ Working' /\ KindsOK' /\ SpansApart'
    BY DEF directVars, DirectInv, DirectTypeOK, Working, KindsOK, SpansApart
  <1>2. \A o \in DOMAIN m_objects : HostRange(o)' = HostRange(o)
    BY DEF directVars, HostRange
  <1>3. RangesApart'
    BY <1>2 DEF directVars, DirectInv, RangesApart
  <1>4. \A k \in DOMAIN m_mappings : Placed(k) => Placed(k)'
    BY <1>2 DEF directVars, Placed
  <1>5. AllPlaced'
    BY <1>4 DEF directVars, DirectInv, AllPlaced
  <1>6. QED
    BY <1>1, <1>3, <1>5 DEF DirectInv

LEMMA DirectNextStep == DirectInv /\ [DirectNext]_directVars => DirectInv'
  <1> SUFFICES ASSUME DirectInv, [DirectNext]_directVars PROVE DirectInv'
    OBVIOUS
  <1>1. CASE UNCHANGED directVars
    BY <1>1, DirectStutter
  <1>2. CASE OthersUseHost
    BY <1>2, OthersStep
  <1>3. ASSUME NEW t \in Threads, NEW len \in Lens, Alloc(t, len) \/ Reserve(t, len) PROVE DirectInv'
    BY <1>3, AllocStep, ReserveStep
  <1>4. ASSUME NEW t \in Threads, Registered(t) \/ FreeMapping(t) \/ FreeObject(t) PROVE DirectInv'
    BY <1>4, RegisteredStep, FreeMappingStep, FreeObjectStep
  <1>5. ASSUME NEW t \in Threads, NEW a \in Pages \cup DevicePages, Free(t, a) PROVE DirectInv'
    BY <1>5, FreeStep
  <1>6. ASSUME NEW len \in Lens, NEW prot \in Prots, NEW vaddr \in Pages, NEW fixed \in BOOLEAN,
               \/ fixed /\ MapReservation(vaddr, len, prot)
               \/ MapNullBlock(len, prot, fixed, vaddr)
               \/ Map(len, prot, fixed, vaddr)
        PROVE  DirectInv'
    BY <1>6, MapReservationStep, CrashStep, MapStep
  <1>7. ASSUME NEW a \in Pages \cup DevicePages, NEW len \in Lens, Unmap(a, len) PROVE DirectInv'
    BY <1>7, UnmapStep
  <1>8. QED
    BY <1>1, <1>2, <1>3, <1>4, <1>5, <1>6, <1>7 DEF DirectNext, DirectStep

-----------------------------------------------------------------------------
\* What the other users of host memory rely on: a step of direct memory reserves
\* pages that were free, and its objects get no others.
DirectRange == UNION {HostRange(o) : o \in DOMAIN m_objects}
Grows == host \subseteq host' /\ DirectRange' \subseteq DirectRange \cup (host' \ host)

LEMMA GrowsObjectwise ==
    ASSUME host \subseteq host',
           \A o \in DOMAIN m_objects' :
              HostRange(o)' \subseteq (IF o \in DOMAIN m_objects THEN HostRange(o) ELSE {}) \cup (host' \ host)
    PROVE  Grows
  <1>1. SUFFICES ASSUME NEW o \in DOMAIN m_objects', NEW x \in HostRange(o)', x \notin host' \ host
                 PROVE  x \in DirectRange
    BY DEF Grows, DirectRange
  <1>2. o \in DOMAIN m_objects /\ x \in HostRange(o)
    BY <1>1
  <1>3. QED
    BY <1>2 DEF DirectRange

LEMMA GrowsByObject ==
    ASSUME NEW a, NEW v \in Objects, m_objects' = Emplace(m_objects, a, v), host \subseteq host',
           v.state = "Free" \/ (v.state = "Reserved" /\ Span(a, v.size) \subseteq host' \ host)
    PROVE  Grows
  <1>1. ASSUME NEW o \in DOMAIN m_objects' 
        PROVE  HostRange(o)' \subseteq (IF o \in DOMAIN m_objects THEN HostRange(o) ELSE {}) \cup (host' \ host)
    <2>1. CASE o \in DOMAIN m_objects
      <3>1. m_objects'[o] = m_objects[o]
        BY <2>1 DEF Emplace, With
      <3>2. QED
        BY <2>1, <3>1 DEF HostRange
    <2>2. CASE o \notin DOMAIN m_objects
      <3>1. o = a /\ m_objects'[o] = v
        BY <1>1, <2>2 DEF Emplace, With
      <3>2. QED
        BY <2>2, <3>1 DEF HostRange, Objects
    <2>3. QED
      BY <2>1, <2>2
  <1>2. QED
    BY <1>1, GrowsObjectwise

LEMMA GrowsByMap ==
    ASSUME DirectInv, NEW len \in Lens, NEW prot \in Prots, NEW vaddr \in Pages, NEW fixed \in BOOLEAN,
           Map(len, prot, fixed, vaddr) \/ MapReservation(vaddr, len, prot)
    PROVE  Grows
  <1> DEFINE Taken(o, y) ==
          \/ /\ m_objects[o].state = "Reserved"
             /\ m_objects' = [m_objects EXCEPT ![o] = Committed(o, prot, o, y)] /\ UNCHANGED host
          \/ m_objects' = [m_objects EXCEPT ![o].taken = y] /\ UNCHANGED host
          \/ \E h \in FitsHost(m_objects[o].size) :
                /\ m_objects' = [m_objects EXCEPT ![o] = Committed(o, prot, h, y)]
                /\ host' = host \cup Span(h, m_objects[o].size)
  <1>1. PICK o \in DOMAIN m_objects : \E y : Taken(o, y)
    <2>1. CASE MapReservation(vaddr, len, prot)
      BY <2>1 DEF MapReservation, Reservations
    <2>2. CASE Map(len, prot, fixed, vaddr)
      <3>1. PICK o \in Candidates(len, prot), x \in Nat : MapObject(o, x, len, prot, fixed, vaddr)
        <4>1. PICK o \in Candidates(len, prot) :
                \E x \in FitsBlock(o, len) : MapObject(o, x, len, prot, fixed, vaddr)
          BY <2>2 DEF Map
        <4>2. FitsBlock(o, len) \subseteq Nat
          BY DEF FitsBlock
        <4>3. QED
          BY <4>1, <4>2
      <3>2. o \in DOMAIN m_objects
        BY DEF Candidates
      <3>3. QED
        BY <3>1, <3>2 DEF MapObject
    <2>3. QED
      BY <2>1, <2>2
  <1>2. PICK y : Taken(o, y)
    BY <1>1
  <1>3. /\ DOMAIN m_objects' = DOMAIN m_objects
        /\ \A p \in DOMAIN m_objects : p # o => m_objects'[p] = m_objects[p]
    BY <1>2
  <1>4. host \subseteq host' /\ HostRange(o)' \subseteq HostRange(o) \cup (host' \ host)
    <2>1. CASE /\ m_objects[o].state = "Reserved"
               /\ m_objects' = [m_objects EXCEPT ![o] = Committed(o, prot, o, y)] /\ UNCHANGED host
      BY <2>1 DEF HostRange, Committed
    <2>2. CASE m_objects' = [m_objects EXCEPT ![o].taken = y] /\ UNCHANGED host
      <3>1. m_objects[o] \in Objects
        BY Typed
      <3>2. /\ m_objects'[o].state = m_objects[o].state /\ m_objects'[o].size = m_objects[o].size
            /\ m_objects'[o].allocAddr = m_objects[o].allocAddr
        BY <2>2, <3>1 DEF Objects
      <3>3. QED
        BY <2>2, <3>2 DEF HostRange
    <2>3. CASE \E h \in FitsHost(m_objects[o].size) :
                /\ m_objects' = [m_objects EXCEPT ![o] = Committed(o, prot, h, y)]
                /\ host' = host \cup Span(h, m_objects[o].size)
      <3>1. PICK h \in FitsHost(m_objects[o].size) :
                /\ m_objects' = [m_objects EXCEPT ![o] = Committed(o, prot, h, y)]
                /\ host' = host \cup Span(h, m_objects[o].size)
        BY <2>3
      <3>2. HostRange(o)' = Span(h, m_objects[o].size)
        BY <3>1 DEF HostRange, Committed
      <3>3. QED
        BY <3>1, <3>2 DEF FitsHost
    <2>4. QED
      BY <1>2, <2>1, <2>2, <2>3
  <1>5. \A p \in DOMAIN m_objects : p # o => HostRange(p)' = HostRange(p)
    BY <1>3 DEF HostRange
  <1>6. QED
    BY <1>3, <1>4, <1>5, GrowsObjectwise

LEMMA GrowsByLess ==
    ASSUME DirectInv,
           \/ \E t \in Threads : FreeMapping(t) \/ FreeObject(t)
           \/ \E a \in Pages \cup DevicePages, len \in Lens : Unmap(a, len)
    PROVE  Grows
  <1>1. UNCHANGED host
    BY DEF FreeMapping, FreeObject, Unmap
  <1>2. \A o \in DOMAIN m_objects' : o \in DOMAIN m_objects
             /\ m_objects'[o].state = m_objects[o].state /\ m_objects'[o].size = m_objects[o].size
             /\ m_objects'[o].allocAddr = m_objects[o].allocAddr
    <2>1. CASE \E t \in Threads : FreeObject(t)
      BY <2>1 DEF FreeObject, Without
    <2>2. CASE \/ \E t \in Threads : FreeMapping(t)
               \/ \E a \in Pages \cup DevicePages, len \in Lens : Unmap(a, len)
      <3>1. PICK k \in DOMAIN m_mappings :
              \/ m_objects' = [m_objects EXCEPT ![m_mappings[k].heapAddr].taken = @ \ m_mappings[k].part]
              \/ UNCHANGED m_objects
        BY <2>2 DEF FreeMapping, Unmap, MappedFrom
      <3>2. \A o \in DOMAIN m_objects : m_objects[o] \in Objects
        BY Typed
      <3>3. QED
        BY <3>1, <3>2 DEF Objects
    <2>3. QED
      BY <2>1, <2>2
  <1>3. \A o \in DOMAIN m_objects' : HostRange(o)' = HostRange(o)
    BY <1>2 DEF HostRange
  <1>4. QED
    BY <1>1, <1>2, <1>3, GrowsObjectwise

LEMMA DirectGrows ==
    ASSUME DirectInv, DirectStep
    PROVE  Grows
  <1>1. ASSUME NEW t \in Threads, NEW len \in Lens, Alloc(t, len) PROVE Grows
    <2> DEFINE v == [size |-> len, state |-> "Free", prot |-> 0, allocAddr |-> 0,
                     block |-> TRUE, taken |-> {}]
    <2>1. v \in Objects /\ v.state = "Free"
      BY DEF Objects
    <2>2. UNCHANGED host /\ (UNCHANGED m_objects \/ \E a : m_objects' = Emplace(m_objects, a, v))
      BY <1>1 DEF Alloc
    <2>3. CASE UNCHANGED m_objects
      BY <2>2, <2>3, GrowsObjectwise DEF HostRange
    <2>4. CASE \E a : m_objects' = Emplace(m_objects, a, v)
      <3> HIDE DEF v
      <3>1. QED
        BY <2>1, <2>2, <2>4, GrowsByObject
    <2>5. QED
      BY <2>2, <2>3, <2>4
  <1>2. ASSUME NEW t \in Threads, NEW len \in Lens, Reserve(t, len) PROVE Grows
    <2> DEFINE v == [size |-> len, state |-> "Reserved", prot |-> 0, allocAddr |-> 0,
                     block |-> FALSE, taken |-> {}]
    <2>1. v \in Objects /\ v.state = "Reserved" /\ v.size = len
      BY DEF Objects
    <2>2. PICK a \in FitsHost(len) : host' = host \cup Span(a, len) /\ m_objects' = Emplace(m_objects, a, v)
      BY <1>2 DEF Reserve
    <2> HIDE DEF v
    <2>3. Span(a, len) \subseteq host' \ host /\ host \subseteq host'
      BY <2>2 DEF FitsHost
    <2>4. QED
      BY <2>1, <2>2, <2>3, GrowsByObject
  <1>3. ASSUME \/ \E t \in Threads : Registered(t) \/ \E a \in Pages \cup DevicePages : Free(t, a)
               \/ \E len \in Lens, prot \in Prots, vaddr \in Pages, fixed \in BOOLEAN :
                        MapNullBlock(len, prot, fixed, vaddr)
        PROVE Grows
    <2>1. UNCHANGED <<m_objects, host>>
      BY <1>3 DEF Registered, Free, MapNullBlock
    <2>2. QED
      BY <2>1, GrowsObjectwise DEF HostRange
  <1>4. QED
    BY <1>1, <1>2, <1>3, GrowsByMap, GrowsByLess DEF DirectStep

-----------------------------------------------------------------------------
\* What follows from the invariant.
LEMMA DirectBacked == DirectInv => MappingsBacked
  <1>1. SUFFICES ASSUME DirectInv, NEW k \in DOMAIN m_mappings
                 PROVE  Placed(k) /\ HostRange(m_mappings[k].heapAddr) \subseteq host
    BY DEF MappingsBacked, Placed, HostRange
  <1>2. Placed(k)
    BY <1>1 DEF DirectInv, AllPlaced
  <1>3. m_mappings[k].heapAddr \in DOMAIN m_objects
    BY <1>2 DEF Placed
  <1>4. QED
    BY <1>1, <1>2, <1>3 DEF DirectInv, RangesApart

LEMMA DirectDisjoint == DirectInv => MappingsDisjoint
  <1>1. SUFFICES ASSUME DirectInv, NEW j \in DOMAIN m_mappings, NEW k \in DOMAIN m_mappings, j < k
                 PROVE  j + m_mappings[j].size <= k
    BY DEF MappingsDisjoint, Disjoint
  <1>2. /\ j \in Nat /\ k \in Nat
        /\ m_mappings[j].size \in Lens /\ m_mappings[k].size \in Lens
    BY <1>1, Typed
  <1>3. k \in Span(k, m_mappings[k].size) /\ j # k
    BY <1>1, <1>2, SpanFacts
  <1>4. k \notin Span(j, m_mappings[j].size)
    BY <1>1, <1>3 DEF DirectInv, SpansApart
  <1>5. QED
    BY <1>1, <1>2, <1>4, SpanFacts

\* Mappings lie in the range of the objects, which is host memory.
LEMMA DirectInRange ==
    ASSUME DirectInv
    PROVE  /\ DirectRange \subseteq host /\ host \subseteq Pages
           /\ \A k \in DOMAIN m_mappings : Span(k, m_mappings[k].size) \subseteq DirectRange
  <1>1. DirectRange \subseteq host /\ host \subseteq Pages
    BY DEF DirectInv, RangesApart, DirectRange, DirectTypeOK
  <1>2. ASSUME NEW k \in DOMAIN m_mappings PROVE Span(k, m_mappings[k].size) \subseteq DirectRange
    BY DEF DirectInv, AllPlaced, Placed, DirectRange
  <1>3. QED
    BY <1>1, <1>2

-----------------------------------------------------------------------------
\* Direct memory keeps its tables well-typed (directmem.cpp:40-80), whatever the
\* guest allocates, reserves, maps, unmaps and frees.
THEOREM TypesKept == DirectSpec => []DirectTypeOK
  <1>1. DirectInv => DirectTypeOK
    BY DEF DirectInv
  <1>2. QED
    BY <1>1, DirectInitStep, DirectNextStep, PTL DEF DirectSpec

\* Every mapping stays inside the committed memory of an object that exists, and in
\* the part that was allocated for it: free (directmem.cpp:267) forgets none.
THEOREM Backed == DirectSpec => []MappingsBacked
  BY DirectBacked, DirectInitStep, DirectNextStep, PTL DEF DirectSpec

\* No page of host memory is in two mappings (directmem.cpp:357).
THEOREM NeverShared == DirectSpec => []MappingsDisjoint
  BY DirectDisjoint, DirectInitStep, DirectNextStep, PTL DEF DirectSpec

-----------------------------------------------------------------------------
\* A table of mappings that are apart.
TableOK(f) ==
    /\ DOMAIN f \subseteq Pages
    /\ \A k \in DOMAIN f : f[k].size \in Lens
    /\ \A j, k \in DOMAIN f : j # k => Span(j, f[j].size) \cap Span(k, f[k].size) = {}

HostOK ==
    /\ TableOK(flexible) /\ TableOK(views)
    /\ Held(flexible) \subseteq host /\ Held(views) \subseteq host
    /\ Held(flexible) \cap Held(views) = {}
    /\ DirectRange \cap Held(flexible) = {} /\ DirectRange \cap Held(views) = {}

\* munmap asks a type only for what was registered.
QueueOK ==
    /\ DOMAIN pending = Threads
    /\ \A t \in Threads : pending[t].todo = "Direct" => pending[t].addr \in Pages \cup DevicePages

GInv == DirectInv /\ HostOK /\ QueueOK

USE PagesAssumption, LensAssumption, NoThreadAssumption

LEMMA HeldFacts ==
    ASSUME NEW f, NEW x
    PROVE  x \in Held(f) <=> \E k \in DOMAIN f : x \in Span(k, f[k].size)
  BY DEF Held

\* A mapping is entered at pages that were free.
LEMMA TableGrows ==
    ASSUME NEW f, NEW g, NEW a \in Pages, NEW v, v.size \in Lens,
           TableOK(f), Span(a, v.size) \cap Held(f) = {},
           g = With(f, a, v) \/ g = Emplace(f, a, v)
    PROVE  TableOK(g) /\ Held(g) = Held(f) \cup Span(a, v.size)
  <1>1. a \notin DOMAIN f
    <2>1. SUFFICES ASSUME a \in DOMAIN f PROVE FALSE
      OBVIOUS
    <2>2. a \in Span(a, f[a].size) /\ a \in Span(a, v.size)
      BY <2>1, SpanFacts DEF TableOK
    <2>3. QED
      BY <2>1, <2>2, HeldFacts
  <1>2. /\ DOMAIN g = DOMAIN f \cup {a} /\ g[a] = v
        /\ \A k \in DOMAIN f : g[k] = f[k]
    BY <1>1 DEF With, Emplace
  <1>3. Held(g) = Held(f) \cup Span(a, v.size)
    <2>1. ASSUME NEW x \in Held(g) PROVE x \in Held(f) \cup Span(a, v.size)
      <3>1. PICK k \in DOMAIN g : x \in Span(k, g[k].size)
        BY <2>1, HeldFacts
      <3>2. CASE k = a
        BY <1>2, <3>1, <3>2
      <3>3. CASE k \in DOMAIN f
        BY <1>2, <3>1, <3>3, HeldFacts
      <3>4. QED
        BY <1>2, <3>2, <3>3
    <2>2. ASSUME NEW x \in Held(f) PROVE x \in Held(g)
      <3>1. PICK k \in DOMAIN f : x \in Span(k, f[k].size)
        BY <2>2, HeldFacts
      <3>2. k \in DOMAIN g /\ x \in Span(k, g[k].size)
        BY <1>2, <3>1
      <3>3. QED
        BY <3>2, HeldFacts
    <2>3. ASSUME NEW x \in Span(a, v.size) PROVE x \in Held(g)
      <3>1. a \in DOMAIN g /\ x \in Span(a, g[a].size)
        BY <1>2, <2>3
      <3>2. QED
        BY <3>1, HeldFacts
    <2>4. QED
      BY <2>1, <2>2, <2>3
  <1>4. ASSUME NEW k \in DOMAIN f PROVE Span(k, f[k].size) \cap Span(a, v.size) = {}
    <2>1. \A x \in Span(k, f[k].size) : x \in Held(f)
      BY <1>4, HeldFacts
    <2>2. QED
      BY <2>1
  <1>5. TableOK(g)
    BY <1>2, <1>4 DEF TableOK
  <1>6. QED
    BY <1>3, <1>5

\* A mapping is erased, and no other has a page of it.
LEMMA TableShrinks ==
    ASSUME NEW f, NEW g, NEW k \in DOMAIN f, TableOK(f), g = Without(f, k)
    PROVE  /\ TableOK(g) /\ Held(g) \subseteq Held(f)
           /\ Held(g) \cap Span(k, f[k].size) = {}
  <1>1. /\ DOMAIN g = DOMAIN f \ {k}
        /\ \A j \in DOMAIN f \ {k} : g[j] = f[j]
    BY DEF Without
  <1>2. TableOK(g)
    BY <1>1 DEF TableOK
  <1>3. Held(g) \subseteq Held(f)
    BY <1>1, HeldFacts
  <1>4. Held(g) \cap Span(k, f[k].size) = {}
    <2>1. SUFFICES ASSUME NEW x \in Held(g), x \in Span(k, f[k].size) PROVE FALSE
      OBVIOUS
    <2>2. PICK j \in DOMAIN g : x \in Span(j, g[j].size)
      BY <2>1, HeldFacts
    <2>3. QED
      BY <1>1, <2>1, <2>2 DEF TableOK
  <1>5. QED
    BY <1>2, <1>3, <1>4

LEMMA TableDisjoint ==
    ASSUME NEW f, TableOK(f)
    PROVE  Disjoint(f)
  <1>1. SUFFICES ASSUME NEW j \in DOMAIN f, NEW k \in DOMAIN f, j < k
                 PROVE  j + f[j].size <= k
    BY DEF Disjoint
  <1>2. j \in Nat /\ k \in Nat /\ f[j].size \in Lens /\ f[k].size \in Lens
    BY DEF TableOK
  <1>3. k \in Span(k, f[k].size)
    BY <1>2, SpanFacts
  <1>4. j # k
    BY <1>1, <1>2
  <1>5. k \notin Span(j, f[j].size)
    BY <1>3, <1>4 DEF TableOK
  <1>6. \A x : x \in Span(j, f[j].size) <=> x \in Int /\ j <= x /\ x < j + f[j].size
    BY <1>2, SpanFacts
  <1>7. ~(k < j + f[j].size)
    BY <1>1, <1>2, <1>5, <1>6
  <1>8. f[j].size \in Nat
    BY <1>2
  <1>9. QED
    BY <1>2, <1>7, <1>8

-----------------------------------------------------------------------------
\* A step of direct memory, as the manager takes it.
LEMMA DirectSteps ==
    ASSUME GInv, DirectStep, UNCHANGED <<flexible, views>>, QueueOK'
    PROVE  GInv' /\ DirectNext
  <1>1. DirectInv /\ DirectStep /\ DirectNext
    BY DEF GInv, DirectNext
  <1>2. DirectInv'
    BY <1>1, DirectNextStep
  <1>3. Grows
    BY <1>1, DirectGrows
  <1>4. HostOK'
    BY <1>3 DEF GInv, HostOK, Grows
  <1>5. QED
    BY <1>2, <1>4 DEF GInv, DirectNext

\* Other memory is reserved or released: never a page of a direct object.
LEMMA OtherSteps ==
    ASSUME GInv, UNCHANGED directTables, life' \in {life, "crashed"},
           host' \in SUBSET Pages, DirectRange \subseteq host', HostOK', QueueOK'
    PROVE  GInv' /\ DirectNext
  <1>1. OthersUseHost
    BY DEF OthersUseHost, directTables, DirectRange
  <1>2. DirectNext /\ DirectNext
    BY <1>1 DEF DirectNext
  <1>3. DirectInv'
    BY <1>2, DirectNextStep DEF GInv
  <1>4. QED
    BY <1>2, <1>3 DEF GInv

LEMMA RangeSame ==
    ASSUME UNCHANGED m_objects
    PROVE  DirectRange' = DirectRange
  BY DEF DirectRange, HostRange

\* Nothing of the memory types changes.
LEMMA QuietSteps ==
    ASSUME GInv, UNCHANGED <<directTables, flexible, host, views>>, life' \in {life, "crashed"},
           QueueOK'
    PROVE  GInv' /\ DirectNext
  <1>1. DirectRange \subseteq host /\ host \in SUBSET Pages
    BY DirectInRange DEF GInv
  <1>2. HostOK'
    BY RangeSame DEF GInv, HostOK, directTables
  <1>3. QED
    BY <1>1, <1>2, OtherSteps

\* A queue that t leaves or joins.
LEMMA QueueStep ==
    ASSUME QueueOK, NEW t \in Threads, NEW x, pending' = [pending EXCEPT ![t] = x],
           x.todo = "Direct" => x.addr \in Pages \cup DevicePages
    PROVE  QueueOK'
  BY DEF QueueOK

LEMMA NothingFacts == Nothing.todo # "Direct"
  BY DEF Nothing

-----------------------------------------------------------------------------
\* Every action of the manager preserves the invariant, and is a step of direct
\* memory or of another user of host memory.
LEMMA CallDirectStep ==
    ASSUME GInv, NEW t \in Threads, CallDirect(t)
    PROVE  GInv' /\ DirectNext
  <1>1. DirectStep /\ UNCHANGED <<flexible, views, pending>>
    BY DEF CallDirect, DirectStep, flexOnly, managerVars
  <1>2. QueueOK'
    BY <1>1 DEF GInv, QueueOK
  <1>3. QED
    BY <1>1, <1>2, DirectSteps

LEMMA RegisterDirectStep ==
    ASSUME GInv, NEW t \in Threads, RegisterDirect(t) \/ FreeDirect(t)
    PROVE  GInv' /\ DirectNext
  <1>1. DirectStep /\ UNCHANGED <<flexible, views, pending>>
    BY DEF RegisterDirect, FreeDirect, DirectStep, flexOnly
  <1>2. QueueOK'
    BY <1>1 DEF GInv, QueueOK
  <1>3. QED
    BY <1>1, <1>2, DirectSteps

LEMMA MunmapDirectStep ==
    ASSUME GInv, NEW t \in Threads, MunmapDirect(t)
    PROVE  GInv' /\ DirectNext
  <1>1. /\ UNCHANGED <<flexible, views>>
        /\ pending[t].addr \in Pages \cup DevicePages
        /\ pending' = [pending EXCEPT ![t] = Nothing]
    BY DEF MunmapDirect, flexOnly, GInv, QueueOK
  <1>2. QueueOK'
    BY <1>1, QueueStep, NothingFacts DEF GInv
  <1>3. CASE \E len \in Lens : Unmap(pending[t].addr, len)
    <2>1. DirectStep
      BY <1>1, <1>3 DEF DirectStep
    <2>2. QED
      BY <1>1, <1>2, <2>1, DirectSteps
  <1>4. CASE UNCHANGED <<directOnly, host>>
    BY <1>1, <1>2, <1>4, QuietSteps DEF directOnly
  <1>5. QED
    BY <1>3, <1>4 DEF MunmapDirect

\* Flexible memory reserves pages that were free.
LEMMA CallFlexibleStep ==
    ASSUME GInv, NEW t \in Threads, CallFlexible(t)
    PROVE  GInv' /\ DirectNext
  <1>1. UNCHANGED <<directOnly, views, pending>>
    BY DEF CallFlexible, managerVars
  <1>2. QueueOK'
    BY <1>1 DEF GInv, QueueOK
  <1>3. DirectRange \subseteq host /\ host \in SUBSET Pages /\ DirectRange' = DirectRange
    BY <1>1, RangeSame, DirectInRange DEF GInv, directOnly, directTables
  <1>4. CASE \E len \in Lens, fixed \in BOOLEAN, vaddr \in Pages : F!Map(t, len, fixed, vaddr)
    <2>1. PICK len \in Lens, a \in Pages :
            /\ Span(a, len) \subseteq Pages \ host
            /\ host' = host \cup Span(a, len)
            /\ flexible' = Emplace(flexible, a, [size |-> len])
      BY <1>4 DEF F!Map, F!FitsHost, F!Span, F!Emplace, F!With, Span, Emplace, With
    <2>2. [size |-> len].size = len
      OBVIOUS
    <2>3. Span(a, [size |-> len].size) \cap Held(flexible) = {}
      BY <2>1 DEF GInv, HostOK
    <2>4. TableOK(flexible') /\ Held(flexible') = Held(flexible) \cup Span(a, len)
      BY <2>1, <2>2, <2>3, TableGrows DEF GInv, HostOK
    <2>5. HostOK'
      BY <1>1, <1>3, <2>1, <2>4 DEF GInv, HostOK
    <2>6. host' \in SUBSET Pages /\ DirectRange \subseteq host'
      BY <1>3, <2>1
    <2>7. QED
      BY <1>1, <1>2, <2>5, <2>6, OtherSteps DEF directOnly
  <1>5. CASE \E a \in Pages : F!Unmap(a)
    <2>1. PICK k \in DOMAIN flexible : flexible' = Without(flexible, k) /\ UNCHANGED host
      BY <1>5 DEF F!Unmap, F!Without, Without
    <2>2. TableOK(flexible') /\ Held(flexible') \subseteq Held(flexible)
      BY <2>1, TableShrinks DEF GInv, HostOK
    <2>3. HostOK'
      BY <1>1, <1>3, <2>1, <2>2 DEF GInv, HostOK
    <2>4. QED
      BY <1>1, <1>2, <1>3, <2>1, <2>3, OtherSteps DEF directOnly
  <1>6. QED
    BY <1>4, <1>5 DEF CallFlexible

LEMMA MunmapFlexibleStep ==
    ASSUME GInv, NEW t \in Threads, MunmapFlexible(t)
    PROVE  GInv' /\ DirectNext
  <1>1. UNCHANGED <<directOnly, views>> /\ pending' = [pending EXCEPT ![t] = Nothing]
    BY DEF MunmapFlexible
  <1>2. QueueOK'
    BY <1>1, QueueStep, NothingFacts DEF GInv
  <1>3. DirectRange \subseteq host /\ host \in SUBSET Pages /\ DirectRange' = DirectRange
    BY <1>1, RangeSame, DirectInRange DEF GInv, directOnly, directTables
  <1>4. CASE F!Unmap(pending[t].addr)
    <2>1. PICK k \in DOMAIN flexible : flexible' = Without(flexible, k) /\ UNCHANGED host
      BY <1>4 DEF F!Unmap, F!Without, Without
    <2>2. TableOK(flexible') /\ Held(flexible') \subseteq Held(flexible)
      BY <2>1, TableShrinks DEF GInv, HostOK
    <2>3. HostOK'
      BY <1>1, <1>3, <2>1, <2>2 DEF GInv, HostOK
    <2>4. QED
      BY <1>1, <1>2, <1>3, <2>1, <2>3, OtherSteps DEF directOnly
  <1>5. CASE UNCHANGED <<flexOnly, host>>
    BY <1>1, <1>2, <1>5, QuietSteps DEF flexOnly, directOnly
  <1>6. QED
    BY <1>4, <1>5 DEF MunmapFlexible

\* A file view is entered where the host had free pages.
LEMMA MapFileStep ==
    ASSUME GInv, NEW t \in Threads, MapFile(t)
    PROVE  GInv' /\ DirectNext
  <1>1. PICK len \in Lens, a \in Pages :
          /\ Span(a, len) \subseteq Pages \ host
          /\ views' = With(views, a, [size |-> len])
          /\ host' = host \cup Span(a, len)
          /\ pending' = [pending EXCEPT ![t] = [todo |-> "register", addr |-> a]]
    BY DEF MapFile, F!FitsHost, F!Span, Span
  <1>2. UNCHANGED <<directOnly, flexible>>
    BY DEF MapFile, flexOnly
  <1>3. QueueOK'
    BY <1>1, QueueStep DEF GInv
  <1>4. DirectRange \subseteq host /\ host \in SUBSET Pages /\ DirectRange' = DirectRange
    BY <1>2, RangeSame, DirectInRange DEF GInv, directOnly, directTables
  <1>5. [size |-> len].size = len
    OBVIOUS
  <1>6. Span(a, [size |-> len].size) \cap Held(views) = {}
    BY <1>1 DEF GInv, HostOK
  <1>7. TableOK(views') /\ Held(views') = Held(views) \cup Span(a, len)
    BY <1>1, <1>5, <1>6, TableGrows DEF GInv, HostOK
  <1>8. HostOK'
    BY <1>1, <1>2, <1>4, <1>7 DEF GInv, HostOK
  <1>9. host' \in SUBSET Pages /\ DirectRange \subseteq host'
    BY <1>1, <1>4
  <1>10. QED
    BY <1>2, <1>3, <1>8, <1>9, OtherSteps DEF directOnly

\* A view's own pages are given back, and nobody else's.
LEMMA MunmapFileStep ==
    ASSUME GInv, NEW t \in Threads, MunmapFile(t)
    PROVE  GInv' /\ DirectNext
  <1>1. UNCHANGED <<directOnly, flexible>> /\ pending' = [pending EXCEPT ![t] = Nothing]
    BY DEF MunmapFile, flexOnly
  <1>2. QueueOK'
    BY <1>1, QueueStep, NothingFacts DEF GInv
  <1>3. DirectRange \subseteq host /\ host \in SUBSET Pages /\ DirectRange' = DirectRange
    BY <1>1, RangeSame, DirectInRange DEF GInv, directOnly, directTables
  <1>4. CASE \E a \in DOMAIN views : views' = Without(views, a) /\ host' = host \ Span(a, views[a].size)
    <2>1. PICK a \in DOMAIN views : views' = Without(views, a) /\ host' = host \ Span(a, views[a].size)
      BY <1>4
    <2>2. /\ TableOK(views') /\ Held(views') \subseteq Held(views)
          /\ Held(views') \cap Span(a, views[a].size) = {}
      BY <2>1, TableShrinks DEF GInv, HostOK
    <2>3. Span(a, views[a].size) \subseteq Held(views)
      BY HeldFacts
    <2>4. HostOK'
      BY <1>1, <1>3, <2>1, <2>2, <2>3 DEF GInv, HostOK
    <2>5. host' \in SUBSET Pages /\ DirectRange \subseteq host'
      BY <1>3, <2>1, <2>3 DEF GInv, HostOK
    <2>6. QED
      BY <1>1, <1>2, <2>4, <2>5, OtherSteps DEF directOnly
  <1>5. CASE UNCHANGED <<views, host>>
    BY <1>1, <1>2, <1>5, QuietSteps DEF directOnly
  <1>6. QED
    BY <1>4, <1>5 DEF MunmapFile

\* What touches no memory: the register, the queries, and flexible memory's count.
LEMMA BookStep ==
    ASSUME GInv, NEW t \in Threads,
           \/ RegisterFlexible(t) \/ RegisterFile(t) \/ QueryAnswered(t)
           \/ \E a \in Pages \cup DevicePages : Munmap(t, a) \/ VirtualQuery(t, a)
    PROVE  GInv' /\ DirectNext
  <1>1. UNCHANGED <<directTables, flexible, host, views>> /\ life' \in {life, "crashed"}
    BY DEF RegisterFlexible, RegisterFile, QueryAnswered, Munmap, VirtualQuery, flexOnly, directOnly,
           Call, Continue, F!Registered
  <1>2. QueueOK'
    <2>1. CASE UNCHANGED pending
      BY <2>1 DEF GInv, QueueOK
    <2>2. CASE RegisterFile(t)
      BY <2>2, QueueStep, NothingFacts DEF GInv, RegisterFile
    <2>3. CASE \E a \in Pages \cup DevicePages : Munmap(t, a)
      <3>1. PICK a \in Pages \cup DevicePages :
                pending' = [pending EXCEPT ![t] = [todo |-> registered[a], addr |-> a]]
        BY <2>3 DEF Munmap
      <3>2. QED
        BY <3>1, QueueStep DEF GInv
    <2>4. QED
      BY <2>1, <2>2, <2>3 DEF RegisterFlexible, QueryAnswered, VirtualQuery
  <1>3. QED
    BY <1>1, <1>2, QuietSteps

LEMMA InitGInv == Init => GInv /\ DirectInit
  <1> SUFFICES ASSUME Init PROVE GInv /\ DirectInit
    OBVIOUS
  <1>1. DirectInit
    BY DEF Init
  <1>2. DirectInv
    BY <1>1, DirectInitStep
  <1>3. m_objects = <<>> /\ flexible = <<>> /\ views = <<>>
    BY DEF Init, DirectInit, F!Init
  <1>4. DirectRange = {} /\ Held(flexible) = {} /\ Held(views) = {}
    BY <1>3 DEF DirectRange, Held
  <1>5. HostOK
    BY <1>3, <1>4 DEF HostOK, TableOK
  <1>6. QueueOK
    BY NothingFacts DEF Init, QueueOK
  <1>7. QED
    BY <1>1, <1>2, <1>5, <1>6 DEF GInv

LEMMA NextGInv == GInv /\ [Next]_vars => GInv' /\ [DirectNext]_directVars
  <1> SUFFICES ASSUME GInv, [Next]_vars PROVE GInv' /\ [DirectNext]_directVars
    OBVIOUS
  <1>1. CASE UNCHANGED vars
    <2>1. UNCHANGED <<directOnly, flexible, host, views, pending>>
      BY <1>1 DEF vars, flexOnly, managerVars
    <2>2. QueueOK'
      BY <2>1 DEF GInv, QueueOK
    <2>3. QED
      BY <2>1, <2>2, QuietSteps DEF directOnly
  <1>2. ASSUME NEW t \in Threads, Advance(t) PROVE GInv' /\ DirectNext
    BY <1>2, RegisterDirectStep, MunmapDirectStep, MunmapFlexibleStep, MunmapFileStep, BookStep DEF Advance
  <1>3. ASSUME NEW t \in Threads, CallDirect(t) \/ CallFlexible(t) \/ MapFile(t)
        PROVE  GInv' /\ DirectNext
    BY <1>3, CallDirectStep, CallFlexibleStep, MapFileStep
  <1>4. ASSUME NEW t \in Threads, \E a \in Pages \cup DevicePages : Munmap(t, a) \/ VirtualQuery(t, a)
        PROVE  GInv' /\ DirectNext
    BY <1>4, BookStep
  <1>5. QED
    BY <1>1, <1>2, <1>3, <1>4 DEF Next

-----------------------------------------------------------------------------
\* What the sizes count: the pages that are mapped.
LEMMA SpanCount ==
    ASSUME NEW a \in Nat, NEW len \in Lens
    PROVE  IsFiniteSet(Span(a, len)) /\ Cardinality(Span(a, len)) = len
  <1>1. len \in Nat /\ len >= 1
    OBVIOUS
  <1>2. /\ IsFiniteSet(a..(a + len - 1))
        /\ Cardinality(a..(a + len - 1)) = IF a > a + len - 1 THEN 0 ELSE a + len - 1 - a + 1
    BY <1>1, FS_Interval
  <1>3. QED
    BY <1>1, <1>2 DEF Span

\* The count of two sets that are apart.
LEMMA ApartCount ==
    ASSUME NEW S, NEW T, IsFiniteSet(S), IsFiniteSet(T), S \cap T = {}
    PROVE  /\ IsFiniteSet(S \cup T)
           /\ Cardinality(S \cup T) = Cardinality(S) + Cardinality(T)
           /\ Cardinality(S) \in Nat /\ Cardinality(T) \in Nat
  <1>1. Cardinality(S) \in Nat /\ Cardinality(T) \in Nat
    BY FS_CardinalityType
  <1>2. /\ IsFiniteSet(S \cup T)
        /\ Cardinality(S \cup T) = Cardinality(S) + Cardinality(T) - Cardinality(S \cap T)
    BY FS_Union
  <1>3. Cardinality(S \cap T) = 0
    BY FS_EmptySet
  <1>4. QED
    BY <1>1, <1>2, <1>3

LEMMA CountGrows ==
    ASSUME NEW f, NEW g, NEW a \in Pages, NEW v, v.size \in Lens,
           TableOK(f), IsFiniteSet(Held(f)), Span(a, v.size) \cap Held(f) = {},
           g = Emplace(f, a, v)
    PROVE  IsFiniteSet(Held(g)) /\ Cardinality(Held(g)) = Cardinality(Held(f)) + v.size
  <1>1. Held(g) = Held(f) \cup Span(a, v.size)
    BY TableGrows
  <1>2. IsFiniteSet(Span(a, v.size)) /\ Cardinality(Span(a, v.size)) = v.size
    BY SpanCount
  <1>3. /\ IsFiniteSet(Held(f) \cup Span(a, v.size))
        /\ Cardinality(Held(f) \cup Span(a, v.size))
              = Cardinality(Held(f)) + Cardinality(Span(a, v.size))
    <2>1. Held(f) \cap Span(a, v.size) = {}
      OBVIOUS
    <2>2. QED
      BY <1>2, <2>1, ApartCount, Zenon
  <1>4. QED
    BY <1>1, <1>2, <1>3

LEMMA CountShrinks ==
    ASSUME NEW f, NEW g, NEW k \in DOMAIN f, TableOK(f), IsFiniteSet(Held(f)), g = Without(f, k)
    PROVE  IsFiniteSet(Held(g)) /\ Cardinality(Held(g)) = Cardinality(Held(f)) - f[k].size
  <1>1. /\ Held(g) \subseteq Held(f) /\ Held(g) \cap Span(k, f[k].size) = {}
    BY TableShrinks
  <1>2. Held(f) = Held(g) \cup Span(k, f[k].size)
    <2>1. ASSUME NEW x \in Held(f), x \notin Span(k, f[k].size) PROVE x \in Held(g)
      <3>1. PICK j \in DOMAIN f : x \in Span(j, f[j].size)
        BY <2>1, HeldFacts
      <3>2. j \in DOMAIN g /\ x \in Span(j, g[j].size)
        BY <2>1, <3>1 DEF Without
      <3>3. QED
        BY <3>2, HeldFacts
    <2>2. Span(k, f[k].size) \subseteq Held(f)
      BY HeldFacts
    <2>3. QED
      BY <1>1, <2>1, <2>2
  <1>3. f[k].size \in Lens /\ k \in Nat /\ f[k].size \in Nat
    BY DEF TableOK
  <1>4. IsFiniteSet(Span(k, f[k].size)) /\ Cardinality(Span(k, f[k].size)) = f[k].size
    BY <1>3, SpanCount
  <1>5. IsFiniteSet(Held(g))
    BY <1>1, FS_Subset
  <1>6. /\ Cardinality(Held(f)) = Cardinality(Held(g)) + f[k].size
        /\ Cardinality(Held(g)) \in Nat
    BY <1>1, <1>2, <1>4, <1>5, ApartCount
  <1>7. QED
    BY <1>3, <1>5, <1>6

\* The object that holds the first page of a mapping, and the part that is taken.
LEMMA KeyHeld ==
    ASSUME DirectInv, NEW k \in DOMAIN m_mappings
    PROVE  \E p \in DOMAIN m_objects :
              /\ m_objects[p].state = "Committed" /\ k \in HostRange(p)
              /\ m_objects[p].block =>
                    \A i \in Nat : m_objects[p].allocAddr + i = k => i \in m_objects[p].taken
  <1>1. Placed(k) /\ k \in Span(k, m_mappings[k].size)
    BY Typed, SpanFacts DEF DirectInv, AllPlaced
  <1>2. QED
    BY <1>1 DEF Placed

\* The address map enters is not in the table yet, so the size it adds is counted once.
LEMMA EntersFresh ==
    ASSUME DirectInv, NEW len \in Lens, NEW prot \in Prots, NEW vaddr \in Pages, NEW fixed \in BOOLEAN,
           Map(len, prot, fixed, vaddr) \/ MapReservation(vaddr, len, prot)
    PROVE  \/ UNCHANGED <<m_mappings, m_usedSize>>
           \/ \E k, o, part : EnterMapping(k, o, len, part) /\ k \notin DOMAIN m_mappings
  <1>1. CASE MapReservation(vaddr, len, prot)
    <2>1. PICK o \in Reservations(vaddr, len) : EnterMapping(o, o, len, {})
      BY <1>1 DEF MapReservation
    <2>2. o \in DOMAIN m_objects /\ m_objects[o].state = "Reserved" /\ o \in HostRange(o)
      BY Typed, SpanFacts DEF Reservations, HostRange
    <2>3. o \notin DOMAIN m_mappings
      BY <2>2, KeyHeld DEF DirectInv, RangesApart
    <2>4. QED
      BY <2>1, <2>3
  <1>2. CASE Map(len, prot, fixed, vaddr)
    <2>1. PICK o \in Candidates(len, prot) :
            m_objects[o].block /\ \E x \in FitsBlock(o, len) : MapObject(o, x, len, prot, fixed, vaddr)
      BY <1>2 DEF Map
    <2>2. PICK x \in FitsBlock(o, len) : MapObject(o, x, len, prot, fixed, vaddr)
      BY <2>1
    <2>3. /\ o \in DOMAIN m_objects /\ m_objects[o].size \in Nat /\ m_objects[o].allocAddr \in Nat
          /\ m_objects[o].size \in Lens
          /\ x \in Nat /\ x < m_objects[o].size /\ x \notin m_objects[o].taken
      <3>1. o \in DOMAIN m_objects /\ m_objects[o].size \in Lens /\ m_objects[o].allocAddr \in Nat
        BY Typed DEF Candidates
      <3>2. x \in Nat /\ Span(x, len) \subseteq (0..(m_objects[o].size - 1)) \ m_objects[o].taken
        BY <3>1 DEF FitsBlock
      <3>3. x \in Span(x, len) /\ m_objects[o].size \in Nat
        BY <3>1, <3>2, SpanFacts
      <3>4. x \in 0..(m_objects[o].size - 1) /\ x \notin m_objects[o].taken
        BY <3>2, <3>3
      <3>5. QED
        BY <3>1, <3>3, <3>4
    <2>4. CASE /\ m_objects[o].state = "Committed"
               /\ EnterMapping(m_objects[o].allocAddr + x, o, len, Span(x, len))
      <3>a. \A y : y \in Span(m_objects[o].allocAddr, m_objects[o].size)
                    <=> /\ y \in Int /\ m_objects[o].allocAddr <= y
                        /\ y < m_objects[o].allocAddr + m_objects[o].size
        BY <2>3, SpanFacts
      <3>b. m_objects[o].allocAddr + x \in Span(m_objects[o].allocAddr, m_objects[o].size)
        BY <2>3, <3>a
      <3>1. m_objects[o].allocAddr + x \in HostRange(o)
        BY <2>4, <3>b DEF HostRange
      <3>2. m_objects[o].allocAddr + x \notin DOMAIN m_mappings
        BY <2>1, <2>3, <3>1, KeyHeld DEF DirectInv, RangesApart
      <3>3. QED
        BY <2>4, <3>2
    <2>5. CASE \E h \in FitsHost(m_objects[o].size) : EnterMapping(h + x, o, len, Span(x, len))
      <3>1. PICK h \in FitsHost(m_objects[o].size) : EnterMapping(h + x, o, len, Span(x, len))
        BY <2>5
      <3>a. h \in Pages /\ h \in Nat
        BY DEF FitsHost
      <3>b. \A y : y \in Span(h, m_objects[o].size)
                    <=> y \in Int /\ h <= y /\ y < h + m_objects[o].size
        BY <2>3, <3>a, SpanFacts
      <3>2. h + x \in Span(h, m_objects[o].size)
        BY <2>3, <3>a, <3>b
      <3>3. h + x \notin host
        BY <3>2 DEF FitsHost
      <3>4. h + x \notin DOMAIN m_mappings
        BY <3>3, KeyHeld DEF DirectInv, RangesApart
      <3>5. QED
        BY <3>1, <3>4
    <2>6. QED
      BY <2>2, <2>4, <2>5 DEF MapObject
  <1>3. QED
    BY <1>1, <1>2

\* What a step of direct memory does to the table and its size.
LEMMA MappingsChange ==
    ASSUME DirectInv, DirectStep
    PROVE  \/ UNCHANGED <<m_mappings, m_usedSize>>
           \/ \E len \in Lens : \E k, o, part : EnterMapping(k, o, len, part) /\ k \notin DOMAIN m_mappings
           \/ \E k \in DOMAIN m_mappings : /\ m_mappings' = Without(m_mappings, k)
                                           /\ m_usedSize' = m_usedSize - m_mappings[k].size
  <1>1. CASE \E t \in Threads : \/ \E len \in Lens : Alloc(t, len) \/ Reserve(t, len)
                                \/ Registered(t) \/ FreeObject(t)
                                \/ \E a \in Pages \cup DevicePages : Free(t, a)
    BY <1>1 DEF Alloc, Reserve, Registered, FreeObject, Free
  <1>2. CASE \E t \in Threads : FreeMapping(t)
    BY <1>2 DEF FreeMapping, MappedFrom
  <1>3. CASE \E a \in Pages \cup DevicePages, len \in Lens : Unmap(a, len)
    BY <1>3 DEF Unmap
  <1>4. ASSUME NEW len \in Lens, NEW prot \in Prots, NEW vaddr \in Pages, NEW fixed \in BOOLEAN,
               Map(len, prot, fixed, vaddr) \/ MapReservation(vaddr, len, prot)
        PROVE  \/ UNCHANGED <<m_mappings, m_usedSize>>
               \/ \E k, o, part : EnterMapping(k, o, len, part) /\ k \notin DOMAIN m_mappings
    BY <1>4, EntersFresh
  <1>5. CASE \E len \in Lens, prot \in Prots, vaddr \in Pages, fixed \in BOOLEAN :
                MapNullBlock(len, prot, fixed, vaddr)
    BY <1>5 DEF MapNullBlock
  <1>6. QED
    BY <1>1, <1>2, <1>3, <1>4, <1>5 DEF DirectStep

\* Direct memory's own size, and that of flexible memory less the mapping that is
\* being registered.
DirectCounted == IsFiniteSet(Held(m_mappings)) /\ m_usedSize = Cardinality(Held(m_mappings))

Registering == IF flexLock = NoThread THEN 0 ELSE flexible[flexAddr].size

FlexCounted ==
    /\ IsFiniteSet(Held(flexible)) /\ flexUsed \in Int
    /\ flexLock # NoThread => flexAddr \in DOMAIN flexible
    /\ Cardinality(Held(flexible)) = flexUsed + Registering
    /\ Cardinality(Held(flexible)) = 0 \/ Cardinality(Held(flexible)) < m_configuresSize

LEMMA DirectTable ==
    ASSUME DirectInv
    PROVE  TableOK(m_mappings)
  BY Typed DEF DirectInv, DirectTypeOK, SpansApart, TableOK

LEMMA DirectCountedStep ==
    ASSUME DirectInv, DirectInv', DirectStep, DirectCounted
    PROVE  DirectCounted'
  <1>1. CASE UNCHANGED <<m_mappings, m_usedSize>>
    BY <1>1 DEF DirectCounted, Held
  <1>2. CASE \E len \in Lens : \E k, o, part : EnterMapping(k, o, len, part) /\ k \notin DOMAIN m_mappings
    <2>a. PICK len \in Lens : \E k, o, part : EnterMapping(k, o, len, part) /\ k \notin DOMAIN m_mappings
      BY <1>2
    <2>b. PICK k, o, part : EnterMapping(k, o, len, part) /\ k \notin DOMAIN m_mappings
      BY <2>a
    <2> DEFINE v == [heapAddr |-> o, size |-> len, part |-> part]
    <2>2. m_mappings' = Emplace(m_mappings, k, v) /\ v.size = len /\ m_usedSize' = m_usedSize + len
      BY <2>b DEF EnterMapping
    <2> HIDE DEF v
    <2>3. /\ DOMAIN m_mappings' = DOMAIN m_mappings \cup {k} /\ m_mappings'[k] = v
          /\ \A j \in DOMAIN m_mappings : m_mappings'[j] = m_mappings[j]
      BY <2>b, <2>2 DEF Emplace, With
    <2>4. k \in Pages
      BY <2>3 DEF DirectInv, DirectTypeOK
    <2>5. \A j \in DOMAIN m_mappings : Span(j, m_mappings[j].size) \cap Span(k, v.size) = {}
      BY <2>b, <2>2, <2>3 DEF DirectInv, SpansApart
    <2>6. Span(k, v.size) \cap Held(m_mappings) = {}
      BY <2>5, HeldFacts
    <2>7. /\ IsFiniteSet(Held(m_mappings'))
          /\ Cardinality(Held(m_mappings')) = Cardinality(Held(m_mappings)) + v.size
      BY <2>2, <2>4, <2>6, DirectTable, CountGrows DEF DirectCounted
    <2>8. QED
      BY <2>2, <2>7 DEF DirectCounted
  <1>3. CASE \E k \in DOMAIN m_mappings : /\ m_mappings' = Without(m_mappings, k)
                                          /\ m_usedSize' = m_usedSize - m_mappings[k].size
    <2>1. PICK k \in DOMAIN m_mappings : /\ m_mappings' = Without(m_mappings, k)
                                         /\ m_usedSize' = m_usedSize - m_mappings[k].size
      BY <1>3
    <2>2. /\ IsFiniteSet(Held(m_mappings'))
          /\ Cardinality(Held(m_mappings')) = Cardinality(Held(m_mappings)) - m_mappings[k].size
      BY <2>1, DirectTable, CountShrinks DEF DirectCounted
    <2>3. QED
      BY <2>1, <2>2 DEF DirectCounted
  <1>4. QED
    BY <1>1, <1>2, <1>3, MappingsChange

\* Every step of the manager is one of direct memory or leaves its table alone.
LEMMA ManagerDirect ==
    ASSUME DirectNext
    PROVE  DirectStep \/ UNCHANGED <<m_mappings, m_usedSize>>
  BY DEF DirectNext, OthersUseHost

\* map of flexible memory checks the limit before it counts.
LEMMA FlexMapStep ==
    ASSUME GInv, FlexCounted, NEW t \in Threads, NEW len \in Lens, NEW fixed, NEW vaddr,
           F!Map(t, len, fixed, vaddr)
    PROVE  FlexCounted'
  <1>1. /\ flexLock = NoThread /\ flexLock' = t /\ flexUsed' = flexUsed
        /\ flexUsed + len < m_configuresSize
    BY DEF F!Map, F!Ready
  <1>2. PICK a \in Pages :
          /\ Span(a, len) \subseteq Pages \ host
          /\ flexible' = Emplace(flexible, a, [size |-> len]) /\ flexAddr' = a
    BY DEF F!Map, F!FitsHost, F!Span, F!Emplace, F!With, Span, Emplace, With
  <1> DEFINE v == [size |-> len]
  <1>3. v.size = len
    OBVIOUS
  <1>4. flexible' = Emplace(flexible, a, v)
    BY <1>2
  <1> HIDE DEF v
  <1>5. TableOK(flexible) /\ Span(a, v.size) \cap Held(flexible) = {} /\ IsFiniteSet(Held(flexible))
    BY <1>2, <1>3 DEF GInv, HostOK, FlexCounted
  <1>6. /\ IsFiniteSet(Held(flexible'))
        /\ Cardinality(Held(flexible')) = Cardinality(Held(flexible)) + v.size
    BY <1>3, <1>4, <1>5, CountGrows
  <1>7. a \in DOMAIN flexible' /\ flexible'[a] = v
    <2>1. a \notin DOMAIN flexible
      <3>1. SUFFICES ASSUME a \in DOMAIN flexible PROVE FALSE
        OBVIOUS
      <3>2. a \in Span(a, flexible[a].size) /\ a \in Span(a, v.size)
        BY <1>3, <1>5, <3>1, SpanFacts DEF TableOK
      <3>3. QED
        BY <1>5, <3>1, <3>2, HeldFacts
    <2>2. QED
      BY <1>4, <2>1 DEF Emplace, With
  <1>8. Registering = 0 /\ Registering' = len
    BY <1>1, <1>2, <1>3, <1>7 DEF Registering
  <1>9. Cardinality(Held(flexible')) = flexUsed + len /\ flexUsed \in Int
    BY <1>3, <1>6, <1>8 DEF FlexCounted
  <1>10. QED
    BY <1>1, <1>2, <1>6, <1>7, <1>8, <1>9 DEF FlexCounted

LEMMA FlexUnmapStep ==
    ASSUME GInv, FlexCounted, NEW a, F!Unmap(a)
    PROVE  FlexCounted'
  <1>1. PICK k \in DOMAIN flexible :
          flexible' = Without(flexible, k) /\ flexUsed' = flexUsed - flexible[k].size
    BY DEF F!Unmap, F!Without, Without
  <1>2. flexLock = NoThread /\ UNCHANGED <<flexLock, flexAddr>>
    BY DEF F!Unmap, F!Ready
  <1>3. TableOK(flexible) /\ IsFiniteSet(Held(flexible)) /\ flexible[k].size \in Nat
    BY DEF GInv, HostOK, TableOK, FlexCounted
  <1>4. /\ IsFiniteSet(Held(flexible'))
        /\ Cardinality(Held(flexible')) = Cardinality(Held(flexible)) - flexible[k].size
    BY <1>1, <1>3, CountShrinks
  <1>5. Cardinality(Held(flexible)) \in Nat /\ Cardinality(Held(flexible')) \in Nat
    BY <1>3, <1>4, FS_CardinalityType
  <1>6. Registering = 0 /\ Registering' = 0
    BY <1>2 DEF Registering
  <1>7. Cardinality(Held(flexible')) = flexUsed' /\ flexUsed' \in Int
    BY <1>1, <1>3, <1>4, <1>6 DEF FlexCounted
  <1>8. Cardinality(Held(flexible')) = 0 \/ Cardinality(Held(flexible')) < m_configuresSize
    BY <1>3, <1>4, <1>5, LimitAssumption DEF FlexCounted
  <1>9. QED
    BY <1>2, <1>4, <1>6, <1>7, <1>8 DEF FlexCounted

LEMMA FlexRegisterStep ==
    ASSUME GInv, FlexCounted, NEW t \in Threads, F!Registered(t)
    PROVE  FlexCounted'
  <1>1. /\ flexLock # NoThread /\ flexLock' = NoThread /\ UNCHANGED flexible
        /\ flexUsed' = flexUsed + flexible[flexAddr].size
    BY DEF F!Registered
  <1>2. flexAddr \in DOMAIN flexible /\ flexible[flexAddr].size \in Nat
    BY <1>1 DEF FlexCounted, GInv, HostOK, TableOK
  <1>3. Registering = flexible[flexAddr].size /\ Registering' = 0
    BY <1>1 DEF Registering
  <1>4. QED
    BY <1>1, <1>2, <1>3 DEF FlexCounted

LEMMA FlexStutter ==
    ASSUME FlexCounted, UNCHANGED flexOnly
    PROVE  FlexCounted'
  BY DEF flexOnly, FlexCounted, Registering

LEMMA FlexCountedStep ==
    ASSUME GInv, FlexCounted, [Next]_vars
    PROVE  FlexCounted'
  <1>1. CASE UNCHANGED flexOnly
    BY <1>1, FlexStutter
  <1>2. ASSUME NEW t \in Threads, CallFlexible(t) PROVE FlexCounted'
    BY <1>2, FlexMapStep, FlexUnmapStep DEF CallFlexible
  <1>3. ASSUME NEW t \in Threads, RegisterFlexible(t) PROVE FlexCounted'
    BY <1>3, FlexRegisterStep DEF RegisterFlexible
  <1>4. ASSUME NEW t \in Threads, MunmapFlexible(t) PROVE FlexCounted'
    BY <1>4, FlexUnmapStep, <1>1 DEF MunmapFlexible
  <1>5. ASSUME NEW t \in Threads,
               \/ CallDirect(t) \/ MapFile(t) \/ RegisterDirect(t) \/ FreeDirect(t) \/ RegisterFile(t)
               \/ MunmapDirect(t) \/ MunmapFile(t) \/ QueryAnswered(t)
               \/ \E a \in Pages \cup DevicePages : Munmap(t, a) \/ VirtualQuery(t, a)
        PROVE  UNCHANGED flexOnly
    BY <1>5 DEF CallDirect, MapFile, RegisterDirect, FreeDirect, RegisterFile,
         MunmapDirect, MunmapFile, QueryAnswered, Munmap, VirtualQuery
  <1>6. QED
    BY <1>1, <1>2, <1>3, <1>4, <1>5 DEF Next, Advance, vars

-----------------------------------------------------------------------------
\* The manager with all its types implements direct memory: whatever flexible memory,
\* file views and munmap do to the host's pages, direct memory sees no more than its
\* own calls and the changes OthersUseHost allows.
THEOREM ManagerUsesDirectMemory == Spec => UsesDirectMemory
  BY InitGInv, NextGInv, PTL DEF Spec, UsesDirectMemory, DirectSpec

\* No page is in two of the direct, flexible and file mappings, and direct ones are
\* backed by their object, for any calls of any threads.
THEOREM MappingsStayApart == Spec => []MappingsApart
  <1>1. GInv => MappingsApart
    <2> SUFFICES ASSUME GInv PROVE MappingsApart
      OBVIOUS
    <2>1. MappingsBacked /\ MappingsDisjoint
      BY DirectBacked, DirectDisjoint DEF GInv
    <2>2. Disjoint(flexible) /\ Disjoint(views)
      BY TableDisjoint DEF GInv, HostOK
    <2>3. Held(m_mappings) \subseteq DirectRange
      <3>1. \A k \in DOMAIN m_mappings : Span(k, m_mappings[k].size) \subseteq DirectRange
        BY DirectInRange DEF GInv
      <3>2. QED
        BY <3>1 DEF Held
    <2>4. QED
      BY <2>1, <2>2, <2>3 DEF GInv, HostOK, MappingsApart
  <1>2. QED
    BY <1>1, InitGInv, NextGInv, PTL DEF Spec
\* The used sizes are those of the pages that are mapped, and flexible memory stays
\* below its limit, with calls of any threads in progress (directmem.cpp:273, 428;
\* flexiblemem.cpp:136, 163).
THEOREM SizesAreCounted == Spec => []SizesCounted
  <1> DEFINE CInv == GInv /\ DirectCounted /\ FlexCounted
  <1>1. Init => CInv
    <2> SUFFICES ASSUME Init PROVE CInv
      OBVIOUS
    <2>1. GInv
      BY InitGInv
    <2>2. /\ Held(m_mappings) = {} /\ Held(flexible) = {}
          /\ m_usedSize = 0 /\ flexUsed = 0 /\ flexLock = NoThread
      BY DEF Init, DirectInit, F!Init, Held
    <2>3. IsFiniteSet({}) /\ Cardinality({}) = 0
      BY FS_EmptySet
    <2>4. DirectCounted
      BY <2>2, <2>3 DEF DirectCounted
    <2>5. FlexCounted
      BY <2>2, <2>3 DEF FlexCounted, Registering
    <2>6. QED
      BY <2>1, <2>4, <2>5
  <1>2. CInv /\ [Next]_vars => CInv'
    <2> SUFFICES ASSUME CInv, [Next]_vars PROVE CInv'
      OBVIOUS
    <2>1. GInv' /\ [DirectNext]_directVars
      BY NextGInv
    <2>2. DirectCounted'
      <3>1. CASE DirectStep
        BY <2>1, <3>1, DirectCountedStep DEF GInv
      <3>2. CASE UNCHANGED <<m_mappings, m_usedSize>>
        BY <3>2 DEF DirectCounted, Held
      <3>3. QED
        BY <2>1, <3>1, <3>2, ManagerDirect DEF directVars
    <2>3. FlexCounted'
      BY FlexCountedStep
    <2>4. QED
      BY <2>1, <2>2, <2>3
  <1>3. CInv => SizesCounted
    BY DEF DirectCounted, FlexCounted, Registering, SizesCounted
  <1> HIDE DEF CInv
  <1>4. QED
    BY <1>1, <1>2, <1>3, PTL DEF Spec
=============================================================================
