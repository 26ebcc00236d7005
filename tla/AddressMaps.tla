---------------------------- MODULE AddressMaps ----------------------------
(***************************************************************************)
(* std::map from an address to a record with a size, as the memory types   *)
(* use it: emplace, erase, and the look-up of the entry an address names;  *)
(* with the parameters the memory modules share.                           *)
(***************************************************************************)
EXTENDS Integers

CONSTANTS
    Threads, NoThread,
    Pages,       \* the host addresses VirtualAlloc2 may return
    DevicePages, \* the device memory
    Lens,        \* the lengths the guest asks for
    Prots        \* protections

ASSUME PagesAssumption == Pages \subseteq Nat /\ DevicePages \subseteq Nat
ASSUME LensAssumption == Lens \subseteq Nat \ {0}
ASSUME NoThreadAssumption == NoThread \notin Threads

Span(a, len) == a..(a + len - 1)

With(f, k, v) == [x \in DOMAIN f \cup {k} |-> IF x = k THEN v ELSE f[x]]
Without(f, k) == [x \in DOMAIN f \ {k} |-> f[x]]
\* emplace leaves an entry alone that is there.
Emplace(f, k, v) == IF k \in DOMAIN f THEN f ELSE With(f, k, v)

IsFirst(k, S) == k \in S /\ \A j \in S : k <= j

\* lower_bound and the step back: the last key not above a, else the first key.
IsNearest(f, a, k) ==
    /\ k \in DOMAIN f
    /\ IF \E j \in DOMAIN f : j <= a
       THEN k <= a /\ \A j \in DOMAIN f : j <= a => j <= k
       ELSE \A j \in DOMAIN f : k <= j

\* The entry that free and unmap settle for: its end counts as inside.
Names(f, a, k) == IsNearest(f, a, k) /\ k <= a /\ a <= k + f[k].size

\* No two entries overlap.
Disjoint(f) == \A j, k \in DOMAIN f : j < k => j + f[j].size <= k
=============================================================================
