--------------------------- MODULE AvPlayerProofs ---------------------------
(***************************************************************************)
(* Proofs about AvPlayer, for any movie, any clients and any capacity of   *)
(* the codecs.  The argument: the packets of a stream stand in a row, what *)
(* the clients got, the early video frame, the codec, the queue, the file, *)
(* and a step only takes one from the front of a part to the back of the   *)
(* part before it; so the row as a whole never changes.                    *)
(*                                                                         *)
(* Of, which picks a stream's packets from a queue, is a recursive         *)
(* function.  What it returns for a longer or a shorter queue is found by  *)
(* the least index where two such functions would differ.                  *)
(***************************************************************************)
EXTENDS AvPlayer, SequenceTheorems, WellFoundedInduction, TLAPS

\* A set of naturals has a least element.
LEMMA Smallest ==
    ASSUME NEW S \in SUBSET Nat, S # {}
    PROVE  \E n \in S : \A m \in S : n <= m
<1> DEFINE R == {ss \in Nat \X Nat : ss[1] < ss[2]}
<1>1. IsWellFoundedOn(R, Nat)
  BY NatLessThanWellFounded DEF OpToRel
<1>2. PICK x \in S : \A y \in S : ~ (<<y, x>> \in R)
  <2> HIDE DEF R
  <2>. QED
    BY <1>1, WFMin
<1>3. ASSUME NEW y \in S PROVE x <= y
  <2>1. x \in Nat /\ y \in Nat
    OBVIOUS
  <2>2. <<y, x>> \in Nat \X Nat /\ <<y, x>>[1] = y /\ <<y, x>>[2] = x
    BY <2>1
  <2>3. ~(y < x)
    BY <1>2, <2>2
  <2>. QED
    BY <2>1, <2>3
<1>. QED
  BY <1>3

\* The packets of stream s in the first i packets of q, as Of computes them.
Picks(f, s, q, n) ==
    /\ f = [i \in 0..n |-> f[i]]
    /\ \A i \in 0..n : f[i] = IF i = 0 THEN <<>>
                              ELSE IF q[i][1] = s THEN Append(f[i - 1], q[i]) ELSE f[i - 1]

\* Such a function exists, so the recursive definition in Of defines one.
LEMMA PicksExist ==
    ASSUME NEW P, NEW s, NEW q \in Seq(P), NEW n \in 0..Len(q)
    PROVE  \E f : Picks(f, s, q, n)
<1> DEFINE S == {m \in 0..Len(q) : ~\E f : Picks(f, s, q, m)}
<1>1. Len(q) \in Nat
  BY LenProperties
<1> SUFFICES ASSUME S # {} PROVE FALSE
  OBVIOUS
<1>2. PICK m \in S : \A k \in S : m <= k
  <2>1. S \in SUBSET Nat
    BY <1>1
  <2> HIDE DEF S
  <2>. QED
    BY <2>1, Smallest
<1>3. m \in 0..Len(q) /\ ~\E f : Picks(f, s, q, m)
  OBVIOUS
<1>4. CASE m = 0
  <2> DEFINE f == [i \in 0..0 |-> <<>>]
  <2>1. Picks(f, s, q, 0)
    BY DEF Picks
  <2>. QED
    BY <1>3, <1>4, <2>1
<1>5. CASE m # 0
  <2>1. m - 1 \in 0..Len(q) /\ m - 1 \notin S
    BY <1>1, <1>2, <1>3, <1>5
  <2>2. PICK f : Picks(f, s, q, m - 1)
    BY <2>1
  <2> DEFINE last == IF q[m][1] = s THEN Append(f[m - 1], q[m]) ELSE f[m - 1]
             g == [i \in 0..m |-> IF i < m THEN f[i] ELSE last]
  <2>3. \A i \in 0..m : g[i] = IF i = 0 THEN <<>>
                              ELSE IF q[i][1] = s THEN Append(g[i - 1], q[i]) ELSE g[i - 1]
    <3> HIDE DEF last
    <3> SUFFICES ASSUME NEW i \in 0..m
                 PROVE  g[i] = IF i = 0 THEN <<>>
                              ELSE IF q[i][1] = s THEN Append(g[i - 1], q[i]) ELSE g[i - 1]
      OBVIOUS
    <3>1. CASE i < m
      <4>1. i \in 0..(m - 1) /\ g[i] = f[i] /\ (i # 0 => i - 1 \in 0..m /\ g[i - 1] = f[i - 1])
        BY <1>1, <1>3, <3>1
      <4>. QED
        BY <2>2, <4>1 DEF Picks
    <3>2. CASE i = m
      <4>1. g[m] = last /\ g[m - 1] = f[m - 1]
        BY <1>1, <1>3, <1>5
      <4>. QED
        BY <1>5, <3>2, <4>1 DEF last
    <3>. QED
      BY <1>1, <1>3, <3>1, <3>2
  <2>4. g = [i \in 0..m |-> g[i]]
    OBVIOUS
  <2> HIDE DEF g
  <2>5. Picks(g, s, q, m)
    BY <2>3, <2>4 DEF Picks
  <2>. QED
    BY <1>3, <2>5
<1>. QED
  BY <1>4, <1>5

\* Two such functions agree as far as both their sequences do.
LEMMA PicksAgree ==
    ASSUME NEW P, NEW s, NEW q \in Seq(P), NEW r \in Seq(P),
           NEW n \in 0..Len(q), NEW k \in 0..Len(r), NEW j \in Nat, j <= n, j <= k,
           \A i \in 1..j : q[i] = r[i],
           NEW f, NEW g, Picks(f, s, q, n), Picks(g, s, r, k)
    PROVE  f[j] = g[j]
<1> DEFINE S == {m \in 0..j : f[m] # g[m]}
<1>1. n \in Nat /\ k \in Nat
  BY LenProperties
<1>2. SUFFICES ASSUME S # {} PROVE FALSE
  <2>1. j \in 0..j
    OBVIOUS
  <2>2. S = {}
    BY <1>2
  <2>. QED
    BY <2>1, <2>2
<1>3. PICK m \in S : \A i \in S : m <= i
  <2>1. S \in SUBSET Nat
    OBVIOUS
  <2> HIDE DEF S
  <2>. QED
    BY <1>2, <2>1, Smallest
<1>4. m \in 0..j /\ f[m] # g[m] /\ m \in 0..n /\ m \in 0..k
  BY <1>1
<1>5. m # 0
  BY <1>4 DEF Picks
<1>6. f[m - 1] = g[m - 1]
  BY <1>3, <1>4, <1>5
<1>7. q[m] = r[m]
  BY <1>4, <1>5
<1>8. /\ f[m] = IF q[m][1] = s THEN Append(f[m - 1], q[m]) ELSE f[m - 1]
      /\ g[m] = IF r[m][1] = s THEN Append(g[m - 1], r[m]) ELSE g[m - 1]
  BY <1>4, <1>5 DEF Picks
<1>. QED
  BY <1>4, <1>6, <1>7, <1>8

\* Of returns its last value.
LEMMA OfPicks ==
    ASSUME NEW P, NEW s, NEW q \in Seq(P)
    PROVE  \E f : Picks(f, s, q, Len(q)) /\ Of(s, q) = f[Len(q)]
<1> DEFINE Q(g) == g = [i \in 0..Len(q) |->
                          IF i = 0 THEN <<>>
                          ELSE IF q[i][1] = s THEN Append(g[i - 1], q[i]) ELSE g[i - 1]]
           w == CHOOSE g : Q(g)
<1>1. Of(s, q) = w[Len(q)]
  BY DEF Of
<1>2. PICK f : Picks(f, s, q, Len(q))
  <2>1. Len(q) \in 0..Len(q)
    BY LenProperties
  <2>. QED
    BY <2>1, PicksExist
<1>3. Q(f)
  BY <1>2 DEF Picks
<1>4. Q(w)
  <2> HIDE DEF Q
  <2>. QED
    BY <1>3
<1> HIDE DEF w
<1>5. Picks(w, s, q, Len(q))
  BY <1>4 DEF Picks
<1>. QED
  BY <1>1, <1>5

\* Its values are sequences of packets of the stream.
LEMMA PicksAreSequences ==
    ASSUME NEW P, NEW T, NEW s, \A p \in P : p[1] = s => p \in T,
           NEW q \in Seq(P), NEW n \in 0..Len(q), NEW f, Picks(f, s, q, n)
    PROVE  \A i \in 0..n : f[i] \in Seq(T)
<1> DEFINE S == {m \in 0..n : f[m] \notin Seq(T)}
<1>1. n \in Nat /\ Len(q) \in Nat
  BY LenProperties
<1> SUFFICES ASSUME S # {} PROVE FALSE
  OBVIOUS
<1>2. PICK m \in S : \A i \in S : m <= i
  <2>1. S \in SUBSET Nat
    OBVIOUS
  <2> HIDE DEF S
  <2>. QED
    BY <2>1, Smallest
<1>3. m \in 0..n /\ f[m] \notin Seq(T)
  OBVIOUS
<1>4. m # 0
  BY <1>3, EmptySeq DEF Picks
<1>5. f[m - 1] \in Seq(T)
  BY <1>2, <1>3, <1>4
<1>6. q[m] \in P
  BY <1>1, <1>3, <1>4, ElementOfSeq
<1>7. f[m] = IF q[m][1] = s THEN Append(f[m - 1], q[m]) ELSE f[m - 1]
  BY <1>3, <1>4 DEF Picks
<1>8. CASE q[m][1] = s
  <2>1. q[m] \in T
    BY <1>6, <1>8
  <2>2. Append(f[m - 1], q[m]) \in Seq(T)
    BY <1>5, <2>1, AppendProperties
  <2>. QED
    BY <1>3, <1>7, <1>8, <2>2
<1>. QED
  BY <1>3, <1>5, <1>7, <1>8

\* A filtered sequence has the type of the packets that pass.
LEMMA OfIn ==
    ASSUME NEW P, NEW T, NEW s, \A p \in P : p[1] = s => p \in T, NEW q \in Seq(P)
    PROVE  Of(s, q) \in Seq(T)
<1>1. PICK f : Picks(f, s, q, Len(q)) /\ Of(s, q) = f[Len(q)]
  BY OfPicks
<1>2. Len(q) \in 0..Len(q)
  BY LenProperties
<1>3. \A i \in 0..Len(q) : f[i] \in Seq(T)
  BY <1>1, <1>2, PicksAreSequences
<1>. QED
  BY <1>1, <1>2, <1>3

\* Of an empty queue, of one packet more at the back, and (OfTail) of one less at the
\* front.
LEMMA OfEmpty ==
    ASSUME NEW s
    PROVE  Of(s, <<>>) = <<>>
<1>1. <<>> \in Seq({}) /\ Len(<<>>) = 0
  BY EmptySeq
<1>2. PICK f : Picks(f, s, <<>>, Len(<<>>)) /\ Of(s, <<>>) = f[Len(<<>>)]
  BY <1>1, OfPicks
<1>. QED
  BY <1>1, <1>2 DEF Picks

LEMMA OfAppend ==
    ASSUME NEW P, NEW s, NEW q \in Seq(P), NEW e \in P
    PROVE  /\ Of(s, q) \in Seq(P)
           /\ Of(s, Append(q, e)) = IF e[1] = s THEN Append(Of(s, q), e) ELSE Of(s, q)
<1> DEFINE n == Len(q)
           r == Append(q, e)
<1>1. n \in Nat /\ n \in 0..n
  BY LenProperties
<1>2. r \in Seq(P) /\ Len(r) = n + 1 /\ r[n + 1] = e /\ \A i \in 1..n : q[i] = r[i]
  BY AppendProperties
<1>3. PICK f : Picks(f, s, q, n) /\ Of(s, q) = f[n]
  BY OfPicks
<1> HIDE DEF r
<1>4. PICK g : Picks(g, s, r, n + 1) /\ Of(s, r) = g[n + 1]
  BY <1>2, OfPicks
<1>n. n = Len(q)
  OBVIOUS
<1> HIDE DEF n
<1>5. f[n] = g[n]
  <2>1. n + 1 \in 0..Len(r) /\ n <= n + 1 /\ n <= n /\ n \in 0..Len(q)
    BY <1>1, <1>2, <1>n
  <2>2. n \in Nat /\ \A i \in 1..n : q[i] = r[i]
    BY <1>1, <1>2
  <2>3. r \in Seq(P) /\ Picks(f, s, q, n) /\ Picks(g, s, r, n + 1)
    BY <1>2, <1>3, <1>4
  <2>. QED
    BY <2>1, <2>2, <2>3, PicksAgree
<1>6. g[n + 1] = IF e[1] = s THEN Append(g[n], e) ELSE g[n]
  <2>1. n + 1 \in 0..(n + 1) /\ n + 1 # 0 /\ (n + 1) - 1 = n
    BY <1>1
  <2>2. g[n + 1] = IF r[n + 1][1] = s THEN Append(g[(n + 1) - 1], r[n + 1]) ELSE g[(n + 1) - 1]
    BY <1>4, <2>1 DEF Picks
  <2>. QED
    BY <1>2, <2>1, <2>2
<1>7. f[n] \in Seq(P)
  BY <1>1, <1>3, <1>n, PicksAreSequences
<1>. QED
  BY <1>3, <1>4, <1>5, <1>6, <1>7 DEF r

\* The first packet of q if it is of stream s.
First(s, q) == IF q[1][1] = s THEN <<q[1]>> ELSE <<>>

LEMMA ConcatAppend ==
    ASSUME NEW P, NEW a \in Seq(P), NEW b \in Seq(P), NEW e \in P
    PROVE  a \o Append(b, e) = Append(a \o b, e)
<1>1. <<e>> \in Seq(P) /\ a \o b \in Seq(P)
  BY ConcatProperties
<1>2. Append(b, e) = b \o <<e>> /\ Append(a \o b, e) = (a \o b) \o <<e>>
  BY <1>1, AppendIsConcat
<1>. QED
  BY <1>1, <1>2, ConcatAssociative

LEMMA OfTail ==
    ASSUME NEW P, NEW s, NEW q \in Seq(P), q # <<>>
    PROVE  Of(s, q) = First(s, q) \o Of(s, Tail(q))
<1> DEFINE n == Len(q)
           r == Tail(q)
           a == First(s, q)
<1>1. n \in Nat \ {0} /\ n - 1 \in Nat
  BY LenProperties, EmptySeq
<1>2. r \in Seq(P) /\ Len(r) = n - 1 /\ \A i \in 1..(n - 1) : r[i] = q[i + 1]
  BY HeadTailProperties
<1>3. PICK f : Picks(f, s, q, n) /\ Of(s, q) = f[n]
  BY OfPicks
<1> HIDE DEF r
<1>4. PICK g : Picks(g, s, r, n - 1) /\ Of(s, r) = g[n - 1]
  BY <1>2, OfPicks
<1>n. n = Len(q)
  OBVIOUS
<1> HIDE DEF n
<1>5. a \in Seq(P)
  <2>1. q[1] \in P
    BY <1>1, <1>n, ElementOfSeq
  <2>2. <<q[1]>> \in Seq(P)
    BY <2>1
  <2>. QED
    BY <2>2, EmptySeq DEF First
<1>6. f[1] = a \o g[0]
  <2>1. f[0] = <<>> /\ g[0] = <<>>
    <3>1. 0 \in 0..n /\ 0 \in 0..(n - 1)
      BY <1>1
    <3>. QED
      BY <1>3, <1>4, <3>1 DEF Picks
  <2>2. f[1] = IF q[1][1] = s THEN Append(f[0], q[1]) ELSE f[0]
    <3>1. 1 \in 0..n /\ 1 - 1 = 0 /\ 1 # 0
      BY <1>1
    <3>2. f[1] = IF q[1][1] = s THEN Append(f[1 - 1], q[1]) ELSE f[1 - 1]
      BY <1>3, <3>1 DEF Picks
    <3>. QED
      BY <3>1, <3>2
  <2>3. Append(<<>>, q[1]) = <<q[1]>>
    OBVIOUS
  <2>4. a \o <<>> = a
    BY <1>5, ConcatEmptySeq
  <2>. QED
    BY <2>1, <2>2, <2>3, <2>4 DEF First
<1> HIDE DEF a
<1>7. ASSUME NEW b \in Seq(P), NEW e \in P
      PROVE  a \o Append(b, e) = Append(a \o b, e)
  BY <1>5, ConcatAppend
<1> DEFINE S == {m \in 0..(n - 1) : f[m + 1] # a \o g[m]}
<1>8. S = {}
  <2> SUFFICES ASSUME S # {} PROVE FALSE
    OBVIOUS
  <2>1. PICK m \in S : \A i \in S : m <= i
    <3>1. S \in SUBSET Nat
      OBVIOUS
    <3> HIDE DEF S
    <3>. QED
      BY <3>1, Smallest
  <2>2. m \in 0..(n - 1) /\ f[m + 1] # a \o g[m]
    OBVIOUS
  <2>3. m # 0
    BY <1>6, <2>2
  <2>4. f[m] = a \o g[m - 1]
    <3>1. m \in Nat /\ m - 1 \in 0..(n - 1) /\ (m - 1) + 1 = m
      BY <1>1, <2>2, <2>3
    <3>s. m - 1 \notin S
      <4> HIDE DEF S
      <4>. QED
        BY <2>1, <3>1
    <3>2. f[(m - 1) + 1] = a \o g[m - 1]
      BY <3>1, <3>s
    <3>. QED
      BY <3>1, <3>2
  <2>5. f[m + 1] = IF q[m + 1][1] = s THEN Append(f[m], q[m + 1]) ELSE f[m]
    <3>1. m + 1 \in 0..n /\ m + 1 # 0 /\ (m + 1) - 1 = m
      BY <1>1, <2>2
    <3>2. f[m + 1] = IF q[m + 1][1] = s THEN Append(f[(m + 1) - 1], q[m + 1]) ELSE f[(m + 1) - 1]
      BY <1>3, <3>1 DEF Picks
    <3>. QED
      BY <3>1, <3>2
  <2>6. g[m] = IF r[m][1] = s THEN Append(g[m - 1], r[m]) ELSE g[m - 1]
    BY <1>4, <2>2, <2>3 DEF Picks
  <2>7. r[m] = q[m + 1]
    BY <1>1, <1>2, <2>2, <2>3
  <2>8. q[m + 1] \in P
    <3>1. m + 1 \in 1..Len(q)
      BY <1>1, <2>2, <1>n
    <3>. QED
      BY <3>1, ElementOfSeq
  <2>9. g[m - 1] \in Seq(P)
    <3>1. m - 1 \in 0..(n - 1) /\ n - 1 \in 0..Len(r)
      BY <1>1, <1>2, <2>2, <2>3
    <3>. QED
      BY <1>2, <1>4, <3>1, PicksAreSequences
  <2>10. a \o Append(g[m - 1], q[m + 1]) = Append(a \o g[m - 1], q[m + 1])
    BY <1>7, <2>8, <2>9
  <2>11. CASE q[m + 1][1] = s
    BY <2>2, <2>4, <2>5, <2>6, <2>7, <2>10, <2>11
  <2>12. CASE q[m + 1][1] # s
    BY <2>2, <2>4, <2>5, <2>6, <2>7, <2>12
  <2>. QED
    BY <2>11, <2>12
<1>9. n - 1 \in 0..(n - 1) /\ (n - 1) + 1 = n
  BY <1>1
<1>10. f[n] = a \o g[n - 1]
  BY <1>8, <1>9
<1>. QED
  BY <1>3, <1>4, <1>10 DEF a, r


-----------------------------------------------------------------------------
(* What the invariant says, and the inductive invariant.                   *)

Packet == Streams \X Nat
OfStream(s) == ({s} \X Nat) \cup {Flush}

\* The queues and codecs of a stream hold packets of that stream and flushes; the
\* packet that has just been sent is still in its queue; a video frame is kept only
\* when no new one is wanted.
Typed ==
    /\ movie \in Seq(Packet) /\ unread \in Seq(Packet) /\ frame \in Seq(Packet)
    /\ decodeQueue = [s \in Streams |-> decodeQueue[s]]
    /\ codec = [s \in Streams |-> codec[s]]
    /\ got = [s \in Streams |-> got[s]]
    /\ pending \in [Streams -> BOOLEAN] /\ m_isStop \in BOOLEAN
    /\ \A s \in Streams : /\ decodeQueue[s] \in Seq(OfStream(s))
                          /\ codec[s] \in Seq(OfStream(s))
                          /\ got[s] \in Seq(Packet)
                          /\ decoder = Sent(s) => decodeQueue[s] # <<>>
    /\ getNewFrame => frame = <<>>

\* Before setFile there is nothing, and nobody is in a call.
NothingYet ==
    player = "new" =>
        /\ movie = <<>> /\ unread = <<>> /\ frame = <<>> /\ decoder = "none"
        /\ \A s \in Streams : decodeQueue[s] = <<>> /\ codec[s] = <<>> /\ got[s] = <<>>
        /\ \A c \in Clients : at[c] = Out

IInv == Typed /\ NothingYet /\ NoFrameLost /\ PendingHasFrame

\* The video frame that is kept is the stream's oldest.
Kept(s) == IF s = "v" THEN frame ELSE <<>>

\* The streams, the mark of a flush and the steps of the decoder are told apart.
LEMMA StreamFacts ==
    /\ "v" \in Streams /\ "a" \in Streams /\ \A s \in Streams : s = "v" \/ s = "a"
    /\ Flush[1] \notin Streams
    /\ \A s \in Streams : Sent(s) \notin {"none", "read", "reading", "loop", "v", "a", "test",
                                       "ending", "end v", "end a", "done"}
    /\ \A s, r \in Streams : Sent(s) = Sent(r) => s = r
  BY DEF Streams, Flush, Sent

\* Whatever a queue or the file holds.
Wide == Packet \cup {Flush}

LEMMA Wider ==
    /\ \A q \in Seq(Packet) : q \in Seq(Wide)
    /\ \A s \in Streams : \A q \in Seq(OfStream(s)) : q \in Seq(Wide)
    /\ \A s \in Streams : \A e \in OfStream(s) : e \in Wide
  <1>1. /\ \A e \in Packet : e \in Wide
        /\ \A s \in Streams : \A e \in OfStream(s) : e \in Wide
    BY DEF Wide, OfStream, Packet
  <1>2. ASSUME NEW P, NEW T, \A e \in P : e \in T, NEW q \in Seq(P) PROVE q \in Seq(T)
    <2>1. Len(q) \in Nat /\ q \in [1..Len(q) -> P]
      BY <1>2, LenProperties, SeqDef
    <2>2. q \in [1..Len(q) -> T]
      BY <1>2, <2>1
    <2>. QED
      BY <2>1, <2>2
  <1>. QED
    BY <1>1, <1>2

\* What passes the filter is a packet of the file.
LEMMA OfTyped ==
    ASSUME NEW s \in Streams, NEW q \in Seq(Wide)
    PROVE  Of(s, q) \in Seq(Packet)
  <1>1. \A e \in Wide : e[1] = s => e \in Packet
    BY StreamFacts DEF Wide
  <1>. QED
    BY <1>1, OfIn

LEMMA Concats ==
    ASSUME NEW P
    PROVE  /\ \A x, a \in Seq(P) : x \o a \in Seq(P)
           /\ \A x, a, b \in Seq(P) : (x \o a) \o b = x \o (a \o b)
           /\ \A x \in Seq(P) : x \o <<>> = x
  <1>1. ASSUME NEW x \in Seq(P), NEW a \in Seq(P) PROVE x \o a \in Seq(P)
    BY ConcatProperties
  <1>2. \A x, a, b \in Seq(P) : (x \o a) \o b = x \o (a \o b)
    BY ConcatAssociative
  <1>3. ASSUME NEW x \in Seq(P) PROVE x \o <<>> = x
    BY ConcatEmptySeq
  <1>. QED
    BY <1>1, <1>2, <1>3

\* Five parts in a row.
Row(g, k, c, q, u) == g \o k \o c \o q \o u

\* What passes from the front of one part to the back of the one before it, or to the
\* place of an empty one, leaves the row as it is.
LEMMA Passes ==
    ASSUME NEW g \in Seq(Packet), NEW k \in Seq(Packet), NEW c \in Seq(Packet),
           NEW q \in Seq(Packet), NEW u \in Seq(Packet), NEW e \in Seq(Packet)
    PROVE  /\ Row(g, k, c, q \o e, u) = Row(g, k, c, q, e \o u)
           /\ Row(g, k, c \o e, q, u) = Row(g, k, c, e \o q, u)
           /\ Row(g, e, c, q, u) = Row(g, <<>>, e \o c, q, u)
           /\ Row(g \o e, <<>>, c, q, u) = Row(g, e, c, q, u)
  <1> DEFINE S == Seq(Packet)
             Cat(x, y) == x \o y
  <1>1. /\ \A x, a \in S : Cat(x, a) \in S
        /\ \A x, a, b \in S : Cat(Cat(x, a), b) = Cat(x, Cat(a, b))
        /\ \A x \in S : Cat(x, <<>>) = x
    BY Concats
  <1>2. g \in S /\ k \in S /\ c \in S /\ q \in S /\ u \in S /\ e \in S
    OBVIOUS
  <1> SUFFICES
        /\ Cat(Cat(Cat(Cat(g, k), c), Cat(q, e)), u) = Cat(Cat(Cat(Cat(g, k), c), q), Cat(e, u))
        /\ Cat(Cat(Cat(Cat(g, k), Cat(c, e)), q), u) = Cat(Cat(Cat(Cat(g, k), c), Cat(e, q)), u)
        /\ Cat(Cat(Cat(Cat(g, e), c), q), u) = Cat(Cat(Cat(Cat(g, <<>>), Cat(e, c)), q), u)
        /\ Cat(Cat(Cat(Cat(Cat(g, e), <<>>), c), q), u) = Cat(Cat(Cat(Cat(g, e), c), q), u)
    BY DEF Row
  <1> HIDE DEF S, Cat
  <1>3. Cat(g, k) \in S /\ Cat(Cat(g, k), c) \in S /\ Cat(Cat(Cat(g, k), c), q) \in S
    BY <1>1, <1>2
  <1>4. ASSUME NEW x \in S, NEW a \in S, NEW b \in S
        PROVE  Cat(Cat(x, Cat(a, e)), b) = Cat(Cat(x, a), Cat(e, b))
    BY <1>1, <1>2, <1>4
  <1>5. Cat(Cat(g, e), c) = Cat(Cat(g, <<>>), Cat(e, c))
    BY <1>1, <1>2
  <1>6. Cat(Cat(g, e), <<>>) = Cat(g, e)
    BY <1>1, <1>2
  <1>. QED
    BY <1>2, <1>3, <1>4, <1>5, <1>6

LEMMA PassesToQueue ==
    ASSUME NEW g \in Seq(Packet), NEW k \in Seq(Packet), NEW c \in Seq(Packet),
           NEW q \in Seq(Packet), NEW u \in Seq(Packet), NEW e \in Seq(Packet)
    PROVE  Row(g, k, c, q \o e, u) = Row(g, k, c, q, e \o u)
  BY Passes

LEMMA PassesToCodec ==
    ASSUME NEW g \in Seq(Packet), NEW k \in Seq(Packet), NEW c \in Seq(Packet),
           NEW q \in Seq(Packet), NEW u \in Seq(Packet), NEW e \in Seq(Packet)
    PROVE  Row(g, k, c \o e, q, u) = Row(g, k, c, e \o q, u)
  BY Passes

LEMMA PassesToFrame ==
    ASSUME NEW g \in Seq(Packet), NEW c \in Seq(Packet), NEW q \in Seq(Packet),
           NEW u \in Seq(Packet), NEW e \in Seq(Packet)
    PROVE  Row(g, e, c, q, u) = Row(g, <<>>, e \o c, q, u)
  BY Passes, EmptySeq

LEMMA PassesOut ==
    ASSUME NEW g \in Seq(Packet), NEW c \in Seq(Packet), NEW q \in Seq(Packet),
           NEW u \in Seq(Packet), NEW e \in Seq(Packet)
    PROVE  Row(g \o e, <<>>, c, q, u) = Row(g, e, c, q, u)
  <1>1. (g \o e) \o <<>> = g \o e
    BY Concats
  <1>. QED
    BY <1>1, Zenon DEF Row

\* The packet e in what Of makes of stream s.
Pick(s, e) == IF e[1] = s THEN <<e>> ELSE <<>>

\* Of at the ends of a queue.
LEMMA OfEnds ==
    ASSUME NEW s \in Streams, NEW q \in Seq(Wide)
    PROVE  /\ \A e \in Wide : /\ Of(s, Append(q, e)) = Of(s, q) \o Pick(s, e)
                             /\ Pick(s, e) \in Seq(Packet)
           /\ q # <<>> => Head(q) \in Wide /\ Of(s, q) = Pick(s, Head(q)) \o Of(s, Tail(q))
  <1>1. Of(s, q) \in Seq(Packet)
    BY OfTyped
  <1>2. ASSUME NEW e \in Wide
        PROVE  /\ Of(s, Append(q, e)) = Of(s, q) \o Pick(s, e)
               /\ Pick(s, e) \in Seq(Packet)
    <2>1. CASE e[1] = s
      <3>1. Of(s, Append(q, e)) = Append(Of(s, q), e)
        BY <2>1, OfAppend
      <3>2. e \in Packet
        BY <1>2, <2>1, StreamFacts DEF Wide
      <3>3. Append(Of(s, q), e) = Of(s, q) \o <<e>>
        BY <1>1, <3>2, AppendIsConcat
      <3>4. <<e>> \in Seq(Packet)
        BY <3>2
      <3>. QED
        BY <2>1, <3>1, <3>3, <3>4 DEF Pick
    <2>2. CASE e[1] # s
      <3>1. Of(s, Append(q, e)) = Of(s, q)
        BY <2>2, OfAppend
      <3>2. Of(s, q) \o <<>> = Of(s, q) /\ <<>> \in Seq(Packet)
        BY <1>1, ConcatEmptySeq, EmptySeq
      <3>. QED
        BY <2>2, <3>1, <3>2 DEF Pick
    <2>. QED
      BY <2>1, <2>2
  <1>3. ASSUME q # <<>>
        PROVE  Head(q) \in Wide /\ Of(s, q) = Pick(s, Head(q)) \o Of(s, Tail(q))
    <2>1. Head(q) = q[1] /\ Head(q) \in Wide
      BY <1>3, HeadTailProperties
    <2>2. Of(s, q) = First(s, q) \o Of(s, Tail(q))
      BY <1>3, OfTail
    <2>. QED
      BY <2>1, <2>2 DEF First, Pick
  <1>. QED
    BY <1>2, <1>3

-----------------------------------------------------------------------------
(* The packets of a stream on their way, from the frames handed out back to  *)
(* what is unread: the left side of NoFrameLost.                             *)

Way(s) == Row(got[s], Kept(s), Of(s, codec[s]), Of(s, Queued(s)), Of(s, unread))

LEMMA WayTyped ==
    ASSUME Typed, NEW s \in Streams
    PROVE  /\ Queued(s) \in Seq(OfStream(s))
           /\ got[s] \in Seq(Packet) /\ Kept(s) \in Seq(Packet)
           /\ Of(s, codec[s]) \in Seq(Packet)
           /\ Of(s, Queued(s)) \in Seq(Packet)
           /\ Of(s, unread) \in Seq(Packet)
  <1>1. Queued(s) \in Seq(OfStream(s))
    <2>1. decodeQueue[s] \in Seq(OfStream(s)) /\ (decoder = Sent(s) => decodeQueue[s] # <<>>)
      BY DEF Typed
    <2>2. decodeQueue[s] # <<>> => Tail(decodeQueue[s]) \in Seq(OfStream(s))
      BY <2>1, HeadTailProperties
    <2>. QED
      BY <2>1, <2>2 DEF Queued
  <1>2. /\ got[s] \in Seq(Packet) /\ codec[s] \in Seq(OfStream(s))
        /\ frame \in Seq(Packet) /\ unread \in Seq(Packet)
    BY DEF Typed
  <1>3. Kept(s) \in Seq(Packet)
    BY <1>2, EmptySeq DEF Kept
  <1>. QED
    BY <1>1, <1>2, <1>3, OfTyped, Wider

LEMMA Laid == NoFrameLost <=> (life = "running" => \A s \in Streams : Way(s) = Of(s, movie))
  BY DEF NoFrameLost, Way, Row, Kept

LEMMA WayStays ==
    ASSUME IInv, life = "running", movie' = movie, \A s \in Streams : Way(s)' = Way(s)
    PROVE  NoFrameLost'
  <1>1. \A s \in Streams : Way(s) = Of(s, movie)
    BY Laid DEF IInv
  <1>2. \A s \in Streams : Way(s)' = Of(s, movie')
    BY <1>1
  <1>. QED
    BY <1>2 DEF NoFrameLost, Way, Row, Kept

\* Most steps move no packet.
LEMMA NothingMoves ==
    ASSUME IInv, life = "running",
           UNCHANGED <<movie, unread, decodeQueue, codec, frame, got>>,
           player # "new", player' # "new",
           \/ decoder' = decoder
           \/ \A s \in Streams : decoder # Sent(s) /\ decoder' # Sent(s),
           getNewFrame' => getNewFrame,
           pending' \in [Streams -> BOOLEAN], m_isStop' \in BOOLEAN,
           \A s \in Streams : pending'[s] /\ ~m_isStop' => pending[s] /\ ~m_isStop
    PROVE  IInv'
  <1>1. Typed'
    BY DEF IInv, Typed
  <1>2. NothingYet'
    BY DEF IInv, NothingYet
  <1>3. PendingHasFrame'
    BY DEF IInv, PendingHasFrame
  <1>4. ASSUME NEW s \in Streams PROVE Way(s)' = Way(s)
    <2>1. Queued(s)' = Queued(s)
      BY DEF Queued
    <2>. QED
      BY <2>1 DEF Way, Kept
  <1>5. NoFrameLost'
    BY <1>4, WayStays
  <1>. QED
    BY <1>1, <1>2, <1>3, <1>5 DEF IInv

LEMMA InitIInv == Init => IInv
  <1> SUFFICES ASSUME Init PROVE IInv
    OBVIOUS
  <1>1. Typed
    BY EmptySeq, StreamFacts DEF Init, Typed
  <1>2. NothingYet
    BY DEF Init, NothingYet
  <1>3. PendingHasFrame
    BY DEF Init, PendingHasFrame
  <1>4. ASSUME NEW s \in Streams PROVE Way(s) = Of(s, movie)
    <2>1. got[s] = <<>> /\ Kept(s) = <<>> /\ codec[s] = <<>> /\ Queued(s) = <<>> /\ unread = <<>>
      BY StreamFacts DEF Init, Kept, Queued
    <2>2. Of(s, <<>>) = <<>> /\ <<>> \o <<>> = <<>>
      BY OfEmpty
    <2>3. Way(s) = <<>>
      BY <2>1, <2>2 DEF Way, Row
    <2>. QED
      BY <2>2, <2>3 DEF Init
  <1>. QED
    BY <1>1, <1>2, <1>3, <1>4, Laid DEF IInv

-----------------------------------------------------------------------------
(* The steps that move packets.                                            *)

\* setFile lays out the movie where nothing was.
LEMMA SetFileStep ==
    ASSUME IInv, NEW c \in Clients, NEW m \in Movies, SetFile(c, m)
    PROVE  IInv'
  <1>1. life = "running"
    BY DEF SetFile, Call
  <1>2. CASE player = "open"
    <2>1. /\ UNCHANGED <<movie, unread, decodeQueue, codec, frame, got, getNewFrame>>
          /\ UNCHANGED <<player, decoder, pending, m_isStop>>
      BY <1>2 DEF SetFile, fileVars
    <2>. QED
      BY <1>1, <1>2, <2>1, NothingMoves DEF IInv, Typed
  <1>3. CASE player # "open"
    <2>1. /\ player = "new" /\ player' = "open" /\ decoder' = "read" /\ unread' = movie'
          /\ movie' = [i \in DOMAIN m |-> <<m[i], i>>]
          /\ UNCHANGED <<decodeQueue, codec, frame, got, getNewFrame, pending, m_isStop>>
      BY <1>3 DEF SetFile
    <2>2. movie' \in Seq(Packet)
      <3>1. m \in Seq(Streams)
        BY AvPlayerAssumption
      <3>2. Len(m) \in Nat /\ DOMAIN m = 1..Len(m) /\ \A i \in 1..Len(m) : m[i] \in Streams
        BY <3>1, LenProperties, ElementOfSeq
      <3>3. movie' \in [1..Len(m) -> Packet]
        BY <2>1, <3>2 DEF Packet
      <3>. QED
        BY <3>2, <3>3
    <2>3. Typed'
      <3>1. \A s \in Streams : decoder' # Sent(s)
        BY <2>1, StreamFacts
      <3>. QED
        BY <2>1, <2>2, <3>1 DEF IInv, Typed
    <2>4. NothingYet' /\ PendingHasFrame'
      BY <2>1 DEF NothingYet, IInv, PendingHasFrame
    <2>5. ASSUME NEW s \in Streams PROVE Way(s)' = Of(s, movie')
      <3>1. /\ got'[s] = <<>> /\ Kept(s)' = <<>> /\ codec'[s] = <<>> /\ Queued(s)' = <<>>
        BY <2>1, StreamFacts DEF IInv, NothingYet, Kept, Queued
      <3>2. Of(s, <<>>) = <<>> /\ <<>> \o <<>> = <<>>
        BY OfEmpty
      <3>3. Of(s, movie') \in Seq(Packet)
        BY <2>2, OfTyped, Wider
      <3>4. <<>> \o Of(s, movie') = Of(s, movie')
        BY <3>3, ConcatEmptySeq
      <3>. QED
        BY <2>1, <3>1, <3>2, <3>4 DEF Way, Row
    <2>6. NoFrameLost'
      BY <2>5 DEF NoFrameLost, Way, Row, Kept
    <2>. QED
      BY <2>3, <2>4, <2>6 DEF IInv
  <1>. QED
    BY <1>2, <1>3

\* av_read_frame takes a packet of the file to the queue of its stream.
LEMMA ReadFrameStep == ASSUME IInv, ReadFrame PROVE IInv'
  <1>1. /\ life = "running" /\ decoder = "reading" /\ decoder' \in {"loop", "done"}
        /\ UNCHANGED <<player, movie, codec, pending, frame, got, getNewFrame, m_isStop>>
    BY DEF ReadFrame, Decoder, frameVars
  <1>2. player # "new"
    BY <1>1 DEF IInv, NothingYet
  <1>3. \A s \in Streams : decoder # Sent(s) /\ decoder' # Sent(s)
    BY <1>1, StreamFacts
  <1>4. CASE UNCHANGED <<decodeQueue, unread>>
    BY <1>1, <1>2, <1>3, <1>4, NothingMoves DEF IInv, Typed
  <1> DEFINE Takes(h, x) ==
        decodeQueue' = [decodeQueue EXCEPT ![x] = Append(@, h)]
  <1>5. ASSUME NEW h, NEW x \in Streams, h \in OfStream(x), Takes(h, x), unread' \in Seq(Packet),
               \A s \in Streams : Of(s, unread) = Pick(s, h) \o Of(s, unread')
        PROVE  IInv'
    <2>1. /\ decodeQueue' = [s \in Streams |-> decodeQueue'[s]]
          /\ \A s \in Streams : decodeQueue'[s] \in Seq(OfStream(s))
      <3>1. \A s \in Streams : decodeQueue[s] \in Seq(OfStream(s))
        BY DEF IInv, Typed
      <3>2. Append(decodeQueue[x], h) \in Seq(OfStream(x))
        BY <1>5, <3>1, AppendProperties
      <3>3. decodeQueue = [s \in Streams |-> decodeQueue[s]]
        BY DEF IInv, Typed
      <3>. QED
        BY <1>5, <3>1, <3>2, <3>3
    <2>2. Typed'
      BY <1>1, <1>3, <1>5, <2>1 DEF IInv, Typed
    <2>3. NothingYet' /\ PendingHasFrame'
      BY <1>1, <1>2 DEF IInv, NothingYet, PendingHasFrame
    <2>4. ASSUME NEW s \in Streams PROVE Way(s)' = Way(s)
      <3> DEFINE e == Pick(s, h)
      <3>1. Queued(s) = decodeQueue[s] /\ Queued(s)' = decodeQueue'[s]
        BY <1>3 DEF Queued
      <3>2. /\ Queued(s) \in Seq(OfStream(s)) /\ Of(s, Queued(s)) \in Seq(Packet)
            /\ got[s] \in Seq(Packet) /\ Kept(s) \in Seq(Packet)
            /\ Of(s, codec[s]) \in Seq(Packet)
        BY WayTyped DEF IInv
      <3>3. Of(s, unread') \in Seq(Packet)
        BY <1>5, OfTyped, Wider
      <3>4. e \in Seq(Packet) /\ Of(s, decodeQueue'[s]) = Of(s, decodeQueue[s]) \o e
        <4>1. CASE s = x
          <5>1. decodeQueue'[s] = Append(decodeQueue[s], h)
            BY <1>5, <4>1 DEF IInv, Typed
          <5>2. decodeQueue[s] \in Seq(OfStream(s)) /\ h \in OfStream(s)
            BY <1>5, <3>1, <3>2, <4>1
          <5>. QED
            <6>1. decodeQueue[s] \in Seq(Wide) /\ h \in Wide
              BY <5>2, Wider
            <6>2. /\ Of(s, Append(decodeQueue[s], h)) = Of(s, decodeQueue[s]) \o Pick(s, h)
                  /\ Pick(s, h) \in Seq(Packet)
              BY <6>1, OfEnds
            <6>. QED
              BY <5>1, <6>2
        <4>2. CASE s # x
          <5>1. decodeQueue'[s] = decodeQueue[s]
            BY <1>5, <4>2 DEF IInv, Typed
          <5>2. h[1] # s
            BY <1>5, <4>2, StreamFacts DEF OfStream
          <5>3. Of(s, decodeQueue[s]) \o <<>> = Of(s, decodeQueue[s])
            BY <3>1, <3>2, ConcatEmptySeq
          <5>. QED
            BY <5>1, <5>2, <5>3, EmptySeq DEF Pick
        <4>. QED
          BY <4>1, <4>2
      <3>5. Of(s, unread) = e \o Of(s, unread')
        BY <1>5
      <3> HIDE DEF e
      <3>6. Row(got[s], Kept(s), Of(s, codec[s]), Of(s, Queued(s)) \o e, Of(s, unread'))
              = Row(got[s], Kept(s), Of(s, codec[s]), Of(s, Queued(s)), e \o Of(s, unread'))
        BY <3>2, <3>3, <3>4, PassesToQueue
      <3>7. got' = got /\ codec' = codec /\ Kept(s)' = Kept(s)
        BY <1>1 DEF Kept
      <3>. QED
        BY <3>1, <3>4, <3>5, <3>6, <3>7, Zenon DEF Way
    <2>5. NoFrameLost'
      BY <1>1, <2>4, WayStays
    <2>. QED
      BY <2>2, <2>3, <2>5 DEF IInv
  <1>6. CASE /\ unread # <<>> /\ unread' = Tail(unread)
             /\ Takes(Head(unread), Head(unread)[1])
    <2> DEFINE h == Head(unread)
    <2>1. h \in Packet /\ unread' \in Seq(Packet)
      BY <1>6, HeadTailProperties DEF IInv, Typed
    <2>2. h[1] \in Streams /\ h \in OfStream(h[1])
      BY <2>1 DEF Packet, OfStream
    <2>3. \A s \in Streams : Of(s, unread) = Pick(s, h) \o Of(s, unread')
      <3>1. unread \in Seq(Packet)
        BY DEF IInv, Typed
      <3>2. \A s \in Streams : Of(s, unread) = Pick(s, Head(unread)) \o Of(s, Tail(unread))
        BY <1>6, <3>1, OfEnds, Wider
      <3>. QED
        BY <1>6, <3>2
    <2>. QED
      BY <1>5, <1>6, <2>1, <2>2, <2>3
  <1>7. CASE unread' = unread /\ Takes(Flush, Stream0)
    <2>1. Stream0 \in Streams /\ Flush \in OfStream(Stream0)
      BY AvPlayerAssumption DEF OfStream
    <2>2. unread' \in Seq(Packet)
      BY <1>7 DEF IInv, Typed
    <2>3. \A s \in Streams : Of(s, unread) = Pick(s, Flush) \o Of(s, unread')
      <3>1. ASSUME NEW s \in Streams PROVE Of(s, unread) = Pick(s, Flush) \o Of(s, unread')
        <4>1. Pick(s, Flush) = <<>>
          BY StreamFacts DEF Pick
        <4>2. Of(s, unread) \in Seq(Packet)
          BY OfTyped, Wider DEF IInv, Typed
        <4>3. <<>> \o Of(s, unread) = Of(s, unread)
          BY <4>2, ConcatEmptySeq
        <4>. QED
          BY <1>7, <4>1, <4>3
      <3>. QED
        BY <3>1
    <2>. QED
      BY <1>5, <1>7, <2>1, <2>2, <2>3
  <1>. QED
    BY <1>4, <1>6, <1>7 DEF ReadFrame

LEMMA Moved ==
    ASSUME IInv, life = "running", movie' = movie, player' = player, player # "new",
           Typed', PendingHasFrame', \A s \in Streams : Way(s)' = Way(s)
    PROVE  IInv'
  <1>1. NothingYet'
    BY DEF NothingYet
  <1>. QED
    BY <1>1, WayStays DEF IInv

\* sendFunc: the packet goes to the codec, or stays where it is and pending is set.
LEMMA SendStep == ASSUME IInv, NEW s \in Streams, Send(s) PROVE IInv'
  <1>1. /\ life = "running" /\ decoder = s
        /\ UNCHANGED <<player, movie, unread, decodeQueue, frame, got, getNewFrame, m_isStop>>
    BY DEF Send, Decoder, fileVars, frameVars
  <1>2. player # "new" /\ \A r \in Streams : decoder # Sent(r)
    BY <1>1, StreamFacts DEF IInv, NothingYet
  <1>3. \A r \in Streams : Queued(r) = decodeQueue[r]
    BY <1>2 DEF Queued
  <1>4. CASE codec' = codec /\ pending' = pending /\ decoder' \in {After(s), "done"}
    <2>1. \A r \in Streams : decoder' # Sent(r)
      BY <1>4, StreamFacts DEF After
    <2>. QED
      BY <1>1, <1>2, <1>4, <2>1, NothingMoves DEF IInv, Typed
  <1>5. CASE /\ codec' = codec /\ pending' = [pending EXCEPT ![s] = TRUE] /\ decoder' = After(s)
             /\ ~(Len(codec[s]) < Capacity)
    <2>1. \A r \in Streams : decoder' # Sent(r)
      BY <1>5, StreamFacts DEF After
    <2>2. codec[s] # <<>>
      <3>1. Len(<<>>) = 0
        BY EmptySeq
      <3>. QED
        BY <1>5, <3>1, AvPlayerAssumption
    <2>3. Typed'
      BY <1>1, <1>5, <2>1 DEF IInv, Typed
    <2>4. PendingHasFrame'
      BY <1>1, <1>5, <2>2 DEF IInv, Typed, PendingHasFrame
    <2>5. ASSUME NEW r \in Streams PROVE Way(r)' = Way(r)
      <3>1. Queued(r)' = Queued(r)
        BY <1>1, <1>3, <2>1 DEF Queued
      <3>. QED
        BY <1>1, <1>5, <3>1 DEF Way, Kept
    <2>. QED
      BY <1>1, <1>2, <2>3, <2>4, <2>5, Moved
  <1>6. CASE /\ decodeQueue[s] # <<>> /\ decoder' = Sent(s) /\ pending' = pending
             /\ codec' = [codec EXCEPT ![s] = Append(@, Head(decodeQueue[s]))]
    <2> DEFINE h == Head(decodeQueue[s])
    <2>1. /\ decodeQueue[s] \in Seq(OfStream(s)) /\ codec[s] \in Seq(OfStream(s))
          /\ h \in OfStream(s) /\ Tail(decodeQueue[s]) \in Seq(OfStream(s))
      BY <1>6, HeadTailProperties DEF IInv, Typed
    <2>2. Append(codec[s], h) \in Seq(OfStream(s)) /\ Append(codec[s], h) # <<>>
      BY <2>1, AppendProperties
    <2>3. codec'[s] = Append(codec[s], h) /\ \A r \in Streams : r # s => codec'[r] = codec[r]
      BY <1>6 DEF IInv, Typed
    <2>4. Typed'
      <3>1. /\ codec' = [r \in Streams |-> codec'[r]]
            /\ \A r \in Streams : codec'[r] \in Seq(OfStream(r))
        <4>1. \A r \in Streams : codec[r] \in Seq(OfStream(r))
          BY DEF IInv, Typed
        <4>2. codec = [r \in Streams |-> codec[r]]
          BY DEF IInv, Typed
        <4>. QED
          BY <1>6, <2>2, <2>3, <4>1, <4>2
      <3>2. \A r \in Streams : decoder' = Sent(r) => decodeQueue'[r] # <<>>
        BY <1>1, <1>6, StreamFacts
      <3>. QED
        BY <1>1, <1>6, <3>1, <3>2 DEF IInv, Typed
    <2>5. PendingHasFrame'
      <3>1. \A r \in Streams : codec[r] # <<>> => codec'[r] # <<>>
        BY <2>2, <2>3
      <3>. QED
        BY <1>1, <1>6, <3>1 DEF IInv, PendingHasFrame
    <2>6. Way(s)' = Way(s)
      <3> DEFINE e == Pick(s, h)
      <3>1. Queued(s)' = Tail(decodeQueue[s]) /\ Queued(s) = decodeQueue[s]
        BY <1>1, <1>3, <1>6 DEF Queued
      <3>2. /\ got[s] \in Seq(Packet) /\ Kept(s) \in Seq(Packet)
            /\ Of(s, codec[s]) \in Seq(Packet) /\ Of(s, unread) \in Seq(Packet)
        BY WayTyped DEF IInv
      <3>3. /\ decodeQueue[s] \in Seq(Wide) /\ codec[s] \in Seq(Wide) /\ h \in Wide
            /\ Tail(decodeQueue[s]) \in Seq(Wide)
        BY <2>1, Wider
      <3>4. /\ Of(s, Append(codec[s], h)) = Of(s, codec[s]) \o e
            /\ e \in Seq(Packet)
        BY <3>3, OfEnds
      <3>5. Of(s, decodeQueue[s]) = e \o Of(s, Tail(decodeQueue[s]))
        BY <1>6, <3>3, OfEnds
      <3>6. Of(s, Tail(decodeQueue[s])) \in Seq(Packet)
        BY <3>3, OfTyped
      <3> HIDE DEF e
      <3>7. Row(got[s], Kept(s), Of(s, codec[s]) \o e, Of(s, Tail(decodeQueue[s])), Of(s, unread))
              = Row(got[s], Kept(s), Of(s, codec[s]), e \o Of(s, Tail(decodeQueue[s])), Of(s, unread))
        BY <3>2, <3>4, <3>6, PassesToCodec
      <3>8. got' = got /\ unread' = unread /\ Kept(s)' = Kept(s)
        BY <1>1 DEF Kept
      <3>. QED
        BY <2>3, <3>1, <3>4, <3>5, <3>7, <3>8, Zenon DEF Way
    <2>7. ASSUME NEW r \in Streams, r # s PROVE Way(r)' = Way(r)
      <3>1. Queued(r)' = Queued(r)
        BY <1>1, <1>3, <1>6, <2>7, StreamFacts DEF Queued
      <3>. QED
        BY <1>1, <2>3, <2>7, <3>1 DEF Way, Kept
    <2>. QED
      BY <1>1, <1>2, <2>4, <2>5, <2>6, <2>7, Moved
  <1>. QED
    BY <1>1, <1>4, <1>5, <1>6 DEF Send, Decoder

\* What has been sent leaves the queue with the notify.
LEMMA NotifyClientStep == ASSUME IInv, NEW s \in Streams, NotifyClient(s) PROVE IInv'
  <1>1. /\ life = "running" /\ decoder = Sent(s) /\ decoder' = s
        /\ decodeQueue' = [decodeQueue EXCEPT ![s] = Tail(@)]
        /\ UNCHANGED <<player, movie, unread, codec, pending, frame, got, getNewFrame, m_isStop>>
    BY DEF NotifyClient, Decoder, fileVars, frameVars
  <1>2. player # "new" /\ \A r \in Streams : decoder' # Sent(r)
    BY <1>1, StreamFacts DEF IInv, NothingYet
  <1>3. /\ Tail(decodeQueue[s]) \in Seq(OfStream(s)) /\ decodeQueue'[s] = Tail(decodeQueue[s])
        /\ \A r \in Streams : r # s => decodeQueue'[r] = decodeQueue[r]
    BY <1>1, HeadTailProperties DEF IInv, Typed
  <1>4. Typed'
    <2>1. /\ decodeQueue' = [r \in Streams |-> decodeQueue'[r]]
          /\ \A r \in Streams : decodeQueue'[r] \in Seq(OfStream(r))
      <3>1. \A r \in Streams : decodeQueue[r] \in Seq(OfStream(r))
        BY DEF IInv, Typed
      <3>2. decodeQueue = [r \in Streams |-> decodeQueue[r]]
        BY DEF IInv, Typed
      <3>. QED
        BY <1>1, <1>3, <3>1, <3>2
    <2>. QED
      BY <1>1, <1>2, <2>1 DEF IInv, Typed
  <1>5. PendingHasFrame'
    BY <1>1 DEF IInv, PendingHasFrame
  <1>6. ASSUME NEW r \in Streams PROVE Way(r)' = Way(r)
    <2>1. Queued(r)' = Queued(r)
      BY <1>1, <1>2, <1>3, StreamFacts DEF Queued
    <2>. QED
      BY <1>1, <2>1 DEF Way, Kept
  <1>. QED
    BY <1>1, <1>2, <1>4, <1>5, <1>6, Moved

LEMMA GetAudioStep == ASSUME IInv, NEW c \in Clients, GetAudio(c) PROVE IInv'
  <1> DEFINE h == Head(codec["a"])
  <1>1. /\ life = "running" /\ at[c].step \in {"enter", "retry"}
        /\ codec["a"] # <<>> /\ h # Flush
        /\ codec' = [codec EXCEPT !["a"] = Tail(@)]
        /\ got' = [got EXCEPT !["a"] = Append(@, h)]
        /\ pending' = [pending EXCEPT !["a"] = @ /\ m_isStop]
        /\ UNCHANGED <<player, movie, unread, decodeQueue, decoder, frame, getNewFrame, m_isStop>>
    BY DEF GetAudio, Gets, Entered, HasFrame, Served, fileVars
  <1>2. player # "new"
    BY <1>1 DEF IInv, NothingYet, Out
  <1>3. "a" \in Streams /\ "a" # "v"
    BY StreamFacts
  <1>4. /\ codec["a"] \in Seq(OfStream("a")) /\ h \in OfStream("a")
        /\ Tail(codec["a"]) \in Seq(OfStream("a"))
    BY <1>1, <1>3, HeadTailProperties DEF IInv, Typed
  <1>5. h \in Packet /\ Pick("a", h) = <<h>>
    BY <1>1, <1>3, <1>4 DEF OfStream, Packet, Pick
  <1>6. got["a"] \in Seq(Packet) /\ Append(got["a"], h) \in Seq(Packet)
    BY <1>3, <1>5, AppendProperties DEF IInv, Typed
  <1>7. /\ codec'["a"] = Tail(codec["a"]) /\ got'["a"] = Append(got["a"], h)
        /\ \A s \in Streams : s # "a" => codec'[s] = codec[s] /\ got'[s] = got[s] /\ pending'[s] = pending[s]
    BY <1>1, <1>3 DEF IInv, Typed
  <1>8. Typed'
    <2>1. /\ codec' = [s \in Streams |-> codec'[s]] /\ got' = [s \in Streams |-> got'[s]]
          /\ \A s \in Streams : codec'[s] \in Seq(OfStream(s)) /\ got'[s] \in Seq(Packet)
      <3>1. \A s \in Streams : codec[s] \in Seq(OfStream(s)) /\ got[s] \in Seq(Packet)
        BY DEF IInv, Typed
      <3>2. codec = [s \in Streams |-> codec[s]] /\ got = [s \in Streams |-> got[s]]
        BY DEF IInv, Typed
      <3>. QED
        BY <1>1, <1>4, <1>6, <1>7, <3>1, <3>2
    <2>2. pending' \in [Streams -> BOOLEAN]
      BY <1>1 DEF IInv, Typed
    <2>. QED
      BY <1>1, <2>1, <2>2 DEF IInv, Typed
  <1>9. PendingHasFrame'
    <2>1. pending'["a"] => m_isStop
      BY <1>1, <1>3 DEF IInv, Typed
    <2>. QED
      BY <1>1, <1>7, <2>1 DEF IInv, PendingHasFrame
  <1>10. Way("a")' = Way("a")
    <2> DEFINE e == Pick("a", h)
    <2>1. /\ got["a"] \in Seq(Packet) /\ Of("a", Queued("a")) \in Seq(Packet)
          /\ Of("a", unread) \in Seq(Packet)
      BY <1>3, WayTyped DEF IInv
    <2>2. codec["a"] \in Seq(Wide) /\ Tail(codec["a"]) \in Seq(Wide) /\ h \in Wide
      BY <1>3, <1>4, Wider
    <2>3. Of("a", codec["a"]) = e \o Of("a", Tail(codec["a"]))
      BY <1>1, <1>3, <2>2, OfEnds
    <2>4. Of("a", Tail(codec["a"])) \in Seq(Packet) /\ e \in Seq(Packet)
      BY <1>3, <2>2, OfTyped, OfEnds
    <2>5. got'["a"] = got["a"] \o e
      BY <1>5, <1>6, <1>7, AppendIsConcat
    <2> HIDE DEF e
    <2>6. Row(got["a"] \o e, <<>>, Of("a", Tail(codec["a"])), Of("a", Queued("a")), Of("a", unread))
            = Row(got["a"], <<>>, e \o Of("a", Tail(codec["a"])), Of("a", Queued("a")), Of("a", unread))
      <3>1. /\ Row(got["a"] \o e, <<>>, Of("a", Tail(codec["a"])), Of("a", Queued("a")), Of("a", unread))
                 = Row(got["a"], e, Of("a", Tail(codec["a"])), Of("a", Queued("a")), Of("a", unread))
            /\ Row(got["a"], e, Of("a", Tail(codec["a"])), Of("a", Queued("a")), Of("a", unread))
                 = Row(got["a"], <<>>, e \o Of("a", Tail(codec["a"])), Of("a", Queued("a")), Of("a", unread))
        BY <2>1, <2>4, Passes
      <3>. QED
        BY <3>1, Zenon
    <2>7. Kept("a") = <<>> /\ Kept("a")' = <<>> /\ Queued("a")' = Queued("a") /\ unread' = unread
      BY <1>1, <1>3 DEF Kept, Queued
    <2>. QED
      BY <1>7, <2>3, <2>5, <2>6, <2>7, Zenon DEF Way
  <1>11. ASSUME NEW s \in Streams, s # "a" PROVE Way(s)' = Way(s)
    BY <1>1, <1>7, <1>11 DEF Way, Kept, Queued
  <1>. QED
    BY <1>1, <1>2, <1>8, <1>9, <1>10, <1>11, Moved

\* The oldest frame of the codec is kept or shown, or the one that was kept is.
LEMMA GetVideoStep == ASSUME IInv, NEW c \in Clients, GetVideo(c) PROVE IInv'
  <1> DEFINE h == Head(codec["v"])
             e == IF getNewFrame THEN <<h>> ELSE frame
             rest == IF getNewFrame THEN Tail(codec["v"]) ELSE codec["v"]
  <1>1. /\ life = "running" /\ at[c].step \in {"enter", "retry"}
        /\ getNewFrame => codec["v"] # <<>> /\ h # Flush
        /\ codec' = IF getNewFrame THEN [codec EXCEPT !["v"] = Tail(@)] ELSE codec
        /\ UNCHANGED <<player, movie, unread, decodeQueue, decoder, m_isStop>>
    BY DEF GetVideo, Gets, Entered, HasFrame, fileVars
  <1>2. \/ frame' = e /\ ~getNewFrame' /\ UNCHANGED <<got, pending>>
        \/ /\ frame' = <<>> /\ got' = [got EXCEPT !["v"] = @ \o e]
           /\ pending' = [pending EXCEPT !["v"] = @ /\ m_isStop]
    BY DEF GetVideo, Served
  <1>3. player # "new"
    BY <1>1 DEF IInv, NothingYet, Out
  <1>4. "v" \in Streams
    BY StreamFacts
  <1>5. /\ codec["v"] \in Seq(OfStream("v")) /\ got["v"] \in Seq(Packet) /\ frame \in Seq(Packet)
        /\ getNewFrame => /\ h \in OfStream("v") /\ Tail(codec["v"]) \in Seq(OfStream("v"))
                          /\ frame = <<>>
    BY <1>1, <1>4, HeadTailProperties DEF IInv, Typed
  <1>6. e \in Seq(Packet) /\ rest \in Seq(OfStream("v"))
    <2>1. getNewFrame => <<h>> \in Seq(Packet)
      <3>1. getNewFrame => h \in Packet
        BY <1>1, <1>4, <1>5 DEF OfStream, Packet
      <3>. QED
        BY <3>1
    <2>. QED
      BY <1>5, <2>1
  <1>7. /\ codec'["v"] = rest /\ codec' = [s \in Streams |-> codec'[s]]
        /\ \A s \in Streams : s # "v" => codec'[s] = codec[s]
    BY <1>1, <1>4 DEF IInv, Typed
  <1>8. Row(got["v"], Kept("v"), Of("v", codec["v"]), Of("v", Queued("v")), Of("v", unread))
          = Row(got["v"], e, Of("v", rest), Of("v", Queued("v")), Of("v", unread))
    <2>1. /\ Of("v", Queued("v")) \in Seq(Packet) /\ Of("v", unread) \in Seq(Packet)
      BY <1>4, WayTyped DEF IInv
    <2>2. Kept("v") = frame
      BY DEF Kept
    <2>3. CASE getNewFrame
      <3>1. codec["v"] \in Seq(Wide) /\ rest \in Seq(Wide) /\ h \in Wide
        BY <1>4, <1>5, <1>6, <2>3, Wider
      <3>2. Of("v", codec["v"]) = Pick("v", h) \o Of("v", rest) /\ Of("v", rest) \in Seq(Packet)
        BY <1>1, <1>4, <2>3, <3>1, OfEnds, OfTyped
      <3>3. Pick("v", h) = e
        BY <1>1, <1>5, <2>3 DEF OfStream, Pick
      <3> HIDE DEF e, rest
      <3>4. Row(got["v"], e, Of("v", rest), Of("v", Queued("v")), Of("v", unread))
              = Row(got["v"], <<>>, e \o Of("v", rest), Of("v", Queued("v")), Of("v", unread))
        BY <1>5, <1>6, <2>1, <3>2, PassesToFrame
      <3>. QED
        BY <1>5, <2>2, <2>3, <3>2, <3>3, <3>4, Zenon
    <2>4. CASE ~getNewFrame
      BY <2>2, <2>4
    <2>. QED
      BY <2>3, <2>4
  <1>9. Queued("v")' = Queued("v") /\ unread' = unread /\ Kept("v")' = frame'
    BY <1>1 DEF Queued, Kept
  <1>10. ASSUME NEW s \in Streams, s # "v", got'[s] = got[s] PROVE Way(s)' = Way(s)
    BY <1>1, <1>7, <1>10 DEF Way, Kept, Queued
  <1>11. \A s \in Streams : codec'[s] \in Seq(OfStream(s))
    <2>1. \A s \in Streams : codec[s] \in Seq(OfStream(s))
      BY DEF IInv, Typed
    <2>. QED
      BY <1>6, <1>7, <2>1
  <1>12. CASE frame' = e /\ ~getNewFrame' /\ UNCHANGED <<got, pending>>
    <2>1. Typed'
      <3> HIDE DEF e, rest
      <3>. QED
        BY <1>1, <1>6, <1>7, <1>11, <1>12 DEF IInv, Typed
    <2>2. PendingHasFrame'
      <3>1. codec["v"] # <<>> \/ frame # <<>> => codec'["v"] # <<>> \/ frame' # <<>>
        BY <1>7, <1>12
      <3>2. \A s \in Streams : s = "v" \/ codec'[s] = codec[s]
        BY <1>7
      <3> HIDE DEF e, rest
      <3>3. ASSUME NEW s \in Streams, pending'[s], ~m_isStop'
            PROVE  codec'[s] # <<>> \/ (s = "v" /\ frame' # <<>>)
        <4>1. pending[s] /\ ~m_isStop
          BY <1>1, <1>12, <3>3
        <4>2. codec[s] # <<>> \/ (s = "v" /\ frame # <<>>)
          BY <4>1 DEF IInv, PendingHasFrame
        <4>. QED
          BY <3>1, <3>2, <4>2
      <3>. QED
        BY <3>3 DEF PendingHasFrame
    <2>3. Way("v")' = Way("v")
      <3> HIDE DEF e, rest
      <3>. QED
        BY <1>7, <1>8, <1>9, <1>12, Zenon DEF Way
    <2>. QED
      BY <1>1, <1>3, <1>10, <1>12, <2>1, <2>2, <2>3, Moved
  <1>13. CASE /\ frame' = <<>> /\ got' = [got EXCEPT !["v"] = @ \o e]
              /\ pending' = [pending EXCEPT !["v"] = @ /\ m_isStop]
    <2> HIDE DEF e, rest
    <2>1. got["v"] \o e \in Seq(Packet)
      BY <1>5, <1>6, ConcatProperties
    <2>2. /\ got'["v"] = got["v"] \o e /\ got' = [s \in Streams |-> got'[s]]
          /\ \A s \in Streams : s # "v" => got'[s] = got[s] /\ pending'[s] = pending[s]
      BY <1>4, <1>13 DEF IInv, Typed
    <2>3. Typed'
      <3>1. \A s \in Streams : got'[s] \in Seq(Packet)
        BY <2>1, <2>2 DEF IInv, Typed
      <3>2. pending' \in [Streams -> BOOLEAN] /\ frame' \in Seq(Packet)
        BY <1>13, EmptySeq DEF IInv, Typed
      <3>. QED
        BY <1>1, <1>7, <1>11, <1>13, <2>2, <3>1, <3>2 DEF IInv, Typed
    <2>4. PendingHasFrame'
      <3>1. pending'["v"] => m_isStop
        BY <1>4, <1>13 DEF IInv, Typed
      <3>. QED
        BY <1>1, <1>7, <2>2, <3>1 DEF IInv, PendingHasFrame
    <2>5. Way("v")' = Way("v")
      <3>1. /\ Of("v", Queued("v")) \in Seq(Packet) /\ Of("v", unread) \in Seq(Packet)
        BY <1>4, WayTyped DEF IInv
      <3>2. Of("v", rest) \in Seq(Packet)
        BY <1>4, <1>6, Wider, OfTyped
      <3>3. Row(got["v"] \o e, <<>>, Of("v", rest), Of("v", Queued("v")), Of("v", unread))
              = Row(got["v"], e, Of("v", rest), Of("v", Queued("v")), Of("v", unread))
        <4>1. got["v"] \in Seq(Packet) /\ e \in Seq(Packet)
          BY <1>5, <1>6
        <4>. QED
          BY <3>1, <3>2, <4>1, PassesOut
      <3>. QED
        BY <1>7, <1>8, <1>9, <1>13, <2>2, <3>3, Zenon DEF Way
    <2>. QED
      BY <1>1, <1>3, <1>10, <2>2, <2>3, <2>4, <2>5, Moved
  <1>. QED
    BY <1>2, <1>12, <1>13

\* The end of a stream: no new frame is wanted, and none was kept.
LEMMA GetEndStep == ASSUME IInv, NEW c \in Clients, GetEnd(c) PROVE IInv'
  <1>1. /\ life = "running" /\ at[c].step \in {"enter", "retry"}
        /\ pending' = [pending EXCEPT ![at[c].stream] = FALSE]
        /\ getNewFrame' = (getNewFrame /\ at[c].stream # "v")
        /\ UNCHANGED <<player, movie, unread, decodeQueue, codec, decoder, frame, got, m_isStop>>
    BY DEF GetEnd, Gets, Entered, fileVars
  <1>2. player # "new"
    BY <1>1 DEF IInv, NothingYet, Out
  <1>3. pending' \in [Streams -> BOOLEAN] /\ \A s \in Streams : pending'[s] => pending[s]
    BY <1>1 DEF IInv, Typed
  <1>. QED
    BY <1>1, <1>2, <1>3, NothingMoves DEF IInv, Typed

\* A step of the decoder that moves no packet.
LEMMA DecoderRests ==
    ASSUME IInv, ReadNext \/ Loop \/ Test \/ Ending \/ \E s \in Streams : EndNotify(s)
    PROVE  IInv'
  <1>1. /\ life = "running"
        /\ decoder \in {"read", "loop", "test", "ending", "end v", "end a"}
        /\ decoder' \in {"done", "loop", "reading", "ending", "v", "end v", "read", "end a"}
        /\ UNCHANGED <<player, movie, unread, decodeQueue, codec, frame, got, getNewFrame, pending>>
        /\ m_isStop' = m_isStop \/ m_isStop' = (m_isStop \/ AllSent)
    BY DEF ReadNext, Loop, Test, Ending, EndNotify, Decoder, fileVars, frameVars
  <1>2. player # "new" /\ \A s \in Streams : decoder # Sent(s) /\ decoder' # Sent(s)
    BY <1>1, StreamFacts DEF IInv, NothingYet
  <1>3. m_isStop' \in BOOLEAN /\ (m_isStop => m_isStop')
    <2>1. m_isStop \in BOOLEAN
      BY DEF IInv, Typed
    <2>2. CASE m_isStop' = m_isStop
      BY <2>1, <2>2
    <2>3. CASE m_isStop' = (m_isStop \/ AllSent)
      <3>1. (m_isStop \/ AllSent) \in BOOLEAN
        OBVIOUS
      <3>2. m_isStop => (m_isStop \/ AllSent) = TRUE
        OBVIOUS
      <3>. QED
        BY <2>3, <3>1, <3>2
    <2>. QED
      BY <1>1, <2>2, <2>3
  <1>. QED
    BY <1>1, <1>2, <1>3, NothingMoves DEF IInv, Typed

\* A step of a client that moves no packet.
LEMMA ClientRests ==
    ASSUME IInv, NEW c \in Clients,
           \/ GetNone(c) \/ GetNothingYet(c) \/ Sleep(c) \/ StopNotify(c) \/ Free(c)
           \/ Destroy(c) \/ Join(c) \/ Stop(c) \/ Close(c)
           \/ \E s \in Streams : GetData(c, s)
    PROVE  IInv'
  <1>1. /\ life = "running"
        /\ player = "open" \/ at[c].step \in {"enter", "retry", "to wait", "stop", "free", "destroy", "join"}
        /\ player' = player \/ player' = "gone"
        /\ m_isStop' = m_isStop \/ m_isStop' = TRUE
        /\ UNCHANGED <<movie, unread, decodeQueue, codec, pending, frame, got, getNewFrame, decoder>>
    BY DEF GetNone, GetNothingYet, Sleep, StopNotify, Free, Destroy, Join, Stop, Close, GetData,
           Call, At, Gets, Entered, fileVars, frameVars
  <1>2. player # "new"
    <2>1. player = "open" \/ at[c].step # Out.step
      BY <1>1 DEF Out
    <2>2. player = "new" => at[c] = Out
      BY DEF IInv, NothingYet
    <2>. QED
      BY <2>1, <2>2
  <1>3. m_isStop' \in BOOLEAN /\ (m_isStop => m_isStop') /\ pending' \in [Streams -> BOOLEAN]
    <2>1. m_isStop \in BOOLEAN /\ pending \in [Streams -> BOOLEAN]
      BY DEF IInv, Typed
    <2>2. pending' = pending
      BY <1>1
    <2>3. m_isStop' \in BOOLEAN /\ (m_isStop => m_isStop')
      BY <1>1, <2>1, Zenon
    <2>. QED
      BY <2>1, <2>2, <2>3
  <1>. QED
    BY <1>1, <1>2, <1>3, NothingMoves

LEMMA NextIInv == IInv /\ [Next]_vars => IInv'
  <1> SUFFICES ASSUME IInv, [Next]_vars PROVE IInv'
    OBVIOUS
  <1>1. CASE UNCHANGED vars
    BY <1>1 DEF vars, fileVars, frameVars, endVars, IInv, Typed, NothingYet, NoFrameLost,
                Queued, PendingHasFrame
  <1>2. CASE DecoderStep
    BY <1>2, DecoderRests, ReadFrameStep, SendStep, NotifyClientStep DEF DecoderStep
  <1>3. ASSUME NEW c \in Clients, ClientStep(c) \/ Stop(c) \/ Close(c) PROVE IInv'
    BY <1>3, ClientRests, GetEndStep, GetAudioStep, GetVideoStep DEF ClientStep
  <1>4. ASSUME NEW c \in Clients, NEW m \in Movies, SetFile(c, m) PROVE IInv'
    BY <1>4, SetFileStep
  <1>5. ASSUME NEW c \in Clients, NEW s \in Streams, GetData(c, s) PROVE IInv'
    BY <1>5, ClientRests
  <1>. QED
    BY <1>1, <1>2, <1>3, <1>4, <1>5 DEF Next

-----------------------------------------------------------------------------
\* Whatever the movie, the clients and the codecs' capacity: every frame is handed out
\* once and in order, or is on its way, whoever asks for it and whatever is refused.
THEOREM FramesAreKept == Spec => []NoFrameLost
  BY InitIInv, NextIInv, PTL DEF Spec, IInv

\* The decoder holds a packet back for a client only while that client's stream has a
\* frame to take, so a decoder that waits for a client is not waited for by it.
THEOREM PendingIsServable == Spec => []PendingHasFrame
  BY InitIInv, NextIInv, PTL DEF Spec, IInv
==============================================================================
