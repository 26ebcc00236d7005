----------------------------- MODULE FilesProofs -----------------------------
(***************************************************************************)
(* For any threads, handles, names and flags: a call goes on with the file *)
(* its handle names until somebody closes that handle, and of concurrent   *)
(* exclusive opens all but the first need O_TRUNC to get the file, which   *)
(* each gets once.  The invariant: an object is in the table once, or in   *)
(* the hands of the one thread that is to enter it, and lives as long; a   *)
(* call whose handle was not closed has the table's object; no thread that *)
(* is about to open a name exclusively has got it since it is there.       *)
(***************************************************************************)
EXTENDS Files, TLAPS

Kinds == {"none", "file", "null", "dir", "lib"}
ObjectRecords == [kind : Kinds, name : Names \cup {""},
                  mode : {"", "none", "RDONLY", "WRONLY", "RDWR"}, err : BOOLEAN]
UseSteps == {"seek", "relook", "use", "check"}
Creating == [step : {"create"}, name : Names, flags : Flag]
Adding == [step : {"add"}, file : Objects]
InGuest == [step : {"unload", "unload_linker", "stuck", "entry", "entry_call"}]
Using == [step : UseSteps, call : AllCalls, items : Int, handle : Handles,
          file : Objects, inner : Objects, closed : BOOLEAN]

TypesOK ==
    /\ disk \in SUBSET Names
    /\ m_openFiles \in [Handles -> Objects \cup {0}]
    /\ obj \in [Objects -> ObjectRecords]
    /\ op \in [Threads -> {Out} \cup Creating \cup Adding \cup InGuest \cup Using]

Live(i) == obj[i].kind # "none"
FreedOK == \A i \in Objects : ~Live(i) => obj[i] = NoObject

Exclusives == [by : Threads, trunc : BOOLEAN]

\* t is about to open n exclusively, and has seen that it was not there.
Creates(t, n) == op[t].step = "create" /\ op[t].name = n /\ Exclusive(op[t].flags)

ExclOK ==
    /\ excl \in [Names -> Seq(Exclusives)]
    /\ \A n \in Names : n \notin disk => excl[n] = <<>>
    /\ SecondExclTruncates
    /\ \A n \in Names, t \in Threads, k \in Nat :
            Creates(t, n) /\ k \in DOMAIN excl[n] => excl[n][k].by # t

TableOK ==
    /\ \A h \in Handles : m_openFiles[h] # 0 => Live(m_openFiles[h])
    /\ \A g, h \in Handles : m_openFiles[g] # 0 /\ m_openFiles[g] = m_openFiles[h] => g = h

AddOK ==
    \A t \in Threads : op[t].step = "add" =>
        /\ Live(op[t].file)
        /\ \A h \in Handles : m_openFiles[h] # op[t].file
        /\ \A u \in Threads : op[u].step = "add" /\ op[u].file = op[t].file => u = t

CallOK ==
    \A t \in Threads : op[t].step \in UseSteps /\ ~op[t].closed =>
        /\ m_openFiles[op[t].handle] = op[t].file
        /\ op[t].inner = op[t].file

IInv == TypesOK /\ FreedOK /\ ExclOK /\ TableOK /\ AddOK /\ CallOK

-----------------------------------------------------------------------------
\* A thread has a handle exactly when it is in a call on one.
LEMMA HandleWhenUsing ==
    ASSUME TypesOK, NEW t \in Threads
    PROVE  /\ ("handle" \in DOMAIN op[t]) <=> op[t].step \in UseSteps
           /\ op[t].step \in UseSteps => op[t] \in Using
           /\ op[t].step = "create" => op[t] \in Creating
           /\ op[t].step = "add" => op[t] \in Adding
           /\ op[t].step \in {"unload", "unload_linker", "entry", "entry_call"} => op[t] \in InGuest
<1>1. CASE op[t] = Out
  BY <1>1 DEF Out, UseSteps
<1>2. CASE op[t] \in Creating
  BY <1>2 DEF Creating, UseSteps
<1>3. CASE op[t] \in Adding
  BY <1>3 DEF Adding, UseSteps
<1>4. CASE op[t] \in InGuest
  BY <1>4 DEF InGuest, UseSteps
<1>5. CASE op[t] \in Using
  BY <1>5 DEF Using, UseSteps
<1>6. QED
  BY <1>1, <1>2, <1>3, <1>4, <1>5 DEF TypesOK

\* No object has the number of an empty slot.
LEMMA ZeroIsNone == 0 \notin Objects
BY DEF Objects

\* What the two properties say follows from the invariant.
LEMMA IInvImplies == IInv => UsesItsFile /\ SecondExclTruncates
<1>1. ASSUME IInv PROVE UsesItsFile
  <2>1. SUFFICES ASSUME NEW t \in Threads, "handle" \in DOMAIN op[t], ~op[t].closed
                 PROVE  /\ obj[op[t].file] # NoObject
                        /\ m_openFiles[op[t].handle] = op[t].file
                        /\ op[t].inner = op[t].file
    BY DEF UsesItsFile
  <2>2. op[t].step \in UseSteps /\ op[t].handle \in Handles /\ op[t].file \in Objects
    BY <1>1, <2>1, HandleWhenUsing DEF IInv, Using
  <2>3. m_openFiles[op[t].handle] = op[t].file /\ op[t].inner = op[t].file
    BY <1>1, <2>1, <2>2 DEF IInv, CallOK
  <2>4. Live(op[t].file)
    BY <1>1, <2>2, <2>3, ZeroIsNone DEF IInv, TableOK
  <2>5. NoObject.kind = "none"
    BY DEF NoObject
  <2>6. obj[op[t].file] # NoObject
    BY <2>4, <2>5 DEF Live
  <2>7. QED
    BY <2>3, <2>6
<1>2. ASSUME IInv PROVE SecondExclTruncates
  BY <1>2 DEF IInv, ExclOK
<1>3. QED
  BY <1>1, <1>2

-----------------------------------------------------------------------------
Steps == {Out} \cup Creating \cup Adding \cup InGuest \cup Using
Names0 == Names \cup {""}
Modes == {"", "none", "RDONLY", "WRONLY", "RDWR"}

\* What is not a call on a handle or an entry to the table has neither step.
LEMMA StepOf ==
    ASSUME NEW x \in {Out} \cup Creating \cup InGuest \cup Using
    PROVE  /\ x.step # "add"
           /\ x.step \in UseSteps => x \in Using
           /\ x.step = "create" => x \in Creating
<1>1. CASE x = Out
  BY <1>1 DEF Out, UseSteps
<1>2. CASE x \in Creating
  BY <1>2 DEF Creating, UseSteps
<1>3. CASE x \in InGuest
  BY <1>3 DEF InGuest, UseSteps
<1>4. CASE x \in Using
  BY <1>4 DEF Using, UseSteps
<1>5. QED
  BY <1>1, <1>2, <1>3, <1>4

\* Nobody comes to the open of a file: nothing changes for the exclusive ones.
LEMMA NoNewCreate ==
    ASSUME IInv, UNCHANGED <<disk, excl>>,
           \A u \in Threads : op'[u].step = "create" => op'[u] = op[u]
    PROVE  ExclOK'
<1>1. \A n \in Names, u \in Threads : Creates(u, n)' => Creates(u, n)
  BY DEF Creates, Exclusive
<1>2. QED
  BY <1>1 DEF IInv, ExclOK, SecondExclTruncates

\* A step of t that leaves the table alone and does not bring an object to it.
LEMMA QuietStep ==
    ASSUME IInv, NEW t \in Threads, NEW x \in {Out} \cup Creating \cup InGuest \cup Using,
           op' = [op EXCEPT ![t] = x],
           x \in Using /\ ~x.closed => m_openFiles[x.handle] = x.file /\ x.inner = x.file,
           UNCHANGED m_openFiles,
           \A i \in Objects : Live(i)' <=> Live(i)
    PROVE  op' \in [Threads -> Steps] /\ TableOK' /\ AddOK' /\ CallOK'
<1>1. op' \in [Threads -> Steps]
  BY DEF IInv, TypesOK, Steps
<1>2. /\ op'[t] = x
      /\ \A u \in Threads : u # t => op'[u] = op[u]
  BY DEF IInv, TypesOK
<1>3. x.step # "add" /\ (x.step \in UseSteps => x \in Using)
  BY StepOf
<1>4. TableOK'
  BY DEF IInv, TypesOK, TableOK
<1>5. AddOK'
  <2>1. SUFFICES ASSUME NEW u \in Threads, op'[u].step = "add"
                 PROVE  /\ Live(op[u].file)'
                        /\ \A h \in Handles : m_openFiles[h] # op[u].file
                        /\ \A v \in Threads : op'[v].step = "add" /\ op'[v].file = op'[u].file => v = u
                        /\ op'[u] = op[u]
    BY DEF AddOK, Live
  <2>2. u # t /\ op'[u] = op[u] /\ op[u].step = "add"
    BY <1>2, <1>3, <2>1
  <2>3. op[u].file \in Objects
    BY <2>2, HandleWhenUsing DEF IInv, Adding
  <2>4. Live(op[u].file) /\ \A h \in Handles : m_openFiles[h] # op[u].file
    BY <2>2 DEF IInv, AddOK
  <2>5. ASSUME NEW v \in Threads, op'[v].step = "add", op'[v].file = op'[u].file PROVE v = u
    BY <1>2, <1>3, <2>2, <2>5 DEF IInv, AddOK
  <2>6. QED
    BY <2>2, <2>3, <2>4, <2>5
<1>6. CallOK'
  <2>1. SUFFICES ASSUME NEW u \in Threads, op'[u].step \in UseSteps, ~op'[u].closed
                 PROVE  m_openFiles[op'[u].handle] = op'[u].file /\ op'[u].inner = op'[u].file
    BY DEF CallOK, UseSteps
  <2>2. CASE u = t
    BY <1>2, <1>3, <2>1, <2>2
  <2>3. CASE u # t
    BY <1>2, <2>1, <2>3 DEF IInv, CallOK
  <2>4. QED
    BY <2>2, <2>3
<1>7. QED
  BY <1>1, <1>4, <1>5, <1>6

\* Setting or clearing the error of a file, that of a freed one at most being cleared.
LEMMA ErrStep ==
    ASSUME IInv, NEW i \in Objects, NEW b \in BOOLEAN,
           obj' = [obj EXCEPT ![i].err = b],
           ~Live(i) => b = FALSE
    PROVE  /\ obj' \in [Objects -> ObjectRecords]
           /\ FreedOK'
           /\ \A j \in Objects : Live(j)' <=> Live(j)
<1>1. obj[i] \in ObjectRecords
  BY DEF IInv, TypesOK
<1>2. [obj[i] EXCEPT !.err = b] \in ObjectRecords /\ [obj[i] EXCEPT !.err = b].kind = obj[i].kind
  BY <1>1 DEF ObjectRecords
<1>3. /\ obj'[i] = [obj[i] EXCEPT !.err = b]
      /\ \A j \in Objects : j # i => obj'[j] = obj[j]
  BY DEF IInv, TypesOK
<1>4. obj' \in [Objects -> ObjectRecords]
  BY <1>2 DEF IInv, TypesOK
<1>5. \A j \in Objects : Live(j)' <=> Live(j)
  BY <1>2, <1>3 DEF Live
<1>6. ~Live(i) => obj'[i] = NoObject
  <2>1. ~Live(i) => obj[i] = NoObject /\ b = FALSE
    BY DEF IInv, FreedOK
  <2>2. [NoObject EXCEPT !.err = NoObject.err] = NoObject
    BY DEF NoObject
  <2>3. NoObject.err = FALSE
    BY DEF NoObject
  <2>4. QED
    BY <1>3, <2>1, <2>2, <2>3
<1>7. FreedOK'
  <2>1. SUFFICES ASSUME NEW j \in Objects, ~Live(j)' PROVE obj'[j] = NoObject
    BY DEF FreedOK
  <2>2. ~Live(j)
    BY <1>5, <2>1
  <2>3. QED
    BY <1>3, <1>6, <2>2 DEF IInv, FreedOK
<1>8. QED
  BY <1>4, <1>5, <1>7

\* A new object, which nobody has, in the hands of t.
LEMMA MakeStep ==
    ASSUME IInv, NEW t \in Threads, NEW kind \in Kinds \ {"none"}, NEW name \in Names0,
           NEW mode \in Modes, Make(t, kind, name, mode),
           op[t].step \in {"out", "create"}, UNCHANGED m_openFiles
    PROVE  /\ obj' \in [Objects -> ObjectRecords]
           /\ op' \in [Threads -> Steps]
           /\ FreedOK' /\ TableOK' /\ AddOK' /\ CallOK'
           /\ \A u \in Threads : op'[u].step = "create" => op'[u] = op[u]
<1> DEFINE new == [kind |-> kind, name |-> name, mode |-> mode, err |-> FALSE]
<1>1. PICK i \in Objects : /\ Fresh(i) /\ obj' = [obj EXCEPT ![i] = new]
                           /\ op' = [op EXCEPT ![t] = [step |-> "add", file |-> i]]
  BY DEF Make
<1>2. new \in ObjectRecords /\ new.kind = kind
  BY DEF ObjectRecords, Names0, Modes
<1> HIDE DEF new
<1>3. obj[i] = NoObject /\ \A u \in Threads : i \notin Uses(u)
  BY <1>1 DEF Fresh
<1>4. NoObject.kind = "none"
  BY DEF NoObject
<1>5. ~Live(i) /\ (\A h \in Handles : m_openFiles[h] # i)
      /\ (\A u \in Threads : op[u].step = "add" => op[u].file # i)
  <2>1. ~Live(i)
    BY <1>3, <1>4 DEF Live
  <2>2. \A h \in Handles : m_openFiles[h] # i
    BY <2>1, ZeroIsNone DEF IInv, TableOK
  <2>3. ASSUME NEW u \in Threads, op[u].step = "add" PROVE op[u].file # i
    BY <2>1, <2>3 DEF IInv, AddOK
  <2>4. QED
    BY <2>1, <2>2, <2>3
<1>6. /\ obj'[i] = new
      /\ \A j \in Objects : j # i => obj'[j] = obj[j]
      /\ obj' \in [Objects -> ObjectRecords]
  BY <1>1, <1>2 DEF IInv, TypesOK
<1>7. /\ op'[t] = [step |-> "add", file |-> i]
      /\ \A u \in Threads : u # t => op'[u] = op[u]
      /\ op' \in [Threads -> Steps]
  <2>1. [step |-> "add", file |-> i] \in Steps
    BY DEF Steps, Adding
  <2>2. op \in [Threads -> Steps]
    BY DEF IInv, TypesOK, Steps
  <2>3. QED
    BY <1>1, <2>1, <2>2
<1>8. Live(i)' /\ \A j \in Objects : j # i => (Live(j)' <=> Live(j))
  BY <1>2, <1>6 DEF Live
<1>9. FreedOK'
  BY <1>6, <1>8 DEF IInv, FreedOK
<1>10. TableOK'
  BY <1>5, <1>8 DEF IInv, TypesOK, TableOK
<1>11. AddOK'
  <2>1. SUFFICES ASSUME NEW u \in Threads, op'[u].step = "add"
                 PROVE  /\ Live(op[u].file)' \/ u = t
                        /\ \A h \in Handles : m_openFiles[h] # op'[u].file
                        /\ \A v \in Threads : op'[v].step = "add" /\ op'[v].file = op'[u].file => v = u
    BY <1>7, <1>8 DEF AddOK, Live
  <2>2. CASE u = t
    BY <1>5, <1>7, <2>2
  <2>3. CASE u # t
    <3>1. op'[u] = op[u] /\ op[u].step = "add"
      BY <1>7, <2>1, <2>3
    <3>2. op[u].file \in Objects /\ op[u].file # i
      BY <1>5, <3>1, HandleWhenUsing DEF IInv, Adding
    <3>3. Live(op[u].file) /\ \A h \in Handles : m_openFiles[h] # op[u].file
      BY <3>1 DEF IInv, AddOK
    <3>4. ASSUME NEW v \in Threads, op'[v].step = "add", op'[v].file = op'[u].file PROVE v = u
      BY <1>7, <3>1, <3>2, <3>4 DEF IInv, AddOK
    <3>5. QED
      BY <1>8, <3>1, <3>2, <3>3, <3>4
  <2>4. QED
    BY <2>2, <2>3
<1>12. CallOK'
  BY <1>7 DEF IInv, CallOK, UseSteps
<1>13. QED
  BY <1>6, <1>7, <1>9, <1>10, <1>11, <1>12

-----------------------------------------------------------------------------
\* Every action preserves the invariant.
LEMMA OpenLookStep ==
    ASSUME IInv, NEW t \in Threads, NEW n \in Names, NEW f \in OpenFlags, OpenLook(t, n, f)
    PROVE  IInv'
<1> DEFINE x == [step |-> "create", name |-> n, flags |-> f]
<1>1. x \in Creating
  BY FilesAssumption DEF Creating
<1>2. x \notin Using
  BY DEF Using, UseSteps
<1>3. op' = [op EXCEPT ![t] = x] /\ UNCHANGED <<disk, m_openFiles, obj, excl>>
  BY DEF OpenLook
<1> HIDE DEF x
<1>4. op' \in [Threads -> Steps] /\ TableOK' /\ AddOK' /\ CallOK'
  BY <1>1, <1>2, <1>3, QuietStep DEF Live
<1>5. Exclusive(f) => excl[n] = <<>>
  BY DEF OpenLook, IInv, ExclOK
<1>6. op'[t] = x /\ \A u \in Threads : u # t => op'[u] = op[u]
  BY <1>3 DEF IInv, TypesOK
<1>7. x.name = n /\ x.flags = f
  BY DEF x
<1>8. ASSUME NEW m \in Names, NEW u \in Threads, NEW k \in Nat, Creates(u, m)', k \in DOMAIN excl[m]
      PROVE  excl[m][k].by # u
  <2>1. CASE u = t
    <3>1. m = n /\ Exclusive(f)
      BY <1>6, <1>7, <1>8, <2>1 DEF Creates, Exclusive
    <3>2. excl[m] = <<>>
      BY <1>5, <3>1
    <3>3. QED
      BY <1>8, <3>2
  <2>2. CASE u # t
    <3>1. Creates(u, m)
      BY <1>6, <1>8, <2>2 DEF Creates, Exclusive
    <3>2. QED
      BY <1>8, <3>1 DEF IInv, ExclOK
  <2>3. QED
    BY <2>1, <2>2
<1>9. ExclOK'
  BY <1>3, <1>8 DEF IInv, ExclOK, SecondExclTruncates
<1>10. QED
  BY <1>3, <1>4, <1>9 DEF IInv, TypesOK, FreedOK, Live, Steps

\* The host finds the file for t: the exclusive opens that got it before were there
\* before t, which is none of them, and t could not have made it.
LEMMA GetsFile ==
    ASSUME IInv, NEW t \in Threads, NEW n \in Names, NEW f \in Flag,
           op[t].step = "create", op[t].name = n, op[t].flags = f, Finds(n, f),
           disk' = disk \cup {n},
           excl' = IF Exclusive(f) THEN [excl EXCEPT ![n] = Append(@, [by |-> t, trunc |-> f.trunc])]
                                   ELSE excl,
           op'[t].step # "create",
           \A u \in Threads : op'[u].step = "create" => op'[u] = op[u]
    PROVE  ExclOK'
<1>1. \A m \in Names, u \in Threads : Creates(u, m)' => Creates(u, m) /\ u # t
  BY DEF Creates, Exclusive
<1>2. CASE ~Exclusive(f)
  <2>1. excl' = excl
    BY <1>2
  <2>2. SecondExclTruncates'
    BY <2>1 DEF IInv, ExclOK, SecondExclTruncates
  <2>3. ASSUME NEW m \in Names, NEW u \in Threads, NEW k \in Nat, Creates(u, m)', k \in DOMAIN excl'[m]
        PROVE  excl'[m][k].by # u
    BY <1>1, <2>1, <2>3 DEF IInv, ExclOK
  <2>4. QED
    BY <2>1, <2>2, <2>3 DEF IInv, ExclOK
<1>3. CASE Exclusive(f)
  <2> DEFINE new == [by |-> t, trunc |-> f.trunc]
             got == excl[n]
  <2>1. Creates(t, n)
    BY <1>3 DEF Creates
  <2>2. new \in Exclusives /\ new.by = t /\ new.trunc = f.trunc
    BY DEF Flag, Exclusives
  <2>3. got \in Seq(Exclusives)
    BY DEF IInv, ExclOK
  <2>4. excl' = [excl EXCEPT ![n] = Append(got, new)]
    BY <1>3
  <2>5. \A k \in DOMAIN got : f.trunc /\ got[k].by # t
    <3>1. SUFFICES ASSUME NEW k \in DOMAIN got PROVE f.trunc /\ got[k].by # t
      OBVIOUS
    <3>2. k \in Nat /\ got # <<>>
      BY <2>3
    <3>3. n \in disk
      BY <3>2 DEF IInv, ExclOK
    <3>4. f.trunc
      BY <1>3, <3>3 DEF Finds, Exclusive
    <3>5. got[k].by # t
      BY <2>1, <3>2 DEF IInv, ExclOK
    <3>6. QED
      BY <3>4, <3>5
  <2> HIDE DEF new, got
  <2>6. /\ excl'[n] = Append(got, new)
        /\ \A m \in Names : m # n => excl'[m] = excl[m]
        /\ excl' \in [Names -> Seq(Exclusives)]
    <3>1. Append(got, new) \in Seq(Exclusives)
      BY <2>2, <2>3
    <3>2. QED
      BY <2>4, <3>1 DEF IInv, ExclOK
  <2>7. /\ DOMAIN Append(got, new) = 1..(Len(got) + 1) /\ DOMAIN got = 1..Len(got) /\ Len(got) \in Nat
        /\ \A k \in DOMAIN got : Append(got, new)[k] = got[k]
        /\ Append(got, new)[Len(got) + 1] = new
    BY <2>2, <2>3
  <2>8. ASSUME NEW m \in Names, NEW i \in DOMAIN excl'[m], NEW j \in DOMAIN excl'[m], i < j
        PROVE  excl'[m][j].trunc /\ excl'[m][i].by # excl'[m][j].by
    <3>1. CASE m # n
      BY <2>6, <2>8, <3>1 DEF IInv, ExclOK, SecondExclTruncates
    <3>2. CASE m = n /\ j \in DOMAIN got
      <4>1. i \in DOMAIN got
        BY <2>6, <2>7, <2>8, <3>2
      <4>2. got[j].trunc /\ got[i].by # got[j].by
        BY <2>8, <3>2, <4>1 DEF IInv, ExclOK, SecondExclTruncates, got
      <4>3. QED
        BY <2>6, <2>7, <3>2, <4>1, <4>2
    <3>3. CASE m = n /\ j \notin DOMAIN got
      <4>1. j = Len(got) + 1 /\ i \in DOMAIN got
        BY <2>6, <2>7, <2>8, <3>3
      <4>2. QED
        BY <2>2, <2>5, <2>6, <2>7, <3>3, <4>1
    <3>4. QED
      BY <3>1, <3>2, <3>3
  <2>9. ASSUME NEW m \in Names, NEW u \in Threads, NEW k \in Nat, Creates(u, m)', k \in DOMAIN excl'[m]
        PROVE  excl'[m][k].by # u
    <3>1. Creates(u, m) /\ u # t
      BY <1>1, <2>9
    <3>2. CASE m # n
      BY <2>6, <2>9, <3>1, <3>2 DEF IInv, ExclOK
    <3>3. CASE m = n /\ k \in DOMAIN got
      <4>1. got[k].by # u
        BY <3>1, <3>3 DEF IInv, ExclOK, got
      <4>2. QED
        BY <2>6, <2>7, <3>3, <4>1
    <3>4. CASE m = n /\ k \notin DOMAIN got
      BY <2>2, <2>6, <2>7, <2>9, <3>1, <3>4
    <3>5. QED
      BY <3>2, <3>3, <3>4
  <2>10. \A m \in Names : m \notin disk' => excl'[m] = <<>>
    BY <2>6 DEF IInv, ExclOK
  <2>11. SecondExclTruncates'
    BY <2>8 DEF SecondExclTruncates
  <2>12. QED
    BY <2>6, <2>9, <2>10, <2>11 DEF ExclOK
<1>4. QED
  BY <1>2, <1>3

LEMMA CreateFileStep ==
    ASSUME IInv, NEW t \in Threads, CreateFile(t)
    PROVE  IInv'
<1> DEFINE n == op[t].name  f == op[t].flags
<1>1. n \in Names /\ f \in Flag /\ op[t].step = "create"
  BY HandleWhenUsing DEF CreateFile, At, IInv, Creating
<1>2. n \in Names0 /\ Share(f) \in Modes
  BY <1>1 DEF Names0, Modes, Flag, Share
<1>3. UNCHANGED m_openFiles
  BY DEF CreateFile
<1>4. ASSUME NEW kind \in {"file", "null"}, Make(t, kind, n, Share(f))
      PROVE  /\ obj' \in [Objects -> ObjectRecords] /\ op' \in [Threads -> Steps]
             /\ FreedOK' /\ TableOK' /\ AddOK' /\ CallOK'
             /\ op'[t].step # "create"
             /\ \A u \in Threads : op'[u].step = "create" => op'[u] = op[u]
  <2>1. op'[t].step = "add"
    BY <1>4 DEF Make, IInv, TypesOK
  <2>2. kind \in Kinds \ {"none"}
    BY DEF Kinds
  <2> HIDE DEF n, f
  <2>3. QED
    BY <1>1, <1>2, <1>3, <1>4, <2>1, <2>2, MakeStep
<1>5. CASE /\ Finds(n, f) /\ Make(t, "file", n, Share(f))
           /\ disk' = disk \cup {n}
           /\ excl' = IF Exclusive(f) THEN [excl EXCEPT ![n] = Append(@, [by |-> t, trunc |-> f.trunc])]
                                     ELSE excl
  <2>1. ExclOK'
    BY <1>1, <1>4, <1>5, GetsFile
  <2>2. QED
    BY <1>1, <1>3, <1>4, <1>5, <2>1 DEF IInv, TypesOK, Steps
<1>6. CASE Return(t) /\ UNCHANGED <<disk, obj, excl>>
  <2>1. Out \notin Using /\ Out.step # "create"
    BY DEF Out, Using, UseSteps
  <2>2. op' \in [Threads -> Steps] /\ TableOK' /\ AddOK' /\ CallOK'
    BY <1>3, <1>6, <2>1, QuietStep DEF Return, Live
  <2>3. \A u \in Threads : op'[u].step = "create" => op'[u] = op[u]
    BY <1>6, <2>1 DEF Return, IInv, TypesOK
  <2>4. ExclOK'
    BY <1>6, <2>3, NoNewCreate
  <2>5. QED
    BY <1>3, <1>6, <2>2, <2>4 DEF IInv, TypesOK, FreedOK, Live, Steps
<1>7. CASE Make(t, "null", n, Share(f)) /\ UNCHANGED <<disk, excl>>
  <2>1. ExclOK'
    BY <1>4, <1>7, NoNewCreate
  <2>2. QED
    BY <1>3, <1>4, <1>7, <2>1 DEF IInv, TypesOK, Steps
<1>8. QED
  BY <1>5, <1>6, <1>7 DEF CreateFile

LEMMA OpenOtherStep ==
    ASSUME IInv, NEW t \in Threads, NEW kind \in Others, OpenOther(t, kind)
    PROVE  IInv'
<1>1. kind \in Kinds \ {"none"} /\ "" \in Names0 /\ "" \in Modes
  BY FilesAssumption DEF Kinds, Names0, Modes
<1>2. op[t].step = "out" /\ UNCHANGED <<disk, m_openFiles, excl>>
  <2>1. op[t] = Out /\ UNCHANGED <<disk, m_openFiles, excl>>
    BY DEF OpenOther, Call
  <2>2. QED
    BY <2>1 DEF Out
<1>3. Make(t, kind, "", "")
  BY DEF OpenOther
<1>4. /\ obj' \in [Objects -> ObjectRecords] /\ op' \in [Threads -> Steps]
      /\ FreedOK' /\ TableOK' /\ AddOK' /\ CallOK'
      /\ \A u \in Threads : op'[u].step = "create" => op'[u] = op[u]
  BY <1>1, <1>2, <1>3, MakeStep
<1>5. ExclOK'
  BY <1>2, <1>4, NoNewCreate
<1>6. QED
  BY <1>2, <1>4, <1>5 DEF IInv, TypesOK, Steps

LEMMA AddStep ==
    ASSUME IInv, NEW t \in Threads, Add(t)
    PROVE  IInv'
<1>1. PICK h \in Handles : m_openFiles[h] = 0 /\ m_openFiles' = [m_openFiles EXCEPT ![h] = op[t].file]
  BY DEF Add
<1>2. op[t].step = "add" /\ op[t].file \in Objects /\ UNCHANGED <<disk, obj, excl>>
  BY HandleWhenUsing DEF Add, At, IInv, Adding
<1>3. /\ op'[t].step \notin UseSteps \cup {"add", "create"}
      /\ \A u \in Threads : u # t => op'[u] = op[u]
      /\ op' \in [Threads -> Steps]
  <2> DEFINE x == IF linker = t THEN [step |-> "entry"] ELSE Out
  <2>1. x \in Steps /\ x.step \notin UseSteps \cup {"add", "create"}
    BY DEF Steps, InGuest, Out, UseSteps
  <2>2. op' = [op EXCEPT ![t] = x]
    BY DEF Add
  <2> HIDE DEF x
  <2>3. QED
    BY <2>1, <2>2 DEF IInv, TypesOK, Steps
<1>4. /\ m_openFiles'[h] = op[t].file
      /\ \A g \in Handles : g # h => m_openFiles'[g] = m_openFiles[g]
      /\ m_openFiles' \in [Handles -> Objects \cup {0}]
  BY <1>1, <1>2 DEF IInv, TypesOK
<1>5. Live(op[t].file) /\ \A g \in Handles : m_openFiles[g] # op[t].file
  BY <1>2 DEF IInv, AddOK
<1>6. TableOK'
  BY <1>2, <1>4, <1>5 DEF IInv, TableOK, Live
<1>7. AddOK'
  <2>1. SUFFICES ASSUME NEW u \in Threads, op'[u].step = "add"
                 PROVE  /\ op'[u] = op[u] /\ Live(op[u].file)
                        /\ \A g \in Handles : m_openFiles'[g] # op[u].file
                        /\ \A v \in Threads : op'[v].step = "add" /\ op'[v].file = op'[u].file => v = u
    BY <1>2 DEF AddOK, Live
  <2>2. u # t /\ op'[u] = op[u] /\ op[u].step = "add"
    BY <1>3, <2>1
  <2>3. Live(op[u].file) /\ op[u].file # op[t].file
        /\ \A g \in Handles : m_openFiles[g] # op[u].file
    BY <1>2, <2>2 DEF IInv, AddOK
  <2>4. ASSUME NEW v \in Threads, op'[v].step = "add", op'[v].file = op'[u].file PROVE v = u
    BY <1>3, <2>2, <2>4 DEF IInv, AddOK
  <2>5. QED
    BY <1>4, <2>2, <2>3, <2>4
<1>8. CallOK'
  <2>1. SUFFICES ASSUME NEW u \in Threads, op'[u].step \in UseSteps, ~op'[u].closed
                 PROVE  m_openFiles'[op'[u].handle] = op'[u].file /\ op'[u].inner = op'[u].file
    BY DEF CallOK, UseSteps
  <2>2. u # t /\ op'[u] = op[u]
    BY <1>3, <2>1
  <2>3. op[u].handle \in Handles /\ op[u].file \in Objects
        /\ m_openFiles[op[u].handle] = op[u].file /\ op[u].inner = op[u].file
    BY <2>1, <2>2, HandleWhenUsing DEF IInv, CallOK, Using
  <2>4. QED
    BY <1>1, <1>4, <2>2, <2>3, ZeroIsNone
<1>9. ExclOK'
  BY <1>2, <1>3, NoNewCreate
<1>10. QED
  BY <1>2, <1>3, <1>4, <1>6, <1>7, <1>8, <1>9 DEF IInv, TypesOK, FreedOK, Live, Steps

\* An object is destroyed: those who are in a call on the handle find out.
LEMMA FreesStep ==
    ASSUME IInv, NEW t \in Threads, NEW h \in Handles, NEW next \in {Out} \cup InGuest,
           m_openFiles[h] # 0, m_openFiles' = [m_openFiles EXCEPT ![h] = 0], Frees(t, h, next)
    PROVE  /\ m_openFiles' \in [Handles -> Objects \cup {0}]
           /\ obj' \in [Objects -> ObjectRecords]
           /\ op' \in [Threads -> Steps]
           /\ FreedOK' /\ TableOK' /\ AddOK' /\ CallOK'
           /\ \A u \in Threads : op'[u].step = "create" => op'[u] = op[u]
<1> DEFINE i == m_openFiles[h]
<1>1. i \in Objects
  BY DEF IInv, TypesOK
<1>2. next.step \notin {"add", "create"} /\ next \notin Using /\ next.step \notin UseSteps /\ next \in Steps
  BY DEF Out, InGuest, Using, UseSteps, Steps
<1>3. NoObject \in ObjectRecords /\ NoObject.kind = "none"
  BY DEF NoObject, ObjectRecords, Kinds
<1>4. /\ obj'[i] = NoObject
      /\ \A j \in Objects : j # i => obj'[j] = obj[j]
      /\ obj' \in [Objects -> ObjectRecords]
  BY <1>1, <1>3 DEF Frees, IInv, TypesOK
<1>5. \A g \in Handles : g # h => m_openFiles'[g] = m_openFiles[g] /\ m_openFiles'[g] # i
  BY DEF IInv, TypesOK, TableOK
<1>6. m_openFiles'[h] = 0 /\ m_openFiles' \in [Handles -> Objects \cup {0}]
  BY DEF IInv, TypesOK
<1>7. ASSUME NEW u \in Threads, u # t
      PROVE  /\ op'[u] \in Steps
             /\ op'[u].step = op[u].step
             /\ op[u].step \in {"add", "create"} => op'[u] = op[u]
             /\ op[u].step \in UseSteps =>
                    /\ op'[u].handle = op[u].handle /\ op'[u].file = op[u].file
                    /\ op'[u].inner = op[u].inner
                    /\ ~op'[u].closed => ~op[u].closed /\ op[u].handle # h
  <2>1. CASE "handle" \in DOMAIN op[u]
    <3>1. op[u] \in Using /\ op[u].step \in UseSteps
      BY <2>1, HandleWhenUsing DEF IInv
    <3>2. CASE op[u].handle = h
      <4>1. op'[u] = [op[u] EXCEPT !.closed = TRUE]
        BY <1>7, <2>1, <3>2 DEF Frees
      <4>2. /\ op'[u] \in Using /\ op'[u].closed = TRUE /\ op'[u].step = op[u].step
            /\ op'[u].handle = op[u].handle /\ op'[u].file = op[u].file /\ op'[u].inner = op[u].inner
        BY <3>1, <4>1 DEF Using
      <4>3. QED
        BY <3>1, <4>2 DEF Steps, UseSteps
    <3>3. CASE op[u].handle # h
      <4>1. op'[u] = op[u]
        BY <1>7, <2>1, <3>3 DEF Frees
      <4>2. QED
        BY <3>1, <3>3, <4>1 DEF Steps
    <3>4. QED
      BY <3>2, <3>3
  <2>2. CASE "handle" \notin DOMAIN op[u]
    <3>1. op'[u] = op[u]
      BY <1>7, <2>2 DEF Frees
    <3>2. op[u].step \notin UseSteps /\ op[u] \in Steps
      BY <2>2, HandleWhenUsing DEF IInv, TypesOK, Steps
    <3>3. QED
      BY <3>1, <3>2
  <2>3. QED
    BY <2>1, <2>2
<1>8. op'[t] = next
  BY DEF Frees
<1>9. op' \in [Threads -> Steps]
  <2>1. \A u \in Threads : op'[u] \in Steps
    BY <1>2, <1>7, <1>8
  <2>2. op' = [u \in Threads |-> op'[u]]
    BY DEF Frees
  <2>3. QED
    BY <2>1, <2>2
<1>10. FreedOK'
  BY <1>4 DEF IInv, FreedOK, Live
<1>11. TableOK'
  <2>1. \A g \in Handles : m_openFiles'[g] # 0 =>
            g # h /\ m_openFiles'[g] \in Objects /\ m_openFiles'[g] # i /\ m_openFiles'[g] = m_openFiles[g]
    BY <1>5, <1>6
  <2>2. QED
    BY <1>4, <2>1 DEF IInv, TableOK, Live
<1>12. AddOK'
  <2>1. SUFFICES ASSUME NEW u \in Threads, op'[u].step = "add"
                 PROVE  /\ op'[u] = op[u] /\ Live(op[u].file)'
                        /\ \A g \in Handles : m_openFiles'[g] # op[u].file
                        /\ \A v \in Threads : op'[v].step = "add" /\ op'[v].file = op'[u].file => v = u
    BY DEF AddOK, Live
  <2>2. u # t /\ op'[u] = op[u] /\ op[u].step = "add"
    BY <1>2, <1>7, <1>8, <2>1
  <2>3. op[u].file \in Objects /\ Live(op[u].file) /\ \A g \in Handles : m_openFiles[g] # op[u].file
    BY <2>2, HandleWhenUsing DEF IInv, AddOK, Adding
  <2>4. obj'[op[u].file] = obj[op[u].file] /\ Live(op[u].file)'
    BY <1>4, <2>2, <2>3 DEF Live
  <2>5. ASSUME NEW v \in Threads, op'[v].step = "add", op'[v].file = op'[u].file PROVE v = u
    <3>1. v # t
      BY <1>2, <1>8, <2>5
    <3>2. op[v].step = "add" /\ op[v].file = op[u].file
      BY <1>7, <2>2, <2>5, <3>1
    <3>3. QED
      BY <2>2, <3>2 DEF IInv, AddOK
  <2>6. \A g \in Handles : m_openFiles'[g] # op[u].file
    BY <1>5, <1>6, <2>3, ZeroIsNone
  <2>7. QED
    BY <2>2, <2>4, <2>5, <2>6
<1>13. CallOK'
  <2>1. SUFFICES ASSUME NEW u \in Threads, op'[u].step \in UseSteps, ~op'[u].closed
                 PROVE  m_openFiles'[op'[u].handle] = op'[u].file /\ op'[u].inner = op'[u].file
    BY DEF CallOK, UseSteps
  <2>2. u # t /\ op[u].step \in UseSteps
    BY <1>2, <1>7, <1>8, <2>1
  <2>3. op[u].handle \in Handles /\ op[u].handle # h /\ ~op[u].closed
    BY <1>7, <2>1, <2>2, HandleWhenUsing DEF IInv, Using
  <2>4. m_openFiles[op[u].handle] = op[u].file /\ op[u].inner = op[u].file
    BY <2>2, <2>3 DEF IInv, CallOK
  <2>5. QED
    BY <1>5, <1>7, <2>2, <2>3, <2>4
<1>14. \A u \in Threads : op'[u].step = "create" => op'[u] = op[u]
  BY <1>2, <1>7, <1>8
<1>15. QED
  BY <1>4, <1>6, <1>9, <1>10, <1>11, <1>12, <1>13, <1>14

LEMMA CloseStep ==
    ASSUME IInv, NEW t \in Threads, NEW h \in Handles, Close(t, h)
    PROVE  IInv'
<1>1. /\ m_openFiles[h] # 0 /\ m_openFiles' = [m_openFiles EXCEPT ![h] = 0]
      /\ UNCHANGED <<disk, excl>>
  BY DEF Close
<1>2. PICK next \in {Out} \cup InGuest : Frees(t, h, next)
  <2>1. [step |-> "unload"] \in InGuest
    BY DEF InGuest
  <2>2. QED
    BY <2>1 DEF Close
<1>3. /\ m_openFiles' \in [Handles -> Objects \cup {0}]
      /\ obj' \in [Objects -> ObjectRecords] /\ op' \in [Threads -> Steps]
      /\ FreedOK' /\ TableOK' /\ AddOK' /\ CallOK'
      /\ \A u \in Threads : op'[u].step = "create" => op'[u] = op[u]
  BY <1>1, <1>2, FreesStep
<1>4. ExclOK'
  BY <1>1, <1>3, NoNewCreate
<1>5. QED
  BY <1>1, <1>3, <1>4 DEF IInv, TypesOK, Steps

\* A step of t that changes nothing but where t is, or the error of an object.
LEMMA QuietKeeps ==
    ASSUME IInv, NEW t \in Threads, NEW x \in {Out} \cup InGuest \cup Using,
           op' = [op EXCEPT ![t] = x],
           x \in Using /\ ~x.closed => m_openFiles[x.handle] = x.file /\ x.inner = x.file,
           UNCHANGED <<disk, excl, m_openFiles>>,
           \/ UNCHANGED obj
           \/ \E i \in Objects, b \in BOOLEAN :
                  obj' = [obj EXCEPT ![i].err = b] /\ (~Live(i) => b = FALSE)
    PROVE  IInv'
<1>1. /\ obj' \in [Objects -> ObjectRecords] /\ FreedOK'
      /\ \A j \in Objects : Live(j)' <=> Live(j)
  <2>1. CASE UNCHANGED obj
    BY <2>1 DEF IInv, TypesOK, FreedOK, Live
  <2>2. CASE \E i \in Objects, b \in BOOLEAN :
                obj' = [obj EXCEPT ![i].err = b] /\ (~Live(i) => b = FALSE)
    BY <2>2, ErrStep
  <2>3. QED
    BY <2>1, <2>2
<1>2. op' \in [Threads -> Steps] /\ TableOK' /\ AddOK' /\ CallOK'
  BY <1>1, QuietStep
<1>3. x.step # "create"
  BY DEF Out, InGuest, Using, UseSteps
<1>4. \A u \in Threads : op'[u].step = "create" => op'[u] = op[u]
  BY <1>3 DEF IInv, TypesOK
<1>5. ExclOK'
  BY <1>4, NoNewCreate
<1>6. QED
  BY <1>1, <1>2, <1>5 DEF IInv, TypesOK, Steps

LEMMA GuestStep ==
    ASSUME IInv, NEW t \in Threads,
           EntryCalls(t) \/ EntryEnds(t) \/ Unload(t) \/ UnloadLinks(t) \/ UnloadCalls(t)
    PROVE  IInv'
<1>1. op[t].step \in {"unload", "unload_linker", "entry", "entry_call"}
      /\ UNCHANGED <<disk, excl, m_openFiles, obj>>
  BY DEF EntryCalls, EntryEnds, Unload, UnloadLinks, UnloadCalls, At
<1>2. op[t] \in InGuest
  BY <1>1, HandleWhenUsing DEF IInv
<1>3. PICK x \in {Out} \cup InGuest : op' = [op EXCEPT ![t] = x]
  <2>1. ASSUME NEW step \in {"stuck", "unload_linker", "entry_call"}, Goto(t, step)
        PROVE  [op[t] EXCEPT !.step = step] \in InGuest /\ op' = [op EXCEPT ![t] = [op[t] EXCEPT !.step = step]]
    BY <1>2, <2>1 DEF InGuest, Goto
  <2>2. CASE Return(t)
    BY <2>2 DEF Return
  <2>3. QED
    BY <2>1, <2>2 DEF EntryCalls, EntryEnds, Unload, UnloadLinks, UnloadCalls
<1>4. x \notin Using
  BY DEF Out, InGuest, Using, UseSteps
<1>5. QED
  BY <1>1, <1>3, <1>4, QuietKeeps

LEMMA DiskStep ==
    ASSUME IInv, NEW t \in Threads,
           \/ \E n \in Names : Unlink(t, n)
           \/ \E from, to \in Names : Rename(t, from, to)
    PROVE  IInv'
<1>1. UNCHANGED <<m_openFiles, obj, op>>
  BY DEF Unlink, Rename
<1>2. \A m \in Names, u \in Threads : Creates(u, m)' => Creates(u, m)
  BY <1>1 DEF Creates, Exclusive
<1> <<>> \in Seq(Exclusives)
  OBVIOUS
<1>3. /\ disk' \in SUBSET Names
      /\ excl' \in [Names -> Seq(Exclusives)]
      /\ \A m \in Names : excl'[m] \in {<<>>, excl[m]}
      /\ \A m \in Names : m \notin disk' => excl'[m] = <<>>
  <2>1. CASE \E n \in Names : Unlink(t, n)
    BY <2>1 DEF Unlink, IInv, TypesOK, ExclOK
  <2>2. CASE \E from, to \in Names : Rename(t, from, to)
    <3>1. PICK from \in Names, to \in Names :
              /\ from # to /\ disk' = (disk \ {from}) \cup {to}
              /\ excl' = [excl EXCEPT ![from] = <<>>, ![to] = <<>>]
      BY <2>2 DEF Rename
    <3>2. QED
      BY <3>1 DEF IInv, TypesOK, ExclOK
  <2>3. QED
    BY <2>1, <2>2
<1>4. ASSUME NEW m \in Names
      PROVE  /\ \A i, j \in DOMAIN excl'[m] : i < j =>
                    excl'[m][j].trunc /\ excl'[m][i].by # excl'[m][j].by
             /\ \A u \in Threads, k \in Nat :
                    Creates(u, m)' /\ k \in DOMAIN excl'[m] => excl'[m][k].by # u
  <2>1. CASE excl'[m] = <<>>
    BY <2>1
  <2>2. CASE excl'[m] = excl[m]
    BY <1>2, <2>2 DEF IInv, ExclOK, SecondExclTruncates
  <2>3. QED
    BY <1>3, <2>1, <2>2
<1>5. ExclOK'
  BY <1>3, <1>4 DEF ExclOK, SecondExclTruncates
<1>6. QED
  BY <1>1, <1>3, <1>5 DEF IInv, TypesOK, FreedOK, TableOK, AddOK, CallOK, Live

LEMMA LookupStep ==
    ASSUME IInv, NEW t \in Threads, NEW h \in Handles, NEW call \in Calls,
           NEW items \in 1..MaxItems, Lookup(t, h, call, items)
    PROVE  IInv'
<1>1. UNCHANGED <<disk, excl, m_openFiles, obj>>
  BY DEF Lookup
<1> DEFINE x == [step |-> IF call \in Positioned THEN "seek" ELSE "use", call |-> call, items |-> items,
                 handle |-> h, file |-> m_openFiles[h], inner |-> m_openFiles[h], closed |-> FALSE]
<1>2. CASE IsFile(h) /\ op' = [op EXCEPT ![t] = x]
  <2>1. m_openFiles[h] \in Objects
    BY <1>2 DEF IsFile, IInv, TypesOK
  <2>2. x \in Using /\ m_openFiles[x.handle] = x.file /\ x.inner = x.file
    BY <2>1, FilesAssumption DEF Using, UseSteps
  <2> HIDE DEF x
  <2>3. QED
    BY <1>1, <1>2, <2>2, QuietKeeps
<1>3. CASE UNCHANGED op
  <2>1. ExclOK'
    BY <1>1, <1>3, NoNewCreate
  <2>2. QED
    BY <1>1, <1>3, <2>1 DEF IInv, TypesOK, FreedOK, TableOK, AddOK, CallOK, Live
<1>4. QED
  BY <1>2, <1>3 DEF Lookup

\* The rest of a call still has the handle's file.
LEMMA SameFile ==
    ASSUME IInv, NEW t \in Threads, op[t] \in Using, NEW x,
           x.closed = op[t].closed, x.handle = op[t].handle, x.file = op[t].file, x.inner = op[t].inner
    PROVE  ~x.closed => m_openFiles[x.handle] = x.file /\ x.inner = x.file
<1>1. op[t].step \in UseSteps
  BY DEF Using
<1>2. QED
  BY <1>1 DEF IInv, CallOK

\* Goto within a call.
LEMMA GotoInCall ==
    ASSUME IInv, NEW t \in Threads, op[t] \in Using, NEW step \in UseSteps, Goto(t, step)
    PROVE  \E x \in Using : /\ op' = [op EXCEPT ![t] = x]
                            /\ ~x.closed => m_openFiles[x.handle] = x.file /\ x.inner = x.file
<1> DEFINE x == [op[t] EXCEPT !.step = step]
<1>1. /\ x \in Using /\ x.closed = op[t].closed /\ x.handle = op[t].handle
      /\ x.file = op[t].file /\ x.inner = op[t].inner
  BY DEF Using
<1>2. op' = [op EXCEPT ![t] = x]
  BY DEF Goto
<1> HIDE DEF x
<1>3. QED
  BY <1>1, <1>2, SameFile

\* Return from a call.
LEMMA ReturnIsOut ==
    ASSUME NEW t \in Threads, Return(t)
    PROVE  op' = [op EXCEPT ![t] = Out] /\ Out \notin Using
BY DEF Return, Out, Using, UseSteps

LEMMA SeekStep ==
    ASSUME IInv, NEW t \in Threads, Seek(t)
    PROVE  IInv'
<1>1. op[t] \in Using /\ UNCHANGED <<disk, excl, m_openFiles>>
  BY HandleWhenUsing DEF Seek, Touch, At, IInv, UseSteps
<1>2. op[t].file \in Objects /\ obj' = [obj EXCEPT ![op[t].file].err = FALSE]
  BY <1>1 DEF Seek, Using
<1>3. PICK step \in UseSteps : Goto(t, step)
  BY DEF Seek, UseSteps
<1>4. QED
  BY <1>1, <1>2, <1>3, GotoInCall, QuietKeeps

LEMMA RelookStep ==
    ASSUME IInv, NEW t \in Threads, Relook(t)
    PROVE  IInv'
<1>1. op[t] \in Using /\ op[t].step = "relook" /\ UNCHANGED <<disk, excl, m_openFiles, obj>>
  BY HandleWhenUsing DEF Relook, At, IInv, UseSteps
<1>2. CASE IsFile(op[t].handle)
           /\ op' = [op EXCEPT ![t].step = "use", ![t].inner = m_openFiles[op[t].handle]]
  <2> DEFINE x == [op[t] EXCEPT !.step = "use", !.inner = m_openFiles[op[t].handle]]
  <2>1. op[t].handle \in Handles
    BY <1>1 DEF Using
  <2>2. m_openFiles[op[t].handle] \in Objects
    BY <1>2, <2>1 DEF IsFile, IInv, TypesOK
  <2>3. /\ x \in Using /\ x.closed = op[t].closed /\ x.handle = op[t].handle
        /\ x.file = op[t].file /\ x.inner = m_openFiles[op[t].handle]
    BY <1>1, <2>2 DEF Using, UseSteps
  <2>4. op' = [op EXCEPT ![t] = x]
    BY <1>2 DEF IInv, TypesOK
  <2> HIDE DEF x
  <2>5. ~x.closed => m_openFiles[x.handle] = x.file /\ x.inner = x.file
    BY <1>1, <2>3 DEF IInv, CallOK, UseSteps
  <2>6. QED
    BY <1>1, <2>3, <2>4, <2>5, QuietKeeps
<1>3. CASE Goto(t, "check")
  BY <1>1, <1>3, GotoInCall, QuietKeeps DEF UseSteps
<1>4. QED
  BY <1>2, <1>3 DEF Relook

LEMMA UseStep ==
    ASSUME IInv, NEW t \in Threads, Use(t)
    PROVE  IInv'
<1> DEFINE i == op[t].inner
<1>1. op[t] \in Using /\ UNCHANGED <<disk, excl, m_openFiles>>
  BY HandleWhenUsing DEF Use, Touch, At, IInv, UseSteps
<1>2. PICK fails \in BOOLEAN :
        /\ fails => obj[i].kind \in {"file", "null"}
        /\ obj' = [obj EXCEPT ![i].err = obj[i].err \/ fails]
        /\ \/ op[t].items > 1 /\ op' = [op EXCEPT ![t].items = @ - 1]
           \/ Return(t)
           \/ Goto(t, "check")
  BY DEF Use
<1>3. i \in Objects /\ obj[i] \in ObjectRecords
  BY <1>1 DEF Using, IInv, TypesOK
<1>4. (obj[i].err \/ fails) \in BOOLEAN
  OBVIOUS
<1>5. ~Live(i) => (obj[i].err \/ fails) = FALSE
  <2>1. ~Live(i) => obj[i] = NoObject
    BY <1>3 DEF IInv, FreedOK
  <2>2. NoObject.err = FALSE
    BY DEF NoObject
  <2>3. QED
    BY <1>2, <2>1, <2>2 DEF Live
<1>6. PICK x \in {Out} \cup Using :
        /\ op' = [op EXCEPT ![t] = x]
        /\ x \in Using /\ ~x.closed => m_openFiles[x.handle] = x.file /\ x.inner = x.file
  <2>1. CASE op' = [op EXCEPT ![t].items = @ - 1]
    <3> DEFINE x == [op[t] EXCEPT !.items = @ - 1]
    <3>1. /\ x \in Using /\ x.closed = op[t].closed /\ x.handle = op[t].handle
          /\ x.file = op[t].file /\ x.inner = op[t].inner
      BY <1>1 DEF Using
    <3>2. op' = [op EXCEPT ![t] = x]
      BY <2>1 DEF IInv, TypesOK
    <3> HIDE DEF x
    <3>3. QED
      BY <1>1, <3>1, <3>2, SameFile
  <2>2. CASE Return(t)
    BY <2>2, ReturnIsOut
  <2>3. CASE Goto(t, "check")
    BY <1>1, <2>3, GotoInCall DEF UseSteps
  <2>4. QED
    BY <1>2, <2>1, <2>2, <2>3
<1>7. QED
  BY <1>1, <1>2, <1>3, <1>4, <1>5, <1>6, QuietKeeps

LEMMA CheckStep ==
    ASSUME IInv, NEW t \in Threads, Check(t)
    PROVE  IInv'
<1>1. UNCHANGED <<disk, excl, m_openFiles, obj>> /\ Return(t)
  BY DEF Check, Touch
<1>2. QED
  BY <1>1, ReturnIsOut, QuietKeeps

-----------------------------------------------------------------------------
LEMMA InitIInv == Init => IInv
<1> SUFFICES ASSUME Init PROVE IInv
  OBVIOUS
<1>1. NoObject \in ObjectRecords /\ NoObject.kind = "none"
  BY DEF NoObject, ObjectRecords, Kinds
<1>2. Out.step = "out"
  BY DEF Out
<1>3. TypesOK
  BY <1>1 DEF Init, TypesOK
<1>4. FreedOK /\ TableOK
  BY <1>1 DEF Init, FreedOK, TableOK, Live
<1>5. ExclOK
  BY DEF Init, ExclOK, SecondExclTruncates
<1>6. AddOK /\ CallOK
  BY <1>2 DEF Init, AddOK, CallOK, UseSteps
<1>7. QED
  BY <1>3, <1>4, <1>5, <1>6 DEF IInv

LEMMA NextIInv == IInv /\ [Next]_vars => IInv'
<1> SUFFICES ASSUME IInv, [Next]_vars PROVE IInv'
  OBVIOUS
<1>1. CASE UNCHANGED vars
  <2>1. ExclOK'
    BY <1>1, NoNewCreate DEF vars
  <2>2. QED
    BY <1>1, <2>1 DEF vars, IInv, TypesOK, FreedOK, TableOK, AddOK, CallOK, Live
<1>2. ASSUME NEW t \in Threads, Advance(t) PROVE IInv'
  BY <1>2, CreateFileStep, AddStep, GuestStep, SeekStep, RelookStep, UseStep, CheckStep DEF Advance
<1>3. ASSUME NEW t \in Threads, NEW n \in Names, NEW f \in OpenFlags, OpenLook(t, n, f) PROVE IInv'
  BY <1>3, OpenLookStep
<1>4. ASSUME NEW t \in Threads, NEW kind \in Others, OpenOther(t, kind) PROVE IInv'
  BY <1>4, OpenOtherStep
<1>5. ASSUME NEW t \in Threads, NEW h \in Handles, Close(t, h) PROVE IInv'
  BY <1>5, CloseStep
<1>6. ASSUME NEW t \in Threads,
             \/ \E n \in Names : Unlink(t, n)
             \/ \E from, to \in Names : Rename(t, from, to)
      PROVE IInv'
  BY <1>6, DiskStep
<1>7. ASSUME NEW t \in Threads, NEW h \in Handles, NEW call \in Calls, NEW items \in 1..MaxItems,
             Lookup(t, h, call, items)
      PROVE IInv'
  BY <1>7, LookupStep
<1>8. QED
  BY <1>1, <1>2, <1>3, <1>4, <1>5, <1>6, <1>7 DEF Next

\* accessFile's pointer, used without the lock, stays that of the handle's live file,
\* for any threads and calls, until somebody closes this very handle.
THEOREM CallsUseTheirFile == Spec => []UsesItsFile
<1>1. Spec => []IInv
  BY InitIInv, NextIInv, PTL DEF Spec
<1>2. QED
  BY <1>1, IInvImplies, PTL

\* However many threads pass the check that a file does not exist, all but the first need
\* O_TRUNC to get it, and each gets it once while it is there.
THEOREM SecondExclusiveOpen == Spec => []SecondExclTruncates
<1>1. Spec => []IInv
  BY InitIInv, NextIInv, PTL DEF Spec
<1>2. QED
  BY <1>1, IInvImplies, PTL

-----------------------------------------------------------------------------
(* The names of the files that are open.                                    *)

\* Files that were open before the step, and no others, are open after it, with the
\* names and modes they had, and the disk keeps those names.
LEMMA KeepsFiles ==
    ASSUME OpenFilesStay,
           \A i \in Objects : obj'[i].kind = "file" =>
                obj[i].kind = "file" /\ obj'[i].name = obj[i].name /\ obj'[i].mode = obj[i].mode,
           \A i \in Objects : obj[i].kind = "file" => obj[i].name \in disk'
    PROVE  OpenFilesStay'
<1>1. ASSUME NEW i \in Objects, obj'[i].kind = "file" PROVE obj'[i].name \in disk'
  BY <1>1
<1>2. ASSUME NEW i \in Objects, NEW j \in Objects \ {i}, obj'[i].kind = "file", obj'[j].kind = "file",
             obj'[j].name = obj'[i].name
      PROVE  obj'[j].mode = obj'[i].mode /\ obj'[i].mode # "none"
  BY <1>2 DEF OpenFilesStay
<1>3. QED
  BY <1>1, <1>2 DEF OpenFilesStay

\* A step that leaves the disk alone and enters no file.
LEMMA NoNewFile ==
    ASSUME IInv, OpenFilesStay, UNCHANGED disk,
           \/ UNCHANGED obj
           \/ \E i \in Objects : obj' = [obj EXCEPT ![i] = NoObject]
           \/ \E i \in Objects, b \in BOOLEAN : obj' = [obj EXCEPT ![i].err = b]
           \/ \E i \in Objects, kind \in Kinds \ {"file"}, name \in Names0, mode \in Modes :
                obj' = [obj EXCEPT ![i] = [kind |-> kind, name |-> name, mode |-> mode, err |-> FALSE]]
    PROVE  OpenFilesStay'
<1>1. \A i \in Objects : obj[i] \in ObjectRecords
  BY DEF IInv, TypesOK
<1>2. NoObject.kind # "file"
  BY DEF NoObject
<1>3. \A i \in Objects : obj'[i].kind = "file" =>
            obj[i].kind = "file" /\ obj'[i].name = obj[i].name /\ obj'[i].mode = obj[i].mode
  <2>1. ASSUME NEW i \in Objects, NEW b \in BOOLEAN, obj' = [obj EXCEPT ![i].err = b]
        PROVE  \A j \in Objects : /\ obj'[j].kind = obj[j].kind /\ obj'[j].name = obj[j].name
                                  /\ obj'[j].mode = obj[j].mode
    BY <1>1, <2>1 DEF IInv, TypesOK, ObjectRecords
  <2>2. ASSUME NEW i \in Objects, NEW o, o.kind # "file", obj' = [obj EXCEPT ![i] = o]
        PROVE  \A j \in Objects : obj'[j].kind = "file" => obj'[j] = obj[j]
    BY <2>2 DEF IInv, TypesOK
  <2>3. ASSUME NEW i \in Objects, NEW kind \in Kinds \ {"file"}, NEW name \in Names0, NEW mode \in Modes,
               obj' = [obj EXCEPT ![i] = [kind |-> kind, name |-> name, mode |-> mode, err |-> FALSE]]
        PROVE  \A j \in Objects : obj'[j].kind = "file" => obj'[j] = obj[j]
    BY <2>2, <2>3
  <2>4. QED
    BY <1>2, <2>1, <2>2, <2>3
<1>4. QED
  BY <1>3, KeepsFiles DEF OpenFilesStay

\* The host opens the file: it is there from now on, and shared with those that have
\* its mode.
LEMMA CreateKeeps == ASSUME IInv, OpenFilesStay, NEW t \in Threads, CreateFile(t) PROVE OpenFilesStay'
<1> DEFINE n == op[t].name  f == op[t].flags
<1>1. n \in Names0 /\ f \in Flag /\ Share(f) \in Modes
  BY HandleWhenUsing DEF CreateFile, At, IInv, Creating, Flag, Share, Names0, Modes
<1>2. CASE Shared(n, f) /\ Make(t, "file", n, Share(f)) /\ disk' = disk \cup {n}
  <2>1. PICK i \in Objects :
            obj' = [obj EXCEPT ![i] = [kind |-> "file", name |-> n, mode |-> Share(f), err |-> FALSE]]
    BY <1>2 DEF Make
  <2>2. /\ obj'[i].name = n /\ obj'[i].mode = Share(f)
        /\ \A j \in Objects : j # i => obj'[j] = obj[j]
    BY <2>1 DEF IInv, TypesOK
  <2>3. \A j \in Objects : j # i /\ obj[j].kind = "file" /\ obj[j].name = n =>
            obj[j].mode = Share(f) /\ Share(f) # "none"
    BY <1>1, <1>2 DEF Shared, Share, Flag
  <2> HIDE DEF n, f
  <2>4. \A j \in Objects : obj'[j].kind = "file" => obj'[j].name \in disk'
    BY <1>2, <2>2 DEF OpenFilesStay
  <2>5. ASSUME NEW j \in Objects, NEW k \in Objects \ {j}, obj'[j].kind = "file", obj'[k].kind = "file",
               obj'[k].name = obj'[j].name
        PROVE  obj'[k].mode = obj'[j].mode /\ obj'[j].mode # "none"
    BY <2>2, <2>3, <2>5 DEF OpenFilesStay
  <2>6. QED
    BY <2>4, <2>5 DEF OpenFilesStay
<1>3. CASE UNCHANGED <<disk, obj>>
  BY <1>3, NoNewFile
<1>4. CASE Make(t, "null", n, Share(f)) /\ UNCHANGED disk
  <2>1. PICK i \in Objects :
            obj' = [obj EXCEPT ![i] = [kind |-> "null", name |-> n, mode |-> Share(f), err |-> FALSE]]
    BY <1>4 DEF Make
  <2>2. "null" \in Kinds \ {"file"}
    BY DEF Kinds
  <2> HIDE DEF n, f
  <2>3. QED
    BY <1>1, <1>4, <2>1, <2>2, NoNewFile
<1>5. QED
  BY <1>2, <1>3, <1>4 DEF CreateFile

LEMMA FilesInit == Init => OpenFilesStay
<1>1. NoObject.kind # "file"
  BY DEF NoObject
<1>2. Init => \A i \in Objects : obj[i] = NoObject
  BY DEF Init
<1>3. QED
  BY <1>1, <1>2 DEF OpenFilesStay

LEMMA FilesNext == ASSUME IInv, OpenFilesStay, [Next]_vars PROVE OpenFilesStay'
<1>1. CASE UNCHANGED vars
  BY <1>1, NoNewFile DEF vars
<1>2. ASSUME NEW t \in Threads, \/ Add(t) \/ EntryCalls(t) \/ EntryEnds(t) \/ Relook(t) \/ Check(t)
                                  \/ Unload(t) \/ UnloadLinks(t) \/ UnloadCalls(t)
      PROVE  OpenFilesStay'
  BY <1>2, NoNewFile DEF Add, EntryCalls, EntryEnds, Unload, UnloadLinks, UnloadCalls, Relook, Check, Touch
<1>3. ASSUME NEW t \in Threads, Seek(t) \/ Use(t) PROVE OpenFilesStay'
  <2>1. op[t].file \in Objects /\ op[t].inner \in Objects /\ UNCHANGED disk
    BY <1>3, HandleWhenUsing DEF Seek, Use, Touch, At, IInv, Using, UseSteps
  <2>2. \A i \in Objects : obj[i].err \in BOOLEAN
    BY DEF IInv, TypesOK, ObjectRecords
  <2>3. \E i \in Objects, b \in BOOLEAN : obj' = [obj EXCEPT ![i].err = b]
    BY <1>3, <2>1, <2>2 DEF Seek, Use
  <2>4. QED
    BY <2>1, <2>3, NoNewFile
<1>4. ASSUME NEW t \in Threads, NEW n \in Names, NEW f \in OpenFlags, OpenLook(t, n, f)
      PROVE  OpenFilesStay'
  BY <1>4, NoNewFile DEF OpenLook
<1>5. ASSUME NEW t \in Threads, NEW kind \in Others, OpenOther(t, kind) PROVE OpenFilesStay'
  <2>1. kind \in Kinds \ {"file"} /\ "" \in Names0 /\ "" \in Modes
    BY FilesAssumption DEF Kinds, Names0, Modes
  <2>2. PICK i \in Objects : obj' = [obj EXCEPT ![i] = [kind |-> kind, name |-> "", mode |-> "", err |-> FALSE]]
    BY <1>5 DEF OpenOther, Make
  <2>3. UNCHANGED disk
    BY <1>5 DEF OpenOther
  <2>4. QED
    BY <2>1, <2>2, <2>3, NoNewFile
<1>6. ASSUME NEW t \in Threads, NEW h \in Handles, Close(t, h) PROVE OpenFilesStay'
  <2>1. m_openFiles[h] \in Objects
    BY <1>6 DEF Close, IInv, TypesOK
  <2>2. QED
    BY <1>6, <2>1, NoNewFile DEF Close, Frees
<1>7. ASSUME NEW t \in Threads, NEW n \in Names, Unlink(t, n) PROVE OpenFilesStay'
  <2>1. UNCHANGED obj
    BY <1>7 DEF Unlink
  <2>2. CASE IsOpen(n)
    <3>1. UNCHANGED disk
      BY <1>7, <2>2 DEF Unlink
    <3>2. QED
      BY <2>1, <3>1, NoNewFile
  <2>3. CASE ~IsOpen(n)
    <3>1. disk' = disk \ {n}
      BY <1>7, <2>3 DEF Unlink
    <3>2. \A i \in Objects : obj[i].kind = "file" => obj[i].name \in disk'
      BY <2>3, <3>1 DEF OpenFilesStay, IsOpen
    <3>3. QED
      BY <2>1, <3>2, KeepsFiles
  <2>4. QED
    BY <2>1, <2>2, <2>3
<1>8. ASSUME NEW t \in Threads, NEW from \in Names, NEW to \in Names, Rename(t, from, to)
      PROVE  OpenFilesStay'
  <2>1. UNCHANGED obj /\ ~IsOpen(from) /\ disk' = (disk \ {from}) \cup {to}
    BY <1>8 DEF Rename
  <2>2. \A i \in Objects : obj[i].kind = "file" => obj[i].name \in disk'
    BY <2>1 DEF OpenFilesStay, IsOpen
  <2>3. QED
    BY <2>1, <2>2, KeepsFiles
<1>9. ASSUME NEW t \in Threads, NEW h \in Handles, NEW call \in Calls, NEW items \in 1..MaxItems,
             Lookup(t, h, call, items)
      PROVE  OpenFilesStay'
  BY <1>9, NoNewFile DEF Lookup
<1>10. ASSUME NEW t \in Threads, Advance(t) PROVE OpenFilesStay'
  BY <1>2, <1>3, <1>10, CreateKeeps DEF Advance
<1>11. QED
  BY <1>1, <1>4, <1>5, <1>6, <1>7, <1>8, <1>9, <1>10 DEF Next

\* A file that some thread has open is not unlinked, renamed or opened in another mode,
\* whoever checked what before: the host's sharing modes see to it.
THEOREM OpenFilesAreKept == Spec => []OpenFilesStay
<1>1. IInv /\ OpenFilesStay /\ [Next]_vars => OpenFilesStay'
  BY FilesNext
<1>2. QED
  BY <1>1, InitIInv, NextIInv, FilesInit, PTL DEF Spec
=============================================================================
