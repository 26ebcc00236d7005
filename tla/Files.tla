-------------------------------- MODULE Files --------------------------------
(***************************************************************************)
(* The table of open files (core/fileManager/fileManager.cpp), the files   *)
(* of the host in it (types/type_file.cpp) and the guest's calls on them   *)
(* (core/kernel/filesystem.cpp).  A call looks its handle up under the     *)
(* table's mutex and then uses the file it got without it.  A program is   *)
(* loaded with the linker's mutex held (core/runtime/runtimeLinker.cpp),   *)
(* and unloaded with the table's.  Contents, positions and the mapping of  *)
(* guest paths to host paths are left out.                                 *)
(***************************************************************************)
EXTENDS Integers, FiniteSets, Sequences

CONSTANTS
    Threads, NoThread,
    Names,          \* the host's file names
    OpenFlags,      \* the flags of open that are used: see Flag
    Calls,          \* the calls on a handle that are used: subset of AllCalls
    Others,         \* what else is put in the table: subset of {"dir", "lib"}
    MaxHandle,      \* bound on the handles (FILE_DESCRIPTOR_MIN..MaxHandle)
    MaxItems,       \* bound on the items of an iovec
    MaxCalls        \* bound on the calls

FILE_DESCRIPTOR_MIN == 3    \* below are stdin, stdout and stderr, which stay
Handles == FILE_DESCRIPTOR_MIN..MaxHandle
Flag == [mode : {"RDONLY", "WRONLY", "RDWR"}, create : BOOLEAN, excl : BOOLEAN, trunc : BOOLEAN,
         exlock : BOOLEAN]
\* Writing calls have the steps of the reading ones, fcntl, ioctl and fsync those of write.
Vectored == {"readv", "preadv"}
Positioned == {"pread", "preadv", "lseek"}
AllCalls == {"read", "write"} \cup Vectored \cup Positioned

ASSUME FilesAssumption ==
    /\ OpenFlags \subseteq Flag /\ Calls \subseteq AllCalls /\ Others \subseteq {"dir", "lib"}
    /\ NoThread \notin Threads /\ MaxHandle \in Nat /\ MaxItems \in Nat \ {0}

VARIABLES
    disk,           \* the names that exist
    m_openFiles,    \* handle -> object, 0 for none
    obj,            \* the objects: [kind, name, mode, err]; "none" when there is none
                    \* (mode: that of the opens a file is shared with, "none" with O_EXLOCK)
    op,             \* per thread, the call it is in
    m_mutext_int,   \* who holds the table's mutex across guest code
    linker,         \* who holds the linker's mutex, to load a program
    excl,           \* history: the exclusive opens that got the file, since its name is there
    calls,
    life

vars == <<disk, m_openFiles, obj, op, m_mutext_int, linker, excl, calls, life>>

\* Enough objects for the table and one more in each thread's hands.
Objects == 1..(Cardinality(Handles) + 2 * Cardinality(Threads))
NoObject == [kind |-> "none", name |-> "", mode |-> "", err |-> FALSE]
Out == [step |-> "out"]

Init ==
    /\ disk \in SUBSET Names
    /\ m_openFiles = [h \in Handles |-> 0]
    /\ obj = [i \in Objects |-> NoObject]
    /\ op = [t \in Threads |-> Out]
    /\ m_mutext_int = NoThread /\ linker = NoThread
    /\ excl = [n \in Names |-> <<>>]
    /\ calls = 0
    /\ life = "running"

Call(t) == life = "running" /\ op[t] = Out /\ calls < MaxCalls /\ calls' = calls + 1
At(t, step) == life = "running" /\ op[t].step = step /\ UNCHANGED calls
Goto(t, step) == op' = [op EXCEPT ![t].step = step]
Return(t) == op' = [op EXCEPT ![t] = Out]
Unlocked == m_mutext_int = NoThread

IsOpen(n) == \E i \in Objects : obj[i].kind = "file" /\ obj[i].name = n
Uses(t) == IF "handle" \in DOMAIN op[t] THEN {op[t].file, op[t].inner}
           ELSE IF op[t].step = "add" THEN {op[t].file} ELSE {}
\* The address of a new object: none that somebody still uses.
Fresh(i) ==
    LET Free == {j \in Objects : obj[j] = NoObject /\ \A t \in Threads : j \notin Uses(t)}
    IN  i \in Free /\ \A j \in Free : i <= j

\* Bound: there is a handle for everybody who is opening.
HandleLeft ==
    Cardinality({h \in Handles : m_openFiles[h] # 0} \cup {t \in Threads : op[t].step \in {"create", "add"}})
        < Cardinality(Handles)

-----------------------------------------------------------------------------
Exclusive(f) == f.create /\ f.excl

\* open of a file: what it checks first.  (EEXIST and ENOENT change nothing.)
OpenLook(t, n, f) ==
    /\ Call(t) /\ HandleLeft
    /\ ~(Exclusive(f) /\ n \in disk)
    /\ ~(f.mode = "RDONLY" /\ n \notin disk)
    /\ op' = [op EXCEPT ![t] = [step |-> "create", name |-> n, flags |-> f]]
    /\ UNCHANGED <<disk, m_openFiles, obj, m_mutext_int, linker, excl, life>>

\* A new object, for Add to enter in the table.
Make(t, kind, name, mode) ==
    \E i \in Objects :
        /\ Fresh(i)
        /\ obj' = [obj EXCEPT ![i] = [kind |-> kind, name |-> name, mode |-> mode, err |-> FALSE]]
        /\ op' = [op EXCEPT ![t] = [step |-> "add", file |-> i]]

\* Mutant of Finds: O_CREAT opens a file that exists (OPEN_ALWAYS).
FindsAlways(n, f) == f.trunc \/ f.create \/ n \in disk

\* CREATE_ALWAYS, CREATE_NEW or OPEN_EXISTING finds what it asks for.
Finds(n, f) ==
    \/ f.trunc
    \/ ~f.trunc /\ f.create /\ n \notin disk
    \/ ~f.trunc /\ ~f.create /\ n \in disk

\* A file is shared with opens of its own mode only, and with none by O_EXLOCK: else
\* EALREADY.
Share(f) == IF f.exlock THEN "none" ELSE f.mode
Shared(n, f) ==
    \A i \in Objects : obj[i].kind = "file" /\ obj[i].name = n => obj[i].mode = f.mode /\ ~f.exlock

\* createType_file.  Where the host does not find the file the object has none, and
\* its error code is Ok.
CreateFile(t) ==
    LET n == op[t].name  f == op[t].flags IN
    /\ At(t, "create")
    /\ \/ Finds(n, f) /\ Shared(n, f) /\ Make(t, "file", n, Share(f))
          /\ disk' = disk \cup {n}
          /\ excl' = IF Exclusive(f) THEN [excl EXCEPT ![n] = Append(@, [by |-> t, trunc |-> f.trunc])]
                                    ELSE excl
       \/ Finds(n, f) /\ ~Shared(n, f) /\ Return(t) /\ UNCHANGED <<disk, obj, excl>>
       \/ ~Finds(n, f) /\ Make(t, "null", n, Share(f)) /\ UNCHANGED <<disk, excl>>
    /\ UNCHANGED <<m_openFiles, m_mutext_int, linker, life>>

\* A directory is opened, or the linker loads a program, with its mutex held.
OpenOther(t, kind) ==
    /\ Call(t) /\ HandleLeft
    /\ IF kind = "lib" THEN linker = NoThread /\ linker' = t ELSE UNCHANGED linker
    /\ Make(t, kind, "", "")
    /\ UNCHANGED <<disk, m_openFiles, m_mutext_int, excl, life>>

\* addFile and addDirIterator: insertItem takes the lowest handle that is free.  The
\* entry of a program is called then: guest code, with the linker's mutex still held.
Add(t) ==
    /\ At(t, "add") /\ Unlocked
    /\ \E h \in Handles :
        /\ m_openFiles[h] = 0 /\ \A g \in Handles : g < h => m_openFiles[g] # 0
        /\ m_openFiles' = [m_openFiles EXCEPT ![h] = op[t].file]
    /\ op' = [op EXCEPT ![t] = IF linker = t THEN [step |-> "entry"] ELSE Out]
    /\ UNCHANGED <<disk, obj, m_mutext_int, linker, excl, life>>

\* The entry uses a file.
EntryCalls(t) ==
    /\ At(t, "entry")
    /\ Goto(t, "entry_call")
    /\ UNCHANGED <<disk, m_openFiles, obj, m_mutext_int, linker, excl, life>>

\* The entry returns, after that call if it made one.
EntryEnds(t) ==
    /\ At(t, "entry") \/ (At(t, "entry_call") /\ Unlocked)
    /\ linker' = NoThread
    /\ Return(t)
    /\ UNCHANGED <<disk, m_openFiles, obj, m_mutext_int, excl, life>>

-----------------------------------------------------------------------------
Frees(t, h, next) ==
    /\ obj' = [obj EXCEPT ![m_openFiles[h]] = NoObject]
    /\ op' = [u \in Threads |->
                IF u = t THEN next
                ELSE IF "handle" \in DOMAIN op[u] /\ op[u].handle = h
                     THEN [op[u] EXCEPT !.closed = TRUE] ELSE op[u]]

\* Mutant of Close: remove clears the slot after the handle's.
CloseNext(t, h) ==
    /\ Call(t) /\ Unlocked /\ h + 1 \in Handles /\ m_openFiles[h + 1] # 0
    /\ m_openFiles' = [m_openFiles EXCEPT ![h + 1] = 0]
    /\ obj' = [obj EXCEPT ![m_openFiles[h + 1]] = NoObject]
    /\ UNCHANGED <<op, disk, m_mutext_int, linker, excl, life>>

\* close of a handle that is open: the object is destroyed with the mutex held, and
\* a program's is stopped there: its destructors are guest code.
Close(t, h) ==
    /\ Call(t) /\ Unlocked /\ m_openFiles[h] # 0
    /\ m_openFiles' = [m_openFiles EXCEPT ![h] = 0]
    /\ IF obj[m_openFiles[h]].kind = "lib"
       THEN m_mutext_int' = t /\ Frees(t, h, [step |-> "unload"])
       ELSE Frees(t, h, Out) /\ UNCHANGED m_mutext_int
    /\ UNCHANGED <<disk, linker, excl, life>>

\* Mutant of Unload: the mutex is left locked.
UnloadLocked(t) ==
    /\ At(t, "unload")
    /\ Return(t)
    /\ UNCHANGED <<disk, m_openFiles, obj, m_mutext_int, linker, excl, life>>

\* The destructors end; those that need the linker's mutex have had it by then.
Unload(t) ==
    /\ At(t, "unload") \/ (At(t, "unload_linker") /\ linker = NoThread)
    /\ m_mutext_int' = NoThread
    /\ Return(t)
    /\ UNCHANGED <<disk, m_openFiles, obj, linker, excl, life>>

\* A destructor asks for something of a thread's own or registers another one: for
\* these the linker locks its mutex.
UnloadLinks(t) ==
    /\ At(t, "unload")
    /\ Goto(t, "unload_linker")
    /\ UNCHANGED <<disk, m_openFiles, obj, m_mutext_int, linker, excl, life>>

\* A destructor opens, closes or uses a file: the thread locks what it holds.
UnloadCalls(t) ==
    /\ At(t, "unload")
    /\ Goto(t, "stuck")
    /\ UNCHANGED <<disk, m_openFiles, obj, m_mutext_int, linker, excl, life>>

\* unlink throws when the file is open: nothing shares its deletion.
Unlink(t, n) ==
    /\ Call(t) /\ n \in disk
    /\ IF IsOpen(n) THEN life' = "crashed" /\ UNCHANGED <<disk, excl>>
       ELSE /\ disk' = disk \ {n} /\ excl' = [excl EXCEPT ![n] = <<>>]
            /\ UNCHANGED life
    /\ UNCHANGED <<m_openFiles, obj, op, m_mutext_int, linker>>

\* rename, which catches what is thrown then.
Rename(t, from, to) ==
    /\ Call(t) /\ from \in disk /\ from # to /\ ~IsOpen(from) /\ ~IsOpen(to)
    /\ disk' = (disk \ {from}) \cup {to}
    /\ excl' = [excl EXCEPT ![from] = <<>>, ![to] = <<>>]
    /\ UNCHANGED <<m_openFiles, obj, op, m_mutext_int, linker, life>>

-----------------------------------------------------------------------------
\* accessFile: not for directories (EBADF; lseek uses the null pointer).
IsFile(h) == m_openFiles[h] # 0 /\ obj[m_openFiles[h]].kind # "dir"

Lookup(t, h, call, items) ==
    /\ Call(t) /\ Unlocked /\ (call \notin Vectored => items = 1)
    /\ \/ /\ IsFile(h)
          /\ op' = [op EXCEPT ![t] =
                [step |-> IF call \in Positioned THEN "seek" ELSE "use", call |-> call, items |-> items,
                 handle |-> h, file |-> m_openFiles[h], inner |-> m_openFiles[h], closed |-> FALSE]]
          /\ UNCHANGED life
       \/ ~IsFile(h) /\ call = "lseek" /\ life' = "crashed" /\ UNCHANGED op
    /\ UNCHANGED <<disk, m_openFiles, obj, m_mutext_int, linker, excl>>

\* The next step of t, with the file i: undefined once the file has been freed.
Touch(t, step, i) ==
    /\ At(t, step)
    /\ life' = IF obj[i] = NoObject THEN "crashed" ELSE life
    /\ UNCHANGED <<disk, m_openFiles, m_mutext_int, linker, excl>>

\* clearError and the seek.
Seek(t) ==
    /\ Touch(t, "seek", op[t].file)
    /\ obj' = [obj EXCEPT ![op[t].file].err = FALSE]
    /\ Goto(t, CASE op[t].call = "pread" -> "use" [] op[t].call = "preadv" -> "relook"
                 [] OTHER -> "check")

\* preadv calls readv, which looks the handle up again.
Relook(t) ==
    /\ At(t, "relook") /\ Unlocked
    /\ IF IsFile(op[t].handle)
       THEN op' = [op EXCEPT ![t].step = "use", ![t].inner = m_openFiles[op[t].handle]]
       ELSE Goto(t, "check")
    /\ UNCHANGED <<disk, m_openFiles, obj, m_mutext_int, linker, excl, life>>

\* A read or a write, which may fail and always does without a file of the host.  A
\* vectored call goes on unless the file has an error, of whichever call.
Use(t) ==
    LET i == op[t].inner IN
    /\ Touch(t, "use", i)
    /\ \E fails \in {b \in BOOLEAN : (obj[i].kind = "null" => b) /\ (b => obj[i].kind \in {"file", "null"})} :
        LET err == obj[i].err \/ fails IN
        /\ obj' = [obj EXCEPT ![i].err = err]
        /\ IF op[t].items > 1 /\ ~err THEN op' = [op EXCEPT ![t].items = @ - 1]
           ELSE IF op[t].call \in {"read", "readv"} THEN Return(t) ELSE Goto(t, "check")

\* getErr of the file that was looked up first.
Check(t) ==
    /\ Touch(t, "check", op[t].file)
    /\ Return(t)
    /\ UNCHANGED obj

Advance(t) ==
    \/ CreateFile(t) \/ Add(t) \/ EntryCalls(t) \/ EntryEnds(t)
    \/ Unload(t) \/ UnloadLinks(t) \/ UnloadCalls(t)
    \/ Seek(t) \/ Relook(t) \/ Use(t) \/ Check(t)

Next == \E t \in Threads :
    \/ Advance(t)
    \/ \E n \in Names, f \in OpenFlags : OpenLook(t, n, f)
    \/ \E kind \in Others : OpenOther(t, kind)
    \/ \E h \in Handles : Close(t, h)
    \/ \E n \in Names : Unlink(t, n)
    \/ \E from, to \in Names : Rename(t, from, to)
    \/ \E h \in Handles, call \in Calls, items \in 1..MaxItems : Lookup(t, h, call, items)

Spec == Init /\ [][Next]_vars
FairSpec == Spec /\ \A t \in Threads : WF_vars(Advance(t))

-----------------------------------------------------------------------------
\* accessFile hands out a pointer without the lock (fileManager.cpp:194): a call goes on
\* with the file its handle named, and that file is there, unless somebody closes this
\* very handle during the call.  Handles are reused at once, so a call that outlives a
\* close may end on another file (preadv), and no other call may be hit by that.
UsesItsFile ==
    \A t \in Threads :
        "handle" \in DOMAIN op[t] /\ ~op[t].closed =>
            /\ obj[op[t].file] # NoObject
            /\ m_openFiles[op[t].handle] = op[t].file
            /\ op[t].inner = op[t].file

\* A file that is open keeps its name and its mode: neither unlink nor rename
\* (filesystem.cpp:323, 468), nor an open in another mode or with O_EXLOCK on either side
\* (type_file.cpp:24, 45), takes it from the threads that have it, though the checks
\* before them hold no lock.
OpenFilesStay ==
    \A i \in Objects : obj[i].kind = "file" =>
        /\ obj[i].name \in disk
        /\ \A j \in Objects \ {i} : obj[j].kind = "file" /\ obj[j].name = obj[i].name
                               => obj[j].mode = obj[i].mode /\ obj[i].mode # "none"

\* The check that a file does not exist (filesystem.cpp:258) and its open are not one:
\* several threads may pass the check with O_CREAT and O_EXCL.  All but the first of them
\* get the file only if they opened with O_TRUNC too (CREATE_ALWAYS, type_file.cpp:38),
\* and nobody gets it twice while its name is there.
SecondExclTruncates ==
    \A n \in Names : \A i, j \in DOMAIN excl[n] : i < j =>
        excl[n][j].trunc /\ excl[n][i].by # excl[n][j].by

\* The destructors of a program that is closed hold the table's mutex and wait for the
\* linker's, which its loader holds while it, or the entry it calls, waits for the table.
LockCycle ==
    \E t, u \in Threads : /\ op[t].step = "unload_linker" /\ linker = u
                          /\ op[u].step \in {"add", "entry_call"}

\* A call that has begun returns, unless the destructors of a program that is closed use
\* a file themselves, or the two mutexes are taken in both orders: then all calls wait.
FileCallsReturn ==
    \A t \in Threads :
        op[t].step # "out" ~>
            \/ op[t].step = "out" \/ life = "crashed"
            \/ LockCycle \/ \E u \in Threads : op[u].step = "stuck"
=============================================================================
