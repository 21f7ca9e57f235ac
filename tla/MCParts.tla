------------------------------ MODULE MCParts ------------------------------
(***************************************************************************)
(* Small instances for the model checker of the parts of the library that  *)
(* have a model of their own and share no state with each other: the       *)
(* initial state says which part a behaviour is about, the variables of    *)
(* the others stay at "none", or as they start for Pages, whose invariants *)
(* are checked here as that module states them.  Each part has the bounds  *)
(* and the fairness that it has alone.                                     *)
(***************************************************************************)
EXTENDS Pages, TLC

CONSTANTS
  \* C8CommitLog
  Objects, Values, MAX_LOG, OVERTAKING,
  \* Hashtable
  Segments, INITIAL_HASHTABLE_SIZE, NB_ENTRIES, NB_TABLES, ALLOCATION_COLLECTS, v,
  \* LargeMalloc
  Arenas, Requests,
  \* LockElision
  Threads, t1, t2, A, B, Ids, GIL_RETRY_MAX, TRANSIENT_RETRY_MAX,
  \* Containers
  Kinds, Addrs, Items, TREE_BITS, TREE_DEPTH_MAX, MAX_ALLOC, LIST_INITIAL,
  LIST_EXTRA, MAX_ITEMS, FX_ENTRIES,
  \* Restart
  Keys, Numbers, Roots, MAX_FRAMES, MAX_RESTARTS

VARIABLES
  part,   \* the part that this behaviour is about
  tables, table, entries, additions, hobj, code, op, marks, mods,  \* Hashtable
  chunks, last_chunk, largebins, live,  \* LargeMalloc
  lib, gil_heap, _stm_gil, th, saved, undo, seen,  \* LockElision
  kind, box, spec,  \* Containers
  stack, rjthread, status, callbacks_on_commit_and_abort, started, asked,
  called,  \* Restart
  log_pc, goal, transaction_state, last, todo, needs_abort, read, obj,
  bk_obj, modified, backup, pages, pages_privatized, privatizer, log,
  inevitable, snapshots, first_seen  \* C8CommitLog

hashtable_vars ==
  <<tables, table, entries, additions, hobj, code, op, marks, mods>>
malloc_vars ==
  <<chunks, last_chunk, largebins, live>>
elision_vars ==
  <<lib, gil_heap, _stm_gil, th, saved, undo, seen>>
containers_vars ==
  <<kind, box, spec>>
restart_vars ==
  <<stack, rjthread, status, callbacks_on_commit_and_abort, started, asked,
    called>>
log_vars ==
  <<log_pc, goal, transaction_state, last, todo, needs_abort, read, obj,
    bk_obj, modified, backup, pages, pages_privatized, privatizer, log,
    inevitable, snapshots, first_seen>>
parts_vars ==
  <<part, vars, hashtable_vars, malloc_vars, elision_vars, containers_vars,
    restart_vars, log_vars>>

-----------------------------------------------------------------------------
(* What the programs do.                                                   *)

\* An array of two cells in two pages, an object that shares the second one,
\* and one that shares the third with that.
MCLayout == "arr" :> <<1, 2>> @@ "n" :> <<2, 3>> @@ "far" :> <<3>>

Get(k) == <<"read", k>>
Put(k) == <<"write", k, v>>
Clear(k) == <<"write", k, NULL>>
Commit == <<"commit">>
Abort == <<"abort">>
Minor == <<"minor">>
Major == <<"major">>
\* The indexes 0, 2 and 8 have the same place in a table of two.
HashtablePrograms == {
  << <<Put(0), Put(2), Commit, Get(8), Commit>>,
     <<Put(8), Get(2), Get(0), Commit>> >>,
  << <<Get(0), Get(2), Major, Put(0), Commit>>,
     <<Put(2), Commit, Clear(2), Commit, Get(8), Major, Commit>> >>,
  << <<Put(0), Get(2), Minor, Put(8), Commit, Get(2)>>,
     <<Get(0), Get(2), Abort, Put(8), Commit>> >>,
  << <<Get(8), Get(0), Abort, Put(2), Major, Commit>>,
     <<Put(0), Commit, Major, Put(8), Commit>> >> }

New == <<"new">>
Big == <<"big">>
Weak == <<"weakref">>
Pop == <<"pop">>
Set(o) == <<"write", o>>
LockPrograms == {(t1 :> both[1]) @@ (t2 :> both[2]) : both \in {
  << << <<New, Set(A), Set(B), Pop>> >>,
     << <<Get(A), Get(B)>>, <<Get(A)>> >> >>,
  << << <<New, Set(A), New, Set(NULL), Pop, Pop>>, <<New, Set(B)>> >>,
     << <<Get(A), New, Set(B)>> >> >>,
  << << <<New, Weak, Set(A), Pop, Pop>>, <<Get(A), New>> >>,
     << <<Get(A)>> >> >>,
  << << <<New, Weak, Set(A), Pop, Set(B), Pop>> >>,
     << <<Big, New, Set(NULL), New, Pop, Pop, Set(B)>> >> >> }}

-----------------------------------------------------------------------------
HashtablePart == INSTANCE Hashtable WITH
  Programs <- HashtablePrograms, Segs <- Segments
MallocPart == INSTANCE LargeMalloc
ElisionPart == INSTANCE LockElision WITH
  Programs <- LockPrograms, Prebuilt <- {A, B}, heap <- gil_heap
ContainersPart == INSTANCE Containers
RestartPart == INSTANCE Restart WITH Values <- Numbers
LogPart == INSTANCE C8CommitLog WITH pc <- log_pc, seen <- first_seen

NoHashtable ==
  /\ tables = "none" /\ table = "none" /\ entries = "none"
  /\ additions = "none" /\ hobj = "none" /\ code = "none" /\ op = "none"
  /\ marks = "none" /\ mods = "none"
NoMalloc ==
  /\ chunks = "none" /\ last_chunk = "none" /\ largebins = "none"
  /\ live = "none"
NoElision ==
  /\ lib = "none" /\ gil_heap = "none" /\ _stm_gil = "none" /\ th = "none"
  /\ saved = "none" /\ undo = "none" /\ seen = "none"
NoContainers ==
  /\ kind = "none" /\ box = "none" /\ spec = "none"
NoRestart ==
  /\ stack = "none" /\ rjthread = "none" /\ status = "none"
  /\ callbacks_on_commit_and_abort = "none" /\ started = "none"
  /\ asked = "none" /\ called = "none"
NoLog ==
  /\ log_pc = "none" /\ goal = "none" /\ transaction_state = "none"
  /\ last = "none" /\ todo = "none" /\ needs_abort = "none"
  /\ read = "none" /\ obj = "none" /\ bk_obj = "none" /\ modified = "none"
  /\ backup = "none" /\ pages = "none" /\ pages_privatized = "none"
  /\ privatizer = "none" /\ log = "none" /\ inevitable = "none"
  /\ snapshots = "none" /\ first_seen = "none"

PartsInit ==
  /\ Init
  /\ \/ /\ part = "Pages"
        /\ NoHashtable /\ NoMalloc /\ NoElision
        /\ NoContainers /\ NoRestart /\ NoLog
     \/ /\ part = "Hashtable" /\ HashtablePart!Init
        /\ NoMalloc /\ NoElision /\ NoContainers
        /\ NoRestart /\ NoLog
     \/ /\ part = "LargeMalloc" /\ MallocPart!Init
        /\ NoHashtable /\ NoElision /\ NoContainers
        /\ NoRestart /\ NoLog
     \/ /\ part = "LockElision" /\ ElisionPart!Init
        /\ NoHashtable /\ NoMalloc /\ NoContainers
        /\ NoRestart /\ NoLog
     \/ /\ part = "Containers" /\ ContainersPart!Init
        /\ NoHashtable /\ NoMalloc /\ NoElision
        /\ NoRestart /\ NoLog
     \/ /\ part = "Restart" /\ RestartPart!Init
        /\ NoHashtable /\ NoMalloc /\ NoElision
        /\ NoContainers /\ NoLog
     \/ /\ part = "C8CommitLog" /\ LogPart!Init
        /\ NoHashtable /\ NoMalloc /\ NoElision
        /\ NoContainers /\ NoRestart

OnlyPages ==
  part = "Pages" /\ UNCHANGED
    <<part, hashtable_vars, malloc_vars, elision_vars, containers_vars,
      restart_vars, log_vars>>
OnlyHashtable ==
  part = "Hashtable" /\ UNCHANGED
    <<part, vars, malloc_vars, elision_vars, containers_vars, restart_vars,
      log_vars>>
OnlyMalloc ==
  part = "LargeMalloc" /\ UNCHANGED
    <<part, vars, hashtable_vars, elision_vars, containers_vars,
      restart_vars, log_vars>>
OnlyElision ==
  part = "LockElision" /\ UNCHANGED
    <<part, vars, hashtable_vars, malloc_vars, containers_vars,
      restart_vars, log_vars>>
OnlyContainers ==
  part = "Containers" /\ UNCHANGED
    <<part, vars, hashtable_vars, malloc_vars, elision_vars, restart_vars,
      log_vars>>
OnlyRestart ==
  part = "Restart" /\ UNCHANGED
    <<part, vars, hashtable_vars, malloc_vars, elision_vars,
      containers_vars, log_vars>>
OnlyLog ==
  part = "C8CommitLog" /\ UNCHANGED
    <<part, vars, hashtable_vars, malloc_vars, elision_vars,
      containers_vars, restart_vars>>

\* The bounds of Pages and Containers may stop them.
AtBound == part \in {"Pages", "Containers"} /\ UNCHANGED parts_vars
PartsNext ==
  \/ OnlyPages /\ Next
  \/ OnlyHashtable /\ HashtablePart!Next
  \/ OnlyMalloc /\ MallocPart!Next
  \/ OnlyElision /\ ElisionPart!Next
  \/ OnlyContainers /\ ContainersPart!Next
  \/ OnlyRestart /\ RestartPart!Next
  \/ OnlyLog /\ LogPart!Next
  \/ AtBound

\* The fairness of the parts: part does not change, so the fairness of one of
\* several alternatives is that of the part's own.
Thread(i) == IF i = 1 THEN t1 ELSE t2
Scheduled(i) ==
  \/ OnlyHashtable /\ HashtablePart!Lookup(i)
  \/ OnlyElision /\ ElisionPart!Steps(Thread(i))
  \/ OnlyLog /\ LogPart!Library(i - 1)
GetsItsTurn(i) ==
  \/ OnlyElision /\ ElisionPart!acquire_gil(Thread(i))
  \/ OnlyLog /\ LogPart!StartCommit(i - 1)
PartsSpec ==
  /\ PartsInit /\ [][PartsNext]_parts_vars
  /\ \A i \in {1, 2} : /\ WF_parts_vars(Scheduled(i))
                       /\ SF_parts_vars(GetsItsTurn(i))

-----------------------------------------------------------------------------
(* Properties: SegmentsAgree, LocksMatchLists, MemoryIsAccounted and       *)
(* NoCircularWait of Pages, and those of the other parts.                  *)

\* A lookup finds the one entry of its index, through insertions by others,
\* bigger tables and compaction (c7/stm/hashtable.c).
EntriesStay == part = "Hashtable" => HashtablePart!EntriesStay

\* The tags of the chunks agree with each other and with the callers, and the
\* search of the bins finds a smallest chunk (c7/stm/largemalloc.c).
ArenaIsWhole ==
  part = "LargeMalloc" => MallocPart!BoundariesAgree /\ MallocPart!FindsBestFit

\* Under an elided lock reads are atomic, and the copying of the nursery, also
\* when the hardware undoes it, leaves no reference to what has moved
\* (htm-c7/stmgc.c, gil-c7/stmgc.c).
ElisionIsSafe ==
  part = "LockElision" => ElisionPart!ReadsAreAtomic /\ ElisionPart!NothingDangles

\* Trees are dictionaries, lists are sequences, the read barrier's cache only
\* knows what it was told (c7/stm/list.c, c8/stm/list.c, c4/lists.c).
ContainersHold ==
  part = "Containers" => ContainersPart!TreesAreMaps /\ ContainersPart!ListsAndCaches

\* An abort restores the stacks of the start, and callbacks are called once,
\* those that fit (c7/stm/rewind_setjmp.c, c7/stm/extra.c).
AbortsStartOver ==
  part = "Restart" => RestartPart!AbortsStartOver

\* Nobody tries for ever: lookups that meet the lock or start over end
\* (hashtable.c:195-311), transactions that the hardware undoes end
\* (htm-c7/stmgc.c:62-126), and whoever follows the log gets past the entry of
\* an inevitable transaction (c8/stm/core.c:89-98).
Trying(i) == \/ part = "Hashtable" /\ HashtablePart!LookingUp(i)
             \/ part = "LockElision" /\ ElisionPart!Trying(Thread(i))
             \/ part = "C8CommitLog" /\ LogPart!Validating(i - 1)
RetriesEnd == \A i \in {1, 2} : Trying(i) ~> ~Trying(i)
=============================================================================
