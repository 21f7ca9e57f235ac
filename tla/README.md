# A verification development of stmgc

stmgc is a C library that combines software transactional memory with a garbage
collector.  A program registers its threads, runs all its code in transactions
and reaches objects through read and write barriers; the library runs the
transactions in parallel as if they ran one after the other.  The repository
holds several generations of it (c3, c4, c7, c8) and two replacements with the
same interface (gil-c7, htm-c7).  This directory models c7, the generation with
the complete set of features, part by part: its transactions, the lifetimes of
its objects, its pages, hash tables, allocator, containers and restarts.  It
models the transactions of c8 and those of c4 with their collector, which are
built in two other ways, and the two replacements.  TLC checks the models; TLAPS
proves all that is claimed of the transactions of c7 and c8, of the restarts of c7
and its pages, and of the two replacements, liveness excepted.

## Inventory

What each part keeps, does, and must guarantee.  `PROJECT.json` lists the same
parts with their files and says which are modelled.

| part | state | operations | what makes it correct |
|---|---|---|---|
| c7 transaction core (core.c) | per segment: copies of the objects, read markers and `transaction_read_version`, `modified_old_objects`, `transaction_state`; shared: `write_locks[]` | start, read, write, commit, abort, become inevitable | transactions are opaque, commits atomic, aborts leave no trace |
| c7 synchronization (sync.c) | the global mutex, five condition variables, `safe_point` and `nursery_end` per segment, `pause_signalled`, `globally_unique_transaction` | acquire and release a segment, safe points, stop the world | the stop is a stop, every wait ends, no wakeup is lost |
| c7 contention management (contention.c) | none of its own: decides between two segments | sleep, abort oneself, signal or kill the other | somebody wins, an inevitable transaction always |
| c7 pages (pages.c) | which segment has which page private, `privatization_lock`, `total_allocated` | privatize, re-share, count | every segment sees its own writes and else what was committed |
| c7 nursery (nursery.c) | nursery and overflow objects, young lists | allocate, minor collection | nothing reachable is lost, old objects do not point to dead young ones |
| c7 major collection (gcpage.c, weakref.c) | marks in the reused `write_locks[]`, small-object pages | mark, sweep, reshare | runs stopped, keeps what any segment can see, restores the locks |
| c7 finalizers (finalizer.c) | lists of objects per segment and global, `run_finalizers`, `running_next` | order, run, commit, abort | each finalizer runs, once, in order |
| c7 hash tables (hashtable.c) | a table read without lock, `resize_counter` as a lock | lookup, insert, resize, compact | one entry for an index, counts stay right |
| c7 callbacks (extra.c) | two trees per thread | register, call | called once, by commit or by abort |
| c7 fork (forksupport.c) | the whole memory | copy, clean up in the child | the child has no trace of the other threads |
| c7 largemalloc (largemalloc.c) | one arena of chunks with tags, sorted bins | allocate, free, sweep, resize | the tags tell the truth, a smallest fitting chunk is found |
| c7 rewind_setjmp | frames, copied slices of both stacks | enter and leave frames, setjmp, longjmp | a transaction restarts on the stacks of its start |
| c7 lists and trees (list.c) | arrays, radix trees | insert, delete, loop, compress | sequences and dictionaries |
| c7 hash_id, prebuilt, setup, markers | memory, logs | | see PROJECT.json |
| c8 (commit log) | the log, an entry -1 for an inevitable transaction, backup copies | validate, append | a commit is atomic without stopping the world |
| c4 transactions (et.c, steal.c) | `global_cur_time`, chains of copies, lists of what was read and written, of what was stolen | begin, read and write barriers, steal, validate, commit, abort, become inevitable | one time for all reads, commits in the order of their times |
| c4 coordination (stmsync.c) | a reader-writer lock, `sync_required` | safe points, single-threaded mode, callbacks | a thread alone is alone, and others come back |
| c4 collectors (nursery.c, gcpage.c) | nurseries, stubs, public lists | minor and major collections | chains are shortened, nothing reachable lost, outdated readers abort |
| gil-c7, htm-c7 | one lock; hardware transactions | the same interface, trivially or by lock elision | reads are atomic, what is undone leaves no reference |
| c3 | | | not complete in this repository |

How the parts meet: running code calls the barriers without any lock.  The
write barrier takes `write_locks[]` by compare-and-swap; everything else meets
under the global mutex.  Whoever wants the world to stop writes `NSE_SIGPAUSE`
over the others' `nursery_end`, which makes their next allocation call
`_stm_collectable_safe_point()`.  The contention manager writes
`NSE_SIGABORT` the same way.  Minor and major collections, finalizers and
callbacks are called from the core's commit and abort; the major collection and
the commit both need the stop.

What is hard: three or more threads that wait for each other in five ways
(segments, requests, safe points, ends of transactions, aborts) under one mutex
with separate condition variables; transactions undone by other threads while
they sleep; signals set and removed by many writers; a read version that is
changed outside the mutex and wraps; pages that are copied and remapped while
others push objects to them; tables read without their lock; objects of c4 that
other threads make public behind their owner's back.  The hazards are listed with
their lines in `PROJECT.json`.

## The models

### `AtomicStm`: what is promised

Slots run transactions.  A first read returns the committed contents, writes
stay private, `Commit` is one step that dooms every other transaction that has
read what it changes (and is not possible if one of these is inevitable), and a
transaction may be doomed at any time unless it is inevitable.  This is opacity:
a live transaction never sees two different snapshots.  `StmCore` (c7) and
`C8CommitLog` (c8) both implement it, in opposite ways: c7 makes sure at the
commit that no reader is left and copies the changes everywhere, c8 leaves it to
the readers to find out.

### `StmCore`: the transaction core

| model | code |
|---|---|
| `mutex` | `sync_ctl.global_mutex` |
| `pc`, `call` | where a thread is in the library, and the arguments of its call |
| `woken` | waiters of a condition variable that were signalled and want the mutex back |
| `assoc` | `tl->associated_segment_num` |
| `running_thread`, `safe_point`, `transaction_state` | the fields of the segment (`running_thread` together with `sync_ctl.in_use1`) |
| `older[s]` | the segments whose `unique_start_time` is before that of `s`: the order is all the code uses |
| `nursery_end` | the four values the code distinguishes: `NURSERY_END`, `NSE_SIGPAUSE`, `NSE_SIGCOMMITSOON`, `NSE_SIGABORT` |
| `signal_when_done`, `signalled_to_commit_soon`, `pause_signalled`, `globally_unique` | the flags of the same names |
| `version`, `rm` | `transaction_read_version` and the read markers |
| `mem[i][o]` | the copy of object `o` in segment `i`; copy 0 is the shared one |
| `modified`, `write_locks` | `modified_old_objects` and the lock bytes |
| `seen` | history: what the first read of an object returned; no action depends on it |

An action is one uninterruptible stretch of the code.  A critical section is
cut in several actions only where it loops or waits, and between them the
thread keeps `mutex`; the stretches outside it (`stm_read`, the
compare-and-swap in `TakeWriteLock`, stores, the bump and reset of the read
version) are actions of their own that interleave with everything.  A wait on a
condition variable is two actions: one that gives up the mutex, and one
(`Resume...`) that runs when the thread is in `woken` and the mutex is free.
`cond_signal` wakes up any one waiter, `cond_broadcast` all, and with
`SPURIOUS` a waiter may also wake up unsignalled, as POSIX allows.

Objects are opaque and writes go to whole objects, as in the code (a commit
copies the object); the write barrier reads first, as the code does.  Code
positions that only matter for a property are kept: the read version moves on
after the mutex is released (core.c:354-364), and the start of a transaction
goes through a safe point before that.

Left out: cards, overflow objects and pages, which are in `Pages`.  Reads are of
old objects; young objects are private to a transaction and cannot conflict.

### `C8CommitLog`: the transactions of c8

c8 has no write locks.  A segment writes to its own pages and keeps a backup
copy of each object; a commit appends the list of the written objects to a log
with one compare-and-swap; the other segments follow the log when they start,
commit or become inevitable, copy the objects from the segment that wrote them,
and abort if they had read one.

| model | code |
|---|---|
| `log`, `last[s]` | the linked list of entries, `last_commit_log_entry`; entries that every segment has passed are never looked at again and are left out |
| `inevitable` | the entry -1 at the end of the list, and whose it is |
| `modified[s]`, `backup[s]` | `modified_old_objects`: the objects and their backup copies |
| `pages[i]`, `pages_privatized` | the file pages; a shared page is that of segment 0.  One object stands for a page of its own |
| `privatizer` | who holds all the privatization locks |
| `pc`, `goal` | the place in the code; what a validation is for |
| `todo`, `obj`, `bk_obj`, `needs_abort` | local variables of `stm_validate` and `_stm_write_slowpath` |
| `snapshots`, `seen` | history: committed contents before and after each entry, first reads |

An action is what other threads cannot look into: a stretch under
`modified_objs_lock` is one action, and so is a compare-and-swap with the
decision that follows.  Validation goes object by object, and between the copy
of an object and the look at its read marker (core.c:106-108) others may run.
The refinement maps the commit to the append; a transaction counts as doomed
from the moment an entry it has not yet seen has an object it has read.

`OVERTAKING` says whether a segment may read an entry whose author has not yet
cleared its backup copies.  The code does not prevent it, and it is an error
(see below); `FALSE` is the assumption under which everything else holds, and
means nothing but that between core.c:188 and core.c:422 a thread is not
overtaken.

### `Lifetimes`: collections, finalizers, weak references

When does an object of c7 die, and who is told?  Five lists per thread and two
kinds of collection answer this together, so they are one module.

| model | code |
|---|---|
| `roots`, `saved` | `tl->shadowstack`, and the copy made by rewind_setjmp when the transaction started |
| `heap.place` | where an object is: in the nursery, overflow (survived a collection of its transaction), promoted (by the collection of the commit), old, forgotten by an abort, freed |
| `heap.seg`, `heap.kind`, `heap.ref` | the transaction it belongs to, what it is, what it points to |
| `heap.young_light`, `heap.old_light` | `young_` and `old_objects_with_light_finalizers` |
| `heap.young_weakrefs`, `heap.old_weakrefs` | the lists of the same names |
| `heap.count_non_young` | how many of `objects_with_finalizers` a minor collection need not look at |
| `objs`, `run` | `objects_with_finalizers`, `run_finalizers`: of `g_finalizers` for 0, else of the segment |
| `frame`, `running_next` | the local variables of the `_execute_finalizers` that runs a list, and the pointer to them |
| `lock`, `ret` | the lock of `_invoke_general_finalizers`; where a thread goes on after its local finalizers |
| `heap.calls` | history: how often a finalizer was called.  `calls[NULL]` counts calls with no object |

What a collection does to one segment, and a major collection to all, is a
function of the heap (`minor_collection`, `major_collection`), composed from the
steps in the order of the code: minor collections for the others or the clean-up
of those told to abort, marking, the two passes that order the finalizers, weak
references, light finalizers, sweep.  Since a major collection runs when the
others are at safe points (`StopTheWorld` of the core), it is one action.  The
actions interleave at these safe points: programs, callbacks of finalizers, the
commit before and after its minor collection, other threads' collections, and
aborts.

The code does not cope with three situations, which `NotCoped` names.
`ALLOWED` says which of them a run admits.

- *stale count*: see `lifetimes_stale_count` below.
- *grown list*: while a callback runs, a collection finds more dead objects and
  appends them to the list that is being run.  `_execute_finalizers` moves the
  new ones down (finalizer.c:437), but leaves the length as it is, so their
  copies further up are run as well: with the situation admitted, TLC finds
  `FinalizedOnce` violated.
- *dead at commit*: the major collection of a commit (core.c:850) finds dead
  objects of the committing transaction.  `_commit_finalizers` then extends
  `g_finalizers.run_finalizers`, which may be NULL (finalizer.c:43), and
  `list_extend` follows it.

Callbacks do not commit here.  A local finalizer that did would go round for
ever: `stm_commit_transaction` sees the list, calls `exec_local_finalizers`,
which returns as one is running already, and finds the list again (core.c:832).

Left out: prebuilt objects, references between old objects (their barriers and
conflicts are in `StmCore`), cards, identity hashes, how memory is laid out.

### `C4Stm` and `C4Collect`: the transactions and the collector of c4

c4 gives each transaction a time and each version of an object a copy of its
own.  What other threads see of an object is public; what a thread wrote last
stays its own ("protected") behind a stub, until another thread steals it.

| model | code |
|---|---|
| `heap` | all copies and stubs ("cells"): `h_tid` flags in `tid`, `h_revision` in `rev`, `h_original` in `original` |
| `rev` | what the number means: a time, `stm_private_rev_num` of the owner, a lock, a pointer, a pointer to a stub |
| `own` | whose nursery or whose protected copy it is; for a stub, `STUB_THREAD` |
| `tx[t]` | `struct tx_descriptor`; fields keep their names, `roots` is the stack of the program |
| `pd[t]` | `struct tx_public_descriptor`, with `collection_lock` |
| `global_cur_time` | the same; odd means that somebody is inevitable |
| `rwlock`, `sync_required`, `in_single_thread` | the reader-writer lock of stmsync.c and who is alone |
| `code`, `again` | the program: calls left, and those to be made again after an abort |
| `history`, `seen` | history: committed contents with their times, what a transaction has read first |

Reading follows a chain step by step with other threads in between; a barrier
that meets a stub goes through `stm_steal_stub()` under the owner's lock.  A
commit takes locks, then a time, then validates, then publishes in two halves
(`Commit`, `UpdateChainHeads`), between which others find locked objects.
`sync_required` makes threads give up their share of `rwlock` at safe points;
whoever stops the others (`stm_start_single_thread`, a major collection) makes
transactions abort that cannot go on.  `C4Collect` adds major collections: the
newest public copy is moved back over the original, stubs without a chain go,
lists of what was read are cleaned up.

Left out: weak references, registered integer addresses, the pages of the
allocator and the limits that start a collection, identity hashes, the report on
aborted transactions.  `stm_is_registered` of extra.c always returns 0 and counts
up a reference, so nothing is built on it.

### `Pages`: private pages of c7

| model | code |
|---|---|
| `sys.mem[i][o]` | the bytes of `o` in the file pages of segment `i`; 0 are the shared ones.  A cell is as much of an object as a card covers, its content a bit that each write flips |
| `Layout` | in which page each cell lies |
| `sys.by_segment` | `pages_privatized[]` |
| `privatization_lock`, `lock_growth_large` | the locks of the same names |
| `sys.write_locks`, `sys.cards`, `sys.seg[s]` | lock bytes, card bytes, `modified_old_objects` and the other lists |
| `mapped`, `uninitialized_page_start` | how far `setup_N_pages` has come |
| `sys.total_allocated`, `total_allocated_bound`, `major_collection_requested` | the counter and what it is compared with |
| `sys.number`, `highest_overflow_number` | the number in an object's header that says whose overflow object it is |
| `public`, `committed`, `own`, `ops` | history: what was committed, what each transaction wrote; the number of operations |

`page_privatize` is one action for each lock, for the bit, for each half of the
copy, since other threads write to pages meanwhile.  Commits and collections run
when the others are at safe points (`StopTheWorld` of the core), so what
they do to pages is one step, except that a commit takes locks first.

`forksupport_child` is what the child of a fork does: it has all pages and one
thread, and undoes the transactions of the others.  The parent only makes and
drops the copy.

Left out: conflicts and read markers (`StmCore`), objects in the nursery
(`Lifetimes`), aborts inside the minor collections of a major one.

`MIXED_BARRIERS` says whether a transaction may use both write barriers on the
same array.  They do not go together, see below; `FALSE` is the assumption under
which the rest holds.

### `Hashtable`: c7's hash tables

| model | code |
|---|---|
| `tables` | the chain of `stm_hashtable_table_t` that are not freed, the first one in `hashtable->initial_table` |
| `resize_counter` | a number, the lock (0), or a pointer to the next table |
| `entries` | `stm_hashtable_entry_t`: its index, its object, and how old it is |
| `additions` | `hashtable->additions`: a count since the last compaction and a segment |
| `op[s]` | local variables of `stm_hashtable_lookup` |
| `marks`, `mods` | read markers of entries, and entries the transaction has written |

Each access of a lookup to the table is an action; the lock is a
compare-and-swap.  `ALLOCATION_COLLECTS` says whether the allocation of a new
entry under that lock (hashtable.c:256-262) may run a collection or abort.  The
code does not exclude it; then compaction asserts that the table is not locked
(hashtable.c:344), and an abort leaves it locked for ever.  The run assumes
`FALSE`; with `TRUE` TLC finds `EntriesStay` violated.

### `LargeMalloc`: the arena of large objects

Headers `[prev_size, size]` by address, the bins with their sorted columns and
unsorted rest, and what callers hold.  Operations are `_stm_large_malloc`,
`_stm_large_free`, the sweep, and both directions of
`_stm_largemalloc_resize_arena`.  Resizing has one caller, behind an `abort()`
(gcpage.c:41-49).  The model does not grow an arena by exactly one chunk header
and the smallest chunk (32 bytes), where the code would overwrite its new end
marker.

### `LockElision`: gil-c7 and htm-c7

The two replacements have one collector and one interface.  With `lib = "gil"` a
transaction holds the lock; with `lib = "htm"` it first runs in a hardware
transaction, as long as it is worth trying.  The hardware is external: it undoes
all that a transaction wrote (memory, thread-locals and stack) when another thread
touches what it has read or written, or for no reason at all.  The collector is
not external: it copies the nursery inside the hardware transaction.

### `Containers` and `Restart`

`Containers` is about one container at a time: trees of c7, c8 and c4 (which hash
their keys in different ways), lists, c4's pointer lists and the cache of its read
barrier.  `spec` is what the container ought to hold.

`Restart` is about one thread: frames that it enters and leaves, the copies that
`rewind_setjmp.c` makes of them lazily, and the callbacks that a transaction has
registered.  c7 and c8 have the same two files.  Left out: the frames of PyPy's
JIT, the single `thread_local_obj`, memory cleared at an abort.  A program does not
leave its outermost frame in a transaction that may abort, as `stmgc.h` demands.
Callbacks that register callbacks are not claimed to work: the tree they are
registered in is the one that is then cleared.

### The MC modules

`MCStmCore` and `MCC8CommitLog` add the symmetry of threads, objects and values;
segments are numbers the code compares and scans in order, so they are not
symmetric.  Symmetry is not used with the liveness run.  `MCLifetimes` has the
constraint on the third object.  `MCC4Stm` has the programs that c4's threads run,
`MCPages` a layout.

`MCParts` puts seven parts into one run: `Pages`, `Hashtable`, `LargeMalloc`,
`LockElision`, `Containers`, `Restart` and the progress of `C8CommitLog`.  They share
no state.  The initial state picks one (`part`), the variables of the others stay
"none", and `PartsNext` is the next-state relation of that part; so each is checked
on its own bounds.  `MCParts` extends `Pages`, whose variables stay as they start
while another part runs: the invariants of `Pages` are checked as that module states
them, and they are the formulas that `PagesProofs`, `PagesAgree` and `PagesMemory` prove.  `AtBound` adds a stuttering step for `Pages` and `Containers` only,
which have come to an end when their bounds are used up.

## Runs

| run | instance | shows |
|---|---|---|
| `core_objects` | 2 segments, 2 threads, 2 objects, 2 values, versions 0..1, all calls | `TypeOK`, `LockOwnership`, `Isolation`, `Opacity`, `InevitableIsNeverUndone`, and the refinement `ImplementsAtomicStm` |
| `core_threads` | 2 segments, 3 threads, 1 object, versions 0..2, spurious wakeups, all calls | `InevitableIsSafe`, `PauseRequests`, `NoLostWakeup`, `MarkersBehindVersion`, `StopTheWorld`, `VictimIsRunning` |
| `core_liveness` | `FairSpec`, 2 segments, 2 threads, 1 object, safe points, commits, inevitable transactions | `SignalledAborts`, `SynchronizerProceeds`, `SleepersWakeUp`, `InevitableCommits` |
| `core_stale_markers` | 2 segments, 2 threads, 1 object | violates `ConflictsAreReal` |
| `c8_commit_log` | 2 segments, 2 objects, 2 values, 1 entry not yet seen by both, no overtaking | `AllChangesApplied`, `Opacity`, `InevitableHoldsTheLog`, `PrivateWhenWritten`, and the refinement `ImplementsAtomicStm` |
| `c8_overtaken` | 2 segments, 1 object, overtaking | violates `AllChangesApplied` |
| `lifetimes` | 2 threads, 3 objects of all kinds, nothing of `NotCoped` | `KeptAlive`, `FinalizedOnce`, `WeakrefsFollowTarget`, `OutermostFirst` |
| `lifetimes_stale_count` | 1 thread, 3 objects with finalizers, stale count admitted | violates `KeptAlive` |
| `c4_stm` | 2 or 3 threads, 15 sets of programs, 3 objects, 14 cells, a nursery for one copy | `Opacity`, `Serializable`, `CurrentVersion`, `PointOfNoReturn`, `HeapIsSound` |
| `c4_outdated` | 3 threads, 1 object | violates `Opacity` |
| `parts` | seven instances, see below | `SegmentsAgree`, `LocksMatchLists`, `MemoryIsAccounted`, `NoCircularWait` (pages); `EntriesStay` (hash tables); `ArenaIsWhole`; `ElisionIsSafe`; `ContainersHold`; `AbortsStartOver`; `RetriesEnd` (hash tables, elided locks, c8) |
| `pages_mixed_barriers` | one array, both barriers on it | violates `SegmentsAgree` |

### Why these bounds

Two objects are what a torn snapshot needs: one read before
and one after a commit.  Two values tell contents apart; with one the control is
the same.  Three threads on two segments make a thread wait for a segment while
the other two conflict, and let one thread kill another that sleeps.
`MAX_VERSION` replaces 0xff: with 1 the version wraps at every other
transaction, with 2 a segment has markers of two different older versions.
Nothing else is bounded in the core; the state space is finite because
transactions reuse their segments.  The calls that a run leaves out (`Requests`)
are the ones its question does not involve.

In c8, `MAX_LOG` bounds the entries that not every segment has passed: a commit
waits at the append until there is room, which delays a thread but takes no
choice from it.  With one entry a transaction still meets all orders of
validating, reading, writing and being appended over, since the log gets its
next entry as soon as the slower segment has passed the last; in `parts` there
are two, so that a segment falls behind by more than one.

In `lifetimes`, an object is allocated once and gets its reference once, which
makes the state space finite: an identity stands for one life.  Two objects can
belong to different threads, be linked, or be a weak reference and its target,
and they may die in any of the collections.  A third object comes when the other
threads are outside of transactions and all objects are plain or have regular
finalizers (`Bound`): chains, cycles and forks are what the order of finalizers
is about.  There are no limits on collections, aborts, commits or callbacks.

In `c4_stm`, times only grow, so programs are finite: one or two transactions for
each thread, but all interleavings of all their steps, and any transaction may
abort or be made to and starts over.  The programs were chosen so that each
action happens in several situations: write skew, lost updates, inconsistent
reads, objects that are stolen while their owner writes to them again or gives
up, two threads that steal from the same one, inevitable transactions that stop
others, objects reached only through others, collections in between, a thread
that ends.
A nursery for one copy makes a minor collection necessary at every second
allocation; the stack keeps one copy, so that a collection has something to move
while nothing is found there by accident.  14 cells are enough for all programs
(the actions that need cells wait for them; with fewer, some would stop).

In `parts`:

- pages: two segments, an array of two cells in two pages, an object that shares
  the second, another that shares a third with that; four pages, four operations.
  The array gets cards and is there from the start, the others are allocated.
  Four operations are a write by each side, a collection and a commit, in any
  order; privatization interleaves with all of them.
- hash tables: two segments, four pairs of programs, three entries with indexes
  0, 2 and 8, which collide in a table of two, the smallest initial size in which
  a table gets full.
- allocator: arenas of 16 and 20 units of 16 bytes, requests of 1, 3 and 5, whose
  chunks fall into different bins, split, leave rests and merge.  There is no limit
  on operations.
- lock elision: two threads, four pairs of programs, two retries of each kind.
- containers: trees of up to three levels with one bit for each, so that two keys
  collide on all levels; lists of three items that grow from two; caches of six
  entries.
- restarts: three frames, one restart, one callback key, two values.
- c8 log: one object, two entries, no overtaking.

## Where the code and its documentation disagree

Stale read markers in c7 (`core_stale_markers`).  `stmgc.h:34-36` says that a
read marker equals the version "if and only if the object was read in the current transaction".  Between the mutex
release at core.c:354 and the increment at core.c:362 (and, longer, while the
new transaction waits in its first safe point, core.c:351) the segment counts as
running with the version of the transaction before it.  A commit of another
thread then sees conflicts with reads that the current transaction never made
and aborts it, or sleeps on it.  This costs a retry, never correctness:
`Opacity` and `ImplementsAtomicStm` hold with that behaviour in the model.

A lost change in c8 (`c8_overtaken`).  The comment at the top of `stm_validate`
says that it applies "all changes done by other transactions".  A commit
attaches its entry (core.c:188), and takes `modified_objs_lock` to drop its
backup copies only later (core.c:422).  A transaction that validates in between
follows the entry, finds the backup copy of the object (core.c:52) and copies
that: the contents of before the commit.  Its `last_commit_log_entry` moves past
the entry, so it never sees the change, and a transaction that has read nothing
before goes on with a mixture of old and new contents.

A lost object in c7 (`lifetimes_stale_count`).  `stmgc.h:514-516` promises that
"unreachable objects with finalizers are kept alive".  In a minor collection the
young ones are kept by tracing `objects_with_finalizers` from `count_non_young`
on (nursery.c:448), which is then set to the length of the list.  A major
collection that takes dead objects off the list (finalizer.c:291-345) leaves
`count_non_young` alone.  An object with a finalizer made after that is appended
below the count, and if nothing else leads to it, the next minor collection
frees it although it is in the list.

An outdated read in c4 (`c4_outdated`).  `cleanup_for_thread()` says at
gcpage.c:757 that it makes a transaction abort if what it has read "has a more
recent revision", and recognises that by `h_revision` being a pointer
(gcpage.c:756).  `visit_public()` has just copied the newest public copy over
the original one (`copy_over_original`, gcpage.c:304-352), time included.  If the
original is what the transaction has read, it looks up to date, and the
transaction goes on with outdated contents.  Two threads are not enough: the
newest copy must be public, so a third thread has stolen it.

A lost write in c7 (`pages_mixed_barriers`).  `stmgc.h:198-205` says that
`stm_write_card()` "can be used on any array object" and has "the same purpose
as stm_write() for TM".  A transaction calls `stm_write()` on an array, which
marks no cards; a minor collection sets `GCFLAG_WRITE_BARRIER` again; then
`stm_write_card()` marks the card of another place.  At the commit,
`_card_wise_synchronize_object_now()` takes the marked cards for all that was
written (core.c:583-620).  What `stm_write()` announced stays in the segment that
wrote it.  With `MIXED_BARRIERS = FALSE` (a transaction uses one of the barriers
for an array) `SegmentsAgree` holds, see *Proofs*.

## Fairness

`Fairness` asks for weak fairness of what a thread does inside the library (it
is running code: the scheduler runs it), strong fairness of getting the mutex
(a thread that keeps asking gets it in the end, although others take it in
between; pthread mutexes promise less, but without it nothing at all can be
said), weak fairness of reaching a safe point when one is requested (compiled
code allocates or calls `stm_safe_point()` all the time), and strong fairness of
wanting to commit (transactions end).  Nothing makes a program start, read or
write.

`Lifetimes`, `Pages`, `LargeMalloc`, `Containers`, `Restart` and the c4 modules
state no fairness: their properties say what must not happen.

`RetriesEnd` is about three loops that try again without a bound in the code.  A
lookup in a hash table is running code (weak fairness of `Lookup`).  A thread of
`LockElision` is too, and gets the lock if it asks again and again (strong fairness
of `acquire_gil`); without the count of retries it could be undone for ever.

In c8, weak fairness of the library and strong fairness of wanting to commit are
enough: `RetriesEnd` says that the spin behind an inevitable transaction
(core.c:89-98) ends.  It does not say that a regular transaction commits; others
may be faster again and again.

`InevitableCommits` has an exception that the code really has.  An inevitable
transaction that finds a write lock taken makes its owner abort, waits, and
tries the compare-and-swap again (core.c:178); the next transaction of another
thread may take the lock first, for ever.  The code makes that unlikely by a
sleep ("the transaction very often restarts too quickly", core.c:1087), which is
no guarantee.

## Proofs

All proofs are for any number of segments, threads, objects and values.

`StmCoreProofs`
: `TypeCorrect` (`TypeOK`), `LocksOwned` (`LockOwnership`), `CopiesAgree`
  (`Isolation`).  `TypeOK` is not inductive: a thread in the write barrier must
  have an object to lock and one in contention management a segment to fight
  with, so `CallOK` is added.  `HeapInv` is `LockOwnership /\ Isolation`:
  releasing locks by the list is right only if locks and lists agree, and a
  commit restores isolation only because nobody else has modified the same
  object, which the locks say.

  `InevitableSafe` (`InevitableIsSafe`) is from `CoreInv`: `MutexInv` (a thread is in
  a critical section iff it owns the mutex), `SegmentInv` (threads and segments
  are paired), `OpponentInv` (contention management is against another segment;
  this needs `LockOwnership`, since the write barrier looks the opponent up in
  `write_locks[]`), and `InevitableInv` (what a thread on its way to becoming
  inevitable, or to aborting, checked before it let go of nothing but still
  holds).  The argument: only contention management signals an abort, and it
  never picks an inevitable segment unless the caller is inevitable itself,
  which uniqueness excludes; a thread becomes inevitable in the critical section
  in which it saw no other one and no signal.

  `PauseRequestsMatch` (`PauseRequests`), `WorldStops` (`StopTheWorld`) and
  `VictimRuns` (`VictimIsRunning`), from `StopInv`.  Its parts are `RequestInv` (which
  request a thread can have where), `SafePointInv` (the value of `safe_point` that
  fits the place of the segment's thread), `PauseInv` (`PauseRequests`, and that
  requests have an owner: the thread that synchronizes, or the globally unique
  one), `WorldInv` (while a thread is past the stop, all others are in safe points or
  waiting for the mutex in front of one) and `VictimInv` (the other segment of a
  thread in contention management has a transaction, since only segments that have
  one hold locks).  The difficulty is that many steps write `nursery_end`: a request
  to pause, to commit soon or to abort replaces another, and each step has to leave
  the signals such that `pause_signalled` still tells the truth about all of them.

  `Wakeups` (`NoLostWakeup`) is from `WakeInv`.  A thread that sleeps and was not
  signalled has not missed anything: `SleepersInv` is what it waits for, with
  `SafePointInv` to show that an abort is signalled on the condition variable on
  which the victim sleeps.  For the wait for a free segment this is not enough: two
  segments may become free, and one of two waiters be signalled by each.
  `SegmentFreeInv` counts: there is an injection from the free segments to the
  threads that are about to look for one.

  `Opaque` (`Opacity`), `MarkersBehind` (`MarkersBehindVersion`), `InevitableKeeps`
  (`InevitableIsNeverUndone`), from `OpacityInv`: `MarkerInv` (no marker is ahead of
  its version, except while the wrapped version is reset), `SeenInv` (what this
  transaction has read is marked, what it modifies was read) and `FreshInv` (no abort
  is pending in a segment without transaction).  A commit may overwrite an object
  only after it has looked at all markers, and between the look and the copy
  nothing can be marked because the world is stopped: `StopTheWorld` is the lemma.

  `Implements` (`ImplementsAtomicStm`): one lemma for each kind of step of `AtomicStm`
  that says when a step looks like it, then one for each action of the core.  Start,
  first read, write, commit, doom, inevitability and the end of an abort map to one
  step each, all others to a stutter; `AllInv`, all of the invariants above, is what
  they need.

`C8CommitLogProofs`
: `Inevitables` (`InevitableHoldsTheLog`) and `PrivatePages` (`PrivateWhenWritten`)
  hold whether or not threads are overtaken.  They follow from `BaseInv`: `TypeInv`;
  `StateInv`, which says what a segment's place tells about its transaction and about
  the entry -1 (so that nobody can append beside it); and `PageInv`, that the
  privatization locks have one holder, that what is modified or about to be copied
  is private, and that a shared page has the committed contents.
  `Applied` (`AllChangesApplied`) and `Opaque` (`Opacity`) have the hypothesis
  `OVERTAKING = FALSE`, as their run does; `c8_overtaken` shows that they are false
  without it.  It is used in one place, the step `_update_obj_from()`.  They follow
  from `WorkInv`: `LogInv` (the author of an entry is at that entry or past it, its
  own entry is met before it does anything else) and, for each segment, what its
  place in the validation implies.  The argument: an object that is `Pending` in a
  segment (a later entry has it, or the entry that is being applied has it and it is
  not yet copied) may have outdated contents, and every other object has those of
  the last snapshot.  Copying from the author of an entry gives the last contents
  or else the object is in a later entry, and is therefore still pending.

  `Implements` (`ImplementsAtomicStm`), also for `OVERTAKING = FALSE`, from the
  invariants above and `CheckedInv`: what was read is remembered, and an object
  that was copied and turned out to be read makes its transaction abort.  So an
  append dooms exactly those that have read what it changes, though they find out
  only later.  The attempt showed that the abstract status was defined by a `CASE`
  with overlapping guards (an inevitable segment that clears its backup copies is
  idle already); it is now an `IF` that says so.

`RestartProofs`
: `StartsOver` (`AbortsStartOver`), from `RestartInv`: `TypeOK`, `SliceInv` and
  `CallbacksOnce`.  What an abort restores was copied in slices, at different times,
  and each time only because a frame was about to be left.  `SliceInv` says that
  at every moment the frames below the base of the slices, followed by the slices,
  are the stack of the start, and that the base is a frame that still exists.
  Copying one more slice moves frames from one side to the other.

`ElisionProofs`
: `ElisionSafe` (`ReadsAreAtomic` and `NothingDangles`), from `ElisionInv`.  A
  reference may be to an old object that was there before the transactions that run
  (`Settled`), or to one that its own transaction has written (`Sees`); an old object
  that refers into the nursery or has lost its write barrier is remembered (`Running`),
  so a collection finds all that is in use; nobody else has written what a
  transaction has read (`ReadsHold`).  `Committed` is what makes undoing harmless:
  without what the transactions that run have done, all objects are old, have their
  write barrier, and refer to such objects, so an undone transaction, whose stack is
  as it was at `xbegin()`, finds them all.

  A step first undoes the transactions of others, in one shot with the access that is
  in their way.  `Inv` is therefore about a record of the variables, not about the
  variables: `Undoing` shows it of the state in between, the lemma of the step goes on
  from there, and `OthersGoOn` says once for all steps why the other threads do not
  notice.  The same holds for the collections inside of allocations and commits.
  What is alive was defined by recursion; now it is what is in every set that has the
  roots and what its members refer to (`Reached`), which is the same set.  The
  attempt also showed what the bounded programs hid: that a program takes from
  the shadow stack only what is on it (`Pushed`) is a condition on the caller.

`PagesProofs`
: `LocksInOrder` (`NoCircularWait`), from `LockInv`: a thread that privatizes a page
  holds the locks of segments 1 to n for some n, and one that pushes its overflow
  objects at most its own.  So in any set of waiting threads take the one that
  wants the lock with the greatest number: who holds it does not wait, or waits for
  a greater one.

  `LocksRestored` (`LocksMatchLists`) is from `ListInv`, `FreshInv` and `CommitInv`.
  The major collection writes its marks over the locks and restores from the lists
  those that transactions hold; the sweep clears the rest, but only of objects in
  use.  So all that is reachable must be in use, which is about the steps before: a
  young object is in the lists of one segment only, is not committed and has no
  lock (or a minor collection would free what others see), an object whose memory
  is being allocated is in no list yet, and a committing segment has no young
  objects left.

`PagesOwners`
: What the operations of `Pages` do to the lists, cards, numbers and pages, one lemma
  for each (`StoreEffect`, the minor collections, aborts, commits, the write barrier,
  re-sharing, the sweep), and `BaseInvariant`: each object is committed or belongs to
  one transaction, the number in its header says whose overflow object it is exactly
  as long as it is one, the lists of the barriers hold objects that they may hold,
  and a thread in the middle of an operation has arguments that fit.  `Step` says once
  for each action what it changes; all that follows is proved from that, and does not
  look at the code of the actions again.

`PagesAgree`
: `SegmentsSeeTheirVersions` (`SegmentsAgree`), with the hypothesis
  `~MIXED_BARRIERS`; `pages_mixed_barriers` shows that it is false without.  The
  invariant `AgreeInv` has, beyond `BaseInv`, five parts.

  - `PrivateInv`: every page of an object that a transaction has modified is private
    in its segment, or is one that the thread in the write barrier is still to
    privatize.
  - `GrowthInv`: the pages of all objects in use are mapped, since
    `uninitialized_page_start`, which an allocation looks at without the lock, moves
    only after the pages below it were mapped.
  - `WrittenInv`: in an array that is written through cards each changed cell has a
    marked card, and in one written as a whole the cards are all alike.  This is what
    a commit relies on when it copies only some cells, and the one place where
    `~MIXED_BARRIERS` is needed.
  - `MemInv`: cell by cell, the shared copy of a committed object is its committed
    version; a segment finds its own version of what it has modified or made, and
    the committed one of everything else, in the page that it looks at; objects that
    a commit has pushed already are the same everywhere.
  - `ValuesInv`: versions have the cells of their object.

  The difficult state is a page that became private and is not copied yet.  For its
  cells `MemInv` speaks of what the segment will see: the shared copy, and, once the
  thread has read it, what it has read.  Nothing may write to the shared copy between
  the two.  A commit or a collection does not, since a thread in the barrier is not at
  a safe point; a push of overflow objects does not, since it needs the
  `privatization_lock` of its own segment and a thread that privatizes holds those of
  all segments (`LockInv` of `PagesProofs`); a store of another transaction goes to a
  private page, or to a new object, which nobody else looks at yet.  Proving
  each step by cells, not by objects or pages, is what makes pages that hold parts of
  several objects, and objects that lie in several pages, no special case.

`PagesMemory`
: `MemoryAccounted` (`MemoryIsAccounted`), from `BaseInv`, `PrivateInv` and `MemoryInv`.
  `SizeOf` counts the cells of a set of objects and `PrivateCopies` the pairs of a page
  and a segment that has it for itself.  They are cardinalities, so the lemmas at the
  start (what more or fewer objects, or one more copy, add) need no induction: the
  objects in use stay a finite set, and so do the pairs.  `Accounted`, the first
  part of `MemoryInv`, says that `total_allocated` is the sum.
  What had to be shown is that nothing is subtracted twice or that was never added:
  what a minor collection or an abort throws away was in use and is young in one
  segment only, and a segment whose pages a major collection shares again, or that
  `fork()` left without a thread, had each of them once.

  The other part is about the bound.  `increment_total_allocated()` adds and
  compares in two steps, and between them other threads add, free, and compare as
  well.  `MemoryInv` therefore names the thread on which the request depends: one
  that has added and not yet compared, and whose own sum (`Asking`) is at least the
  total of now; the total grows only by steps that set such a sum.  A collection
  sets the new bound above the total while all other threads are at safe points,
  where none has a comparison pending that was made for the old bound.

The assumptions are `CoreAssumption` (at least one segment, a read version of at
least one bit, `NULL` distinct from threads, objects and values) and
`C8Assumption`, its counterpart for c8.  `PagesAssumption` says that an object is a
sequence of cells in ascending pages, that there are finitely many objects at the
start but one at least, that `GC_MIN` is greater than one cell (or 182% of what is
allocated might not be above it), and that `NULL` is not a list; the theorems of `PagesProofs` only need the hypothesis
that `NB_SEGMENTS` is a number.  `ElisionAssumption` says that `NULL` is no thread,
reference or object, and that no thread is called "old".  `StartsOver` has none.  (The
run `parts` checks the properties of `StartsOver` and `ElisionSafe` under the condition
that it is about `Restart` or `LockElision`.)
Each strengthened invariant was first checked by TLC as an invariant of instances
like those of the runs.

Only model-checked: all properties of `Lifetimes`, `C4Stm` with `C4Collect`,
`Hashtable`, `LargeMalloc` and `Containers`; and all liveness, of c7, c8, `LockElision`
and the rest (fairness and `ENABLED` are out of the provers' reach).
`Containers` uses bit operations and cannot be used from a module with
theorems; what `Reach` of `Lifetimes` computes is induction over data.  `Init` is a
state the library is really in after `stm_setup()`.

## Plan

What the models do not have yet, the most important first.

1. Theorems: of `Hashtable`, that a table has one writer and `EntriesStay`; of
   `LargeMalloc` its invariants; then `C4Stm`.  `KeptAlive` of `Lifetimes` needs that
   `Reach` is closed, which asks for a definition like that of `Reached` in
   `LockElision`.
2. `C4Stm` implements `AtomicStm`: `Opacity` and `Serializable` say it about
   times, a refinement would say it about steps.
3. `Lifetimes` with liveness: a dead object's finalizer is called in the end
   unless transactions abort (after an abort in `_invoke_general_finalizers` it
   never is, since `running_next` keeps its value); runs for *grown list*.
4. Identity hashes with their shadows, prebuilt weak references, weak references
   of c4.
5. The waits of c8 (its sync.c has neither sleeping nor commit-soon) as an instance
   of the core without contention management.

## Not modelled, and why

`bag.c` does not compile; `c3` is not complete, its transactions are missing;
`duhton`, the demos and the tests are programs that use the library; `checkfence`
is the input of another tool; the design study of the hash table is a Python
prototype of what `Hashtable` models.  Markers and profiling write logs only.
Identity hashes, prebuilt objects and the set-up of memory happen before, or
beside, anything concurrent.  Of c4, weak references, registered addresses, pages
and thresholds of the collector, and what inspects aborted transactions.

Some oddities of the code are outside of what the models claim.  c4's
`stm_start_single_thread` leaves `sync_required` at -1 when it aborts: until the
world is stopped the next time, each safe point gives the lock up and takes it
again, and `stm_should_break_transaction` is always true.  `fork_abort_thread` of c7 asserts
that the transactions it undoes are regular, so a fork while another thread is
inevitable stops the child.  In c7, growing the arena subtracts from
`total_allocated` what was never added.  A plain `stm_write()` that comes after
`stm_write_card()` and a minor collection in one transaction does not mark all
cards either (see `pages_mixed_barriers`), and in one and the same cycle it leaves
the array among `old_objects_with_cards` without its flag, which gcpage.c assumes.
