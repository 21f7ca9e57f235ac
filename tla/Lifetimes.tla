----------------------------- MODULE Lifetimes -----------------------------
(***************************************************************************)
(* How long the objects of c7 live: what minor and major collections keep, *)
(* and when light finalizers, regular finalizers and weak references see   *)
(* an object die (c7/stm/finalizer.c, weakref.c, and the parts of          *)
(* nursery.c, gcpage.c and core.c that decide about life and death).       *)
(*                                                                         *)
(* Thread s runs its transactions in segment s.  A collection happens when *)
(* all other threads are at safe points, so library code between two safe  *)
(* points is one action.  Objects have one reference, set while they       *)
(* belong to the transaction that made them; c7 has no conflict about such *)
(* objects.  An object is allocated at most once.  Definitions Faulty* are *)
(* used nowhere: each is the one below it with a plausible bug.            *)
(***************************************************************************)
EXTENDS Naturals, Sequences, FiniteSets, SequencesExt

CONSTANTS
  NB_SEGMENTS,
  Objects,
  NULL,
  Kinds,       \* of the objects that programs allocate
  ALLOWED      \* situations the code does not cope with, see NotCoped

Segs == 1..NB_SEGMENTS
Lists == 0..NB_SEGMENTS      \* 0: g_finalizers, the others: pseg->finalizers

ASSUME LifetimesAssumption ==
  /\ NB_SEGMENTS \in Nat \ {0}
  /\ NULL \notin Objects /\ NULL \notin Segs
  /\ Kinds \subseteq {"plain", "light", "final", "weak"}
  /\ ALLOWED \subseteq {"stale count", "grown list", "dead at commit"}

VARIABLES
  pc,             \* per thread: where it is
  roots, saved,   \* shadow stack, and as it was when the transaction started
  heap,           \* the objects, and the lists of the collectors
  objs,           \* objects_with_finalizers
  run,            \* run_finalizers, or NULL
  running_next,   \* whether the pointer running_next is not NULL
  frame,          \* next and total of the _execute_finalizers that runs a list
  ret,            \* what a thread does after its local finalizers
  lock            \* who is in _invoke_general_finalizers

vars == <<pc, roots, saved, heap, objs, run, running_next, frame, ret, lock>>
finVars == <<objs, run, running_next, frame>>

\* place: unborn, young, overflow (survived a collection of its transaction),
\* promoted (survived the one of the commit), old, garbage (forgotten by an
\* abort), freed.  calls counts the calls of finalizers, light or not.
Init ==
  /\ pc = [s \in Segs |-> "none"]
  /\ roots = [s \in Segs |-> {}]
  /\ saved = [s \in Segs |-> {}]
  /\ heap = [place |-> [o \in Objects |-> "unborn"],
             seg   |-> [o \in Objects |-> 0],
             kind  |-> [o \in Objects |-> "plain"],
             ref   |-> [o \in Objects |-> NULL],
             young_light   |-> [s \in Segs |-> <<>>],
             old_light     |-> [s \in Segs |-> <<>>],
             young_weakrefs |-> [s \in Segs |-> {}],
             old_weakrefs   |-> [s \in Segs |-> {}],
             count_non_young |-> [s \in Segs |-> 0],
             calls |-> [o \in Objects \cup {NULL} |-> 0]]
  /\ objs = [f \in Lists |-> <<>>]
  /\ run = [f \in Lists |-> NULL]
  /\ running_next = [f \in Lists |-> FALSE]
  /\ frame = [f \in Lists |-> NULL]
  /\ ret = [s \in Segs |-> "user"]
  /\ lock = NULL

Goto(s, p) == pc' = [pc EXCEPT ![s] = p]

\* The code does not cope with three situations.  A run excludes those that
\* it does not name in ALLOWED.
\*   stale count: an object with a finalizer is made after a major collection
\*     has shortened objects_with_finalizers, but not count_non_young;
\*   grown list: a list gets longer while its finalizers are being called;
\*   dead at commit: the major collection of a commit finds dead objects of
\*     that transaction while g_finalizers.run_finalizers is NULL, and
\*     list_extend() follows this pointer.
NotCoped(situation, happens) == happens => situation \in ALLOWED
InTransaction(s) == pc[s] \notin {"none", "after", "general"}

\* Everybody else waits in the library or is outside of transactions.
SafePoints == {"none", "after", "general", "user", "aborting", "minor", "commit"}
OthersStopped(s) == \A i \in Segs \ {s} : pc[i] \in SafePoints

-----------------------------------------------------------------------------
(* Reachability, and the finalizers called.                                *)

Strong(h, o) == IF h.kind[o] = "weak" THEN {} ELSE {h.ref[o]} \ {NULL}
Strongs(h, R) == UNION {Strong(h, o) : o \in R}

\* What is reached from R over objects of W only.
Reach(h, R, W) ==
  LET from[T \in SUBSET Objects] ==
        LET more == T \cup (Strongs(h, T) \cap W)
        IN IF more = T THEN T ELSE from[more]
  IN from[R \cap W]

Own(h, s, places) == {o \in Objects : h.place[o] \in places /\ h.seg[o] = s}
Uncommitted == {"young", "overflow", "promoted"}
Place(h, R, p) == [h EXCEPT !.place = [o \in Objects |-> IF o \in R THEN p ELSE @[o]]]
Gone(h, R, p) ==
  [Place(h, R, p) EXCEPT
     !.seg = [o \in Objects |-> IF o \in R THEN 0 ELSE @[o]],
     !.ref = [o \in Objects |-> IF o \in R THEN NULL ELSE @[o]]]
Called(h, R) == [o \in DOMAIN h.calls |-> h.calls[o] + IF o \in R THEN 1 ELSE 0]
Only(list, R) == SelectSeq(list, LAMBDA o : o \in R)

-----------------------------------------------------------------------------
(* _do_minor_collection() in segment s.                                    *)

\* collect_objs_still_young_but_with_finalizers(): those not seen before.
StillYoung(h, fin, s) ==
  ToSet(SubSeq(fin[s], h.count_non_young[s] + 1, Len(fin[s])))

MinorRoots(h, fin, rts, s) ==
  rts[s] \cup StillYoung(h, fin, s) \cup Strongs(h, Own(h, s, Uncommitted \ {"young"}))

\* stm_move_young_weakrefs()
FaultyMinorWeak(h, dead, w) == h.ref[w]
MinorWeak(h, dead, w) == IF h.ref[w] \in dead THEN NULL ELSE h.ref[w]

WeakMoved(h, dead, weak) ==
  [h EXCEPT !.ref = [o \in Objects |-> IF o \in weak THEN MinorWeak(h, dead, o) ELSE @[o]]]

\* With the weak references moved: kept survive to the given place.
MovedOut(h, s, place, kept, dead) ==
  [Gone(Place(h, kept, place), dead, "freed") EXCEPT
     !.young_weakrefs[s] = {},
     !.old_weakrefs[s] = @ \cup {w \in h.young_weakrefs[s] \cap kept : h.ref[w] # NULL},
     !.young_light[s] = <<>>,
     !.old_light[s] = @ \o Only(h.young_light[s], kept),
     !.calls = Called(h, dead \cap ToSet(h.young_light[s]))]

minor_collection(h, fin, rts, s, place) ==
  LET young == Own(h, s, {"young"})
      kept  == Reach(h, MinorRoots(h, fin, rts, s), young)
  IN [MovedOut(WeakMoved(h, young \ kept, h.young_weakrefs[s] \cap kept),
               s, place, kept, young \ kept)
      EXCEPT !.count_non_young[s] = Len(fin[s])]

-----------------------------------------------------------------------------
(* abort_data_structures_from_segment_num(): abort_finalizers() calls the  *)
(* light finalizers of young objects, and of the overflow objects at the   *)
(* tail of their list.  Nothing leads to the objects any more.  Some keep  *)
(* their memory, and their place in old_objects_with_light_finalizers,     *)
(* until the next major collection.                                        *)

OverflowTail(h, s) ==
  LET list == h.old_light[s]
      from == {i \in 1..Len(list) :
                 \A j \in i..Len(list) : list[j] \in Own(h, s, {"overflow"})}
  IN {list[i] : i \in from}

AbortHeap(h, s) ==
  LET tail == OverflowTail(h, s)
  IN [Gone(h, Own(h, s, Uncommitted), "garbage") EXCEPT
       !.young_light[s] = <<>>,
       !.old_light[s] = Only(@, Objects \ tail),
       !.young_weakrefs[s] = {},
       !.count_non_young[s] = 0,
       !.calls = Called(h, ToSet(h.young_light[s]) \cup tail)]

-----------------------------------------------------------------------------
(* major_collection_now_at_safe_point().  st[o] is 3 if o is marked,       *)
(* otherwise the state of o in the search for the order of finalizers: 0,  *)
(* 1 or 2.                                                                 *)

Items(list) == IF list = NULL THEN {} ELSE ToSet(list) \ {NULL}

\* mark_visit_from_roots(), mark_visit_from_finalizer_pending()
FaultyMajorRoots(rts, svd, runs) ==
  UNION ({rts[s] : s \in Segs} \cup {Items(runs[f]) : f \in Lists})
MajorRoots(rts, svd, runs) ==
  UNION ({rts[s] : s \in Segs} \cup {svd[s] : s \in Segs}
         \cup {Items(runs[f]) : f \in Lists})

Raised(st, R, to) == [o \in Objects |-> IF o \in R THEN to ELSE st[o]]
Marked(h, R) == Raised([o \in Objects |-> 0], Reach(h, R, Objects), 3)

\* _recursively_bump_finalization_state()
Bump(h, st, R, to) == Raised(st, Reach(h, R, {o \in Objects : st[o] = to - 1}), to)

\* The lists as one, the segments first: what list and which object.
Entries(fin) ==
  FlattenSeq([i \in 1..(NB_SEGMENTS + 1) |->
    LET f == i % (NB_SEGMENTS + 1) IN [k \in 1..Len(fin[f]) |-> <<f, fin[f][k]>>]])

\* One object of a list in mark_finalize_step1().  It is kept if marked or
\* found from an earlier one.  What is new behind it gets to state 2, through
\* 1; what was found before and is found again, to state 3.
FinalizeNew(h, d, e, new) ==
  [d EXCEPT !.st = Raised(Bump(h, @, Strongs(h, new), 3), new, 2),
            !.marked = Append(@, e)]
Step1(h, d, e) ==
  IF d.st[e[2]] >= 2 THEN [d EXCEPT !.keep[e[1]] = Append(@, e[2])]
  ELSE FinalizeNew(h, d, e, Reach(h, {e[2]}, {o \in Objects : d.st[o] = 0}))

\* One object that was not marked, in mark_finalize_step2(): it is to be
\* finalized if nothing else was found to lead to it.
FaultyStep2(h, d, e) ==
  [d EXCEPT !.st = Bump(h, @, {e[2]}, 3), !.dead[e[1]] = Append(@, e[2])]
Step2(h, d, e) ==
  IF d.st[e[2]] = 2
  THEN [d EXCEPT !.st = Bump(h, @, {e[2]}, 3), !.dead[e[1]] = Append(@, e[2])]
  ELSE [d EXCEPT !.keep[e[1]] = Append(@, e[2])]

mark_finalize_step1(h, d, list) ==
  LET after[i \in 0..Len(list)] ==
        IF i = 0 THEN d ELSE Step1(h, after[i - 1], list[i])
  IN after[Len(list)]

mark_finalize_step2(h, d) ==
  LET after[i \in 0..Len(d.marked)] ==
        IF i = 0 THEN d ELSE Step2(h, after[i - 1], d.marked[i])
  IN after[Len(d.marked)]

\* deal_with_objects_with_finalizers(): the states of the objects, and what
\* each list keeps and which of its objects are dead.
deal_with_objects_with_finalizers(h, st, fin) ==
  mark_finalize_step2(h,
    mark_finalize_step1(h,
      [st |-> st, marked |-> <<>>, keep |-> [f \in Lists |-> <<>>],
       dead |-> [f \in Lists |-> <<>>]],
      Entries(fin)))

\* deal_with_old_objects_with_finalizers(): the light ones that stay listed.
LightStays(list, M) == Only(list, M)

\* stm_visit_old_weakrefs(), deal_with_old_objects_with_finalizers(), and the
\* sweep, with M the marked objects.  Only a collection frees the nursery.
Swept(h, M) ==
  LET weak == UNION {h.old_weakrefs[s] : s \in Segs}
      broken == {w \in weak \cap M : h.ref[w] \notin M}
      light == UNION {ToSet(h.old_light[s]) : s \in Segs}
      gone == {o \in Objects \ M : h.place[o] \in {"overflow", "promoted", "old"}}
      ref == [o \in Objects |-> IF o \in broken THEN NULL ELSE h.ref[o]]
  IN [Gone([h EXCEPT !.ref = ref], gone, "freed") EXCEPT
       !.old_weakrefs = [s \in Segs |-> (@[s] \cap M) \ broken],
       !.old_light = [s \in Segs |-> LightStays(@[s], M)],
       !.calls = Called(h, light \ M)]

FaultyAppended(list, more) == IF more = <<>> THEN list ELSE more
Appended(list, more) ==
  IF more = <<>> THEN list ELSE IF list = NULL THEN more ELSE list \o more

\* One segment in major_do_minor_collections().  A thread of A, which is
\* about to abort, is cleaned up; the others collect.
MajorDoMinor(h, i, A) ==
  IF Own(h, i, {"young"}) = {} THEN h
  ELSE IF i \in A THEN AbortHeap(h, i)
  ELSE minor_collection(h, objs, roots, i, "overflow")
major_do_minor_collections(h, A) ==
  LET after[i \in 0..NB_SEGMENTS] ==
        IF i = 0 THEN h ELSE MajorDoMinor(after[i - 1], i, A)
  IN after[NB_SEGMENTS]

\* Threads that have been told to abort and whose nursery is not empty.
MayBeTold(i) ==
  /\ pc[i] \in {"user", "minor"}
  /\ Own(heap, i, {"young"}) # {}

\* The result of a collection, from the heap h, with the states svd before
\* the transactions.
WithoutFinalized(h, rts, runs, d) ==
  [heap |-> Swept(h, {o \in Objects : d.st[o] = 3}), roots |-> rts, objs |-> d.keep,
   run |-> [f \in Lists |-> Appended(runs[f], d.dead[f])]]
MarkAndSweep(h, rts, svd, runs, fin) ==
  WithoutFinalized(h, rts, runs,
    deal_with_objects_with_finalizers(h, Marked(h, MajorRoots(rts, svd, runs)), fin))
major_collection(h, svd, A) ==
  MarkAndSweep(major_do_minor_collections(h, A),
               [i \in Segs |-> IF i \in A THEN saved[i] ELSE roots[i]], svd,
               [f \in Lists |-> IF f \in A THEN NULL ELSE run[f]],
               [f \in Lists |-> IF f \in A THEN <<>> ELSE objs[f]])

\* A list may only grow while nobody runs it, see MovedDown.
NoRunningListGrows ==
  NotCoped("grown list", \E f \in Lists :
    frame[f] # NULL /\ frame'[f] # NULL /\ Len(run[f]) < Len(run'[f]))

-----------------------------------------------------------------------------
(* What a program does in a transaction.                                   *)

Start(s) ==
  /\ pc[s] = "none"
  /\ saved' = [saved EXCEPT ![s] = roots[s]]
  /\ Goto(s, "user")
  /\ UNCHANGED <<roots, heap, finVars, ret, lock>>

\* stm_allocate(), stm_allocate_weakref(), stm_allocate_with_finalizer()
Allocate(s, o, k, p) ==
  /\ pc[s] = "user"
  /\ heap.place[o] = "unborn"
  /\ IF k = "weak" THEN p \in roots[s] ELSE p = NULL
  /\ k = "final" => NotCoped("stale count", heap.count_non_young[s] > Len(objs[s]))
  /\ heap' = [heap EXCEPT !.place[o] = "young", !.seg[o] = s, !.kind[o] = k,
                          !.ref[o] = p,
                          !.young_weakrefs[s] = IF k = "weak" THEN @ \cup {o} ELSE @]
  /\ objs' = IF k = "final" THEN [objs EXCEPT ![s] = Append(@, o)] ELSE objs
  /\ roots' = [roots EXCEPT ![s] = @ \cup {o}]
  /\ UNCHANGED <<pc, saved, run, running_next, frame, ret, lock>>

stm_enable_light_finalizer(s, o) ==
  /\ pc[s] = "user" /\ o \in roots[s]
  /\ "light" \in Kinds /\ heap.kind[o] = "plain"
  /\ o \in Own(heap, s, {"young", "overflow"})
  /\ heap' = [heap EXCEPT
       !.kind[o] = "light",
       !.young_light[s] = IF heap.place[o] = "young" THEN Append(@, o) ELSE @,
       !.old_light[s] = IF heap.place[o] = "young" THEN @ ELSE Append(@, o)]
  /\ UNCHANGED <<pc, roots, saved, finVars, ret, lock>>

\* A program sets the reference of an object of its transaction, once.
Link(s, o, p) ==
  /\ pc[s] = "user"
  /\ o \in roots[s] /\ p \in roots[s]
  /\ heap.seg[o] = s /\ heap.kind[o] # "weak" /\ heap.ref[o] = NULL
  /\ heap' = [heap EXCEPT !.ref[o] = p]
  /\ UNCHANGED <<pc, roots, saved, finVars, ret, lock>>

Deref(s, o) ==
  /\ pc[s] = "user"
  /\ o \in roots[s] /\ heap.ref[o] \notin roots[s] \cup {NULL}
  /\ roots' = [roots EXCEPT ![s] = @ \cup {heap.ref[o]}]
  /\ UNCHANGED <<pc, saved, heap, finVars, ret, lock>>

Drop(s, o) ==
  /\ pc[s] = "user" /\ o \in roots[s]
  /\ roots' = [roots EXCEPT ![s] = @ \ {o}]
  /\ UNCHANGED <<pc, saved, heap, finVars, ret, lock>>

-----------------------------------------------------------------------------
(* exec_local_finalizers(), when the lists are runs and the threads of A   *)
(* have been cleaned up; "then" is where thread s goes on afterwards.      *)

ExecLocal(s, runs, A, then) ==
  LET enter == runs[s] # NULL /\ ~running_next[s] IN
  /\ running_next' = [f \in Lists |-> f \notin A /\ (running_next[f] \/ (f = s /\ enter))]
  /\ frame' = [f \in Lists |->
                 IF f \in A THEN NULL
                 ELSE IF f = s /\ enter THEN [next |-> 0, total |-> Len(runs[s])]
                 ELSE frame[f]]
  /\ pc' = [i \in Segs |-> IF i \in A THEN "aborting"
                           ELSE IF i # s THEN pc[i]
                           ELSE IF enter THEN "loop" ELSE then]
  /\ ret' = IF enter THEN [ret EXCEPT ![s] = then] ELSE ret

\* stm_collect(0)
MinorCollect(s) ==
  /\ pc[s] = "user"
  /\ heap' = minor_collection(heap, objs, roots, s, "overflow")
  /\ UNCHANGED <<pc, roots, saved, finVars, ret, lock>>

\* stm_collect(1)
MajorCollect(s) ==
  /\ pc[s] = "user" /\ OthersStopped(s)
  /\ \E A \in SUBSET {i \in Segs \ {s} : MayBeTold(i)} :
     \E m \in {major_collection(minor_collection(heap, objs, roots, s, "overflow"), saved, A)} :
       /\ heap' = m.heap /\ roots' = m.roots /\ objs' = m.objs /\ run' = m.run
       /\ ExecLocal(s, m.run, A, "user")
       /\ NoRunningListGrows
  /\ UNCHANGED <<saved, lock>>

\* major_collection_if_requested() when another thread was faster.
AlreadyCollected(s) ==
  /\ pc[s] = "user" /\ run[s] # NULL /\ ~running_next[s]
  /\ ExecLocal(s, run, {}, "user")
  /\ UNCHANGED <<roots, saved, heap, objs, run, lock>>

-----------------------------------------------------------------------------
(* _execute_finalizers() and the calls of stmcb_finalizer().  Callbacks do *)
(* not commit: the code would go round for ever at any_local_finalizers(). *)

Running(s) == IF frame[s] # NULL THEN s ELSE 0
InCallback(s) == frame[s] # NULL \/ (lock = s /\ frame[0] # NULL)

CallFinalizer(s) ==
  LET f == Running(s)
      o == run[f][frame[f].next + 1] IN
  /\ pc[s] = "loop"
  /\ frame[f].next < frame[f].total
  /\ run' = [run EXCEPT ![f][frame[f].next + 1] = NULL]
  /\ frame' = [frame EXCEPT ![f].next = @ + 1]
  /\ heap' = [heap EXCEPT !.calls[o] = @ + 1]
  /\ roots' = [roots EXCEPT ![s] = @ \cup ({o} \ {NULL})]
  /\ Goto(s, "user")
  /\ UNCHANGED <<saved, objs, running_next, ret, lock>>

ReturnFromCallback(s) ==
  /\ pc[s] = "user" /\ InCallback(s)
  /\ Goto(s, "loop")
  /\ UNCHANGED <<roots, saved, heap, finVars, ret, lock>>

\* The list has become longer: memmove() to its start, its count unchanged.
MovedDown(list, total) ==
  [i \in 1..Len(list) |-> IF i <= Len(list) - total THEN list[i + total] ELSE list[i]]

\* All are called.  If the list has become longer, it is run again.
\* Otherwise the thread goes on; the transaction for general finalizers ends.
FinishedAll(s) ==
  LET f == Running(s)
      grown == Len(run[f]) > frame[f].total IN
  /\ pc[s] = "loop"
  /\ frame[f].next = frame[f].total
  /\ run' = [run EXCEPT ![f] = IF grown THEN MovedDown(@, frame[f].total) ELSE NULL]
  /\ frame' = [frame EXCEPT ![f] =
                 IF grown THEN [next |-> 0, total |-> Len(run[f])] ELSE NULL]
  /\ running_next' = [running_next EXCEPT ![f] = grown]
  /\ Goto(s, IF grown THEN "loop" ELSE IF f = s THEN ret[s] ELSE "end")
  /\ ret' = [ret EXCEPT ![s] = IF grown THEN @ ELSE "user"]
  /\ UNCHANGED <<roots, saved, heap, objs, lock>>

-----------------------------------------------------------------------------
(* Commit.                                                                 *)

StartCommit(s) ==
  /\ pc[s] = "end" \/ (pc[s] = "user" /\ ~InCallback(s))
  /\ ExecLocal(s, run, {}, "minor")
  /\ UNCHANGED <<roots, saved, heap, objs, run, lock>>

MinorAtCommit(s) ==
  /\ pc[s] = "minor"
  /\ heap' = minor_collection(heap, objs, roots, s, "promoted")
  /\ Goto(s, "commit")
  /\ UNCHANGED <<roots, saved, finVars, ret, lock>>

\* While s waited, another thread found objects of s that died.
RestartAll(s) ==
  /\ pc[s] = "commit" /\ OthersStopped(s) /\ run[s] # NULL
  /\ ExecLocal(s, run, {}, "minor")
  /\ UNCHANGED <<roots, saved, heap, objs, run, lock>>

NoMajor == [heap |-> heap, roots |-> roots, objs |-> objs, run |-> run]

Committed(h, s) ==
  [Place(h, Own(h, s, Uncommitted), "old") EXCEPT
     !.seg = [o \in Objects |-> IF @[o] = s THEN 0 ELSE @[o]],
     !.count_non_young[s] = 0]

\* The commit itself, with or without a major collection, in which the state
\* before the transaction is forgotten already.  Killed are the threads that
\* were in conflict, as far as the collection cleans them up.
Commit(s) ==
  /\ pc[s] = "commit" /\ OthersStopped(s) /\ run[s] = NULL
  /\ \E A \in SUBSET {i \in Segs \ {s} : MayBeTold(i)} :
     \E m \in {major_collection(heap, [saved EXCEPT ![s] = {}], A)}
              \cup (IF A = {} THEN {NoMajor} ELSE {}) :
       /\ NotCoped("dead at commit", m.run[s] # NULL /\ m.run[0] = NULL)
       /\ heap' = Committed(m.heap, s)
       /\ roots' = m.roots
       /\ objs' = [m.objs EXCEPT ![0] = @ \o m.objs[s], ![s] = <<>>]
       /\ run' = [m.run EXCEPT ![0] = IF m.run[s] = NULL THEN @ ELSE Appended(@, m.run[s]),
                               ![s] = NULL]
       /\ frame' = [f \in Lists |-> IF f \in A THEN NULL ELSE frame[f]]
       /\ running_next' = [f \in Lists |-> f \notin A /\ running_next[f]]
       /\ NoRunningListGrows
       /\ pc' = [i \in Segs |-> IF i \in A THEN "aborting" ELSE IF i = s THEN "after" ELSE pc[i]]
  /\ saved' = [saved EXCEPT ![s] = {}]
  /\ UNCHANGED <<ret, lock>>

-----------------------------------------------------------------------------
(* After a commit: _invoke_general_finalizers().                           *)

Unlock(s) ==
  /\ pc[s] = "after" /\ lock = s
  /\ lock' = NULL
  /\ Goto(s, "none")
  /\ UNCHANGED <<roots, saved, heap, finVars, ret>>

InvokeGeneral(s) ==
  /\ pc[s] = "after" /\ lock # s
  /\ IF run[0] # NULL /\ lock = NULL
     THEN lock' = s /\ Goto(s, "general")
     ELSE lock' = lock /\ Goto(s, "none")
  /\ UNCHANGED <<roots, saved, heap, finVars, ret>>

ExecuteGeneral(s) ==
  /\ pc[s] = "general"
  /\ saved' = [saved EXCEPT ![s] = roots[s]]
  /\ IF run[0] # NULL /\ ~running_next[0]
     THEN /\ running_next' = [running_next EXCEPT ![0] = TRUE]
          /\ frame' = [frame EXCEPT ![0] = [next |-> 0, total |-> Len(run[0])]]
          /\ Goto(s, "loop")
     ELSE /\ Goto(s, "end")
          /\ UNCHANGED <<running_next, frame>>
  /\ UNCHANGED <<roots, heap, objs, run, ret, lock>>

-----------------------------------------------------------------------------
(* An abort, for any reason, of a thread that runs or waits.  The general  *)
(* finalizers start again with a new transaction.                          *)

Abort(s) ==
  /\ pc[s] \in {"user", "aborting", "minor", "commit"}
  /\ heap' = AbortHeap(heap, s)
  /\ roots' = [roots EXCEPT ![s] = saved[s]]
  /\ objs' = [objs EXCEPT ![s] = <<>>]
  /\ run' = [run EXCEPT ![s] = NULL]
  /\ running_next' = [running_next EXCEPT ![s] = FALSE]
  /\ frame' = [f \in Lists |-> IF f = s \/ (f = 0 /\ lock = s) THEN NULL ELSE frame[f]]
  /\ saved' = [saved EXCEPT ![s] = {}]
  /\ ret' = [ret EXCEPT ![s] = "user"]
  /\ Goto(s, IF lock = s THEN "general" ELSE "none")
  /\ UNCHANGED lock

-----------------------------------------------------------------------------
Next == \E s \in Segs :
  \/ Start(s)
  \/ \E o \in Objects :
       \/ \E k \in Kinds \ {"light"}, p \in Objects \cup {NULL} : Allocate(s, o, k, p)
       \/ stm_enable_light_finalizer(s, o)
       \/ \E p \in Objects : Link(s, o, p)
       \/ Deref(s, o) \/ Drop(s, o)
  \/ MinorCollect(s) \/ MajorCollect(s) \/ AlreadyCollected(s)
  \/ CallFinalizer(s) \/ ReturnFromCallback(s) \/ FinishedAll(s)
  \/ StartCommit(s) \/ MinorAtCommit(s) \/ RestartAll(s) \/ Commit(s)
  \/ Unlock(s) \/ InvokeGeneral(s) \/ ExecuteGeneral(s)
  \/ Abort(s)

Spec == Init /\ [][Next]_vars

-----------------------------------------------------------------------------
(* Properties.                                                             *)

Live == Uncommitted \cup {"old"}
Count(list, o) ==
  IF list = NULL THEN 0 ELSE Cardinality({i \in DOMAIN list : list[i] = o})

\* Nothing that a thread, the start of its transaction or a finalizer can
\* still get at has been freed: what the two collectors keep is enough.
KeptAlive ==
  LET from == UNION ({roots[s] \cup saved[s] : s \in Segs}
                     \cup {Items(objs[f]) \cup Items(run[f]) : f \in Lists})
  IN \A o \in Reach(heap, from, Objects) : heap.place[o] \in Live

\* An object with a finalizer waits for it in one list, of its transaction or
\* of g_finalizers, or has been finalized; it is not freed before, and the
\* finalizer is never called twice, and never with NULL.
GeneralOnce ==
  /\ heap.calls[NULL] = 0
  /\ \A o \in Objects : heap.kind[o] = "final" =>
       /\ heap.calls[o] <= 1
       /\ heap.place[o] = "freed" => heap.calls[o] = 1
       /\ \A f \in Lists :
            Count(objs[f], o) + Count(run[f], o) =
              IF heap.place[o] \in Live /\ f = heap.seg[o] THEN 1 - heap.calls[o] ELSE 0

\* A light finalizer is called when its object has died, and once, whoever
\* finds out: a minor or major collection, the abort, or another thread.
LightOnce ==
  \A o \in Objects : heap.kind[o] = "light" =>
    /\ heap.place[o] = "freed" => heap.calls[o] = 1
    /\ heap.place[o] \in Live => heap.calls[o] = 0
    /\ FoldFunctionOnSet(+, heap.calls[o],
         [s \in Segs |-> Count(heap.young_light[s], o) + Count(heap.old_light[s], o)],
         Segs) = 1

\* No finalizer is forgotten or called twice (c7/stm/finalizer.c; the
\* comments at c7/stmgc.h:508-529 say what the two kinds promise).
FinalizedOnce == GeneralOnce /\ LightOnce

\* A weak reference that lives is cleared in the step in which its target
\* dies, not earlier (a finalizer that waits may bring the target back).
WeakrefsFollowTarget == [][\A w \in Objects :
  heap.kind[w] = "weak" /\ heap.ref[w] # NULL /\ heap'.place[w] \in Live =>
    heap'.ref[w] = IF heap'.place[heap.ref[w]] \in Live THEN heap.ref[w] ELSE NULL]_vars

\* An object is set apart for its finalizer only when no other object that
\* still waits for a finalizer leads to it, except in a cycle.
Queued == UNION {Items(run[f]) : f \in Lists}
Waiting == Queued \cup UNION {Items(objs[f]) : f \in Lists}
OutermostFirst == [][\A o \in Queued' \ Queued : \A y \in Waiting' :
  o \in Reach(heap', {y}, Objects) => y \in Reach(heap', {o}, Objects)]_vars
=============================================================================
