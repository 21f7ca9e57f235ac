---------------------------- MODULE LockElision ----------------------------
(***************************************************************************)
(* gil-c7 and htm-c7: the interface of c7 with one lock, and with hardware *)
(* transactions that elide the lock.  Both have the same collector, which  *)
(* empties the nursery when it is full and at the end of each transaction. *)
(*                                                                         *)
(* The hardware (external) undoes a transaction for any reason, and        *)
(* at once if somebody else accesses what it has written or writes what it *)
(* has read; the lock is such a location.  What a transaction writes is in *)
(* heap, with what was there in undo.                                      *)
(*                                                                         *)
(* A reference is an object and a place: that of the object when it was    *)
(* made.  A thread goes through a program of transactions, sequences of    *)
(* calls.  Definitions marked "faulty" are used nowhere: each is the one   *)
(* below it with a plausible bug.                                          *)
(***************************************************************************)
EXTENDS Naturals, Sequences, SequencesExt

CONSTANTS
  Threads, NULL,
  Prebuilt,               \* objects that are there from the start
  Ids,                    \* further objects, a bound
  Programs,               \* [Threads -> Seq of Seq of calls], a set
  GIL_RETRY_MAX, TRANSIENT_RETRY_MAX

VARIABLES
  lib,      \* "gil" or "htm"
  heap,     \* per object: its place, reference, write barrier flag
  _stm_gil, \* who has the lock
  th,       \* per thread: where it is and its thread-local variables
  saved,    \* per thread: th at xbegin
  undo,     \* per thread: objects that its transaction has written, as they were
  seen      \* per thread: what it has read of objects it has not written

evars == <<lib, heap, _stm_gil, th, saved, undo, seen>>

None == [x \in {} |-> NULL]
Ref(o, place) == [obj |-> o, place |-> place]
Object(place, ref, barrier, weak) ==
  [place |-> place, ref |-> ref, barrier |-> barrier, weak |-> weak]
\* What f says, and g where it says something.
Over(f, g) == [x \in DOMAIN f \cup DOMAIN g |-> IF x \in DOMAIN g THEN g[x] ELSE f[x]]
Only(x, is) == [y \in {x} |-> is]

Init ==
  /\ lib \in {"gil", "htm"}
  /\ heap = [o \in Prebuilt |-> Object("old", NULL, TRUE, FALSE)]
  /\ _stm_gil = NULL
  /\ \E program \in Programs :
       th = [t \in Threads |->
               [pc |-> "out", use_gil |-> FALSE, transient |-> 0, gil |-> 0,
                code |-> program[t], left |-> <<>>,
                shadowstack |-> <<>>, pointing |-> {}, weakrefs |-> {}]]
  /\ saved = [t \in Threads |-> NULL]
  /\ undo = [t \in Threads |-> None]
  /\ seen = [t \in Threads |-> None]

-----------------------------------------------------------------------------
(* Hardware transactions.                                                  *)

Elided(t) == th[t].pc = "run" /\ ~th[t].use_gil

\* The heap without what the transactions of S have done.
Undone(S) ==
  [o \in {x \in DOMAIN heap : \A u \in S : x \in DOMAIN undo[u] => undo[u][x] # NULL} |->
     IF \E u \in S : o \in DOMAIN undo[u]
     THEN undo[CHOOSE u \in S : o \in DOMAIN undo[u]][o] ELSE heap[o]]

\* Who is undone when t reads or writes an object, or takes the lock.
Readers(t, o) == {u \in Threads \ {t} : Elided(u) /\ o \in DOMAIN seen[u]}
Writers(t, o) == {u \in Threads \ {t} : Elided(u) /\ o \in DOMAIN undo[u]}
Subscribers(t) == {u \in Threads \ {t} : Elided(u)}

\* The threads of S are back where xbegin() returns; t goes on with its own.
Back(S, t, own) ==
  /\ th' = [u \in Threads |-> IF u = t THEN own
              ELSE IF u \in S THEN [saved[u] EXCEPT !.pc = "transient"] ELSE th[u]]
  /\ UNCHANGED saved

Ends(f, S) == [u \in Threads |-> IF u \in S THEN None ELSE f[u]]

\* Any other reason, which may be one that will come back, such as a buffer
\* that is too small.
Interrupted(t) ==
  /\ Elided(t)
  /\ \E pc \in {"transient", "lock"} : th' = [th EXCEPT ![t] = [saved[t] EXCEPT !.pc = pc]]
  /\ heap' = Undone({t}) /\ undo' = Ends(undo, {t}) /\ seen' = Ends(seen, {t})
  /\ UNCHANGED <<lib, _stm_gil, saved>>

-----------------------------------------------------------------------------
(* Start of a transaction.                                                 *)

stm_start_inevitable_transaction(t) ==
  /\ th[t].pc = "out" /\ th[t].code # <<>>
  /\ th' = [th EXCEPT ![t] =
       [@ EXCEPT !.pc = IF lib = "gil" THEN "lock" ELSE "xbegin", !.use_gil = FALSE,
                 !.transient = TRANSIENT_RETRY_MAX, !.gil = GIL_RETRY_MAX,
                 !.left = Head(th[t].code), !.code = Tail(@)]]
  /\ UNCHANGED <<lib, heap, _stm_gil, saved, undo, seen>>

\* Faulty: the lock is not looked at.
LockIgnored(t) == FALSE
mutex_locked(t) == _stm_gil # NULL

xbegin(t) ==
  /\ th[t].pc = "xbegin"
  /\ saved' = [saved EXCEPT ![t] = th[t]]
  /\ th' = [th EXCEPT ![t].pc = IF mutex_locked(t) THEN "locked" ELSE "run"]
  /\ UNCHANGED <<lib, heap, _stm_gil, undo, seen>>

\* The lock was held: wait for it to be free, but not for long.
GilLocked(t) ==
  /\ th[t].pc = "locked"
  /\ th' = [th EXCEPT ![t].gil = @ - 1,
                      ![t].pc = IF th[t].gil - 1 > 0 THEN "spin" ELSE "lock"]
  /\ UNCHANGED <<lib, heap, _stm_gil, saved, undo, seen>>
spin_and_acquire_gil(t) ==
  /\ th[t].pc = "spin"
  /\ \/ _stm_gil = NULL /\ th' = [th EXCEPT ![t].pc = "xbegin"]
     \/ _stm_gil # NULL /\ th' = [th EXCEPT ![t].pc = "lock"]
  /\ UNCHANGED <<lib, heap, _stm_gil, saved, undo, seen>>

\* Faulty: transactions are tried again without limit.
LeftOnRetry(n) == n
LeftAfter(n) == n - 1
Transient(t) ==
  /\ th[t].pc = "transient"
  /\ th' = [th EXCEPT ![t].transient = LeftAfter(@),
                      ![t].pc = IF LeftAfter(th[t].transient) > 0 THEN "xbegin" ELSE "lock"]
  /\ UNCHANGED <<lib, heap, _stm_gil, saved, undo, seen>>

\* Whoever takes the lock undoes the transactions that have looked at it.
acquire_gil(t) ==
  LET S == Subscribers(t) IN
  /\ th[t].pc = "lock" /\ _stm_gil = NULL
  /\ _stm_gil' = t
  /\ Back(S, t, [th[t] EXCEPT !.pc = "run", !.use_gil = TRUE])
  /\ heap' = Undone(S) /\ undo' = Ends(undo, S) /\ seen' = Ends(seen, S)
  /\ UNCHANGED lib

-----------------------------------------------------------------------------
(* The collector.                                                          *)

InNursery(h, t) == {o \in DOMAIN h : h[o].place = t}
Young(ref, t) == ref # NULL /\ ref.place = t

\* minor_trace_if_young(): the reference to where the object moves to.
Moved(ref, t) == IF Young(ref, t) THEN Ref(ref.obj, "old") ELSE ref

\* The young objects that are reached from references: those in every set
\* that has what is referred to and, with an object, what that refers to.
Traced(h, t, refs, S) ==
  /\ \A r \in refs : Young(r, t) => r.obj \in S
  /\ \A o \in S : ~h[o].weak /\ Young(h[o].ref, t) => h[o].ref.obj \in S
Reached(h, t, refs) ==
  {o \in InNursery(h, t) :
     \A S \in SUBSET InNursery(h, t) : Traced(h, t, refs, S) => o \in S}

\* A weak reference is dropped with its target.
WeakMoved(ref, t, alive) ==
  IF Young(ref, t) THEN IF ref.obj \in alive THEN Moved(ref, t) ELSE NULL ELSE ref

\* stm_collect(): the roots are the shadow stack of the running thread, and
\* the old objects that have been written.
stm_collect(t, own, h) ==
  LET old == own.pointing
      alive == Reached(h, t, Range(own.shadowstack) \cup {h[o].ref : o \in old})
      after(o) == [h[o] EXCEPT
        !.place = "old",
        !.barrier = TRUE,
        !.ref = IF h[o].weak THEN WeakMoved(@, t, alive) ELSE Moved(@, t)]
  IN [heap |-> [o \in DOMAIN h \ (InNursery(h, t) \ alive) |->
                  IF o \in alive \cup old THEN after(o) ELSE h[o]],
      own |-> [own EXCEPT !.shadowstack = [k \in DOMAIN @ |-> Moved(@[k], t)],
                          !.pointing = {}, !.weakrefs = {}]]

-----------------------------------------------------------------------------
(* What a transaction does.                                                *)

Calls(t, name) == th[t].pc = "run" /\ th[t].left # <<>> /\ Head(th[t].left)[1] = name
\* A program takes from the shadow stack what it has put there.
Pushed(t, n) == Len(th[t].shadowstack) >= n
Called(own) == [own EXCEPT !.left = Tail(@)]
Argument(t) == Head(th[t].left)[2]
Top(t) == Last(th[t].shadowstack)

\* Objects are written by t, for the first time or again.
Writes(t, S) ==
  [undo EXCEPT ![t] = Over([o \in S |-> IF o \in DOMAIN heap THEN heap[o] ELSE NULL], @)]

\* stm_allocate(), in the nursery or, if the object is big, outside.  The
\* nursery may be full.
Allocated(t, h, own, object) ==
  LET o == CHOOSE x \in Ids \ (DOMAIN h \cup UNION {DOMAIN undo[u] : u \in Threads}) : TRUE
      young == object.place = t
      gone == DOMAIN heap \ DOMAIN h
  IN /\ Ids \ (DOMAIN h \cup UNION {DOMAIN undo[u] : u \in Threads}) # {}
     /\ heap' = Over(h, Only(o, object))
     /\ th' = [th EXCEPT ![t] = [Called(own) EXCEPT
                 !.shadowstack = Append(@, Ref(o, object.place)),
                 !.pointing = IF young THEN @ ELSE @ \cup {o},
                 !.weakrefs = IF object.weak THEN @ \cup {o} ELSE @]]
     /\ undo' = Writes(t, {o} \cup gone \cup {x \in DOMAIN h \cap DOMAIN heap : h[x] # heap[x]})
     /\ UNCHANGED <<lib, _stm_gil, saved, seen>>

stm_allocate(t) ==
  /\ Calls(t, "new")
  /\ LET full == stm_collect(t, th[t], heap)
         object == Object(t, NULL, FALSE, FALSE)
     IN \/ Allocated(t, heap, th[t], object)
        \/ Allocated(t, full.heap, full.own, object)
_stm_allocate_external(t) ==
  Calls(t, "big") /\ Allocated(t, heap, th[t], Object("old", NULL, FALSE, FALSE))
\* The caller sets the target, which it has kept on the shadow stack.
stm_allocate_weakref(t) ==
  /\ Calls(t, "weakref") /\ Pushed(t, 1)
  /\ LET full == stm_collect(t, th[t], heap)
     IN \/ Allocated(t, heap, th[t], Object(t, Top(t), FALSE, TRUE))
        \/ Allocated(t, full.heap, full.own, Object(t, Last(full.own.shadowstack), FALSE, TRUE))

Pop(t) ==
  /\ Calls(t, "pop") /\ Pushed(t, 1)
  /\ th' = [th EXCEPT ![t] = [Called(th[t]) EXCEPT !.shadowstack = Front(@)]]
  /\ UNCHANGED <<lib, heap, _stm_gil, saved, undo, seen>>

\* An object in the heap is read: prebuilt, or the one on top of the stack.
Target(t) == IF Argument(t) \in Prebuilt THEN Argument(t) ELSE Top(t).obj
stm_read(t) ==
  LET o == Target(t)
      S == Writers(t, o)
      h == Undone(S)
  IN /\ Calls(t, "read") /\ (Argument(t) \notin Prebuilt => Pushed(t, 1))
     /\ Back(S, t, [Called(th[t]) EXCEPT
          !.shadowstack = IF h[o].ref = NULL THEN @ ELSE Append(@, h[o].ref)])
     /\ heap' = h /\ undo' = Ends(undo, S)
     /\ seen' = LET s == Ends(seen, S) IN
                IF o \in DOMAIN undo[t] \cup DOMAIN s[t] THEN s
                ELSE [s EXCEPT ![t] = Over(@, Only(o, h[o].ref))]
     /\ UNCHANGED <<lib, _stm_gil>>

_stm_write_slowpath(o, own) == [own EXCEPT !.pointing = @ \cup {o}]

\* The reference on top of the stack goes into an object: prebuilt, or the
\* next one on the stack.
stm_write(t) ==
  LET stack == th[t].shadowstack
      o == IF Argument(t) \in Prebuilt THEN Argument(t) ELSE stack[Len(stack) - 1].obj
      S == Readers(t, o) \cup Writers(t, o)
      h == Undone(S)
  IN /\ Calls(t, "write") /\ Pushed(t, IF Argument(t) \in Prebuilt THEN 1 ELSE 2)
     /\ Back(S, t, IF h[o].barrier THEN _stm_write_slowpath(o, Called(th[t]))
                                   ELSE Called(th[t]))
     /\ heap' = [h EXCEPT ![o].barrier = FALSE, ![o].ref = Top(t)]
     /\ undo' = [Ends(undo, S) EXCEPT ![t] = Over(Only(o, h[o]), @)]
     /\ seen' = Ends(seen, S)
     /\ UNCHANGED <<lib, _stm_gil>>

stm_commit_transaction(t) ==
  LET done == stm_collect(t, th[t], heap) IN
  /\ th[t].pc = "run" /\ th[t].left = <<>>
  /\ heap' = done.heap
  /\ th' = [th EXCEPT ![t] = [done.own EXCEPT !.pc = "out"]]
  /\ _stm_gil' = IF th[t].use_gil THEN NULL ELSE _stm_gil
  /\ undo' = Ends(undo, {t}) /\ seen' = Ends(seen, {t})
  /\ saved' = [saved EXCEPT ![t] = NULL]
  /\ UNCHANGED lib

-----------------------------------------------------------------------------

Steps(t) ==
  \/ xbegin(t) \/ GilLocked(t) \/ spin_and_acquire_gil(t) \/ Transient(t)
  \/ stm_allocate(t) \/ _stm_allocate_external(t) \/ stm_allocate_weakref(t)
  \/ Pop(t) \/ stm_read(t) \/ stm_write(t) \/ stm_commit_transaction(t)
\* The bound of the model: the programs have come to their ends.
Finished == (\A t \in Threads : th[t].pc = "out" /\ th[t].code = <<>>) /\ UNCHANGED evars
Next == Finished \/ \E t \in Threads :
  Steps(t) \/ stm_start_inevitable_transaction(t) \/ acquire_gil(t) \/ Interrupted(t)

\* A thread that has started a transaction is scheduled, and gets the lock if
\* it is free again and again.
Spec == /\ Init /\ [][Next]_evars
        /\ \A t \in Threads : WF_evars(Steps(t)) /\ SF_evars(acquire_gil(t))

-----------------------------------------------------------------------------
(* Properties.                                                             *)

\* The contents that the transactions which have ended have given an object.
Ended(o) == IF \E u \in Threads : o \in DOMAIN undo[u]
            THEN undo[CHOOSE u \in Threads : o \in DOMAIN undo[u]][o] ELSE heap[o]

\* What a transaction has read is what others had committed before and have
\* not changed since, also when one has the lock and others elide it.
ReadsAreAtomic ==
  \A t \in Threads : \A o \in DOMAIN seen[t] : seen[t][o] = Ended(o).ref

\* Every reference leads to where its object is, and only those of a running
\* transaction lead into its nursery: nothing is forgotten when the nursery
\* is emptied, or left behind when a transaction is undone.
NothingDangles ==
  LET valid(ref, places) ==
        ref # NULL => /\ ref.obj \in DOMAIN heap /\ heap[ref.obj].place = ref.place
                      /\ ref.place \in places
      mine(t) == IF th[t].pc = "run" THEN {"old", t} ELSE {"old"}
  IN /\ \A t \in Threads : \A k \in DOMAIN th[t].shadowstack :
          valid(th[t].shadowstack[k], mine(t))
     /\ \A o \in DOMAIN heap :
          valid(heap[o].ref, {"old"} \cup {u \in Threads : th[u].pc = "run" /\ o \in DOMAIN undo[u]})

\* A transaction that is started is committed in the end, whatever the
\* hardware does to it: after some attempts it takes the lock.
Trying(t) == th[t].pc # "out"
TransactionsEnd == \A t \in Threads : Trying(t) ~> ~Trying(t)
=============================================================================
