------------------------------ MODULE StmCore ------------------------------
(***************************************************************************)
(* The transaction core of c7/stm: threads run transactions in segments,   *)
(* read and write objects without any lock but the per-object write locks, *)
(* and meet under one global mutex to start, pause, commit, abort, become  *)
(* inevitable or become globally unique (core.c, sync.c, contention.c).    *)
(*                                                                         *)
(* A thread holding the mutex runs its critical section in several steps,  *)
(* cut where the code loops or waits on a condition variable; the steps    *)
(* that take no lock (stm_read, the compare-and-swap of the write barrier, *)
(* stores, the bump of the read version) interleave with them.             *)
(*                                                                         *)
(* A definition marked "faulty" is the one below it with a plausible bug   *)
(* in it; nothing uses it.  Put in its place it must break a property.     *)
(***************************************************************************)
EXTENDS Naturals, FiniteSets

CONSTANTS
  NB_SEGMENTS,   \* how many transactions can run at once
  Threads,       \* registered stm_thread_local_t
  NULL,          \* no thread, no object, no value
  Objects,       \* old objects: the ones that exist outside a transaction
  Values,        \* contents of an object
  MAX_VERSION,   \* largest transaction_read_version (0xff in the code)
  SPURIOUS,      \* TRUE if pthread_cond_wait() may return unsignalled
  Requests       \* the calls below that the program ever makes

Segs   == 1..NB_SEGMENTS
Copies == 0..NB_SEGMENTS         \* segment 0 is the shared, committed copy

ASSUME CoreAssumption ==
  /\ NB_SEGMENTS \in Nat \ {0}
  /\ MAX_VERSION \in Nat \ {0}
  /\ NULL \notin Threads /\ NULL \notin Objects /\ NULL \notin Values
  /\ SPURIOUS \in BOOLEAN
  /\ Requests \subseteq {"safe_point", "commit", "inevitable", "unique", "abort"}

VARIABLES
  mutex,                     \* owner of sync_ctl.global_mutex, or NULL
  pc, call, woken,           \* per thread: where it is, what it is doing
  assoc,                     \* tl->associated_segment_num
  running_thread,            \* per segment, with sync_ctl.in_use1
  safe_point, transaction_state, older,
  nursery_end, signal_when_done, signalled_to_commit_soon,
  pause_signalled, globally_unique,
  version, rm,               \* transaction_read_version, read markers
  mem, modified, write_locks,
  seen                       \* history: the contents each read returned

threadVars == <<mutex, pc, call, woken, assoc>>
segVars    == <<running_thread, safe_point, transaction_state, older>>
signalVars == <<nursery_end, signal_when_done, signalled_to_commit_soon>>
pauseVars  == <<pause_signalled, globally_unique>>
readVars   == <<version, rm, seen>>
heapVars   == <<mem, modified, write_locks>>
vars == <<threadVars, segVars, signalVars, pauseVars, readVars, heapVars>>

Waits == {"wait_segment_free", "wait_request_removed", "wait_at_safe_point",
          "wait_transaction_done", "wait_aborted"}
Unlocked == {"outside", "start", "bump", "reset", "run", "write", "request"}
Locked == {"acquire", "safe", "sync", "stop", "detect", "inevitable",
           "recheck", "contention", "abort"}
Ops == {"none", "start", "safe_point", "commit", "inevitable", "unique",
        "write", "abort"}

\* What the thread was asked to do, on which object, against which segment.
Calls == [op : Ops, obj : Objects \cup {NULL}, other : Copies]
Idle  == [op |-> "none", obj |-> NULL, other |-> 0]
Request(o) == [Idle EXCEPT !.op = o]

is_abort(s) == nursery_end[s] = "SIGABORT"
is_aborting_now(s) == is_abort(s) /\ safe_point[s] # "RUNNING"
must_abort(t) == is_abort(assoc[t])

Init ==
  /\ mutex = NULL
  /\ pc = [t \in Threads |-> "outside"]
  /\ call = [t \in Threads |-> Idle]
  /\ woken = {}
  /\ assoc \in [Threads -> Segs]
  /\ running_thread = [s \in Segs |-> NULL]
  /\ safe_point = [s \in Segs |-> "NO_TRANSACTION"]
  /\ transaction_state = [s \in Segs |-> "NONE"]
  /\ older = [s \in Segs |-> {}]
  /\ nursery_end = [s \in Segs |-> "NURSERY_END"]
  /\ signal_when_done = [s \in Segs |-> FALSE]
  /\ signalled_to_commit_soon = [s \in Segs |-> FALSE]
  /\ pause_signalled = FALSE
  /\ globally_unique = FALSE
  /\ version = [s \in Segs |-> MAX_VERSION]
  /\ rm = [s \in Segs |-> [o \in Objects |-> 0]]
  /\ seen = [s \in Segs |-> [o \in Objects |-> NULL]]
  /\ \E f \in [Objects -> Values] : mem = [i \in Copies |-> f]
  /\ modified = [s \in Segs |-> {}]
  /\ write_locks = [o \in Objects |-> 0]

-----------------------------------------------------------------------------
(* Condition variables.  A waiter that was signalled is in woken and still *)
(* has to get the mutex back.                                              *)

Waiters(c) == {t \in Threads : pc[t] = c /\ t \notin woken}
Signalled(c) == IF Waiters(c) = {} THEN {{}} ELSE {{t} : t \in Waiters(c)}
SignalAtSafePointLost == UNCHANGED woken                \* faulty: no signal
SignalAtSafePoint == \E w \in Signalled("wait_at_safe_point") :
                        woken' = woken \cup w

\* pthread_cond_wait() may return without a signal.
SpuriousWakeup(t) ==
  /\ SPURIOUS
  /\ pc[t] \in Waits /\ t \notin woken
  /\ woken' = woken \cup {t}
  /\ UNCHANGED <<mutex, pc, call, assoc, segVars, signalVars, pauseVars,
                 readVars, heapVars>>

Holds(t, p) == mutex = t /\ pc[t] = p
Goto(t, p)  == pc' = [pc EXCEPT ![t] = p]
\* A step inside the critical section that only moves on.
Continue(t, p) == /\ Goto(t, p)
                  /\ UNCHANGED <<mutex, call, woken, assoc>>
\* Leave the critical section: s_mutex_unlock().
Leave(t, p) == /\ Goto(t, p)
               /\ mutex' = NULL
               /\ call' = [call EXCEPT ![t] = Idle]
               /\ UNCHANGED assoc
\* cond_wait(): the mutex is released, the call goes on later.
Wait(t, c) == /\ Goto(t, c)
              /\ mutex' = NULL
              /\ UNCHANGED <<call, assoc>>

\* The removal of every pause request, as a value of nursery_end.
Unpaused(ends) == [s \in Segs |-> IF ends[s] = "SIGPAUSE" THEN "NURSERY_END"
                                                          ELSE ends[s]]
\* signal_other_to_commit_soon(): the new value of nursery_end.
CommitSoon(i) ==
  IF ~signalled_to_commit_soon[i] /\ ~is_abort(i) /\ ~pause_signalled
  THEN [nursery_end EXCEPT ![i] = "SIGCOMMITSOON"] ELSE nursery_end

OthersRunning(s) == {i \in Segs \ {s} : safe_point[i] = "RUNNING"}

-----------------------------------------------------------------------------
(* Starting a transaction (_stm_start_transaction).                        *)

StartTransaction(t) ==
  /\ pc[t] = "outside"
  /\ Goto(t, "start")
  /\ call' = [call EXCEPT ![t] = Request("start")]
  /\ UNCHANGED <<mutex, woken, assoc, segVars, signalVars, pauseVars,
                 readVars, heapVars>>

\* s_mutex_lock(), and where each caller goes from there.
Entry(t) == CASE call[t].op = "start" -> "acquire"
              [] call[t].op = "write" -> "recheck"
              [] call[t].op = "abort" -> "abort"
              [] OTHER -> "safe"
Lock(t) ==
  /\ mutex = NULL /\ pc[t] \in {"start", "request"}
  /\ mutex' = t
  /\ Goto(t, Entry(t))
  /\ UNCHANGED <<call, woken, assoc, segVars, signalVars, pauseVars,
                 readVars, heapVars>>

FreeSegs == {s \in Segs : running_thread[s] = NULL}
\* Steps from the associated segment to s in the ring the scan follows.
Distance(t, s) == (s + NB_SEGMENTS - assoc[t]) % NB_SEGMENTS

AcquireSegment(t) ==
  /\ Holds(t, "acquire")
  /\ \E s \in FreeSegs :
       /\ \A r \in FreeSegs : Distance(t, s) <= Distance(t, r)
       /\ assoc' = [assoc EXCEPT ![t] = s]
       /\ running_thread' = [running_thread EXCEPT ![s] = t]
       /\ safe_point' = [safe_point EXCEPT ![s] = "RUNNING"]
       /\ transaction_state' = [transaction_state EXCEPT ![s] = "REGULAR"]
       /\ signalled_to_commit_soon' =
            [signalled_to_commit_soon EXCEPT ![s] = FALSE]
       \* unique_start_time: every other segment started before this one.
       /\ older' = [i \in Segs |-> IF i = s THEN Segs \ {s}
                                            ELSE older[i] \ {s}]
  /\ Goto(t, "safe")
  /\ UNCHANGED <<mutex, call, woken, nursery_end, signal_when_done,
                 pauseVars, readVars, heapVars>>

WaitSegmentFree(t) ==
  /\ Holds(t, "acquire")
  /\ FreeSegs = {}
  /\ Wait(t, "wait_segment_free")
  /\ UNCHANGED <<woken, segVars, signalVars, pauseVars, readVars, heapVars>>

NextVersionUnwrapped(s) == version[s] + 1               \* faulty: no wrap
NextVersion(s) == (version[s] + 1) % (MAX_VERSION + 1)

\* After the mutex was released: the read version moves on, and wraps.
BumpVersion(t) ==
  LET s == assoc[t]
      new == NextVersion(s)
  IN /\ pc[t] = "bump"
     /\ version' = [version EXCEPT ![s] = new]
     /\ Goto(t, IF new = 0 THEN "reset" ELSE "run")
     /\ UNCHANGED <<mutex, call, woken, assoc, segVars, signalVars,
                    pauseVars, rm, seen, heapVars>>

ClearedMarkersKept(s) == rm                             \* faulty: not cleared
ClearedMarkers(s) == [rm EXCEPT ![s] = [o \in Objects |-> 0]]

reset_transaction_read_version(t) ==
  LET s == assoc[t] IN
  /\ pc[t] = "reset"
  /\ rm' = ClearedMarkers(s)
  /\ version' = [version EXCEPT ![s] = 1]
  /\ Goto(t, "run")
  /\ UNCHANGED <<mutex, call, woken, assoc, segVars, signalVars,
                 pauseVars, seen, heapVars>>

-----------------------------------------------------------------------------
(* Running code: reads and writes, without the mutex.                      *)

\* What a first read of o returns is remembered in seen.
MarkRead(s, o) ==
  /\ rm' = [rm EXCEPT ![s][o] = version[s]]
  /\ seen' = IF seen[s][o] = NULL /\ o \notin modified[s]
             THEN [seen EXCEPT ![s][o] = mem[s][o]] ELSE seen

stm_read(t, o) ==
  /\ pc[t] = "run"
  /\ MarkRead(assoc[t], o)
  /\ UNCHANGED <<threadVars, segVars, signalVars, pauseVars, version,
                 heapVars>>

\* The write barrier starts with a read barrier (the rest of the object is
\* committed with the field that is written).
stm_write(t, o) ==
  /\ pc[t] = "run"
  /\ o \notin modified[assoc[t]]
  /\ MarkRead(assoc[t], o)
  /\ Goto(t, "write")
  /\ call' = [call EXCEPT ![t] = [Request("write") EXCEPT !.obj = o]]
  /\ UNCHANGED <<mutex, woken, assoc, segVars, signalVars, pauseVars,
                 version, heapVars>>

\* compare-and-swap of the write lock from 0, LIST_APPEND, page_privatize
TakeWriteLock(t) ==
  LET s == assoc[t]
      o == call[t].obj
  IN /\ pc[t] = "write"
     /\ write_locks[o] = 0
     /\ write_locks' = [write_locks EXCEPT ![o] = s]
     /\ modified' = [modified EXCEPT ![s] = @ \cup {o}]
     /\ Goto(t, "run")
     /\ call' = [call EXCEPT ![t] = Idle]
     /\ UNCHANGED <<mutex, woken, assoc, segVars, signalVars, pauseVars,
                    readVars, mem>>

\* Somebody else has the lock: write_write_contention_management().
WriteLockTaken(t) ==
  /\ pc[t] = "write"
  /\ write_locks[call[t].obj] # 0
  /\ Goto(t, "request")
  /\ UNCHANGED <<mutex, call, woken, assoc, segVars, signalVars, pauseVars,
                 readVars, heapVars>>

\* A store behind the write barrier, into the segment's own copy.
Store(t, o, v) ==
  LET s == assoc[t] IN
  /\ pc[t] = "run"
  /\ o \in modified[s]
  /\ mem' = [mem EXCEPT ![s][o] = v]
  /\ UNCHANGED <<threadVars, segVars, signalVars, pauseVars, readVars,
                 modified, write_locks>>

\* The calls of running code that take the mutex, and when it makes them.
MayRequest(t, o) ==
  LET s == assoc[t] IN
  CASE o = "safe_point" -> nursery_end[s] # "NURSERY_END"
    [] o = "commit"     -> TRUE
    [] o = "unique"     -> transaction_state[s] = "INEVITABLE"
    [] OTHER            -> transaction_state[s] = "REGULAR"
RequestMutex(t, o) ==
  /\ pc[t] = "run" /\ MayRequest(t, o)
  /\ Goto(t, "request")
  /\ call' = [call EXCEPT ![t] = Request(o)]
  /\ UNCHANGED <<mutex, woken, assoc, segVars, signalVars, pauseVars,
                 readVars, heapVars>>

-----------------------------------------------------------------------------
(* enter_safe_point_if_requested(): a loop on nursery_end.                 *)

SafePointAbort(t) ==
  /\ Holds(t, "safe")
  /\ must_abort(t)
  /\ Continue(t, "abort")
  /\ UNCHANGED <<segVars, signalVars, pauseVars, readVars, heapVars>>

SafePointCommitSoon(t) ==
  LET s == assoc[t] IN
  /\ Holds(t, "safe")
  /\ nursery_end[s] = "SIGCOMMITSOON"
  /\ signalled_to_commit_soon' = [signalled_to_commit_soon EXCEPT ![s] = TRUE]
  /\ nursery_end' = [nursery_end EXCEPT ![s] = IF pause_signalled
                                               THEN "SIGPAUSE"
                                               ELSE "NURSERY_END"]
  /\ UNCHANGED <<threadVars, segVars, signal_when_done, pauseVars, readVars,
                 heapVars>>

SafePointPause(t) ==
  LET s == assoc[t] IN
  /\ Holds(t, "safe")
  /\ nursery_end[s] = "SIGPAUSE"
  /\ SignalAtSafePoint
  /\ safe_point' = [safe_point EXCEPT ![s] = "WAIT_FOR_C_REQUEST_REMOVED"]
  /\ Wait(t, "wait_request_removed")
  /\ UNCHANGED <<running_thread, transaction_state, older, signalVars,
                 pauseVars, readVars, heapVars>>

\* No request: the caller goes on, or leaves the critical section.
SafePointDone(t) ==
  /\ Holds(t, "safe")
  /\ nursery_end[assoc[t]] = "NURSERY_END"
  /\ \/ call[t].op = "start" /\ Leave(t, "bump") /\ UNCHANGED woken
     \/ call[t].op = "safe_point" /\ Leave(t, "run") /\ UNCHANGED woken
     \/ call[t].op = "inevitable" /\ Continue(t, "inevitable")
     \/ call[t].op \in {"commit", "unique"} /\ Continue(t, "sync")
  /\ UNCHANGED <<segVars, signalVars, pauseVars, readVars, heapVars>>

-----------------------------------------------------------------------------
(* synchronize_all_threads(), past its own safe point.                     *)

\* Already globally unique: everybody else is stopped.
AlreadyUnique(t) ==
  /\ Holds(t, "sync")
  /\ globally_unique
  /\ \/ call[t].op = "commit" /\ Continue(t, "detect")
     \/ call[t].op = "unique" /\ Leave(t, "run") /\ UNCHANGED woken
  /\ UNCHANGED <<segVars, signalVars, pauseVars, readVars, heapVars>>

signal_everybody_to_pause_running(t) ==
  /\ Holds(t, "sync")
  /\ ~globally_unique
  /\ nursery_end' = [s \in Segs |-> IF nursery_end[s] = "NURSERY_END"
                                    THEN "SIGPAUSE" ELSE nursery_end[s]]
  /\ pause_signalled' = TRUE
  /\ Continue(t, "stop")
  /\ UNCHANGED <<segVars, signal_when_done, signalled_to_commit_soon,
                 globally_unique, readVars, heapVars>>

WaitAtSafePoint(t) ==
  LET s == assoc[t] IN
  /\ Holds(t, "stop")
  /\ OthersRunning(s) # {}
  /\ safe_point' = [safe_point EXCEPT ![s] = "WAIT_FOR_C_AT_SAFE_POINT"]
  /\ Wait(t, "wait_at_safe_point")
  /\ UNCHANGED <<woken, running_thread, transaction_state, older, signalVars,
                 pauseVars, readVars, heapVars>>

\* Who the broadcast of remove_requests_for_safe_point() wakes up.
PausedForgotten == {}                                   \* faulty: no broadcast
Paused == Waiters("wait_request_removed")

\* Everybody is stopped; the caller keeps the mutex until it is done.
AllStopped(t) ==
  /\ Holds(t, "stop")
  /\ OthersRunning(assoc[t]) = {}
  /\ call[t].op = "commit"
  /\ pause_signalled' = FALSE
  /\ nursery_end' = Unpaused(nursery_end)
  /\ woken' = woken \cup Paused
  /\ Goto(t, "detect")
  /\ UNCHANGED <<mutex, call, assoc, segVars, signal_when_done,
                 signalled_to_commit_soon, globally_unique, readVars,
                 heapVars>>

BecomeGloballyUnique(t) ==
  /\ Holds(t, "stop")
  /\ OthersRunning(assoc[t]) = {}
  /\ call[t].op = "unique"
  /\ globally_unique' = TRUE
  /\ nursery_end' = [nursery_end EXCEPT ![assoc[t]] = "NURSERY_END"]
  /\ Leave(t, "run")
  /\ UNCHANGED <<woken, segVars, signal_when_done, signalled_to_commit_soon,
                 pause_signalled, readVars, heapVars>>

-----------------------------------------------------------------------------
(* _stm_become_inevitable(), past its own safe point.                      *)

OtherInevitableRunning ==                               \* faulty: not if paused
  {i \in Segs : transaction_state[i] = "INEVITABLE" /\ safe_point[i] = "RUNNING"}
OtherInevitable == {i \in Segs : transaction_state[i] = "INEVITABLE"}

InevitableContention(t) ==
  /\ Holds(t, "inevitable")
  /\ transaction_state[assoc[t]] = "REGULAR"
  /\ \E i \in OtherInevitable :
       /\ \A j \in OtherInevitable : i <= j
       /\ call' = [call EXCEPT ![t].other = i]
  /\ Goto(t, "contention")
  /\ UNCHANGED <<mutex, woken, assoc, segVars, signalVars, pauseVars,
                 readVars, heapVars>>

BecomeInevitable(t) ==
  /\ Holds(t, "inevitable")
  /\ OtherInevitable = {}
  /\ transaction_state' =
       [transaction_state EXCEPT ![assoc[t]] = "INEVITABLE"]
  /\ Leave(t, "run")
  /\ UNCHANGED <<woken, running_thread, safe_point, older, signalVars,
                 pauseVars, readVars, heapVars>>

-----------------------------------------------------------------------------
(* detect_write_read_conflicts() and the end of stm_commit_transaction().  *)

WasReadRemoteBefore(i, objs) ==                         \* faulty: old version
  \E o \in objs : rm[i][o] = version[i] - 1
WasReadRemote(i, objs) == \E o \in objs : rm[i][o] = version[i]
ConflictsAnyState(s) ==                                 \* faulty: TS_NONE too
  {i \in Segs \ {s} : ~is_aborting_now(i) /\ WasReadRemote(i, modified[s])}
Conflicts(s) == {i \in Segs \ {s} : /\ transaction_state[i] # "NONE"
                                    /\ ~is_aborting_now(i)
                                    /\ WasReadRemote(i, modified[s])}

DetectConflict(t) ==
  LET C == Conflicts(assoc[t]) IN
  /\ Holds(t, "detect")
  /\ \E i \in C : /\ \A j \in C : i <= j
                  /\ call' = [call EXCEPT ![t].other = i]
  /\ Goto(t, "contention")
  /\ UNCHANGED <<mutex, woken, assoc, segVars, signalVars, pauseVars,
                 readVars, heapVars>>

\* push_modified_to_other_segments(): every copy gets the new contents.
PushedToShared(s) == [mem EXCEPT ![0] = mem[s]]         \* faulty: segment 0 only
Pushed(s) == [i \in Copies |-> [o \in Objects |->
                IF o \in modified[s] THEN mem[s][o] ELSE mem[i][o]]]
\* The write locks of segment s, released.
ReleasedNever(s) == write_locks                         \* faulty: locks kept
Released(s) == [o \in Objects |-> IF o \in modified[s] THEN 0
                                                       ELSE write_locks[o]]

\* Contention management asked to be told of the end of the transaction.
SleepersForgotten(s) == {}                              \* faulty: no broadcast
Sleepers(s) == IF signal_when_done[s] THEN Waiters("wait_transaction_done")
                                      ELSE {}

\* _finish_transaction(); others are the waiters its caller wakes up.
FinishTransaction(t, s, others) ==
  /\ safe_point' = [safe_point EXCEPT ![s] = "NO_TRANSACTION"]
  /\ transaction_state' = [transaction_state EXCEPT ![s] = "NONE"]
  /\ running_thread' = [running_thread EXCEPT ![s] = NULL]
  /\ signal_when_done' = [signal_when_done EXCEPT ![s] = FALSE]
  /\ \E w \in Signalled("wait_segment_free") :
       woken' = woken \cup w \cup others \cup Sleepers(s)
  /\ seen' = [seen EXCEPT ![s] = [o \in Objects |-> NULL]]
  /\ modified' = [modified EXCEPT ![s] = {}]
  /\ write_locks' = Released(s)
  /\ UNCHANGED <<older, version, rm>>

\* A globally unique transaction held every pause request until here.
Commit(t) ==
  LET s == assoc[t]
      unique == transaction_state[s] = "INEVITABLE" /\ globally_unique
  IN /\ Holds(t, "detect")
     /\ Conflicts(s) = {}
     /\ mem' = Pushed(s)
     /\ IF unique
        THEN /\ pause_signalled' = FALSE /\ globally_unique' = FALSE
             /\ nursery_end' = Unpaused(nursery_end)
        ELSE UNCHANGED <<pauseVars, nursery_end>>
     /\ FinishTransaction(t, s, IF unique THEN Paused ELSE {})
     /\ Leave(t, "outside")
     /\ UNCHANGED signalled_to_commit_soon

-----------------------------------------------------------------------------
(* abort_with_mutex(), then the longjmp back to the start.                 *)

\* reset_modified_from_other_segments()
RestoredNever(s) == mem                                 \* faulty: not reset
Restored(s) == [mem EXCEPT ![s] = [o \in Objects |->
                  IF o \in modified[s] THEN mem[0][o] ELSE mem[s][o]]]

\* What nursery_end is left at.
SignalAfterAbortKept(s) == nursery_end[s]               \* faulty: not reset
SignalAfterAbortUnpaused(s) ==                          \* faulty: pause forgotten
  IF is_abort(s) THEN "NURSERY_END" ELSE nursery_end[s]
SignalAfterAbort(s) ==
  IF ~is_abort(s) THEN nursery_end[s]
  ELSE IF pause_signalled THEN "SIGPAUSE" ELSE "NURSERY_END"

Abort(t) ==
  LET s == assoc[t] IN
  /\ Holds(t, "abort")
  /\ mem' = Restored(s)
  /\ nursery_end' = [nursery_end EXCEPT ![s] = SignalAfterAbort(s)]
  /\ FinishTransaction(t, s, Waiters("wait_aborted"))
  /\ Goto(t, "start")
  /\ mutex' = NULL
  /\ call' = [call EXCEPT ![t] = Request("start")]
  /\ UNCHANGED <<assoc, signalled_to_commit_soon, pauseVars>>

-----------------------------------------------------------------------------
(* contention_management() against segment call[t].other.                  *)

\* write_write_contention_management(): look again, now with the mutex.
RecheckOwner(t) ==
  LET owner == write_locks[call[t].obj] IN
  /\ Holds(t, "recheck")
  /\ IF owner = 0
     THEN Goto(t, "write") /\ mutex' = NULL /\ UNCHANGED call
     ELSE /\ Goto(t, "contention") /\ UNCHANGED mutex
          /\ call' = [call EXCEPT ![t].other = owner]
  /\ UNCHANGED <<woken, assoc, segVars, signalVars, pauseVars, readVars,
                 heapVars>>

\* cm_pause_if_younger(), with the corrections for aborting and inevitable
\* transactions.
Younger(s, i) == i \in older[s]
TrySleep(s, i) == /\ Younger(s, i) /\ ~is_abort(i)
                  /\ transaction_state[s] # "INEVITABLE"
AbortOtherByAge(s, i) ==                                \* faulty: age alone
  is_abort(i) \/ transaction_state[s] = "INEVITABLE" \/ ~Younger(s, i)
AbortOther(s, i) ==
  \/ is_abort(i)
  \/ transaction_state[s] = "INEVITABLE"
  \/ ~Younger(s, i) /\ transaction_state[i] # "INEVITABLE"
Sleeps(t, s, i) == /\ TrySleep(s, i) /\ call[t].op # "write"
                   /\ safe_point[i] # "WAIT_FOR_C_TRANSACTION_DONE"

InContention(t) == Holds(t, "contention") /\ ~must_abort(t)

\* Where contention_management() returns to: when it did not wait, the
\* commit goes on with the next segment; after a wait it starts over.
Resolved(t) == CASE call[t].op = "write"  -> "write"
                 [] call[t].op = "commit" -> "detect"
                 [] OTHER                 -> "inevitable"
RetriedInPlace(t) == Resolved(t)                        \* faulty: no restart
Retried(t) == IF call[t].op = "commit" THEN "safe" ELSE Resolved(t)
Return(t, p) ==
  /\ Goto(t, p)
  /\ mutex' = IF p = "write" THEN NULL ELSE t
  /\ call' = [call EXCEPT ![t].other = 0]
  /\ UNCHANGED assoc

ContentionMustAbort(t) ==
  /\ Holds(t, "contention") /\ must_abort(t)
  /\ Continue(t, "abort")
  /\ UNCHANGED <<segVars, signalVars, pauseVars, readVars, heapVars>>

ContentionSleep(t) ==
  LET s == assoc[t]
      i == call[t].other
  IN /\ InContention(t)
     /\ Sleeps(t, s, i)
     /\ signal_when_done' = [signal_when_done EXCEPT ![i] = TRUE]
     /\ nursery_end' = CommitSoon(i)
     /\ SignalAtSafePoint
     /\ safe_point' = [safe_point EXCEPT ![s] = "WAIT_FOR_C_TRANSACTION_DONE"]
     /\ Wait(t, "wait_transaction_done")
     /\ UNCHANGED <<running_thread, transaction_state, older,
                    signalled_to_commit_soon, pauseVars, readVars, heapVars>>

ContentionAbortSelf(t) ==
  LET s == assoc[t]
      i == call[t].other
  IN /\ InContention(t)
     /\ ~Sleeps(t, s, i) /\ ~AbortOther(s, i)
     /\ nursery_end' = CommitSoon(i)
     /\ Continue(t, "abort")
     /\ UNCHANGED <<segVars, signal_when_done, signalled_to_commit_soon,
                    pauseVars, readVars, heapVars>>

\* The other transaction is running: it aborts at its next safe point.
\* This thread waits, without being at a safe point.
ContentionAbortRunning(t) ==
  LET s == assoc[t]
      i == call[t].other
  IN /\ InContention(t)
     /\ ~Sleeps(t, s, i) /\ AbortOther(s, i) /\ safe_point[i] = "RUNNING"
     /\ nursery_end' = [nursery_end EXCEPT ![i] = "SIGABORT"]
     /\ Wait(t, "wait_aborted")
     /\ UNCHANGED <<woken, segVars, signal_when_done,
                    signalled_to_commit_soon, pauseVars, readVars, heapVars>>

\* The condition variable a segment at a safe point is woken up with.
WakeOf(sp) == CASE sp = "WAIT_FOR_C_REQUEST_REMOVED" -> "wait_request_removed"
                [] sp = "WAIT_FOR_C_AT_SAFE_POINT" -> "wait_at_safe_point"
                [] OTHER -> "wait_transaction_done"

\* abort_data_structures_from_segment_num(i)
KillDataStructures(i) ==
  /\ mem' = Restored(i)
  /\ write_locks' = Released(i)
  /\ modified' = [modified EXCEPT ![i] = {}]

\* The other transaction is at a safe point: it is undone here and now.
ContentionAbortStopped(t) ==
  LET s == assoc[t]
      i == call[t].other
  IN /\ InContention(t)
     /\ ~Sleeps(t, s, i) /\ AbortOther(s, i)
     /\ safe_point[i] \notin {"RUNNING", "NO_TRANSACTION"}
     /\ nursery_end' = [nursery_end EXCEPT ![i] = "SIGABORT"]
     /\ woken' = woken \cup Waiters(WakeOf(safe_point[i]))
     /\ KillDataStructures(i)
     /\ signalled_to_commit_soon' =
          [signalled_to_commit_soon EXCEPT ![s] = TRUE]
     /\ Return(t, Resolved(t))
     /\ UNCHANGED <<segVars, signal_when_done, pauseVars, readVars>>

-----------------------------------------------------------------------------
(* Coming back from cond_wait(), with the mutex.                           *)

Awake(t, c) == /\ mutex = NULL /\ pc[t] = c /\ t \in woken
               /\ mutex' = t
               /\ UNCHANGED assoc

ResumeSegmentFree(t) ==
  /\ Awake(t, "wait_segment_free")
  /\ woken' = woken \ {t}
  /\ Goto(t, "acquire")
  /\ UNCHANGED <<call, segVars, signalVars, pauseVars, readVars, heapVars>>

Running(s) == safe_point' = [safe_point EXCEPT ![s] = "RUNNING"]

ResumeRequestRemoved(t) ==
  /\ Awake(t, "wait_request_removed")
  /\ woken' = woken \ {t}
  /\ Running(assoc[t])
  /\ Goto(t, "safe")
  /\ UNCHANGED <<call, running_thread, transaction_state, older, signalVars,
                 pauseVars, readVars, heapVars>>

\* The synchronizing thread was itself told to abort: it takes the requests
\* back first.
ResumeAtSafePoint(t) ==
  /\ Awake(t, "wait_at_safe_point")
  /\ Running(assoc[t])
  /\ IF must_abort(t)
     THEN /\ Goto(t, "abort")
          /\ pause_signalled' = FALSE
          /\ nursery_end' = Unpaused(nursery_end)
          /\ woken' = (woken \ {t}) \cup Paused
     ELSE /\ Goto(t, "stop")
          /\ woken' = woken \ {t}
          /\ UNCHANGED <<pause_signalled, nursery_end>>
  /\ UNCHANGED <<call, running_thread, transaction_state, older,
                 signal_when_done, signalled_to_commit_soon, globally_unique,
                 readVars, heapVars>>

ResumeTransactionDone(t) ==
  /\ Awake(t, "wait_transaction_done")
  /\ woken' = woken \ {t}
  /\ Running(assoc[t])
  /\ IF must_abort(t)
     THEN Goto(t, "abort") /\ UNCHANGED call
     ELSE Goto(t, Retried(t)) /\ call' = [call EXCEPT ![t].other = 0]
  /\ UNCHANGED <<running_thread, transaction_state, older, signalVars,
                 pauseVars, readVars, heapVars>>

\* Somebody aborted.  If the victim has stopped with its abort pending, its
\* data is undone here.
ResumeAborted(t) ==
  LET s == assoc[t]
      i == call[t].other
  IN /\ pc[t] = "wait_aborted" /\ t \in woken /\ mutex = NULL
     /\ woken' = woken \ {t}
     /\ IF must_abort(t)
        THEN /\ Goto(t, "abort") /\ mutex' = t
             /\ UNCHANGED <<call, assoc, signalled_to_commit_soon, heapVars>>
        ELSE /\ Return(t, Retried(t))
             /\ signalled_to_commit_soon' =
                  [signalled_to_commit_soon EXCEPT ![s] = TRUE]
             /\ IF is_aborting_now(i) THEN KillDataStructures(i)
                                      ELSE UNCHANGED heapVars
     /\ UNCHANGED <<segVars, nursery_end, signal_when_done, pauseVars,
                    readVars>>

-----------------------------------------------------------------------------
(* The specification.                                                      *)

\* What a thread does on its own once it is inside the library.
Library(t) ==
  \/ AcquireSegment(t) \/ WaitSegmentFree(t)
  \/ BumpVersion(t) \/ reset_transaction_read_version(t)
  \/ TakeWriteLock(t) \/ WriteLockTaken(t) \/ RecheckOwner(t)
  \/ SafePointAbort(t) \/ SafePointCommitSoon(t) \/ SafePointPause(t)
  \/ SafePointDone(t)
  \/ AlreadyUnique(t) \/ signal_everybody_to_pause_running(t)
  \/ WaitAtSafePoint(t) \/ AllStopped(t) \/ BecomeGloballyUnique(t)
  \/ InevitableContention(t) \/ BecomeInevitable(t)
  \/ DetectConflict(t) \/ Commit(t) \/ Abort(t)
  \/ ContentionMustAbort(t) \/ ContentionSleep(t) \/ ContentionAbortSelf(t)
  \/ ContentionAbortRunning(t) \/ ContentionAbortStopped(t)

\* Getting the mutex, from pthread_mutex_lock() or pthread_cond_wait().
TakeMutex(t) ==
  \/ Lock(t)
  \/ ResumeSegmentFree(t) \/ ResumeRequestRemoved(t) \/ ResumeAtSafePoint(t)
  \/ ResumeTransactionDone(t) \/ ResumeAborted(t)

\* What the program using the library decides.
User(t) ==
  \/ StartTransaction(t)
  \/ \E o \in Objects : stm_read(t, o) \/ stm_write(t, o)
  \/ \E o \in Objects, v \in Values : Store(t, o, v)
  \/ \E o \in Requests : RequestMutex(t, o)

Next == \E t \in Threads : \/ Library(t) \/ TakeMutex(t) \/ User(t)
                           \/ SpuriousWakeup(t)

Spec == Init /\ [][Next]_vars

\* A running transaction reaches a safe point when one is requested, every
\* transaction asks to commit in the end, the scheduler runs every thread
\* and the mutex is given to every thread that keeps waiting for it.
Fairness == \A t \in Threads :
  /\ WF_vars(Library(t))
  /\ SF_vars(TakeMutex(t))
  /\ WF_vars(RequestMutex(t, "safe_point"))
  /\ SF_vars(RequestMutex(t, "commit"))

FairSpec == Spec /\ Fairness

-----------------------------------------------------------------------------
TypeOK ==
  /\ mutex \in Threads \cup {NULL}
  /\ pc \in [Threads -> Waits \cup Unlocked \cup Locked]
  /\ call \in [Threads -> Calls]
  /\ woken \subseteq Threads
  /\ assoc \in [Threads -> Segs]
  /\ running_thread \in [Segs -> Threads \cup {NULL}]
  /\ safe_point \in [Segs -> {"NO_TRANSACTION", "RUNNING",
       "WAIT_FOR_C_REQUEST_REMOVED", "WAIT_FOR_C_AT_SAFE_POINT",
       "WAIT_FOR_C_TRANSACTION_DONE"}]
  /\ transaction_state \in [Segs -> {"NONE", "REGULAR", "INEVITABLE"}]
  /\ older \in [Segs -> SUBSET Segs]
  /\ nursery_end \in [Segs -> {"NURSERY_END", "SIGABORT", "SIGPAUSE",
                               "SIGCOMMITSOON"}]
  /\ signal_when_done \in [Segs -> BOOLEAN]
  /\ signalled_to_commit_soon \in [Segs -> BOOLEAN]
  /\ pause_signalled \in BOOLEAN
  /\ globally_unique \in BOOLEAN
  /\ version \in [Segs -> 0..MAX_VERSION]
  /\ rm \in [Segs -> [Objects -> 0..MAX_VERSION]]
  /\ seen \in [Segs -> [Objects -> Values \cup {NULL}]]
  /\ mem \in [Copies -> [Objects -> Values]]
  /\ modified \in [Segs -> SUBSET Objects]
  /\ write_locks \in [Objects -> Copies]

-----------------------------------------------------------------------------
(* Safety.                                                                 *)

\* write_locks[] and modified_old_objects say the same thing at every step:
\* a locked object is in the list of exactly the segment that locked it
\* (core.c: TakeWriteLock, push_modified_to_other_segments,
\* reset_modified_from_other_segments, also when run by another thread).
LockOwnership == \A s \in Segs, o \in Objects :
                   write_locks[o] = s <=> o \in modified[s]

\* Isolation: what a transaction stored is in its own copy only, and every
\* other copy of an object holds the committed contents (core.c: commit and
\* abort copy whole objects between segments).
Isolation == \A s \in Segs, o \in Objects :
               o \notin modified[s] => mem[s][o] = mem[0][o]

\* A transaction whose data was not, and is not about to be, undone.
Alive(s) ==
  /\ transaction_state[s] # "NONE"
  /\ ~ /\ is_abort(s)
       /\ \/ safe_point[s] # "RUNNING"
          \/ pc[running_thread[s]] \in {"safe", "abort"}

\* Opacity: all that a live transaction ever read is what is committed right
\* now, so it sees one consistent snapshot and commits as if it had run at
\* this instant (core.c: detect_write_read_conflicts, contention.c).
Opacity == \A s \in Segs : Alive(s) =>
             \A o \in Objects : seen[s][o] \in {NULL, mem[0][o]}

\* At most one transaction is inevitable, nobody tells it to abort and it
\* does not abort itself (contention.c:145-158, the fatal errors of
\* abort_data_structures_from_segment_num at core.c:966-974).
InevitableIsSafe ==
  /\ \A r, s \in OtherInevitable : r = s
  /\ \A s \in OtherInevitable :
       ~is_abort(s) /\ pc[running_thread[s]] # "abort"

\* The threads that may touch objects at any moment.
Mutators == {t \in Threads : pc[t] \in {"bump", "reset", "run", "write"}}

\* Stop the world: from the moment a committing thread starts looking for
\* conflicts, and as long as a transaction is globally unique, no thread but
\* that one runs code that reads or writes objects (sync.c:358-401; "we
\* should not call cond_wait() in the meantime", core.c:829).
StopTheWorld ==
  \A t \in Threads :
    \/ pc[t] = "detect"
    \/ pc[t] = "contention" /\ call[t].op = "commit"
    \/ globally_unique /\ transaction_state[assoc[t]] = "INEVITABLE"
                       /\ running_thread[assoc[t]] = t
    => Mutators \subseteq {t}

\* The assertions on pause requests (sync.c:272-281, 295, 304-311, 369, 391,
\* 405-406, core.c:844): requests are out exactly while somebody synchronizes
\* or is globally unique, and then no segment but the unique one is free to
\* go on unsignalled; who goes past its synchronization has no signal left.
PauseRequests ==
  /\ pause_signalled <=>
       \/ globally_unique
       \/ \E t \in Threads : pc[t] \in {"stop", "wait_at_safe_point"}
  /\ pause_signalled => \A s \in Segs : nursery_end[s] = "NURSERY_END" =>
       globally_unique /\ transaction_state[s] = "INEVITABLE"
  /\ ~pause_signalled => \A s \in Segs : nursery_end[s] # "SIGPAUSE"
  /\ \A t, u \in Threads : {pc[t], pc[u]} \subseteq
                             {"stop", "wait_at_safe_point"} => t = u
  /\ \A t \in Threads :
       /\ pc[t] = "detect" => nursery_end[assoc[t]] = "NURSERY_END"
       /\ Holds(t, "stop") => nursery_end[assoc[t]] = "SIGPAUSE"

\* contention_management() is never asked about a segment with nothing to
\* abort: "unexpected other_pseg->safe_point" (contention.c:266) and the
\* fatal errors of core.c:971 are unreachable.
VictimIsRunning == \A t \in Threads : pc[t] = "contention" =>
  LET s == assoc[t]
      i == call[t].other
  IN /\ i # s /\ transaction_state[i] # "NONE"
     /\ AbortOther(s, i) => transaction_state[i] = "REGULAR"

\* The assertion of was_read_remote() (core.h:292): no read marker is ahead
\* of its segment's version when a commit looks at it, also across the wrap
\* at 0xff that is done without the mutex.
MarkersBehindVersion ==
  (\E t \in Threads : pc[t] = "detect") =>
    \A s \in Segs, o \in Objects :
      transaction_state[s] # "NONE" => rm[s][o] <= version[s]

\* No lost wakeup: a thread that waits on a condition variable, and was not
\* signalled, waits for something that is still to happen (sync.c:179, 200,
\* 352; contention.c:174-185, 234).
NoLostWakeup ==
  /\ \A t \in Waiters("wait_request_removed") :
       pause_signalled /\ ~must_abort(t)
  /\ \A t \in Waiters("wait_at_safe_point") : ~must_abort(t)
  /\ \A t \in Waiters("wait_transaction_done") :
       signal_when_done[call[t].other] /\ ~must_abort(t)
  /\ \A t \in Waiters("wait_aborted") : is_abort(call[t].other)
  /\ Waiters("wait_segment_free") # {} /\ FreeSegs # {} =>
       \E t \in Threads : \/ pc[t] = "wait_segment_free" /\ t \in woken
                          \/ pc[t] = "acquire"

\* An inevitable transaction keeps all it has written until it commits, and
\* then all of it becomes visible at once (core.c:871-877, 966-974).
InevitableIsNeverUndone ==
  [][\A s \in OtherInevitable :
       \/ transaction_state'[s] = "INEVITABLE" /\ modified[s] \subseteq modified'[s]
       \/ \A o \in modified[s] : mem'[0][o] = mem[s][o]]_vars

\* stmgc.h:36: the read marker is equal to transaction_read_version if and
\* only if the object was read in the current transaction.  A commit relies
\* on it when it takes a segment for conflicting.
ConflictsAreReal ==
  \A t \in Threads : pc[t] = "contention" /\ call[t].op = "commit" =>
    \E o \in modified[assoc[t]] : seen[call[t].other][o] # NULL

-----------------------------------------------------------------------------
(* What the library implements: the segments are the slots of AtomicStm.   *)

AbstractStatus(s) ==
  CASE transaction_state[s] = "NONE"       -> "idle"
    [] transaction_state[s] = "INEVITABLE" -> "inevitable"
    [] OTHER -> IF Alive(s) THEN "active" ELSE "doomed"
\* What a live transaction has read, and what it has written.
AbstractReads(s) == [o \in Objects |-> IF Alive(s) THEN seen[s][o] ELSE NULL]
AbstractWrites(s) == [o \in Objects |->
  IF Alive(s) /\ o \in modified[s] THEN mem[s][o] ELSE NULL]
Atomic == INSTANCE AtomicStm WITH
  Slots  <- Segs,
  None   <- NULL,
  store  <- mem[0],
  status <- [s \in Segs |-> AbstractStatus(s)],
  reads  <- [s \in Segs |-> AbstractReads(s)],
  writes <- [s \in Segs |-> AbstractWrites(s)]

\* The whole machinery of segments, read markers, write locks and contention
\* management behaves like atomic transactions (core.c, sync.c,
\* contention.c against the promises of stmgc.h).
ImplementsAtomicStm == Atomic!Spec

-----------------------------------------------------------------------------
(* Liveness, under FairSpec.                                               *)

\* A transaction that was told to abort does ("it will soon enter a
\* mutex_lock() and thus abort", contention.c:216).
SignalledAborts == \A s \in Segs : is_abort(s) ~> ~is_abort(s)

\* A thread that asked all others to stop gets there, although a thread that
\* aborts meanwhile does not signal C_AT_SAFE_POINT (sync.c:377-387).
SynchronizerProceeds == \A t \in Threads :
  pc[t] = "wait_at_safe_point" ~> pc[t] \notin {"wait_at_safe_point", "stop"}

\* "To prevent loops of threads waiting for each others" (contention.c:170):
\* nobody sleeps in the contention manager for ever.
SleepersWakeUp == \A t \in Threads :
  pc[t] \in {"wait_transaction_done", "wait_aborted"} ~>
    pc[t] \notin {"wait_transaction_done", "wait_aborted"}

\* An inevitable transaction commits, unless it runs into an object that is
\* locked by somebody else: the retry after the wait for the abort (core.c:178)
\* races with the next transaction that wants the lock, "the transaction very
\* often restarts too quickly" (core.c:1087), and may lose for ever.
InevitableCommits == \A t \in Threads :
  transaction_state[assoc[t]] = "INEVITABLE" /\ running_thread[assoc[t]] = t
    ~> \/ pc[t] \in {"outside", "start"}
       \/ pc[t] = "write" /\ write_locks[call[t].obj] # 0
=============================================================================
