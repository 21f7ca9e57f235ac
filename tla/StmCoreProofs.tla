--------------------------- MODULE StmCoreProofs ---------------------------
(* Types, write locks, copies of the objects, inevitable transactions,     *)
(* pause requests, stopping the world, waking up, opacity and the          *)
(* refinement of AtomicStm: the assertions of sync.c and core.c hold of    *)
(* StmCore for any number of segments, threads, objects and values.        *)
EXTENDS StmCore, TLAPS
LOCAL INSTANCE Functions

\* What a thread's call says is in step with where the thread is.
CallOK ==
  \A t \in Threads :
    /\ call[t].op = "write" => call[t].obj \in Objects
    /\ pc[t] \in {"write", "recheck"} => call[t].op = "write"
    /\ pc[t] = "start" => call[t].op = "start"
    /\ pc[t] = "request" => call[t].op # "start"
    /\ pc[t] = "wait_transaction_done" => call[t].op # "write"
    /\ pc[t] \in {"contention", "wait_transaction_done", "wait_aborted"} =>
         call[t].other \in Segs

TypeInv == TypeOK /\ CallOK

-----------------------------------------------------------------------------
\* Segment 0 is the shared copy, not one a transaction runs in.
LEMMA SegsFacts == /\ 0 \notin Segs
                   /\ Copies = Segs \cup {0}
                   /\ Segs \subseteq Nat
  BY CoreAssumption DEF Segs, Copies

\* A new call has the operation it was made for and nothing else.
LEMMA CallRecords ==
  /\ Idle \in Calls /\ Idle.op = "none" /\ Idle.other = 0
  /\ \A o \in Ops : Request(o) \in Calls /\ Request(o).op = o
  BY SegsFacts DEF Idle, Request, Calls, Ops

\* The program starts with every variable in its type.
LEMMA InitTypeInv == Init => TypeInv
  <1> SUFFICES ASSUME Init PROVE TypeInv
    OBVIOUS
  <1>1. Idle \in Calls /\ Idle.op = "none"
    BY CallRecords
  <1>2. /\ mutex \in Threads \cup {NULL}
        /\ pc \in [Threads -> Waits \cup Unlocked \cup Locked]
        /\ call \in [Threads -> Calls]
        /\ woken \subseteq Threads
    BY <1>1 DEF Init, Unlocked
  <1>3. mem \in [Copies -> [Objects -> Values]]
    BY DEF Init
  <1>4. /\ version \in [Segs -> 0..MAX_VERSION]
        /\ rm \in [Segs -> [Objects -> 0..MAX_VERSION]]
    BY CoreAssumption DEF Init
  <1>5. TypeOK
    BY <1>2, <1>3, <1>4, SegsFacts DEF Init, TypeOK
  <1>6. CallOK
    BY <1>1 DEF Init, CallOK
  <1> QED BY <1>5, <1>6 DEF TypeInv

\* Contention management stores the segment it is called against.
LEMMA CallAgainst ==
  ASSUME call \in [Threads -> Calls], NEW t \in Threads, NEW i \in Copies,
         call' = [call EXCEPT ![t].other = i]
  PROVE  /\ call' \in [Threads -> Calls]
         /\ call'[t].other = i
         /\ \A u \in Threads : /\ call'[u].op = call[u].op
                              /\ call'[u].obj = call[u].obj
                              /\ u # t => call'[u] = call[u]
  <1> DEFINE c == [call[t] EXCEPT !.other = i]
  <1>1. call[t] \in Calls
    OBVIOUS
  <1>2. /\ c \in Calls /\ c.other = i
        /\ c.op = call[t].op /\ c.obj = call[t].obj
    BY <1>1 DEF Calls
  <1>3. call' = [call EXCEPT ![t] = c]
    BY <1>1 DEF Calls
  <1> HIDE DEF c
  <1> QED BY <1>2, <1>3

\* Contention management is done: the opponent is forgotten.
LEMMA CallAlone ==
  ASSUME call \in [Threads -> Calls], NEW t \in Threads,
         call' = [call EXCEPT ![t].other = 0]
  PROVE  /\ call' \in [Threads -> Calls]
         /\ \A u \in Threads : /\ call'[u].op = call[u].op
                              /\ call'[u].obj = call[u].obj
                              /\ u # t => call'[u] = call[u]
  <1>1. 0 \in Copies
    BY SegsFacts
  <1> QED BY <1>1, CallAgainst

\* The read version wraps and so stays a byte (core.c:362).
LEMMA NextVersionInRange ==
  ASSUME TypeOK, NEW s \in Segs
  PROVE  NextVersion(s) \in 0..MAX_VERSION
  BY CoreAssumption DEF TypeOK, NextVersion

\* A signal wakes up registered threads only.
LEMMA SignalledThreads ==
  ASSUME NEW c, NEW w \in Signalled(c)
  PROVE  w \subseteq Threads
  BY DEF Signalled, Waiters

\* Copying objects between segments yields objects.
LEMMA CopiesStayTyped ==
  ASSUME TypeOK, NEW s \in Segs, NEW i \in Copies
  PROVE  /\ Pushed(s) \in [Copies -> [Objects -> Values]]
         /\ Restored(s) \in [Copies -> [Objects -> Values]]
         /\ Released(s) \in [Objects -> Copies]
         /\ Unpaused(nursery_end) \in
              [Segs -> {"NURSERY_END", "SIGABORT", "SIGPAUSE", "SIGCOMMITSOON"}]
  BY SegsFacts DEF TypeOK, Pushed, Restored, Released, Unpaused

\* The steps that find an opponent only record which segment it is in.
LEMMA ToContention ==
  ASSUME TypeInv, NEW t \in Threads, NEW i \in Segs,
         call' = [call EXCEPT ![t].other = i], Goto(t, "contention"),
         mutex' = mutex,
         UNCHANGED <<woken, assoc, segVars, signalVars, pauseVars, readVars,
                     heapVars>>
  PROVE  TypeInv'
  <1>1. i \in Copies
    BY SegsFacts
  <1>2. /\ call' \in [Threads -> Calls] /\ call'[t].other = i
        /\ \A u \in Threads : /\ call'[u].op = call[u].op
                             /\ call'[u].obj = call[u].obj
                             /\ u # t => call'[u] = call[u]
    BY <1>1, CallAgainst DEF TypeInv, TypeOK
  <1>3. TypeOK'
    BY <1>2 DEF TypeInv, TypeOK, Goto, Waits, Unlocked, Locked, segVars,
                signalVars, pauseVars, readVars, heapVars
  <1>4. CallOK'
    BY <1>2 DEF TypeInv, TypeOK, CallOK, Goto
  <1> QED BY <1>3, <1>4 DEF TypeInv

\* Every step inside the library keeps the types.
LEMMA LibraryTypeInv ==
  ASSUME TypeInv, NEW t \in Threads, Library(t)
  PROVE  TypeInv'
  <1> USE SegsFacts, CoreAssumption, CallRecords
      DEF TypeInv, TypeOK, CallOK, vars, threadVars, segVars, signalVars,
          pauseVars, readVars, heapVars,
          Waits, Unlocked, Locked,
          Holds, Goto, Continue, Leave, Wait, must_abort, is_abort, InContention
  <1>1. CASE AcquireSegment(t)
    BY <1>1 DEF AcquireSegment, FreeSegs
  <1>2. CASE WaitSegmentFree(t)
    BY <1>2 DEF WaitSegmentFree
  <1>3. CASE BumpVersion(t)
    BY ZenonT(60), <1>3, NextVersionInRange DEF BumpVersion
  <1>4. CASE reset_transaction_read_version(t)
    BY <1>4 DEF reset_transaction_read_version, ClearedMarkers
  <1>5. CASE TakeWriteLock(t)
    <2>1. call[t].obj \in Objects /\ assoc[t] \in Segs
      BY <1>5 DEF TakeWriteLock
    <2>2. /\ write_locks' \in [Objects -> Copies]
          /\ modified' \in [Segs -> SUBSET Objects]
          /\ call' \in [Threads -> Calls]
      <3>1. write_locks' \in [Objects -> Copies]
        BY <1>5, <2>1 DEF TakeWriteLock
      <3>2. modified' \in [Segs -> SUBSET Objects]
        BY ZenonT(60), <1>5, <2>1 DEF TakeWriteLock
      <3>3. call' \in [Threads -> Calls]
        BY <1>5, <2>1 DEF TakeWriteLock
      <3> QED BY <3>1, <3>2, <3>3
    <2>3. TypeOK'
      BY <1>5, <2>2 DEF TakeWriteLock
    <2>4. CallOK'
      BY <1>5 DEF TakeWriteLock
    <2> QED BY <2>3, <2>4
  <1>6. CASE WriteLockTaken(t)
    BY <1>6 DEF WriteLockTaken
  <1>7. CASE RecheckOwner(t)
    <2>1. CASE write_locks[call[t].obj] = 0
      <3>1. /\ call' = call /\ mutex' = NULL /\ Goto(t, "write")
            /\ UNCHANGED <<woken, assoc, segVars, signalVars, pauseVars,
                           readVars, heapVars>>
        BY <1>7, <2>1 DEF RecheckOwner
      <3>2. call[t].op = "write"
        BY <1>7 DEF RecheckOwner
      <3> QED BY <3>1, <3>2
    <2>2. CASE write_locks[call[t].obj] # 0
      <3>1. PICK i \in Segs : call' = [call EXCEPT ![t].other = i]
        BY <1>7, <2>2 DEF RecheckOwner
      <3>2. /\ mutex' = mutex /\ Goto(t, "contention")
            /\ UNCHANGED <<woken, assoc, segVars, signalVars, pauseVars,
                           readVars, heapVars>>
        BY <1>7, <2>2 DEF RecheckOwner
      <3> QED BY <3>1, <3>2, ToContention
    <2> QED BY <2>1, <2>2
  <1>8. CASE SafePointAbort(t)
    BY <1>8 DEF SafePointAbort
  <1>9. CASE SafePointCommitSoon(t)
    BY <1>9 DEF SafePointCommitSoon
  <1>10. CASE SafePointPause(t)
    BY <1>10 DEF SafePointPause, SignalAtSafePoint, Signalled, Waiters
  <1>11. CASE SafePointDone(t)
    <2>1. CASE call[t].op = "start" /\ Leave(t, "bump") /\ UNCHANGED woken
      BY <1>11, <2>1 DEF SafePointDone
    <2>2. CASE call[t].op = "safe_point" /\ Leave(t, "run") /\ UNCHANGED woken
      BY <1>11, <2>2 DEF SafePointDone
    <2>3. CASE call[t].op = "inevitable" /\ Continue(t, "inevitable")
      BY <1>11, <2>3 DEF SafePointDone
    <2>4. CASE call[t].op \in {"commit", "unique"} /\ Continue(t, "sync")
      BY <1>11, <2>4 DEF SafePointDone
    <2> QED BY <1>11, <2>1, <2>2, <2>3, <2>4 DEF SafePointDone
  <1>12. CASE AlreadyUnique(t)
    BY <1>12 DEF AlreadyUnique
  <1>13. CASE signal_everybody_to_pause_running(t)
    BY <1>13 DEF signal_everybody_to_pause_running
  <1>14. CASE WaitAtSafePoint(t)
    BY <1>14 DEF WaitAtSafePoint
  <1>15. CASE AllStopped(t)
    <2>1. assoc[t] \in Segs
      OBVIOUS
    <2>2. /\ nursery_end' \in [Segs -> {"NURSERY_END", "SIGABORT", "SIGPAUSE",
                                       "SIGCOMMITSOON"}]
          /\ woken' \subseteq Threads
      BY <1>15, <2>1, CopiesStayTyped DEF AllStopped, Paused, Waiters
    <2>3. TypeOK'
      BY <1>15, <2>2 DEF AllStopped
    <2>4. CallOK'
      BY <1>15 DEF AllStopped
    <2> QED BY <2>3, <2>4
  <1>16. CASE BecomeGloballyUnique(t)
    BY <1>16 DEF BecomeGloballyUnique
  <1>17. CASE InevitableContention(t)
    <2>1. PICK i \in Segs : call' = [call EXCEPT ![t].other = i]
      BY <1>17 DEF InevitableContention, OtherInevitable
    <2>2. /\ mutex' = mutex /\ Goto(t, "contention")
          /\ UNCHANGED <<woken, assoc, segVars, signalVars, pauseVars,
                         readVars, heapVars>>
      BY <1>17 DEF InevitableContention
    <2> QED BY <2>1, <2>2, ToContention
  <1>18. CASE BecomeInevitable(t)
    BY <1>18 DEF BecomeInevitable
  <1>19. CASE DetectConflict(t)
    <2>1. PICK i \in Segs : call' = [call EXCEPT ![t].other = i]
      BY <1>19 DEF DetectConflict, Conflicts
    <2>2. /\ mutex' = mutex /\ Goto(t, "contention")
          /\ UNCHANGED <<woken, assoc, segVars, signalVars, pauseVars,
                         readVars, heapVars>>
      BY <1>19 DEF DetectConflict
    <2> QED BY <2>1, <2>2, ToContention
  <1>20. CASE Commit(t)
    <2>1. assoc[t] \in Segs
      OBVIOUS
    <2>2. /\ mem' \in [Copies -> [Objects -> Values]]
          /\ write_locks' \in [Objects -> Copies]
          /\ nursery_end' \in [Segs -> {"NURSERY_END", "SIGABORT", "SIGPAUSE",
                                        "SIGCOMMITSOON"}]
      BY ZenonT(60), <1>20, <2>1, CopiesStayTyped DEF Commit, FinishTransaction
    <2>3. woken' \subseteq Threads
      BY <1>20, SignalledThreads
      DEF Commit, FinishTransaction, Paused, Waiters, Sleepers
    <2>4. TypeOK'
      BY <1>20, <2>1, <2>2, <2>3 DEF Commit, FinishTransaction
    <2>5. CallOK'
      BY <1>20 DEF Commit, FinishTransaction
    <2> QED BY <2>4, <2>5
  <1>21. CASE Abort(t)
    <2>1. assoc[t] \in Segs
      OBVIOUS
    <2>2. /\ mem' \in [Copies -> [Objects -> Values]]
          /\ write_locks' \in [Objects -> Copies]
      BY <1>21, <2>1, CopiesStayTyped DEF Abort, FinishTransaction
    <2>3. woken' \subseteq Threads
      BY <1>21, SignalledThreads DEF Abort, FinishTransaction, Waiters, Sleepers
    <2>4. TypeOK'
      BY <1>21, <2>1, <2>2, <2>3 DEF Abort, FinishTransaction, SignalAfterAbort, Ops
    <2>5. CallOK'
      BY <1>21 DEF Abort, FinishTransaction, Ops
    <2> QED BY <2>4, <2>5
  <1>22. CASE ContentionMustAbort(t)
    BY <1>22 DEF ContentionMustAbort
  <1>23. CASE ContentionSleep(t)
    <2>1. call[t].op # "write"
      BY <1>23 DEF ContentionSleep, Sleeps
    <2>2. woken' \subseteq Threads
      BY <1>23, SignalledThreads DEF ContentionSleep, SignalAtSafePoint
    <2>3. TypeOK'
      BY <1>23, <2>2 DEF ContentionSleep, CommitSoon
    <2>4. CallOK'
      BY <1>23, <2>1 DEF ContentionSleep
    <2> QED BY <2>3, <2>4
  <1>24. CASE ContentionAbortSelf(t)
    BY <1>24 DEF ContentionAbortSelf, CommitSoon
  <1>25. CASE ContentionAbortRunning(t)
    BY <1>25 DEF ContentionAbortRunning
  <1>26. CASE ContentionAbortStopped(t)
    <2> DEFINE i == call[t].other
    <2>1. i \in Segs
      BY <1>26 DEF ContentionAbortStopped
    <2>2. /\ mem' \in [Copies -> [Objects -> Values]]
          /\ write_locks' \in [Objects -> Copies]
          /\ modified' \in [Segs -> SUBSET Objects]
      BY <1>26, <2>1, CopiesStayTyped DEF ContentionAbortStopped, KillDataStructures
    <2>3. call' = [call EXCEPT ![t].other = 0]
      BY <1>26 DEF ContentionAbortStopped, Return
    <2>4. Resolved(t) \in {"write", "detect", "inevitable"}
          /\ (Resolved(t) = "write" <=> call[t].op = "write")
      BY DEF Resolved
    <2>5. TypeOK'
      BY ZenonT(60), <1>26, <2>2, <2>3, <2>4, CallAgainst
      DEF ContentionAbortStopped, Waiters, Return
    <2>6. CallOK'
      BY <1>26, <2>3, <2>4, CallAgainst DEF ContentionAbortStopped, Return
    <2> QED BY <2>5, <2>6
  <1> QED
    BY <1>1, <1>2, <1>3, <1>4, <1>5, <1>6, <1>7, <1>8, <1>9, <1>10, <1>11,
       <1>12, <1>13, <1>14, <1>15, <1>16, <1>17, <1>18, <1>19, <1>20, <1>21,
       <1>22, <1>23, <1>24, <1>25, <1>26
    DEF Library

\* Where a call goes on after contention management.
LEMMA WhereToGoOn ==
  \A t : /\ Resolved(t) \in {"write", "detect", "inevitable"}
         /\ Retried(t) \in {"write", "safe", "inevitable"}
         /\ Resolved(t) = "write" <=> call[t].op = "write"
         /\ Retried(t) = "write" <=> call[t].op = "write"
  BY DEF Resolved, Retried

\* The steps that come back from contention_management().
LEMMA BackFromContention ==
  ASSUME TypeInv, NEW t \in Threads, NEW p, Goto(t, p),
         p \in {"write", "detect", "safe", "inevitable"},
         p = "write" => call[t].op = "write",
         call' = [call EXCEPT ![t].other = 0]
  PROVE  /\ pc' \in [Threads -> Waits \cup Unlocked \cup Locked]
         /\ call' \in [Threads -> Calls]
         /\ CallOK'
  <1>1. /\ call' \in [Threads -> Calls]
        /\ \A u \in Threads : /\ call'[u].op = call[u].op
                             /\ call'[u].obj = call[u].obj
                             /\ u # t => call'[u] = call[u]
    BY CallAlone DEF TypeInv, TypeOK
  <1>2. pc' \in [Threads -> Waits \cup Unlocked \cup Locked]
    BY DEF TypeInv, TypeOK, Goto, Waits, Unlocked, Locked
  <1>3. CallOK'
    BY <1>1 DEF TypeInv, TypeOK, CallOK, Goto
  <1> QED BY <1>1, <1>2, <1>3

\* Getting the mutex keeps the types.
LEMMA TakeMutexTypeInv ==
  ASSUME TypeInv, NEW t \in Threads, TakeMutex(t)
  PROVE  TypeInv'
  <1> USE SegsFacts, CoreAssumption, CallRecords
      DEF TypeInv, TypeOK, CallOK, segVars, signalVars, pauseVars, readVars,
          heapVars, Waits, Unlocked, Locked, Goto, Awake, Running
  <1>1. CASE Lock(t)
    BY <1>1 DEF Lock, Entry
  <1>2. CASE ResumeSegmentFree(t)
    BY <1>2 DEF ResumeSegmentFree
  <1>3. CASE ResumeRequestRemoved(t)
    BY <1>3 DEF ResumeRequestRemoved
  <1>4. CASE ResumeAtSafePoint(t)
    <2>1. assoc[t] \in Segs
      OBVIOUS
    <2>2. nursery_end' \in [Segs -> {"NURSERY_END", "SIGABORT", "SIGPAUSE",
                                    "SIGCOMMITSOON"}]
      BY ZenonT(60), <1>4, <2>1, CopiesStayTyped DEF ResumeAtSafePoint
    <2>3. woken' \subseteq Threads /\ pause_signalled' \in BOOLEAN
      BY ZenonT(60), <1>4 DEF ResumeAtSafePoint, Paused, Waiters
    <2>4. pc'[t] \in {"abort", "stop"} /\ pc' = [pc EXCEPT ![t] = pc'[t]]
      BY <1>4 DEF ResumeAtSafePoint
    <2>5. /\ pc' \in [Threads -> Waits \cup Unlocked \cup Locked]
          /\ safe_point' \in [Segs -> {"NO_TRANSACTION", "RUNNING",
               "WAIT_FOR_C_REQUEST_REMOVED", "WAIT_FOR_C_AT_SAFE_POINT",
               "WAIT_FOR_C_TRANSACTION_DONE"}]
      BY <1>4, <2>4 DEF ResumeAtSafePoint
    <2>7. TypeOK'
      BY <1>4, <2>2, <2>3, <2>5 DEF ResumeAtSafePoint
    <2>6. CallOK'
      BY <1>4, <2>4 DEF ResumeAtSafePoint
    <2> QED BY <2>6, <2>7
  <1>5. CASE ResumeTransactionDone(t)
    <2>1. CASE must_abort(t)
      <3>1. Goto(t, "abort") /\ UNCHANGED call
        BY <1>5, <2>1 DEF ResumeTransactionDone
      <3>2. TypeOK'
        BY <1>5, <3>1 DEF ResumeTransactionDone
      <3>3. CallOK'
        BY <3>1
      <3> QED BY <3>2, <3>3
    <2>2. CASE ~must_abort(t)
      <3>1. call' = [call EXCEPT ![t].other = 0] /\ Goto(t, Retried(t))
        BY <1>5, <2>2 DEF ResumeTransactionDone
      <3> HIDE DEF TypeInv, CallOK, Goto
      <3>2. /\ pc' \in [Threads -> Waits \cup Unlocked \cup Locked]
            /\ call' \in [Threads -> Calls]
            /\ CallOK'
        BY <3>1, BackFromContention, WhereToGoOn
      <3>3. TypeOK'
        BY <1>5, <3>2 DEF ResumeTransactionDone, TypeInv
      <3> QED BY <3>2, <3>3 DEF TypeInv
    <2> QED BY <2>1, <2>2
  <1>6. CASE ResumeAborted(t)
    <2>1. CASE must_abort(t)
      BY <1>6, <2>1 DEF ResumeAborted
    <2>2. CASE ~must_abort(t)
      <3>1. call' = [call EXCEPT ![t].other = 0] /\ Goto(t, Retried(t))
        BY <1>6, <2>2 DEF ResumeAborted, Return
      <3>2. call[t].other \in Segs
        BY <1>6 DEF ResumeAborted
      <3>3. /\ mem' \in [Copies -> [Objects -> Values]]
            /\ write_locks' \in [Objects -> Copies]
            /\ modified' \in [Segs -> SUBSET Objects]
        <4>1. CASE KillDataStructures(call[t].other)
          BY <3>2, <4>1, CopiesStayTyped DEF KillDataStructures
        <4>2. CASE UNCHANGED heapVars
          BY <4>2
        <4> QED BY <1>6, <2>2, <4>1, <4>2 DEF ResumeAborted
      <3>4. /\ mutex' \in Threads \cup {NULL}
            /\ signalled_to_commit_soon' \in [Segs -> BOOLEAN]
            /\ UNCHANGED assoc
        BY ZenonT(60), <1>6, <2>2 DEF ResumeAborted, Return
      <3> HIDE DEF TypeInv, CallOK, Goto
      <3>5. /\ pc' \in [Threads -> Waits \cup Unlocked \cup Locked]
            /\ call' \in [Threads -> Calls]
            /\ CallOK'
        BY <3>1, BackFromContention, WhereToGoOn
      <3>6. TypeOK'
        BY <1>6, <3>3, <3>4, <3>5 DEF ResumeAborted, TypeInv
      <3> QED BY <3>5, <3>6 DEF TypeInv
    <2> QED BY <2>1, <2>2
  <1> QED BY <1>1, <1>2, <1>3, <1>4, <1>5, <1>6 DEF TakeMutex

\* A read leaves a version in the marker and a value in the history.
LEMMA MarkReadTyped ==
  ASSUME TypeOK, NEW s \in Segs, NEW o \in Objects, MarkRead(s, o)
  PROVE  /\ rm' \in [Segs -> [Objects -> 0..MAX_VERSION]]
         /\ seen' \in [Segs -> [Objects -> Values \cup {NULL}]]
  <1>1. mem[s][o] \in Values
    BY SegsFacts DEF TypeOK
  <1> QED BY <1>1 DEF TypeOK, MarkRead

\* The calls a program makes keep the types.
LEMMA UserTypeInv ==
  ASSUME TypeInv, NEW t \in Threads, User(t)
  PROVE  TypeInv'
  <1> USE SegsFacts, CoreAssumption, CallRecords
      DEF TypeInv, TypeOK, CallOK, threadVars, segVars, signalVars, pauseVars,
          readVars, heapVars, Waits, Unlocked, Locked, Goto, Ops
  <1>1. CASE StartTransaction(t)
    BY <1>1 DEF StartTransaction
  <1>2. ASSUME NEW o \in Objects, stm_read(t, o) PROVE TypeInv'
    BY <1>2, MarkReadTyped DEF stm_read
  <1>3. ASSUME NEW o \in Objects, stm_write(t, o) PROVE TypeInv'
    <2> DEFINE c == [Request("write") EXCEPT !.obj = o]
    <2>1. c \in Calls /\ c.op = "write" /\ c.obj = o
      BY SegsFacts DEF Request, Idle, Calls
    <2>2. call' = [call EXCEPT ![t] = c]
      BY <1>3 DEF stm_write
    <2> HIDE DEF c
    <2>3. /\ rm' \in [Segs -> [Objects -> 0..MAX_VERSION]]
          /\ seen' \in [Segs -> [Objects -> Values \cup {NULL}]]
      BY <1>3, MarkReadTyped DEF stm_write
    <2>6. call' \in [Threads -> Calls]
      BY <2>1, <2>2
    <2>5. TypeOK'
      BY <1>3, <2>3, <2>6 DEF stm_write
    <2>4. CallOK'
      BY <1>3, <2>1, <2>2 DEF stm_write
    <2> QED BY <2>4, <2>5
  <1>4. ASSUME NEW o \in Objects, NEW v \in Values, Store(t, o, v) PROVE TypeInv'
    BY <1>4 DEF Store
  <1>5. ASSUME NEW o \in Requests, RequestMutex(t, o) PROVE TypeInv'
    BY <1>5 DEF RequestMutex
  <1> QED BY <1>1, <1>2, <1>3, <1>4, <1>5 DEF User

\* Type correctness is inductive.
LEMMA NextTypeInv == TypeInv /\ [Next]_vars => TypeInv'
  <1> SUFFICES ASSUME TypeInv, [Next]_vars PROVE TypeInv'
    OBVIOUS
  <1>1. ASSUME NEW t \in Threads, SpuriousWakeup(t) PROVE TypeInv'
    BY <1>1 DEF SpuriousWakeup, TypeInv, TypeOK, CallOK, segVars, signalVars,
                pauseVars, readVars, heapVars
  <1>2. CASE UNCHANGED vars
    BY <1>2 DEF vars, threadVars, segVars, signalVars, pauseVars, readVars,
                heapVars, TypeInv, TypeOK, CallOK, Calls
  <1> QED BY <1>1, <1>2, LibraryTypeInv, TakeMutexTypeInv, UserTypeInv DEF Next

\* Every variable keeps its type, whatever the program does.
THEOREM TypeCorrect == Spec => []TypeOK
  <1>1. Spec => []TypeInv
    BY InitTypeInv, NextTypeInv, PTL DEF Spec
  <1> QED BY <1>1, PTL DEF TypeInv

-----------------------------------------------------------------------------
(* Write locks, lists of modified objects and private copies agree.  Only  *)
(* five kinds of steps touch any of them.                                  *)

HeapInv == LockOwnership /\ Isolation

\* At the start nothing is locked and all copies agree.
LEMMA InitHeapInv == Init => HeapInv
  BY SegsFacts DEF Init, HeapInv, LockOwnership, Isolation

\* Steps that leave the heap alone keep its invariant.
LEMMA HeapUntouched ==
  ASSUME HeapInv, UNCHANGED heapVars
  PROVE  HeapInv'
  BY DEF HeapInv, LockOwnership, Isolation, heapVars

\* A segment that is undone, by its own thread or by another one.
LEMMA HeapUndone ==
  ASSUME TypeOK, HeapInv, NEW s \in Segs,
         mem' = Restored(s), write_locks' = Released(s),
         modified' = [modified EXCEPT ![s] = {}]
  PROVE  HeapInv'
  <1>1. LockOwnership'
    BY SegsFacts DEF TypeOK, HeapInv, LockOwnership, Released
  <1>2. ASSUME NEW r \in Segs, NEW o \in Objects, o \notin modified'[r]
        PROVE  mem'[r][o] = mem'[0][o]
    <2>1. mem'[0] = mem[0]
      BY SegsFacts DEF TypeOK, Restored
    <2>2. CASE r = s
      BY <2>1, <2>2, SegsFacts DEF TypeOK, HeapInv, Isolation, Restored
    <2>3. CASE r # s
      <3>1. o \notin modified[r] /\ mem'[r] = mem[r]
        BY <1>2, <2>3, SegsFacts DEF TypeOK, Restored
      <3> QED BY <2>1, <3>1 DEF HeapInv, Isolation
    <2> QED BY <2>2, <2>3
  <1> QED BY <1>1, <1>2 DEF HeapInv, Isolation

\* A segment that commits: every copy of what it modified is overwritten.
LEMMA HeapCommitted ==
  ASSUME TypeOK, HeapInv, NEW s \in Segs,
         mem' = Pushed(s), write_locks' = Released(s),
         modified' = [modified EXCEPT ![s] = {}]
  PROVE  HeapInv'
  <1>1. LockOwnership'
    BY SegsFacts DEF TypeOK, HeapInv, LockOwnership, Released
  <1>2. ASSUME NEW r \in Segs, NEW o \in Objects, o \notin modified'[r]
        PROVE  mem'[r][o] = mem'[0][o]
    <2>1. r \in Copies /\ 0 \in Copies
      BY SegsFacts
    <2>2. CASE o \in modified[s]
      BY <2>1, <2>2 DEF Pushed
    <2>3. CASE o \notin modified[s]
      <3>1. o \notin modified[r]
        BY <1>2, <2>3 DEF TypeOK
      <3>2. mem'[r][o] = mem[r][o] /\ mem'[0][o] = mem[0][o]
        BY <2>1, <2>3 DEF Pushed
      <3> QED BY <3>1, <3>2 DEF HeapInv, Isolation
    <2> QED BY <2>2, <2>3
  <1> QED BY <1>1, <1>2 DEF HeapInv, Isolation

\* Taking a write lock enters the object in the list of its segment.
LEMMA HeapLocked ==
  ASSUME TypeInv, HeapInv, NEW t \in Threads, TakeWriteLock(t)
  PROVE  HeapInv'
  <1> DEFINE s == assoc[t]
             o == call[t].obj
  <1>1. s \in Segs /\ o \in Objects
    BY DEF TypeInv, TypeOK, CallOK, TakeWriteLock
  <1>2. /\ write_locks[o] = 0
        /\ write_locks' = [write_locks EXCEPT ![o] = s]
        /\ modified' = [modified EXCEPT ![s] = @ \cup {o}]
        /\ mem' = mem
    BY DEF TakeWriteLock
  <1> HIDE DEF s, o
  <1>3. LockOwnership'
    BY <1>1, <1>2, SegsFacts DEF TypeInv, TypeOK, HeapInv, LockOwnership
  <1>4. Isolation'
    BY <1>1, <1>2 DEF TypeInv, TypeOK, HeapInv, Isolation
  <1> QED BY <1>3, <1>4 DEF HeapInv

\* A store reaches an object behind its own write lock only.
LEMMA HeapStored ==
  ASSUME TypeInv, HeapInv, NEW t \in Threads, NEW o \in Objects,
         NEW v \in Values, Store(t, o, v)
  PROVE  HeapInv'
  <1> DEFINE s == assoc[t]
  <1>1. s \in Segs /\ s # 0
    BY SegsFacts DEF TypeInv, TypeOK
  <1>2. /\ o \in modified[s]
        /\ mem' = [mem EXCEPT ![s][o] = v]
        /\ UNCHANGED <<modified, write_locks>>
    BY DEF Store
  <1> HIDE DEF s
  <1>3. LockOwnership'
    BY <1>2 DEF HeapInv, LockOwnership
  <1>4. ASSUME NEW r \in Segs, NEW q \in Objects, q \notin modified'[r]
        PROVE  mem'[r][q] = mem'[0][q]
    <2>1. mem'[0] = mem[0]
      BY <1>1, <1>2, SegsFacts DEF TypeInv, TypeOK
    <2>2. mem'[r][q] = mem[r][q]
      BY <1>1, <1>2, <1>4, SegsFacts DEF TypeInv, TypeOK
    <2> QED BY <1>2, <1>4, <2>1, <2>2 DEF HeapInv, Isolation
  <1> QED BY <1>3, <1>4 DEF HeapInv, Isolation

\* Every step inside the library keeps locks, lists and copies together.
LEMMA LibraryHeapInv ==
  ASSUME TypeInv, HeapInv, NEW t \in Threads, Library(t)
  PROVE  HeapInv'
  <1>0. TypeOK /\ assoc[t] \in Segs
    BY DEF TypeInv, TypeOK
  <1>1. CASE TakeWriteLock(t)
    BY <1>1, HeapLocked
  <1>2. CASE Commit(t)
    BY <1>0, <1>2, HeapCommitted DEF Commit, FinishTransaction
  <1>3. CASE Abort(t)
    BY <1>0, <1>3, HeapUndone DEF Abort, FinishTransaction
  <1>4. CASE ContentionAbortStopped(t)
    <2>1. call[t].other \in Segs
      BY <1>4 DEF TypeInv, CallOK, ContentionAbortStopped, InContention, Holds
    <2> QED BY <1>0, <1>4, <2>1, HeapUndone
            DEF ContentionAbortStopped, KillDataStructures
  <1>5. CASE ~ (TakeWriteLock(t) \/ Commit(t) \/ Abort(t)
                \/ ContentionAbortStopped(t))
    <2>1. UNCHANGED heapVars
      BY <1>5 DEF Library, AcquireSegment, WaitSegmentFree, BumpVersion,
        reset_transaction_read_version, WriteLockTaken, RecheckOwner,
        SafePointAbort, SafePointCommitSoon, SafePointPause, SafePointDone,
        AlreadyUnique, signal_everybody_to_pause_running, WaitAtSafePoint,
        AllStopped, BecomeGloballyUnique, InevitableContention,
        BecomeInevitable, DetectConflict, ContentionMustAbort,
        ContentionSleep, ContentionAbortSelf, ContentionAbortRunning
    <2> QED BY <2>1, HeapUntouched
  <1> QED BY <1>1, <1>2, <1>3, <1>4, <1>5

\* So does a thread that gets the mutex and undoes its victim.
LEMMA TakeMutexHeapInv ==
  ASSUME TypeInv, HeapInv, NEW t \in Threads, TakeMutex(t)
  PROVE  HeapInv'
  <1>1. CASE ResumeAborted(t)
    <2>1. TypeOK /\ call[t].other \in Segs
      BY <1>1 DEF TypeInv, CallOK, ResumeAborted
    <2>2. CASE KillDataStructures(call[t].other)
      BY <2>1, <2>2, HeapUndone DEF KillDataStructures
    <2>3. CASE UNCHANGED heapVars
      BY <2>3, HeapUntouched
    <2> QED BY <1>1, <2>2, <2>3 DEF ResumeAborted
  <1>2. CASE ~ResumeAborted(t)
    <2>1. UNCHANGED heapVars
      BY <1>2 DEF TakeMutex, Lock, ResumeSegmentFree, ResumeRequestRemoved,
                  ResumeAtSafePoint, ResumeTransactionDone
    <2> QED BY <2>1, HeapUntouched
  <1> QED BY <1>1, <1>2

\* So do the accesses of running code.
LEMMA UserHeapInv ==
  ASSUME TypeInv, HeapInv, NEW t \in Threads, User(t)
  PROVE  HeapInv'
  <1>1. CASE StartTransaction(t)
    BY <1>1, HeapUntouched DEF StartTransaction
  <1>2. ASSUME NEW o \in Objects, stm_read(t, o) \/ stm_write(t, o)
        PROVE  HeapInv'
    BY <1>2, HeapUntouched DEF stm_read, stm_write
  <1>3. ASSUME NEW o \in Objects, NEW v \in Values, Store(t, o, v)
        PROVE  HeapInv'
    BY <1>3, HeapStored
  <1>4. ASSUME NEW o \in Requests, RequestMutex(t, o) PROVE HeapInv'
    BY <1>4, HeapUntouched DEF RequestMutex
  <1> QED BY <1>1, <1>2, <1>3, <1>4 DEF User

\* Lock ownership and isolation are inductive, together.
LEMMA NextHeapInv == TypeInv /\ HeapInv /\ [Next]_vars => HeapInv'
  <1> SUFFICES ASSUME TypeInv, HeapInv, [Next]_vars PROVE HeapInv'
    OBVIOUS
  <1>1. ASSUME NEW t \in Threads, SpuriousWakeup(t) PROVE HeapInv'
    BY <1>1, HeapUntouched DEF SpuriousWakeup
  <1>2. CASE UNCHANGED vars
    BY <1>2, HeapUntouched DEF vars
  <1> QED BY <1>1, <1>2, LibraryHeapInv, TakeMutexHeapInv, UserHeapInv DEF Next

\* Types, lock ownership and isolation hold in every behaviour.
LEMMA Invariants == Spec => [](TypeInv /\ HeapInv)
  <1>1. Init => TypeInv /\ HeapInv
    BY InitTypeInv, InitHeapInv
  <1>2. TypeInv /\ HeapInv /\ [Next]_vars => (TypeInv /\ HeapInv)'
    BY NextTypeInv, NextHeapInv
  <1> QED BY <1>1, <1>2, PTL DEF Spec

\* A write lock is held by exactly the segment that lists the object as
\* modified, at every step and whoever undoes the transaction (core.c,
\* contention.c:269-276).
THEOREM LocksOwned == Spec => []LockOwnership
  BY Invariants, PTL DEF HeapInv

\* Outside the lists of modified objects all segments hold the committed
\* contents (core.c: push_modified_to_other_segments,
\* reset_modified_from_other_segments).
THEOREM CopiesAgree == Spec => []Isolation
  BY Invariants, PTL DEF HeapInv

-----------------------------------------------------------------------------
(* There is at most one inevitable transaction and nothing makes it abort. *)

\* The critical sections exclude each other.
MutexInv == \A t \in Threads : pc[t] \in Locked <=> mutex = t

\* The threads that have a segment.
InTransaction(t) ==
  pc[t] \notin {"outside", "start", "acquire", "wait_segment_free"}

\* A thread in a transaction and the segment it runs in know each other.
SegmentInv ==
  /\ \A t \in Threads : InTransaction(t) => running_thread[assoc[t]] = t
  /\ \A s \in Segs : running_thread[s] # NULL =>
       InTransaction(running_thread[s]) /\ assoc[running_thread[s]] = s
  /\ \A s \in Segs : transaction_state[s] = "NONE" <=> running_thread[s] = NULL

\* A thread waits for a write lock only as long as its own segment does not
\* have it, and enters contention management against another segment.
OpponentInv ==
  \A t \in Threads :
    /\ call[t].op = "write" =>
         pc[t] \in {"write", "request", "recheck", "contention",
                   "wait_aborted", "abort"}
    /\ call[t].op = "write" /\ pc[t] # "abort" =>
         call[t].obj \notin modified[assoc[t]]
    /\ pc[t] = "contention" => call[t].other # assoc[t]

\* What InevitableIsSafe says, and what the threads on their way to become
\* inevitable or to abort must have checked before.
InevitableInv ==
  /\ \A r, s \in Segs : transaction_state[r] = "INEVITABLE"
                        /\ transaction_state[s] = "INEVITABLE" => r = s
  /\ \A s \in Segs : transaction_state[s] = "INEVITABLE" => ~is_abort(s)
  /\ \A t \in Threads :
       /\ pc[t] = "inevitable" => ~must_abort(t)
       /\ pc[t] = "abort" => transaction_state[assoc[t]] = "REGULAR"
       /\ pc[t] = "request" /\ call[t].op = "abort" =>
            transaction_state[assoc[t]] = "REGULAR"

CoreInv == MutexInv /\ SegmentInv /\ OpponentInv /\ InevitableInv

-----------------------------------------------------------------------------
\* At the start no transaction runs and nobody has the mutex.
LEMMA InitCoreInv == Init => CoreInv
  <1> SUFFICES ASSUME Init PROVE CoreInv
    OBVIOUS
  <1>1. MutexInv
    BY CoreAssumption DEF Init, MutexInv, Locked
  <1>2. SegmentInv
    BY DEF Init, SegmentInv, InTransaction
  <1>3. OpponentInv
    BY CallRecords DEF Init, OpponentInv
  <1>4. InevitableInv
    BY DEF Init, InevitableInv
  <1> QED BY <1>1, <1>2, <1>3, <1>4 DEF CoreInv

-----------------------------------------------------------------------------
(* The mutex.                                                              *)

\* A critical section is entered with the mutex and left without it.
LEMMA LibraryMutexInv ==
  ASSUME TypeInv, MutexInv, NEW t \in Threads, Library(t)
  PROVE  MutexInv'
  <1> USE CoreAssumption
      DEF TypeInv, TypeOK, MutexInv, Locked, Holds, Goto, Continue, Leave, Wait,
          InContention
  <1>1. CASE AcquireSegment(t) \/ WaitSegmentFree(t) \/ BumpVersion(t)
             \/ reset_transaction_read_version(t)
    BY <1>1 DEF AcquireSegment, WaitSegmentFree, BumpVersion,
                reset_transaction_read_version
  <1>2. CASE TakeWriteLock(t) \/ WriteLockTaken(t)
    BY <1>2 DEF TakeWriteLock, WriteLockTaken
  <1>3. CASE RecheckOwner(t)
    <2>1. /\ pc[t] = "recheck" /\ mutex = t
          /\ \/ pc' = [pc EXCEPT ![t] = "write"] /\ mutex' = NULL
             \/ pc' = [pc EXCEPT ![t] = "contention"] /\ mutex' = mutex
      BY <1>3 DEF RecheckOwner
    <2>2. CASE pc' = [pc EXCEPT ![t] = "write"] /\ mutex' = NULL
      BY <2>1, <2>2
    <2>3. CASE pc' = [pc EXCEPT ![t] = "contention"] /\ mutex' = mutex
      BY <2>1, <2>3
    <2> QED BY <2>1, <2>2, <2>3
  <1>4. CASE SafePointAbort(t) \/ SafePointPause(t)
    BY <1>4 DEF SafePointAbort, SafePointPause
  <1>5. CASE SafePointCommitSoon(t)
    BY <1>5 DEF SafePointCommitSoon, threadVars
  <1>6. CASE SafePointDone(t)
    BY <1>6 DEF SafePointDone
  <1>7. CASE AlreadyUnique(t)
    BY <1>7 DEF AlreadyUnique
  <1>8. CASE signal_everybody_to_pause_running(t) \/ WaitAtSafePoint(t)
    BY <1>8 DEF signal_everybody_to_pause_running, WaitAtSafePoint
  <1>13. CASE AllStopped(t) \/ BecomeGloballyUnique(t)
    BY <1>13 DEF AllStopped, BecomeGloballyUnique
  <1>9. CASE InevitableContention(t) \/ BecomeInevitable(t) \/ DetectConflict(t)
    BY <1>9 DEF InevitableContention, BecomeInevitable, DetectConflict
  <1>10. CASE Commit(t)
    BY <1>10 DEF Commit
  <1>14. CASE Abort(t)
    BY <1>14 DEF Abort
  <1>11. CASE ContentionMustAbort(t) \/ ContentionSleep(t)
    BY <1>11 DEF ContentionMustAbort, ContentionSleep
  <1>15. CASE ContentionAbortSelf(t) \/ ContentionAbortRunning(t)
    BY <1>15 DEF ContentionAbortSelf, ContentionAbortRunning
  <1>12. CASE ContentionAbortStopped(t)
    BY <1>12, WhereToGoOn DEF ContentionAbortStopped, Return
  <1> QED BY <1>1, <1>2, <1>3, <1>4, <1>5, <1>6, <1>7, <1>8, <1>9, <1>10, <1>11,
             <1>12, <1>13, <1>14, <1>15 DEF Library

\* Mutual exclusion of the critical sections is inductive.
LEMMA NextMutexInv ==
  ASSUME TypeInv, MutexInv, [Next]_vars
  PROVE  MutexInv'
  <1> USE CoreAssumption
      DEF TypeInv, TypeOK, MutexInv, Locked, Goto, Awake, threadVars
  <1>1. ASSUME NEW t \in Threads, TakeMutex(t) PROVE MutexInv'
    <2>1. CASE Lock(t)
      BY <2>1 DEF Lock, Entry
    <2>2. CASE ResumeSegmentFree(t) \/ ResumeRequestRemoved(t)
      BY <2>2 DEF ResumeSegmentFree, ResumeRequestRemoved
    <2>3. CASE ResumeAtSafePoint(t)
      BY <2>3 DEF ResumeAtSafePoint
    <2>4. CASE ResumeTransactionDone(t)
      <3>1. /\ mutex = NULL /\ mutex' = t
            /\ \E p \in {"abort", "safe", "inevitable"} :
                 pc' = [pc EXCEPT ![t] = p]
        BY <2>4, WhereToGoOn DEF ResumeTransactionDone, CallOK
      <3> QED BY <3>1
    <2>5. CASE ResumeAborted(t)
      BY <2>5, WhereToGoOn DEF ResumeAborted, Return
    <2> QED BY <1>1, <2>1, <2>2, <2>3, <2>4, <2>5 DEF TakeMutex
  <1>2. ASSUME NEW t \in Threads, User(t) PROVE MutexInv'
    BY <1>2 DEF User, StartTransaction, stm_read, stm_write, Store, RequestMutex
  <1>3. ASSUME NEW t \in Threads, SpuriousWakeup(t) PROVE MutexInv'
    BY <1>3 DEF SpuriousWakeup
  <1>4. CASE UNCHANGED vars
    BY <1>4 DEF vars
  <1> QED BY <1>1, <1>2, <1>3, <1>4, LibraryMutexInv DEF Next

-----------------------------------------------------------------------------
(* Threads and their segments.                                             *)

\* A thread that neither gets nor gives back a segment.
LEMMA SegmentKept ==
  ASSUME TypeOK, SegmentInv, NEW t \in Threads,
         InTransaction(t)' <=> InTransaction(t),
         \A u \in Threads \ {t} : pc'[u] = pc[u],
         UNCHANGED <<assoc, running_thread, transaction_state>>
  PROVE  SegmentInv'
  <1>1. \A u \in Threads : InTransaction(u)' <=> InTransaction(u)
    BY DEF InTransaction
  <1>2. \A s \in Segs : running_thread[s] # NULL => running_thread[s] \in Threads
    BY DEF TypeOK
  <1> QED BY <1>1, <1>2 DEF SegmentInv

\* The end of a transaction gives it back.
LEMMA SegmentReleased ==
  ASSUME TypeOK, SegmentInv, NEW t \in Threads, InTransaction(t),
         ~InTransaction(t)',
         \A u \in Threads \ {t} : pc'[u] = pc[u],
         running_thread' = [running_thread EXCEPT ![assoc[t]] = NULL],
         transaction_state' = [transaction_state EXCEPT ![assoc[t]] = "NONE"],
         UNCHANGED assoc
  PROVE  SegmentInv'
  <1> DEFINE s == assoc[t]
  <1>1. \A u \in Threads \ {t} : InTransaction(u)' <=> InTransaction(u)
    BY DEF InTransaction
  <1>2. s \in Segs /\ running_thread[s] = t
    BY DEF TypeOK, SegmentInv
  <1>3. /\ running_thread'[s] = NULL /\ transaction_state'[s] = "NONE"
        /\ \A r \in Segs \ {s} : /\ running_thread'[r] = running_thread[r]
                               /\ transaction_state'[r] = transaction_state[r]
    BY <1>2 DEF TypeOK
  <1>4. \A r \in Segs : running_thread[r] # NULL => running_thread[r] \in Threads
    BY DEF TypeOK
  <1> HIDE DEF s
  <1>5. \A u \in Threads \ {t} : InTransaction(u) => assoc[u] \in Segs \ {s}
    BY <1>2 DEF TypeOK, SegmentInv
  <1>6. \A r \in Segs \ {s} : running_thread[r] # t
    BY <1>2, CoreAssumption DEF SegmentInv, s
  <1> QED BY <1>1, <1>2, <1>3, <1>4, <1>5, <1>6 DEF SegmentInv

\* A segment changes hands only between transactions.
LEMMA LibrarySegmentInv ==
  ASSUME TypeInv, SegmentInv, NEW t \in Threads, Library(t)
  PROVE  SegmentInv'
  <1>0. TypeOK
    BY DEF TypeInv
  <1>1. CASE AcquireSegment(t)
    <2>1. PICK s \in FreeSegs :
            /\ assoc' = [assoc EXCEPT ![t] = s]
            /\ running_thread' = [running_thread EXCEPT ![s] = t]
            /\ transaction_state' = [transaction_state EXCEPT ![s] = "REGULAR"]
      BY <1>1 DEF AcquireSegment
    <2>2. /\ pc[t] = "acquire" /\ pc' = [pc EXCEPT ![t] = "safe"]
          /\ s \in Segs /\ running_thread[s] = NULL
      BY <1>1 DEF AcquireSegment, Holds, Goto, FreeSegs
    <2> QED BY <1>0, <2>1, <2>2, CoreAssumption
            DEF TypeOK, SegmentInv, InTransaction
  <1>2. CASE BecomeInevitable(t)
    <2>1. /\ pc[t] = "inevitable" /\ pc' = [pc EXCEPT ![t] = "run"]
          /\ UNCHANGED <<assoc, running_thread>>
          /\ transaction_state' =
               [transaction_state EXCEPT ![assoc[t]] = "INEVITABLE"]
      BY <1>2 DEF BecomeInevitable, Holds, Leave, Goto
    <2>2. InTransaction(t) /\ InTransaction(t)'
      BY <1>0, <2>1 DEF TypeOK, InTransaction
    <2>3. \A u \in Threads : InTransaction(u)' <=> InTransaction(u)
      BY <2>1, <2>2 DEF InTransaction
    <2>4. assoc[t] \in Segs /\ running_thread[assoc[t]] = t /\ t # NULL
      BY <1>0, <2>2, CoreAssumption DEF TypeOK, SegmentInv
    <2>5. \A s \in Segs :
            transaction_state'[s] = "NONE" <=> transaction_state[s] = "NONE"
      BY <1>0, <2>1, <2>4 DEF TypeOK, SegmentInv
    <2>6. \A s \in Segs : running_thread[s] # NULL => running_thread[s] \in Threads
      BY <1>0 DEF TypeOK
    <2> QED BY <2>1, <2>3, <2>5, <2>6 DEF SegmentInv
  <1>3. CASE Commit(t)
    <2>1. /\ pc[t] = "detect" /\ pc' = [pc EXCEPT ![t] = "outside"]
          /\ running_thread' = [running_thread EXCEPT ![assoc[t]] = NULL]
          /\ transaction_state' = [transaction_state EXCEPT ![assoc[t]] = "NONE"]
          /\ UNCHANGED assoc
      BY <1>3 DEF Commit, FinishTransaction, Holds, Leave, Goto
    <2>2. InTransaction(t) /\ ~InTransaction(t)'
      BY <1>0, <2>1 DEF TypeOK, InTransaction
    <2>3. \A u \in Threads \ {t} : pc'[u] = pc[u]
      BY <1>0, <2>1 DEF TypeOK
    <2> QED BY <1>0, <2>1, <2>2, <2>3, SegmentReleased
  <1>4. CASE Abort(t)
    <2>1. /\ pc[t] = "abort" /\ pc' = [pc EXCEPT ![t] = "start"]
          /\ running_thread' = [running_thread EXCEPT ![assoc[t]] = NULL]
          /\ transaction_state' = [transaction_state EXCEPT ![assoc[t]] = "NONE"]
          /\ UNCHANGED assoc
      BY <1>4 DEF Abort, FinishTransaction, Holds, Goto
    <2>2. InTransaction(t) /\ ~InTransaction(t)'
      BY <1>0, <2>1 DEF TypeOK, InTransaction
    <2>3. \A u \in Threads \ {t} : pc'[u] = pc[u]
      BY <1>0, <2>1 DEF TypeOK
    <2> QED BY <1>0, <2>1, <2>2, <2>3, SegmentReleased
  <1>5. CASE ~ (AcquireSegment(t) \/ BecomeInevitable(t) \/ Commit(t) \/ Abort(t))
    <2>1. UNCHANGED <<assoc, running_thread, transaction_state>>
      BY <1>5 DEF Library, WaitSegmentFree, BumpVersion,
        reset_transaction_read_version, TakeWriteLock, WriteLockTaken,
        RecheckOwner, SafePointAbort, SafePointCommitSoon, SafePointPause,
        SafePointDone, AlreadyUnique, signal_everybody_to_pause_running,
        WaitAtSafePoint, AllStopped, BecomeGloballyUnique,
        InevitableContention, DetectConflict, ContentionMustAbort,
        ContentionSleep, ContentionAbortSelf, ContentionAbortRunning,
        ContentionAbortStopped, segVars, threadVars, Continue, Leave, Wait, Return
    <2>2. CASE WaitSegmentFree(t)
      BY <1>0, <2>1, <2>2, SegmentKept
      DEF WaitSegmentFree, TypeOK, InTransaction, Holds, Wait, Goto
    <2>3. CASE SafePointCommitSoon(t)
      BY <1>0, <2>1, <2>3, SegmentKept
      DEF SafePointCommitSoon, InTransaction, threadVars
    <2>4. CASE ~WaitSegmentFree(t) /\ ~SafePointCommitSoon(t)
      <3>1. PICK p \in {"run", "reset", "request", "write", "contention", "abort",
                        "wait_request_removed", "bump", "inevitable", "sync",
                        "detect", "stop", "wait_at_safe_point",
                        "wait_transaction_done", "wait_aborted"} :
              pc' = [pc EXCEPT ![t] = p]
        BY <1>5, <2>4, WhereToGoOn DEF Library, BumpVersion,
          reset_transaction_read_version, TakeWriteLock, WriteLockTaken,
          RecheckOwner, SafePointAbort, SafePointPause,
          SafePointDone, AlreadyUnique, signal_everybody_to_pause_running,
          WaitAtSafePoint, AllStopped, BecomeGloballyUnique,
          InevitableContention, DetectConflict, ContentionMustAbort,
          ContentionSleep, ContentionAbortSelf, ContentionAbortRunning,
          ContentionAbortStopped, Continue, Leave, Wait, Return, Goto
      <3>2. InTransaction(t)
        BY <1>5, <2>4 DEF Library, BumpVersion,
          reset_transaction_read_version, TakeWriteLock, WriteLockTaken,
          RecheckOwner, SafePointAbort, SafePointPause,
          SafePointDone, AlreadyUnique, signal_everybody_to_pause_running,
          WaitAtSafePoint, AllStopped, BecomeGloballyUnique,
          InevitableContention, DetectConflict, ContentionMustAbort,
          ContentionSleep, ContentionAbortSelf, ContentionAbortRunning,
          ContentionAbortStopped, Holds, InContention, InTransaction
      <3> QED BY <1>0, <2>1, <3>1, <3>2, SegmentKept DEF TypeOK, InTransaction
    <2> QED BY <2>2, <2>3, <2>4
  <1> QED BY <1>1, <1>2, <1>3, <1>4, <1>5

\* Threads and segments stay paired.
LEMMA NextSegmentInv ==
  ASSUME TypeInv, SegmentInv, [Next]_vars
  PROVE  SegmentInv'
  <1>0. TypeOK
    BY DEF TypeInv
  <1>1. ASSUME NEW t \in Threads, TakeMutex(t) PROVE SegmentInv'
    <2>1. UNCHANGED <<assoc, running_thread, transaction_state>>
      BY <1>1 DEF TakeMutex, Lock, ResumeSegmentFree, ResumeRequestRemoved,
        ResumeAtSafePoint, ResumeTransactionDone, ResumeAborted, segVars, Awake,
        Return
    <2>2. CASE Lock(t)
      <3>1. /\ pc[t] \in {"start", "request"}
            /\ pc[t] = "start" => call[t].op = "start"
            /\ pc[t] = "request" => call[t].op # "start"
            /\ pc' = [pc EXCEPT ![t] = Entry(t)]
        BY <2>2 DEF Lock, Goto, TypeInv, CallOK
      <3>2. /\ Entry(t) \in {"acquire", "recheck", "abort", "safe"}
            /\ Entry(t) = "acquire" <=> call[t].op = "start"
        BY DEF Entry
      <3>3. InTransaction(t)' <=> InTransaction(t)
        BY <1>0, <3>1, <3>2 DEF TypeOK, InTransaction
      <3>4. \A u \in Threads \ {t} : pc'[u] = pc[u]
        BY <1>0, <3>1 DEF TypeOK
      <3> QED BY <1>0, <2>1, <3>3, <3>4, SegmentKept
    <2>3. CASE ResumeSegmentFree(t)
      BY <1>0, <2>1, <2>3, SegmentKept
      DEF ResumeSegmentFree, Awake, Goto, TypeOK, InTransaction
    <2>4. CASE ~Lock(t) /\ ~ResumeSegmentFree(t)
      <3>1. /\ InTransaction(t)
            /\ \E p \in {"safe", "abort", "stop", "write", "inevitable"} :
                 pc' = [pc EXCEPT ![t] = p]
        BY <1>1, <2>4, WhereToGoOn
        DEF TakeMutex, ResumeRequestRemoved, ResumeAtSafePoint,
            ResumeTransactionDone, ResumeAborted, Awake, Return, Goto, InTransaction
      <3> QED BY <1>0, <2>1, <3>1, SegmentKept DEF TypeOK, InTransaction
    <2> QED BY <2>2, <2>3, <2>4
  <1>2. ASSUME NEW t \in Threads, User(t) PROVE SegmentInv'
    <2>1. UNCHANGED <<assoc, running_thread, transaction_state>>
      BY <1>2 DEF User, StartTransaction, stm_read, stm_write, Store,
        RequestMutex, threadVars, segVars
    <2>2. CASE StartTransaction(t)
      BY <1>0, <2>1, <2>2, SegmentKept
      DEF StartTransaction, Goto, TypeOK, InTransaction
    <2>3. CASE ~StartTransaction(t)
      <3>1. /\ pc[t] = "run"
            /\ \E p \in {"run", "write", "request"} : pc' = [pc EXCEPT ![t] = p]
        BY <1>0, <1>2, <2>3
        DEF User, stm_read, stm_write, Store, RequestMutex, Goto, threadVars, TypeOK
      <3> QED BY <1>0, <2>1, <3>1, SegmentKept DEF TypeOK, InTransaction
    <2> QED BY <2>2, <2>3
  <1>3. ASSUME NEW t \in Threads, SpuriousWakeup(t) PROVE SegmentInv'
    BY <1>0, <1>3, SegmentKept DEF SpuriousWakeup, segVars, InTransaction
  <1>4. CASE UNCHANGED vars
    BY <1>4 DEF vars, threadVars, segVars, SegmentInv, InTransaction
  <1> QED BY <1>1, <1>2, <1>3, <1>4, LibrarySegmentInv DEF Next

-----------------------------------------------------------------------------
(* What a step of one thread leaves alone.                                 *)

\* A step of one thread does not move another one.
LEMMA ThreadFrame ==
  ASSUME TypeInv, NEW t \in Threads,
         Library(t) \/ TakeMutex(t) \/ User(t) \/ SpuriousWakeup(t)
  PROVE  \A u \in Threads \ {t} :
           pc'[u] = pc[u] /\ call'[u] = call[u] /\ assoc'[u] = assoc[u]
  <1>0. TypeOK
    BY DEF TypeInv
  <1> SUFFICES ASSUME NEW u \in Threads \ {t}
               PROVE  pc'[u] = pc[u] /\ call'[u] = call[u] /\ assoc'[u] = assoc[u]
    OBVIOUS
  <1>1. CASE Library(t)
    BY SMTT(30), <1>0, <1>1 DEF Library, AcquireSegment, WaitSegmentFree, BumpVersion,
      reset_transaction_read_version, TakeWriteLock, WriteLockTaken,
      RecheckOwner, SafePointAbort, SafePointCommitSoon, SafePointPause,
      SafePointDone, AlreadyUnique, signal_everybody_to_pause_running,
      WaitAtSafePoint, AllStopped, BecomeGloballyUnique, InevitableContention,
      BecomeInevitable, DetectConflict, Commit, Abort, ContentionMustAbort,
      ContentionSleep, ContentionAbortSelf, ContentionAbortRunning,
      ContentionAbortStopped, threadVars, Goto, Continue, Leave, Wait, Return, TypeOK
  <1>2. CASE TakeMutex(t)
    BY <1>0, <1>2 DEF TakeMutex, Lock, ResumeSegmentFree, ResumeRequestRemoved,
      ResumeAtSafePoint, ResumeTransactionDone, ResumeAborted, Awake, Goto,
      Return, TypeOK
  <1>3. CASE User(t)
    BY <1>0, <1>3 DEF User, StartTransaction, stm_read, stm_write, Store,
      RequestMutex, Goto, threadVars, TypeOK
  <1>4. CASE SpuriousWakeup(t)
    BY <1>4 DEF SpuriousWakeup
  <1> QED BY <1>1, <1>2, <1>3, <1>4

\* Two threads in a transaction are in different segments.
LEMMA DistinctSegments ==
  ASSUME TypeOK, SegmentInv, NEW t \in Threads, NEW u \in Threads,
         InTransaction(t), InTransaction(u), t # u
  PROVE  assoc[t] # assoc[u]
  BY DEF TypeOK, SegmentInv

\* Another segment's list of modified objects can only shrink.
LEMMA ModifiedFrame ==
  ASSUME TypeInv, NEW t \in Threads,
         Library(t) \/ TakeMutex(t) \/ User(t) \/ SpuriousWakeup(t),
         NEW s \in Segs
  PROVE  /\ s # assoc[t] => modified'[s] \subseteq modified[s]
         /\ ~TakeWriteLock(t) => modified'[s] \subseteq modified[s]
  <1>0. TypeOK
    BY DEF TypeInv
  <1>1. CASE TakeWriteLock(t)
    BY <1>0, <1>1 DEF TakeWriteLock, TypeOK
  <1>2. CASE Library(t) /\ ~TakeWriteLock(t)
    BY SMTT(30), <1>0, <1>2 DEF Library, AcquireSegment, WaitSegmentFree, BumpVersion,
      reset_transaction_read_version, WriteLockTaken,
      RecheckOwner, SafePointAbort, SafePointCommitSoon, SafePointPause,
      SafePointDone, AlreadyUnique, signal_everybody_to_pause_running,
      WaitAtSafePoint, AllStopped, BecomeGloballyUnique, InevitableContention,
      BecomeInevitable, DetectConflict, Commit, Abort, ContentionMustAbort,
      ContentionSleep, ContentionAbortSelf, ContentionAbortRunning,
      ContentionAbortStopped, FinishTransaction, KillDataStructures, heapVars,
      TypeOK
  <1>3. CASE TakeMutex(t)
    BY <1>0, <1>3 DEF TakeMutex, Lock, ResumeSegmentFree, ResumeRequestRemoved,
      ResumeAtSafePoint, ResumeTransactionDone, ResumeAborted,
      KillDataStructures, heapVars, TypeOK
  <1>4. CASE User(t)
    BY <1>4 DEF User, StartTransaction, stm_read, stm_write, Store,
      RequestMutex, heapVars
  <1>5. CASE SpuriousWakeup(t)
    BY <1>5 DEF SpuriousWakeup, heapVars
  <1> QED BY <1>1, <1>2, <1>3, <1>4, <1>5

-----------------------------------------------------------------------------
(* Opponents.                                                              *)

\* The part of OpponentInv about one thread.
Opponent(t) ==
  /\ call[t].op = "write" =>
       pc[t] \in {"write", "request", "recheck", "contention",
                 "wait_aborted", "abort"}
  /\ call[t].op = "write" /\ pc[t] # "abort" =>
       call[t].obj \notin modified[assoc[t]]
  /\ pc[t] = "contention" => call[t].other # assoc[t]

\* Nor does it lock the object another one waits for on its behalf.
LEMMA OpponentOfOthers ==
  ASSUME TypeInv, SegmentInv, OpponentInv, NEW t \in Threads,
         Library(t) \/ TakeMutex(t) \/ User(t) \/ SpuriousWakeup(t),
         NEW u \in Threads \ {t}
  PROVE  Opponent(u)'
  <1>0. TypeOK /\ Opponent(u)
    BY DEF TypeInv, OpponentInv, Opponent
  <1>1. pc'[u] = pc[u] /\ call'[u] = call[u] /\ assoc'[u] = assoc[u]
    BY ThreadFrame
  <1>2. CASE call[u].op = "write" /\ pc[u] # "abort"
    <2>1. InTransaction(u)
      BY <1>0, <1>2 DEF Opponent, InTransaction
    <2>2. TakeWriteLock(t) => InTransaction(t)
      BY DEF TakeWriteLock, InTransaction
    <2>3. assoc[u] \in Segs /\ modified'[assoc[u]] \subseteq modified[assoc[u]]
      BY <1>0, <2>1, <2>2, ModifiedFrame, DistinctSegments DEF TypeOK
    <2> QED BY <1>0, <1>1, <2>3 DEF Opponent
  <1>3. CASE ~ (call[u].op = "write" /\ pc[u] # "abort")
    BY <1>0, <1>1, <1>3 DEF Opponent
  <1> QED BY <1>2, <1>3

\* Contention management is entered against another segment.
LEMMA OpponentOfLibrary ==
  ASSUME TypeInv, HeapInv, SegmentInv, OpponentInv, NEW t \in Threads, Library(t)
  PROVE  Opponent(t)'
  <1>0. /\ TypeOK /\ CallOK /\ Opponent(t)
        /\ assoc[t] \in Segs
    BY DEF TypeInv, TypeOK, OpponentInv, Opponent
  <1>1. CASE RecheckOwner(t)
    <2> DEFINE o == call[t].obj
               owner == write_locks[o]
    <2>1. /\ pc[t] = "recheck" /\ call[t].op = "write"
          /\ o \in Objects /\ o \notin modified[assoc[t]]
      BY <1>0, <1>1 DEF RecheckOwner, Holds, CallOK, Opponent
    <2>2. UNCHANGED <<assoc, modified>>
      BY <1>1 DEF RecheckOwner, heapVars
    <2>3. CASE owner = 0
      BY <1>0, <1>1, <2>1, <2>2, <2>3 DEF RecheckOwner, Goto, Opponent, TypeOK
    <2>4. CASE owner # 0
      <3>1. owner # assoc[t]
        BY <1>0, <2>1 DEF HeapInv, LockOwnership
      <3>2. pc' = [pc EXCEPT ![t] = "contention"]
            /\ call' = [call EXCEPT ![t].other = owner] /\ owner \in Copies
        BY <1>0, <1>1, <2>1, <2>4 DEF RecheckOwner, Goto, TypeOK
      <3>3. /\ call'[t].op = call[t].op /\ call'[t].obj = call[t].obj
            /\ call'[t].other = owner
        BY <1>0, <3>2, CallAgainst DEF TypeOK
      <3> QED BY <1>0, <2>1, <2>2, <3>1, <3>2, <3>3 DEF Opponent, TypeOK
    <2> QED BY <2>3, <2>4
  <1>2. CASE InevitableContention(t)
    <2>1. PICK i \in Segs : /\ call' = [call EXCEPT ![t].other = i]
                           /\ transaction_state[i] = "INEVITABLE"
      BY <1>2 DEF InevitableContention, OtherInevitable
    <2>2. /\ pc[t] = "inevitable" /\ i # assoc[t] /\ assoc' = assoc
      BY <1>2, <2>1 DEF InevitableContention, Holds
    <2>3. call'[t].op = call[t].op /\ call'[t].other = i
      BY <1>0, <2>1, CallAgainst, SegsFacts DEF TypeOK
    <2>4. call'[t].op # "write"
      BY <1>0, <2>2, <2>3 DEF Opponent
    <2> QED BY <2>1, <2>2, <2>3, <2>4 DEF Opponent
  <1>3. CASE DetectConflict(t)
    <2>1. PICK i \in Segs : /\ call' = [call EXCEPT ![t].other = i]
                           /\ i # assoc[t]
      BY <1>3 DEF DetectConflict, Conflicts
    <2>2. pc[t] = "detect" /\ assoc' = assoc
      BY <1>3 DEF DetectConflict, Holds
    <2>3. call'[t].op = call[t].op /\ call'[t].other = i
      BY <1>0, <2>1, CallAgainst, SegsFacts DEF TypeOK
    <2>4. call'[t].op # "write"
      BY <1>0, <2>2, <2>3 DEF Opponent
    <2> QED BY <2>1, <2>2, <2>3, <2>4 DEF Opponent
  <1>4. CASE ContentionAbortStopped(t)
    <2>1. /\ call' = [call EXCEPT ![t].other = 0] /\ assoc' = assoc
          /\ pc' = [pc EXCEPT ![t] = Resolved(t)] /\ pc[t] = "contention"
      BY <1>4 DEF ContentionAbortStopped, Return, Goto, InContention, Holds
    <2>2. call'[t].op = call[t].op /\ call'[t].obj = call[t].obj
      BY <1>0, <2>1, CallAlone DEF TypeOK
    <2>3. ~TakeWriteLock(t)
      BY <2>1 DEF TakeWriteLock
    <2>4. modified'[assoc[t]] \subseteq modified[assoc[t]]
      BY <1>0, <2>3, ModifiedFrame
    <2>5. /\ pc'[t] \in {"write", "detect", "inevitable"}
          /\ pc'[t] = "write" <=> call[t].op = "write"
      BY <1>0, <2>1, WhereToGoOn DEF TypeOK
    <2> QED BY <1>0, <2>1, <2>2, <2>4, <2>5 DEF Opponent
  <1>5. CASE TakeWriteLock(t) \/ Abort(t)
    BY <1>0, <1>5, CallRecords DEF TakeWriteLock, Abort, Opponent, TypeOK, Ops, Goto
  <1>6. CASE WriteLockTaken(t) \/ ContentionMustAbort(t) \/ ContentionAbortSelf(t)
             \/ ContentionAbortRunning(t)
    BY <1>0, <1>6 DEF WriteLockTaken, ContentionMustAbort, ContentionAbortSelf,
      ContentionAbortRunning, Opponent, Goto, Continue, Wait, heapVars, TypeOK,
      InContention, Holds
  <1>7. CASE ~ (\/ RecheckOwner(t) \/ InevitableContention(t)
                \/ DetectConflict(t) \/ ContentionAbortStopped(t)
                \/ TakeWriteLock(t) \/ Abort(t) \/ WriteLockTaken(t)
                \/ ContentionMustAbort(t) \/ ContentionAbortSelf(t)
                \/ ContentionAbortRunning(t))
    <2> DEFINE quiet == /\ call[t].op # "write" /\ call'[t].op # "write"
                        /\ pc'[t] # "contention"
    <2> SUFFICES quiet
      BY DEF Opponent
    <2> USE CallRecords DEF Opponent, TypeOK, threadVars, Holds, Goto, Continue,
                            Wait, Leave
    <2>1. CASE AcquireSegment(t) \/ WaitSegmentFree(t) \/ BumpVersion(t)
             \/ reset_transaction_read_version(t)
      BY <1>0, <2>1 DEF AcquireSegment, WaitSegmentFree, BumpVersion,
          reset_transaction_read_version
    <2>2. CASE SafePointAbort(t) \/ SafePointPause(t)
      BY <1>0, <2>2 DEF SafePointAbort, SafePointPause
    <2>3. CASE SafePointCommitSoon(t)
      BY <1>0, <2>3 DEF SafePointCommitSoon
    <2>4. CASE SafePointDone(t)
      BY <1>0, <2>4 DEF SafePointDone
    <2>5. CASE AlreadyUnique(t) \/ signal_everybody_to_pause_running(t)
             \/ WaitAtSafePoint(t) \/ AllStopped(t)
      BY <1>0, <2>5 DEF AlreadyUnique, signal_everybody_to_pause_running,
          WaitAtSafePoint, AllStopped
    <2>6. CASE BecomeGloballyUnique(t) \/ BecomeInevitable(t) \/ Commit(t)
             \/ ContentionSleep(t)
      BY <1>0, <2>6 DEF BecomeGloballyUnique, BecomeInevitable, Commit,
          ContentionSleep, InContention, Sleeps
    <2> HIDE CallRecords
        DEF quiet, Opponent, TypeOK, threadVars, Holds, Goto, Continue, Wait, Leave
    <2> QED BY <1>7, <2>1, <2>2, <2>3, <2>4, <2>5, <2>6 DEF Library
  <1> QED BY <1>1, <1>2, <1>3, <1>4, <1>5, <1>6, <1>7

\* Coming back from a wait keeps what the call was about.
LEMMA OpponentOfOwn ==
  ASSUME TypeInv, OpponentInv, NEW t \in Threads,
         TakeMutex(t) \/ User(t) \/ SpuriousWakeup(t)
  PROVE  Opponent(t)'
  <1>0. /\ TypeOK /\ CallOK /\ Opponent(t)
        /\ assoc[t] \in Segs
    BY DEF TypeInv, TypeOK, OpponentInv, Opponent
  <1>1. CASE Lock(t)
    <2>1. /\ Entry(t) \in {"acquire", "recheck", "abort", "safe"}
          /\ call[t].op = "write" => Entry(t) = "recheck"
      BY DEF Entry
    <2>2. pc' = [pc EXCEPT ![t] = Entry(t)] /\ pc[t] \in {"start", "request"}
          /\ UNCHANGED <<call, assoc, modified>>
      BY <1>1 DEF Lock, Goto, heapVars
    <2> QED BY <1>0, <2>1, <2>2 DEF Opponent, TypeOK
  <1>2. CASE ResumeSegmentFree(t) \/ ResumeRequestRemoved(t) \/ ResumeAtSafePoint(t)
    BY <1>0, <1>2 DEF ResumeSegmentFree, ResumeRequestRemoved, ResumeAtSafePoint,
      Awake, Goto, heapVars, Opponent, TypeOK
  <1>3. CASE ResumeTransactionDone(t)
    <2>1. call[t].op # "write"
      BY <1>0, <1>3 DEF ResumeTransactionDone, Awake, CallOK
    <2>2. pc'[t] # "contention"
      BY <1>0, <1>3, WhereToGoOn DEF ResumeTransactionDone, Goto, TypeOK
    <2>3. call' = call \/ call' = [call EXCEPT ![t].other = 0]
      BY <1>3 DEF ResumeTransactionDone
    <2>4. call'[t].op = call[t].op
      <3>1. CASE call' = call
        BY <3>1
      <3>2. CASE call' = [call EXCEPT ![t].other = 0]
        BY <1>0, <3>2, CallAlone DEF TypeOK
      <3> QED BY <2>3, <3>1, <3>2
    <2> QED BY <2>1, <2>2, <2>4 DEF Opponent
  <1>4. CASE ResumeAborted(t)
    <2>1. assoc' = assoc /\ pc[t] = "wait_aborted"
      BY <1>4 DEF ResumeAborted, Return
    <2>2. /\ pc'[t] \in {"abort", "write", "safe", "inevitable"}
          /\ call[t].op = "write" => pc'[t] \in {"write", "abort"}
      BY <1>0, <1>4, WhereToGoOn DEF ResumeAborted, Return, Goto, TypeOK
    <2>3. call' = call \/ call' = [call EXCEPT ![t].other = 0]
      BY <1>4 DEF ResumeAborted, Return
    <2>4. call'[t].op = call[t].op /\ call'[t].obj = call[t].obj
      <3>1. CASE call' = call
        BY <3>1
      <3>2. CASE call' = [call EXCEPT ![t].other = 0]
        BY <1>0, <3>2, CallAlone DEF TypeOK
      <3> QED BY <2>3, <3>1, <3>2
    <2>5. TakeMutex(t) /\ ~TakeWriteLock(t)
      BY <1>4, <2>1 DEF TakeMutex, TakeWriteLock
    <2>6. modified'[assoc[t]] \subseteq modified[assoc[t]]
      BY <1>0, <2>5, ModifiedFrame
    <2> QED BY <1>0, <2>1, <2>2, <2>4, <2>6 DEF Opponent
  <1>5. ASSUME NEW o \in Objects, stm_write(t, o) PROVE Opponent(t)'
    <2> DEFINE c == [Request("write") EXCEPT !.obj = o]
    <2>1. c.op = "write" /\ c.obj = o /\ call' = [call EXCEPT ![t] = c]
      BY <1>5, SegsFacts DEF stm_write, Request, Idle, Calls
    <2> HIDE DEF c
    <2>2. /\ o \notin modified[assoc[t]] /\ pc' = [pc EXCEPT ![t] = "write"]
          /\ UNCHANGED <<assoc, modified>>
      BY <1>5 DEF stm_write, Goto, heapVars
    <2> QED BY <1>0, <2>1, <2>2 DEF Opponent, TypeOK
  <1>6. ASSUME NEW o \in Requests, RequestMutex(t, o) PROVE Opponent(t)'
    <2>1. o # "write" /\ Request(o).op = o
      BY CoreAssumption, CallRecords DEF Ops
    <2> QED BY <1>0, <1>6, <2>1 DEF RequestMutex, Goto, Opponent, TypeOK
  <1>7. CASE StartTransaction(t)
    <2>1. Request("start").op = "start"
      BY CallRecords DEF Ops
    <2> QED BY <1>0, <1>7, <2>1 DEF StartTransaction, Goto, Opponent, TypeOK
  <1>8. CASE \E o \in Objects : stm_read(t, o) \/ \E v \in Values : Store(t, o, v)
    BY <1>0, <1>8 DEF stm_read, Store, threadVars, heapVars, Opponent
  <1>9. CASE SpuriousWakeup(t)
    BY <1>0, <1>9 DEF SpuriousWakeup, heapVars, Opponent
  <1> QED BY <1>1, <1>2, <1>3, <1>4, <1>5, <1>6, <1>7, <1>8, <1>9
          DEF TakeMutex, User

\* OpponentInv is inductive.
LEMMA NextOpponentInv ==
  ASSUME TypeInv, HeapInv, SegmentInv, OpponentInv, [Next]_vars
  PROVE  OpponentInv'
  <1>1. CASE UNCHANGED vars
    BY <1>1 DEF vars, threadVars, heapVars, OpponentInv
  <1>2. ASSUME NEW t \in Threads,
               Library(t) \/ TakeMutex(t) \/ User(t) \/ SpuriousWakeup(t)
        PROVE  OpponentInv'
    <2>1. \A u \in Threads : Opponent(u)'
      BY <1>2, OpponentOfOthers, OpponentOfLibrary, OpponentOfOwn
    <2> QED BY <2>1 DEF Opponent, OpponentInv
  <1> QED BY <1>1, <1>2 DEF Next

-----------------------------------------------------------------------------
(* Inevitable transactions.                                                *)

\* The state of another segment does not change.
LEMMA StateFrame ==
  ASSUME TypeInv, SegmentInv, NEW t \in Threads,
         Library(t) \/ TakeMutex(t) \/ User(t) \/ SpuriousWakeup(t)
  PROVE  /\ \/ AcquireSegment(t) \/ BecomeInevitable(t) \/ Commit(t) \/ Abort(t)
            \/ transaction_state' = transaction_state
         /\ \A u \in Threads \ {t} : InTransaction(u) =>
              transaction_state'[assoc[u]] = transaction_state[assoc[u]]
  <1>0. TypeOK
    BY DEF TypeInv
  <1>1. \/ AcquireSegment(t) \/ BecomeInevitable(t) \/ Commit(t) \/ Abort(t)
        \/ transaction_state' = transaction_state
    <2>1. CASE Library(t)
      BY <2>1 DEF Library, WaitSegmentFree, BumpVersion,
        reset_transaction_read_version, TakeWriteLock, WriteLockTaken,
        RecheckOwner, SafePointAbort, SafePointCommitSoon, SafePointPause,
        SafePointDone, AlreadyUnique, signal_everybody_to_pause_running,
        WaitAtSafePoint, AllStopped, BecomeGloballyUnique,
        InevitableContention, DetectConflict, ContentionMustAbort,
        ContentionSleep, ContentionAbortSelf, ContentionAbortRunning,
        ContentionAbortStopped, segVars
    <2>2. CASE TakeMutex(t)
      BY <2>2 DEF TakeMutex, Lock, ResumeSegmentFree, ResumeRequestRemoved,
        ResumeAtSafePoint, ResumeTransactionDone, ResumeAborted, segVars
    <2>3. CASE User(t) \/ SpuriousWakeup(t)
      BY <2>3 DEF User, StartTransaction, stm_read, stm_write, Store,
        RequestMutex, SpuriousWakeup, segVars
    <2> QED BY <2>1, <2>2, <2>3
  <1>2. ASSUME NEW u \in Threads \ {t}, InTransaction(u)
        PROVE  transaction_state'[assoc[u]] = transaction_state[assoc[u]]
    <2>1. CASE AcquireSegment(t)
      <3>1. running_thread[assoc[u]] = u
        BY <1>2 DEF SegmentInv
      <3> QED BY <1>0, <2>1, <3>1, CoreAssumption DEF AcquireSegment, FreeSegs, TypeOK
    <2>2. CASE BecomeInevitable(t) \/ Commit(t) \/ Abort(t)
      <3>1. InTransaction(t)
        BY <2>2 DEF BecomeInevitable, Commit, Abort, Holds, InTransaction
      <3>2. assoc[t] # assoc[u]
        BY <1>0, <1>2, <3>1, DistinctSegments
      <3> QED BY <1>0, <2>2, <3>2
              DEF BecomeInevitable, Commit, Abort, FinishTransaction, TypeOK
    <2>3. CASE transaction_state' = transaction_state
      BY <2>3
    <2> QED BY <1>1, <2>1, <2>2, <2>3
  <1> QED BY <1>1, <1>2

\* Who is told to abort: only whom contention management decided to.
LEMMA SignalFrame ==
  ASSUME TypeInv, NEW t \in Threads,
         Library(t) \/ TakeMutex(t) \/ User(t) \/ SpuriousWakeup(t),
         NEW s \in Segs, is_abort(s)'
  PROVE  \/ is_abort(s)
         \/ /\ ContentionAbortRunning(t) \/ ContentionAbortStopped(t)
            /\ s = call[t].other /\ AbortOther(assoc[t], s)
            /\ InContention(t)
  <1> USE DEF is_abort
  <1>0. TypeOK
    BY DEF TypeInv
  <1>1. CASE ContentionAbortRunning(t) \/ ContentionAbortStopped(t)
    BY <1>0, <1>1 DEF ContentionAbortRunning, ContentionAbortStopped, TypeOK
  <1>2. CASE AllStopped(t) \/ Commit(t) \/ ResumeAtSafePoint(t)
    BY <1>0, <1>2 DEF AllStopped, Commit, ResumeAtSafePoint, Unpaused, TypeOK
  <1>3. CASE SafePointCommitSoon(t) \/ signal_everybody_to_pause_running(t)
    BY <1>0, <1>3 DEF SafePointCommitSoon, signal_everybody_to_pause_running, TypeOK
  <1>4. CASE BecomeGloballyUnique(t) \/ Abort(t)
    BY <1>0, <1>4 DEF BecomeGloballyUnique, Abort, SignalAfterAbort, TypeOK
  <1>5. CASE ContentionSleep(t) \/ ContentionAbortSelf(t)
    BY <1>0, <1>5 DEF ContentionSleep, ContentionAbortSelf, CommitSoon, TypeOK
  <1>6. CASE ~ (\/ ContentionAbortRunning(t) \/ ContentionAbortStopped(t)
                \/ AllStopped(t) \/ Commit(t) \/ ResumeAtSafePoint(t)
                \/ SafePointCommitSoon(t) \/ signal_everybody_to_pause_running(t)
                \/ BecomeGloballyUnique(t) \/ Abort(t)
                \/ ContentionSleep(t) \/ ContentionAbortSelf(t))
    <2>1. CASE Library(t)
      BY <1>6, <2>1 DEF Library, AcquireSegment, WaitSegmentFree, BumpVersion,
        reset_transaction_read_version, TakeWriteLock, WriteLockTaken,
        RecheckOwner, SafePointAbort, SafePointPause, SafePointDone,
        AlreadyUnique, WaitAtSafePoint, InevitableContention,
        BecomeInevitable, DetectConflict, ContentionMustAbort, signalVars
    <2>2. CASE TakeMutex(t)
      BY <1>6, <2>2 DEF TakeMutex, Lock, ResumeSegmentFree,
        ResumeRequestRemoved, ResumeTransactionDone, ResumeAborted, signalVars
    <2>3. CASE User(t) \/ SpuriousWakeup(t)
      BY <2>3 DEF User, StartTransaction, stm_read, stm_write, Store,
        RequestMutex, SpuriousWakeup, signalVars
    <2> QED BY <2>1, <2>2, <2>3
  <1> QED BY <1>1, <1>2, <1>3, <1>4, <1>5, <1>6

\* Contention management never picks an inevitable transaction.
LEMMA VictimIsNotInevitable ==
  ASSUME TypeInv, OpponentInv, InevitableInv, NEW t \in Threads,
         InContention(t), AbortOther(assoc[t], call[t].other)
  PROVE  transaction_state[call[t].other] # "INEVITABLE"
  <1>1. /\ call[t].other \in Segs /\ assoc[t] \in Segs
        /\ call[t].other # assoc[t]
    BY DEF TypeInv, TypeOK, CallOK, OpponentInv, InContention, Holds
  <1> QED BY <1>1 DEF AbortOther, InevitableInv

\* A transaction that is about to abort was told to, or gave way, or asked to.
LEMMA AbortIsRegular ==
  ASSUME TypeInv, SegmentInv, InevitableInv, NEW t \in Threads,
         Library(t) \/ TakeMutex(t) \/ User(t) \/ SpuriousWakeup(t),
         pc'[t] = "abort"
  PROVE  transaction_state'[assoc'[t]] = "REGULAR"
  <1>0. TypeOK /\ CallOK /\ assoc[t] \in Segs
    BY DEF TypeInv, TypeOK
  <1>1. /\ UNCHANGED <<assoc, transaction_state>>
        /\ InTransaction(t)
        /\ \/ must_abort(t)
           \/ transaction_state[assoc[t]] # "INEVITABLE"
    <2>1. CASE SafePointAbort(t) \/ ContentionMustAbort(t)
      BY <2>1 DEF SafePointAbort, ContentionMustAbort, Continue, Holds, segVars,
        InTransaction
    <2>2. CASE ContentionAbortSelf(t)
      BY <2>2 DEF ContentionAbortSelf, AbortOther, InContention, Continue, Holds,
        segVars, InTransaction
    <2>3. CASE Lock(t)
      <3>1. pc[t] \in {"start", "request"} /\ Entry(t) = "abort"
        BY <1>0, <2>3 DEF Lock, Goto, TypeOK
      <3>2. call[t].op = "abort" /\ pc[t] = "request"
        BY <1>0, <3>1 DEF Entry, CallOK
      <3>3. transaction_state[assoc[t]] = "REGULAR"
        BY <3>2 DEF InevitableInv
      <3> QED BY <2>3, <3>2, <3>3 DEF Lock, segVars, InTransaction
    <2>4. CASE ResumeAtSafePoint(t)
      BY <1>0, <2>4 DEF ResumeAtSafePoint, Awake, Goto, InTransaction, TypeOK
    <2>5. CASE ResumeTransactionDone(t)
      <3>1. pc[t] = "wait_transaction_done" /\ Retried(t) # "abort"
        BY <2>5, WhereToGoOn DEF ResumeTransactionDone, Awake
      <3>2. CASE ~must_abort(t)
        <4>1. pc' = [pc EXCEPT ![t] = Retried(t)]
          BY <2>5, <3>2 DEF ResumeTransactionDone, Goto
        <4> QED BY <1>0, <3>1, <4>1 DEF TypeOK
      <3>3. UNCHANGED <<assoc, transaction_state>>
        BY <2>5 DEF ResumeTransactionDone, Awake
      <3> QED BY <3>1, <3>2, <3>3 DEF InTransaction
    <2>6. CASE ResumeAborted(t)
      <3>1. pc[t] = "wait_aborted" /\ Retried(t) # "abort"
        BY <2>6, WhereToGoOn DEF ResumeAborted
      <3>2. CASE ~must_abort(t)
        <4>1. pc' = [pc EXCEPT ![t] = Retried(t)]
          BY <2>6, <3>2 DEF ResumeAborted, Return, Goto
        <4> QED BY <1>0, <3>1, <4>1 DEF TypeOK
      <3>3. UNCHANGED <<assoc, transaction_state>>
        BY <2>6 DEF ResumeAborted, Return, segVars
      <3> QED BY <3>1, <3>2, <3>3 DEF InTransaction
    <2>7. CASE ~ (\/ SafePointAbort(t) \/ ContentionMustAbort(t)
                  \/ ContentionAbortSelf(t) \/ Lock(t) \/ ResumeAtSafePoint(t)
                  \/ ResumeTransactionDone(t) \/ ResumeAborted(t))
      <3> USE DEF TypeOK, Goto, threadVars
      <3>1. CASE TakeMutex(t) \/ User(t) \/ SpuriousWakeup(t)
        BY <1>0, <2>7, <3>1 DEF TakeMutex, ResumeSegmentFree,
          ResumeRequestRemoved, User, StartTransaction, stm_read, stm_write,
          Store, RequestMutex, SpuriousWakeup, Waits
      <3>2. CASE Library(t)
        BY SMTT(30), <1>0, <2>7, <3>2, WhereToGoOn DEF Library, AcquireSegment,
          WaitSegmentFree, BumpVersion, reset_transaction_read_version,
          TakeWriteLock, WriteLockTaken, RecheckOwner, SafePointCommitSoon,
          SafePointPause, SafePointDone, AlreadyUnique,
          signal_everybody_to_pause_running, WaitAtSafePoint, AllStopped,
          BecomeGloballyUnique, InevitableContention, BecomeInevitable,
          DetectConflict, Commit, Abort, ContentionSleep,
          ContentionAbortRunning, ContentionAbortStopped, Holds, Continue,
          Leave, Wait, Return
      <3> QED BY <3>1, <3>2
    <2> QED BY <2>1, <2>2, <2>3, <2>4, <2>5, <2>6, <2>7
  <1>2. transaction_state[assoc[t]] # "INEVITABLE"
    BY <1>0, <1>1 DEF InevitableInv, must_abort
  <1>3. transaction_state[assoc[t]] # "NONE"
    BY <1>0, <1>1, CoreAssumption DEF SegmentInv
  <1> QED BY <1>0, <1>1, <1>2, <1>3 DEF TypeOK

\* A thread on its way to become inevitable has looked at its signals.
LEMMA InevitableNotSignalled ==
  ASSUME TypeInv, OpponentInv, NEW t \in Threads,
         Library(t) \/ TakeMutex(t) \/ User(t) \/ SpuriousWakeup(t),
         pc'[t] = "inevitable"
  PROVE  ~must_abort(t)'
  <1>0. TypeOK /\ assoc[t] \in Segs
    BY DEF TypeInv, TypeOK
  <1>1. CASE SafePointDone(t)
    BY <1>0, <1>1 DEF SafePointDone, Leave, Continue, signalVars, must_abort,
      is_abort, TypeOK, Goto
  <1>2. CASE ContentionAbortStopped(t)
    <2>1. call[t].other # assoc[t] /\ ~must_abort(t)
      BY <1>2 DEF ContentionAbortStopped, InContention, Holds, OpponentInv
    <2>2. /\ assoc' = assoc
          /\ nursery_end' = [nursery_end EXCEPT ![call[t].other] = "SIGABORT"]
      BY <1>2 DEF ContentionAbortStopped, Return
    <2> QED BY <1>0, <2>1, <2>2 DEF must_abort, is_abort, TypeOK
  <1>3. CASE ResumeTransactionDone(t)
    BY <1>0, <1>3 DEF ResumeTransactionDone, Awake, Goto, signalVars, must_abort,
      is_abort, TypeOK
  <1>4. CASE ResumeAborted(t)
    BY <1>0, <1>4 DEF ResumeAborted, Return, Goto, must_abort, is_abort, TypeOK
  <1>5. CASE ~ (\/ SafePointDone(t) \/ ContentionAbortStopped(t)
                \/ ResumeTransactionDone(t) \/ ResumeAborted(t))
    <2> USE DEF TypeOK, Goto, threadVars
    <2>1. CASE TakeMutex(t) \/ User(t) \/ SpuriousWakeup(t)
      BY <1>0, <1>5, <2>1 DEF TakeMutex, Lock, Entry, ResumeSegmentFree,
        ResumeRequestRemoved, ResumeAtSafePoint, User, StartTransaction,
        stm_read, stm_write, Store, RequestMutex, SpuriousWakeup, Waits
    <2>2. CASE Library(t)
      BY <1>0, <1>5, <2>2 DEF Library, AcquireSegment,
        WaitSegmentFree, BumpVersion, reset_transaction_read_version,
        TakeWriteLock, WriteLockTaken, RecheckOwner, SafePointAbort,
        SafePointCommitSoon, SafePointPause, AlreadyUnique,
        signal_everybody_to_pause_running, WaitAtSafePoint, AllStopped,
        BecomeGloballyUnique, InevitableContention, BecomeInevitable,
        DetectConflict, Commit, Abort, ContentionMustAbort, ContentionSleep,
        ContentionAbortSelf, ContentionAbortRunning, Holds, Continue, Leave,
        Wait, InContention
    <2> QED BY <2>1, <2>2
  <1> QED BY <1>1, <1>2, <1>3, <1>4, <1>5

\* Becoming inevitable keeps at most one such transaction, unsignalled.
LEMMA NextStatesInv ==
  ASSUME TypeInv, SegmentInv, OpponentInv, InevitableInv, NEW t \in Threads,
         Library(t) \/ TakeMutex(t) \/ User(t) \/ SpuriousWakeup(t)
  PROVE  /\ \A r, s \in Segs : (/\ transaction_state[r] = "INEVITABLE"
                               /\ transaction_state[s] = "INEVITABLE" => r = s)'
         /\ \A s \in Segs :
              (transaction_state[s] = "INEVITABLE" => ~is_abort(s))'
  <1>0. TypeOK /\ assoc[t] \in Segs
    BY DEF TypeInv, TypeOK
  <1>1. CASE BecomeInevitable(t)
    <2>1. /\ \A s \in Segs : transaction_state[s] # "INEVITABLE"
          /\ transaction_state' =
               [transaction_state EXCEPT ![assoc[t]] = "INEVITABLE"]
          /\ ~must_abort(t)
          /\ nursery_end' = nursery_end
      BY <1>1 DEF BecomeInevitable, OtherInevitable, Holds, InevitableInv, signalVars
    <2> QED BY <1>0, <2>1 DEF TypeOK, must_abort, is_abort
  <1>2. CASE ~BecomeInevitable(t)
    <2>1. ASSUME NEW s \in Segs, transaction_state'[s] = "INEVITABLE"
          PROVE  transaction_state[s] = "INEVITABLE"
      <3>1. CASE AcquireSegment(t)
        BY <1>0, <2>1, <3>1 DEF AcquireSegment, FreeSegs, TypeOK
      <3>2. CASE Commit(t) \/ Abort(t)
        BY <1>0, <2>1, <3>2 DEF Commit, Abort, FinishTransaction, TypeOK
      <3> QED BY <1>2, <2>1, <3>1, <3>2, StateFrame
    <2>2. ASSUME NEW s \in Segs, transaction_state'[s] = "INEVITABLE", is_abort(s)'
          PROVE  FALSE
      <3>1. ~is_abort(s)
        BY <2>1, <2>2 DEF InevitableInv
      <3>2. /\ s = call[t].other /\ AbortOther(assoc[t], s) /\ InContention(t)
        BY <2>2, <3>1, SignalFrame
      <3> QED BY <2>1, <2>2, <3>2, VictimIsNotInevitable
    <2> QED BY <2>1, <2>2 DEF InevitableInv
  <1> QED BY <1>1, <1>2

\* What a thread has checked stays true while the others take their steps.
LEMMA NextThreadsInv ==
  ASSUME TypeInv, MutexInv, SegmentInv, OpponentInv, InevitableInv,
         NEW t \in Threads,
         Library(t) \/ TakeMutex(t) \/ User(t) \/ SpuriousWakeup(t),
         NEW u \in Threads \ {t}
  PROVE  (/\ pc[u] = "inevitable" => ~must_abort(u)
          /\ pc[u] = "abort" => transaction_state[assoc[u]] = "REGULAR"
          /\ pc[u] = "request" /\ call[u].op = "abort" =>
               transaction_state[assoc[u]] = "REGULAR")'
  <1>1. pc'[u] = pc[u] /\ call'[u] = call[u] /\ assoc'[u] = assoc[u]
    BY ThreadFrame
  <1>2. assoc[u] \in Segs
    BY DEF TypeInv, TypeOK
  <1>3. pc[u] \in {"abort", "request"} =>
          transaction_state'[assoc[u]] = transaction_state[assoc[u]]
    BY StateFrame DEF InTransaction
  <1>4. pc[u] = "inevitable" => ~ is_abort(assoc[u])'
    <2>1. SUFFICES ASSUME pc[u] = "inevitable", is_abort(assoc[u])'
                   PROVE  FALSE
      OBVIOUS
    <2>2. mutex = u
      BY <2>1 DEF MutexInv, Locked
    <2>3. ~InContention(t)
      BY <2>2 DEF InContention, Holds
    <2>4. nursery_end'[assoc[u]] = "SIGABORT"
      BY <1>1, <2>1 DEF is_abort
    <2>5. is_abort(assoc[u])
      <3>1. PICK s \in Segs : s = assoc[u]
        BY <1>2
      <3>2. is_abort(s)'
        BY <2>4, <3>1 DEF is_abort
      <3>3. is_abort(s)
        BY <2>3, <3>2, SignalFrame
      <3> QED BY <3>1, <3>3
    <2> QED BY <2>1, <2>5 DEF InevitableInv, must_abort
  <1> QED BY <1>1, <1>3, <1>4 DEF InevitableInv, must_abort

\* Only regular transactions ask to abort.
LEMMA AbortRequest ==
  ASSUME TypeInv, InevitableInv, NEW t \in Threads,
         Library(t) \/ TakeMutex(t) \/ User(t) \/ SpuriousWakeup(t),
         pc'[t] = "request", call'[t].op = "abort"
  PROVE  transaction_state'[assoc'[t]] = "REGULAR"
  <1>0. TypeOK /\ CallOK
    BY DEF TypeInv
  <1>1. CASE \E o \in Requests : RequestMutex(t, o)
    <2>1. PICK o \in Requests : RequestMutex(t, o)
      BY <1>1
    <2>2. o = "abort"
      <3>1. Request(o).op = o
        BY CoreAssumption, CallRecords DEF Ops
      <3>2. call' = [call EXCEPT ![t] = Request(o)]
        BY <2>1 DEF RequestMutex
      <3> QED BY <1>0, <3>1, <3>2 DEF TypeOK
    <2>3. transaction_state[assoc[t]] = "REGULAR"
      BY <2>1, <2>2 DEF RequestMutex, MayRequest
    <2> QED BY <2>1, <2>3 DEF RequestMutex, segVars
  <1>2. CASE WriteLockTaken(t)
    <2>1. pc[t] = "write" /\ call' = call
      BY <1>2 DEF WriteLockTaken
    <2> QED BY <1>0, <2>1 DEF CallOK
  <1>3. CASE SpuriousWakeup(t)
    BY <1>0, <1>3 DEF SpuriousWakeup, Waits
  <1>4. CASE User(t) /\ ~(\E o \in Requests : RequestMutex(t, o))
    BY <1>0, <1>4 DEF User, StartTransaction, stm_read, stm_write, Store,
      threadVars, Goto, TypeOK
  <1>5. CASE TakeMutex(t)
    <2>1. PICK p \in {"acquire", "recheck", "abort", "safe", "stop", "write",
                      "inevitable"} : pc' = [pc EXCEPT ![t] = p]
      BY <1>5, WhereToGoOn DEF TakeMutex, Lock, Entry, ResumeSegmentFree,
        ResumeRequestRemoved, ResumeAtSafePoint, ResumeTransactionDone,
        ResumeAborted, Goto, Return
    <2> QED BY <1>0, <2>1 DEF TypeOK
  <1>6. CASE Library(t) /\ ~WriteLockTaken(t)
    <2> USE DEF TypeOK, Goto, threadVars
    <2> QED BY SMTT(30), <1>0, <1>6, WhereToGoOn DEF Library, AcquireSegment,
          WaitSegmentFree, BumpVersion, reset_transaction_read_version,
          TakeWriteLock, RecheckOwner, SafePointAbort, SafePointCommitSoon,
          SafePointPause, SafePointDone, AlreadyUnique,
          signal_everybody_to_pause_running, WaitAtSafePoint, AllStopped,
          BecomeGloballyUnique, InevitableContention, BecomeInevitable,
          DetectConflict, Commit, Abort, ContentionMustAbort, ContentionSleep,
          ContentionAbortSelf, ContentionAbortRunning, ContentionAbortStopped,
          Holds, Continue, Leave, Wait, Return
  <1> QED BY <1>1, <1>2, <1>3, <1>4, <1>5, <1>6

\* The checks made before becoming inevitable, or aborting, stay true.
LEMMA NextInevitableInv ==
  ASSUME TypeInv, MutexInv, SegmentInv, OpponentInv, InevitableInv, [Next]_vars
  PROVE  InevitableInv'
  <1>1. CASE UNCHANGED vars
    BY <1>1 DEF vars, threadVars, segVars, signalVars, InevitableInv, is_abort,
                must_abort
  <1>2. ASSUME NEW t \in Threads,
               Library(t) \/ TakeMutex(t) \/ User(t) \/ SpuriousWakeup(t)
        PROVE  InevitableInv'
    <2>1. /\ pc'[t] = "inevitable" => ~must_abort(t)'
          /\ pc'[t] = "abort" => transaction_state'[assoc'[t]] = "REGULAR"
          /\ pc'[t] = "request" /\ call'[t].op = "abort" =>
               transaction_state'[assoc'[t]] = "REGULAR"
      BY <1>2, InevitableNotSignalled, AbortIsRegular, AbortRequest
    <2> QED BY <1>2, <2>1, NextStatesInv, NextThreadsInv DEF InevitableInv
  <1> QED BY <1>1, <1>2 DEF Next

-----------------------------------------------------------------------------
\* The whole inductive invariant holds in every behaviour.
LEMMA CoreInvariant == Spec => [](TypeInv /\ HeapInv /\ CoreInv)
  <1>1. Init => TypeInv /\ HeapInv /\ CoreInv
    BY InitTypeInv, InitHeapInv, InitCoreInv
  <1>2. TypeInv /\ HeapInv /\ CoreInv /\ [Next]_vars
        => (TypeInv /\ HeapInv /\ CoreInv)'
    BY NextTypeInv, NextHeapInv, NextMutexInv, NextSegmentInv, NextOpponentInv,
       NextInevitableInv DEF CoreInv
  <1> QED BY <1>1, <1>2, PTL DEF Spec

\* There is never more than one inevitable transaction, it is not told to
\* abort and does not abort itself (contention.c:145-158, core.c:966-974).
THEOREM InevitableSafe == Spec => []InevitableIsSafe
  <1>1. TypeInv /\ CoreInv => InevitableIsSafe
    <2> SUFFICES ASSUME TypeInv, CoreInv PROVE InevitableIsSafe
      OBVIOUS
    <2>1. ASSUME NEW s \in Segs, transaction_state[s] = "INEVITABLE"
          PROVE  ~is_abort(s) /\ pc[running_thread[s]] # "abort"
      <3>1. /\ running_thread[s] \in Threads /\ assoc[running_thread[s]] = s
        BY <2>1 DEF TypeInv, TypeOK, CoreInv, SegmentInv
      <3> QED BY <2>1, <3>1 DEF CoreInv, InevitableInv
    <2> QED BY <2>1 DEF CoreInv, InevitableInv, InevitableIsSafe, OtherInevitable
  <1> QED BY <1>1, CoreInvariant, PTL

-----------------------------------------------------------------------------
\* Pause requests, stopping the world and waking up.
\* The step of one thread.
Step(t) == Library(t) \/ TakeMutex(t) \/ User(t) \/ SpuriousWakeup(t)

\* What a thread that is at p may have been asked to do.
Asked(p, o) ==
  \/ p \in {"outside", "bump", "reset", "run"} /\ o = "none"
  \/ p \in {"start", "acquire", "wait_segment_free"} /\ o = "start"
  \/ p = "request" /\ o \notin {"none", "start"}
  \/ /\ p \in {"safe", "wait_request_removed"}
     /\ o \in {"start", "safe_point", "commit", "inevitable", "unique"}
  \/ p \in {"sync", "stop", "wait_at_safe_point"} /\ o \in {"commit", "unique"}
  \/ p = "detect" /\ o = "commit"
  \/ p = "inevitable" /\ o = "inevitable"
  \/ p \in {"write", "recheck"} /\ o = "write"
  \/ p \in {"contention", "wait_aborted"} /\ o \in {"write", "commit", "inevitable"}
  \/ p = "wait_transaction_done" /\ o \in {"commit", "inevitable"}
  \/ p = "abort" /\ o # "none"

\* Only an inevitable transaction asks to be globally unique.
RequestInv == \A t \in Threads :
  /\ Asked(pc[t], call[t].op)
  /\ call[t].op = "unique" => transaction_state[assoc[t]] = "INEVITABLE"

-----------------------------------------------------------------------------
\* Looking for an opponent, or forgetting it, does not change the call.
LEMMA OpKept ==
  ASSUME TypeOK, NEW t \in Threads,
         \/ call' = call
         \/ \E i \in Copies : call' = [call EXCEPT ![t].other = i]
  PROVE  call'[t].op = call[t].op /\ call'[t].obj = call[t].obj
  <1>1. CASE call' = call
    BY <1>1
  <1>2. ASSUME NEW i \in Copies, call' = [call EXCEPT ![t].other = i]
        PROVE  call'[t].op = call[t].op /\ call'[t].obj = call[t].obj
    BY <1>2, CallAgainst DEF TypeOK
  <1> QED BY <1>1, <1>2

\* Every step leaves the thread at a place that fits what it was asked to do.
LEMMA OwnRequest ==
  ASSUME TypeInv, RequestInv, NEW t \in Threads, Step(t)
  PROVE  Asked(pc'[t], call'[t].op)
  <1>0. TypeOK /\ CallOK /\ Asked(pc[t], call[t].op)
    BY DEF TypeInv, RequestInv
  <1> USE <1>0, CallRecords DEF TypeOK, Asked, Ops, Goto, Continue, Leave, Wait, Holds, threadVars, InContention
  <1>1. CASE AcquireSegment(t) \/ WaitSegmentFree(t) \/ BumpVersion(t)
             \/ reset_transaction_read_version(t)
    BY <1>1 DEF AcquireSegment, WaitSegmentFree, BumpVersion,
                reset_transaction_read_version
  <1>2. CASE TakeWriteLock(t) \/ WriteLockTaken(t)
    BY <1>2 DEF TakeWriteLock, WriteLockTaken
  <1>4. CASE SafePointAbort(t) \/ SafePointPause(t) \/ SafePointCommitSoon(t)
    BY <1>4 DEF SafePointAbort, SafePointPause, SafePointCommitSoon
  <1>6. CASE SafePointDone(t)
    BY <1>6 DEF SafePointDone
  <1>7. CASE AlreadyUnique(t)
    BY <1>7 DEF AlreadyUnique
  <1>8. CASE signal_everybody_to_pause_running(t) \/ WaitAtSafePoint(t)
    BY <1>8 DEF signal_everybody_to_pause_running, WaitAtSafePoint
  <1>13. CASE AllStopped(t) \/ BecomeGloballyUnique(t)
    BY <1>13 DEF AllStopped, BecomeGloballyUnique
  <1>9. CASE BecomeInevitable(t)
    BY <1>9 DEF BecomeInevitable
  <1>10. CASE Commit(t)
    BY <1>10 DEF Commit
  <1>14. CASE Abort(t)
    BY <1>14 DEF Abort
  <1>11. CASE ContentionMustAbort(t) \/ ContentionSleep(t)
    BY <1>11 DEF ContentionMustAbort, ContentionSleep, Sleeps
  <1>15. CASE ContentionAbortSelf(t) \/ ContentionAbortRunning(t)
    BY <1>15 DEF ContentionAbortSelf, ContentionAbortRunning
  <1>16. CASE \/ RecheckOwner(t) \/ InevitableContention(t) \/ DetectConflict(t)
             \/ ContentionAbortStopped(t)
             \/ ResumeTransactionDone(t) \/ ResumeAborted(t)
    <2>3. CASE RecheckOwner(t)
      <3>1. write_locks[call[t].obj] \in Copies
        BY <2>3 DEF RecheckOwner, CallOK
      <3>2. \/ pc'[t] = "write" /\ call' = call
            \/ /\ pc'[t] = "contention"
               /\ call' = [call EXCEPT ![t].other = write_locks[call[t].obj]]
        BY <2>3 DEF RecheckOwner
      <3>3. call'[t].op = call[t].op
        <4> HIDE DEF TypeOK
        <4> QED BY <3>1, <3>2, OpKept
      <3> QED BY <2>3, <3>2, <3>3 DEF RecheckOwner
    <2>4. CASE ~RecheckOwner(t)
      <3>1. /\ \/ call' = call
               \/ \E i \in Copies : call' = [call EXCEPT ![t].other = i]
            /\ \/ pc[t] \in {"inevitable", "detect"} /\ pc'[t] = "contention"
               \/ pc[t] = "contention" /\ pc'[t] = Resolved(t)
               \/ pc[t] = "wait_transaction_done" /\ pc'[t] \in {"abort", Retried(t)}
               \/ pc[t] = "wait_aborted" /\ pc'[t] \in {"abort", Retried(t)}
        BY ZenonT(60), <1>16, <2>4, SegsFacts DEF InevitableContention, DetectConflict,
          ContentionAbortStopped, ResumeTransactionDone, ResumeAborted, Return,
          Awake, OtherInevitable, Conflicts
      <3>2. call'[t].op = call[t].op
        <4> HIDE DEF TypeOK
        <4> QED BY <3>1, OpKept
      <3> QED BY <3>1, <3>2 DEF Resolved, Retried
    <2> QED BY <2>3, <2>4
  <1>17. CASE ResumeSegmentFree(t) \/ ResumeRequestRemoved(t) \/ ResumeAtSafePoint(t)
    BY <1>17 DEF ResumeSegmentFree, ResumeRequestRemoved, ResumeAtSafePoint, Awake
  <1>20. CASE Lock(t)
    <2>1. call[t].op \in Ops
      BY DEF Calls
    <2> QED BY <1>20, <2>1 DEF Lock, Entry
  <1>18. CASE User(t)
    <2>1. CASE StartTransaction(t)
      BY <2>1 DEF StartTransaction
    <2>2. ASSUME NEW o \in Objects, stm_write(t, o)
          PROVE  Asked(pc'[t], call'[t].op)
      <3>1. [Request("write") EXCEPT !.obj = o].op = "write"
        BY DEF Request, Idle
      <3> QED BY <2>2, <3>1 DEF stm_write
    <2>3. ASSUME NEW o \in Requests, RequestMutex(t, o)
          PROVE  Asked(pc'[t], call'[t].op)
      BY <2>3, CoreAssumption DEF RequestMutex
    <2> QED BY <1>18, <2>1, <2>2, <2>3 DEF User, stm_read, Store
  <1>19. CASE SpuriousWakeup(t)
    BY <1>19 DEF SpuriousWakeup
  <1> QED BY <1>1, <1>2, <1>4, <1>6, <1>7, <1>8, <1>9, <1>10, <1>11, <1>13,
             <1>14, <1>15, <1>16, <1>17, <1>18, <1>19, <1>20 DEF Step, Library, TakeMutex

\* Only at the start of a transaction does a thread change segments.
LEMMA AssocFrame ==
  ASSUME TypeInv, NEW t \in Threads, Step(t), ~AcquireSegment(t)
  PROVE  assoc' = assoc
  <1>1. CASE Library(t)
    BY <1>1 DEF Library, WaitSegmentFree, BumpVersion,
      reset_transaction_read_version, TakeWriteLock, WriteLockTaken,
      RecheckOwner, SafePointAbort, SafePointCommitSoon, SafePointPause,
      SafePointDone, AlreadyUnique, signal_everybody_to_pause_running,
      WaitAtSafePoint, AllStopped, BecomeGloballyUnique, InevitableContention,
      BecomeInevitable, DetectConflict, Commit, Abort, ContentionMustAbort,
      ContentionSleep, ContentionAbortSelf, ContentionAbortRunning,
      ContentionAbortStopped, threadVars, Continue, Leave, Wait, Return
  <1>2. CASE TakeMutex(t) \/ User(t) \/ SpuriousWakeup(t)
    BY <1>2 DEF TakeMutex, Lock, ResumeSegmentFree, ResumeRequestRemoved,
      ResumeAtSafePoint, ResumeTransactionDone, ResumeAborted, Awake, Return,
      User, StartTransaction, stm_read, stm_write, Store, RequestMutex,
      SpuriousWakeup, threadVars
  <1> QED BY <1>1, <1>2 DEF Step

\* What a thread was asked changes when the program calls the library, when a
\* call returns and when an aborted transaction starts over.
LEMMA CallFrame ==
  ASSUME TypeInv, NEW t \in Threads, Step(t)
  PROVE  \/ call'[t].op = "none"
         \/ call'[t].op = call[t].op /\ call'[t].obj = call[t].obj
         \/ (StartTransaction(t) \/ Abort(t)) /\ call'[t].op = "start"
         \/ \E o \in Objects : /\ stm_write(t, o)
                               /\ call'[t].op = "write" /\ call'[t].obj = o
         \/ \E o \in Requests : RequestMutex(t, o) /\ call'[t].op = o
  <1>0. TypeOK /\ CallOK
    BY DEF TypeInv
  <1>1. CASE \/ RecheckOwner(t) \/ InevitableContention(t) \/ DetectConflict(t)
            \/ ContentionAbortStopped(t)
            \/ ResumeTransactionDone(t) \/ ResumeAborted(t)
    <2>1. pc[t] = "recheck" => write_locks[call[t].obj] \in Copies
      BY <1>0 DEF CallOK, TypeOK
    <2>2. \/ call' = call
          \/ \E i \in Copies : call' = [call EXCEPT ![t].other = i]
      BY <1>1, <2>1, SegsFacts DEF RecheckOwner, InevitableContention,
        DetectConflict, ContentionAbortStopped, ResumeTransactionDone,
        ResumeAborted, Return, OtherInevitable, Conflicts, Holds
    <2> QED BY <1>0, <2>2, OpKept
  <1>2. CASE User(t)
    <2>1. CASE StartTransaction(t)
      BY <1>0, <2>1, CallRecords DEF StartTransaction, TypeOK, Ops
    <2>2. ASSUME NEW o \in Objects, stm_write(t, o)
          PROVE  call'[t].op = "write" /\ call'[t].obj = o
      <3>1. /\ [Request("write") EXCEPT !.obj = o].op = "write"
            /\ [Request("write") EXCEPT !.obj = o].obj = o
        BY DEF Request, Idle
      <3> QED BY <1>0, <2>2, <3>1 DEF stm_write, TypeOK
    <2>3. ASSUME NEW o \in Requests, RequestMutex(t, o)
          PROVE  call'[t].op = o
      BY ZenonT(60), <1>0, <2>3, CoreAssumption, CallRecords DEF RequestMutex, TypeOK, Ops
    <2>4. ASSUME NEW o \in Objects,
                 stm_read(t, o) \/ \E v \in Values : Store(t, o, v)
          PROVE  call'[t] = call[t]
      BY <2>4 DEF stm_read, Store, threadVars
    <2> QED BY <1>2, <2>1, <2>2, <2>3, <2>4 DEF User
  <1>3. CASE Abort(t)
    BY <1>0, <1>3, CallRecords DEF Abort, TypeOK, Ops
  <1>4. CASE /\ Library(t) \/ TakeMutex(t) \/ SpuriousWakeup(t)
             /\ ~Abort(t)
             /\ ~ (\/ RecheckOwner(t) \/ InevitableContention(t)
                  \/ DetectConflict(t) \/ ContentionAbortStopped(t)
                  \/ ResumeTransactionDone(t) \/ ResumeAborted(t))
    <2>1. call' = call \/ call' = [call EXCEPT ![t] = Idle]
      BY <1>4 DEF Library, AcquireSegment, WaitSegmentFree, BumpVersion,
        reset_transaction_read_version, TakeWriteLock, WriteLockTaken,
        SafePointAbort, SafePointCommitSoon, SafePointPause, SafePointDone,
        AlreadyUnique, signal_everybody_to_pause_running, WaitAtSafePoint,
        AllStopped, BecomeGloballyUnique, BecomeInevitable, Commit,
        ContentionMustAbort, ContentionSleep, ContentionAbortSelf,
        ContentionAbortRunning, TakeMutex, Lock, ResumeSegmentFree,
        ResumeRequestRemoved, ResumeAtSafePoint, SpuriousWakeup, threadVars,
        Continue, Leave, Wait
    <2> QED BY <1>0, <2>1, CallRecords DEF TypeOK
  <1> QED BY <1>1, <1>2, <1>3, <1>4 DEF Step

\* RequestInv is inductive.
LEMMA NextRequestInv ==
  ASSUME TypeInv, SegmentInv, RequestInv, [Next]_vars
  PROVE  RequestInv'
  <1>1. CASE UNCHANGED vars
    BY <1>1 DEF vars, threadVars, segVars, RequestInv
  <1>2. ASSUME NEW t \in Threads, Step(t) PROVE RequestInv'
    <2>1. ASSUME NEW u \in Threads \ {t}
          PROVE  /\ Asked(pc'[u], call'[u].op)
                 /\ call'[u].op = "unique" =>
                      transaction_state'[assoc'[u]] = "INEVITABLE"
      <3>1. pc'[u] = pc[u] /\ call'[u] = call[u] /\ assoc'[u] = assoc[u]
        BY <1>2, ThreadFrame DEF Step
      <3>2. call[u].op = "unique" => InTransaction(u)
        BY DEF RequestInv, Asked, InTransaction
      <3>3. InTransaction(u) =>
              transaction_state'[assoc[u]] = transaction_state[assoc[u]]
        BY <1>2, StateFrame DEF Step
      <3> QED BY <3>1, <3>2, <3>3 DEF RequestInv
    <2>2. call'[t].op = "unique" => transaction_state'[assoc'[t]] = "INEVITABLE"
      <3>1. SUFFICES ASSUME call'[t].op = "unique"
                     PROVE  transaction_state'[assoc'[t]] = "INEVITABLE"
        OBVIOUS
      <3>2. CASE \E o \in Requests : RequestMutex(t, o) /\ call'[t].op = o
        BY <3>1, <3>2 DEF RequestMutex, MayRequest, segVars
      <3>3. CASE call[t].op = "unique"
        <4>1. /\ pc[t] \in {"request", "safe", "wait_request_removed", "sync",
                            "stop", "wait_at_safe_point", "abort"}
              /\ transaction_state[assoc[t]] = "INEVITABLE"
          BY <3>3 DEF RequestInv, Asked
        <4>2. call'[t].op \notin {"start", "none"}
          BY <3>1
        <4>3. ~AcquireSegment(t) /\ ~BecomeInevitable(t) /\ ~Commit(t)
          BY <4>1 DEF AcquireSegment, BecomeInevitable, Commit, Holds
        <4>4. ~Abort(t)
          BY <4>2, CallRecords DEF Abort, TypeInv, TypeOK, Ops
        <4>5. transaction_state' = transaction_state
          BY <1>2, <4>3, <4>4, StateFrame DEF Step
        <4>6. assoc' = assoc
          BY <1>2, <4>3, AssocFrame
        <4> QED BY <4>1, <4>5, <4>6
      <3> QED BY <1>2, <3>1, <3>2, <3>3, CallFrame
    <2> QED BY <1>2, <2>1, <2>2, OwnRequest DEF RequestInv
  <1> QED BY <1>1, <1>2 DEF Next, Step

-----------------------------------------------------------------------------
(* Safe points.                                                            *)

\* A transaction ends by a commit or by an abort of its own thread.
LEMMA LeaveTransaction ==
  ASSUME TypeInv, NEW t \in Threads, Step(t), InTransaction(t), ~InTransaction(t)'
  PROVE  Commit(t) \/ Abort(t)
  <1>0. TypeOK /\ CallOK
    BY DEF TypeInv
  <1> USE <1>0 DEF InTransaction, TypeOK, Goto, Continue, Leave, Wait, Holds,
                   threadVars, InContention
  <1>1. CASE Library(t)
    <2>1. CASE RecheckOwner(t) \/ ContentionAbortStopped(t)
      BY <2>1 DEF RecheckOwner, ContentionAbortStopped, Return, Resolved
    <2> QED BY <1>1, <2>1 DEF Library, AcquireSegment, WaitSegmentFree,
        BumpVersion, reset_transaction_read_version, TakeWriteLock,
        WriteLockTaken, SafePointAbort, SafePointCommitSoon, SafePointPause,
        SafePointDone, AlreadyUnique, signal_everybody_to_pause_running,
        WaitAtSafePoint, AllStopped, BecomeGloballyUnique,
        InevitableContention, BecomeInevitable, DetectConflict,
        ContentionMustAbort, ContentionSleep, ContentionAbortSelf,
        ContentionAbortRunning
  <1>2. CASE TakeMutex(t)
    BY <1>2 DEF TakeMutex, Lock, Entry, CallOK, ResumeSegmentFree,
      ResumeRequestRemoved, ResumeAtSafePoint, ResumeTransactionDone,
      ResumeAborted, Return, Retried, Resolved, Awake
  <1>3. CASE User(t) \/ SpuriousWakeup(t)
    BY <1>3 DEF User, StartTransaction, stm_read, stm_write, Store,
      RequestMutex, SpuriousWakeup
  <1> QED BY <1>1, <1>2, <1>3 DEF Step

\* Everything a thread has in its segment is left alone by the other threads;
\* a segment nobody has, before or after, is left alone by all.
LEMMA OtherSegment ==
  ASSUME TypeInv, SegmentInv, NEW t \in Threads, Step(t), NEW s \in Segs,
         running_thread[s] # t, running_thread'[s] # t
  PROVE  /\ safe_point'[s] = safe_point[s]
         /\ transaction_state'[s] = transaction_state[s]
         /\ running_thread'[s] = running_thread[s]
         /\ version'[s] = version[s]
         /\ rm'[s] = rm[s]
         /\ seen'[s] = seen[s]
  <1>0. TypeOK /\ (InTransaction(t) => s # assoc[t])
    BY DEF TypeInv, SegmentInv
  <1> USE <1>0 DEF TypeOK
  <1>1. CASE AcquireSegment(t)
    BY <1>1 DEF AcquireSegment, FreeSegs, readVars
  <1>2. CASE Commit(t) \/ Abort(t)
    <2>1. InTransaction(t)
      BY <1>2 DEF Commit, Abort, Holds, InTransaction
    <2> QED BY <1>2, <2>1 DEF Commit, Abort, FinishTransaction
  <1>3. CASE \/ SafePointPause(t) \/ WaitAtSafePoint(t) \/ BecomeInevitable(t)
             \/ ContentionSleep(t)
    <2>1. InTransaction(t)
      BY <1>3 DEF SafePointPause, WaitAtSafePoint, BecomeInevitable,
                  ContentionSleep, InContention, Holds, InTransaction
    <2> QED BY <1>3, <2>1 DEF SafePointPause, WaitAtSafePoint, BecomeInevitable,
                  ContentionSleep, readVars
  <1>4. CASE ResumeRequestRemoved(t) \/ ResumeAtSafePoint(t)
             \/ ResumeTransactionDone(t)
    <2>1. InTransaction(t)
      BY <1>4 DEF ResumeRequestRemoved, ResumeAtSafePoint,
                  ResumeTransactionDone, Awake, InTransaction
    <2> QED BY <1>4, <2>1 DEF ResumeRequestRemoved, ResumeAtSafePoint,
                  ResumeTransactionDone, Running, readVars
  <1>5. CASE BumpVersion(t) \/ reset_transaction_read_version(t)
    <2>1. InTransaction(t)
      BY <1>5 DEF BumpVersion, reset_transaction_read_version, InTransaction
    <2> QED BY <1>5, <2>1 DEF BumpVersion, reset_transaction_read_version,
                              ClearedMarkers, segVars
  <1>6. ASSUME NEW o \in Objects, stm_read(t, o) \/ stm_write(t, o)
        PROVE  rm'[s] = rm[s] /\ seen'[s] = seen[s] /\ UNCHANGED <<segVars, version>>
    <2>1. InTransaction(t)
      BY <1>6 DEF stm_read, stm_write, InTransaction
    <2> QED BY <1>6, <2>1 DEF stm_read, stm_write, MarkRead
  <1>7. CASE /\ Library(t) \/ TakeMutex(t) \/ SpuriousWakeup(t)
             /\ ~ (\/ AcquireSegment(t) \/ Commit(t) \/ Abort(t)
                  \/ SafePointPause(t) \/ WaitAtSafePoint(t)
                  \/ BecomeInevitable(t) \/ ContentionSleep(t)
                  \/ ResumeRequestRemoved(t) \/ ResumeAtSafePoint(t)
                  \/ ResumeTransactionDone(t)
                  \/ BumpVersion(t) \/ reset_transaction_read_version(t))
    <2>1. UNCHANGED <<segVars, readVars>>
      BY <1>7 DEF Library, WaitSegmentFree, TakeWriteLock, WriteLockTaken,
        RecheckOwner, SafePointAbort, SafePointCommitSoon, SafePointDone,
        AlreadyUnique, signal_everybody_to_pause_running, AllStopped,
        BecomeGloballyUnique, InevitableContention, DetectConflict,
        ContentionMustAbort, ContentionAbortSelf, ContentionAbortRunning,
        ContentionAbortStopped, TakeMutex, Lock, ResumeSegmentFree,
        ResumeAborted, SpuriousWakeup
    <2> QED BY <2>1 DEF segVars, readVars
  <1>8. CASE User(t)
    <2>1. CASE \E o \in Objects : stm_read(t, o) \/ stm_write(t, o)
      BY <1>6, <2>1 DEF segVars
    <2>2. CASE ~ \E o \in Objects : stm_read(t, o) \/ stm_write(t, o)
      <3>1. UNCHANGED <<segVars, readVars>>
        BY <1>8, <2>2 DEF User, StartTransaction, Store, RequestMutex
      <3> QED BY <3>1 DEF segVars, readVars
    <2> QED BY <2>1, <2>2
  <1> QED BY <1>1, <1>2, <1>3, <1>4, <1>5, <1>7, <1>8 DEF Step

\* What the safe_point field of a segment says about its thread.
SafePointOf(p) ==
  CASE p = "wait_request_removed"  -> "WAIT_FOR_C_REQUEST_REMOVED"
    [] p = "wait_at_safe_point"    -> "WAIT_FOR_C_AT_SAFE_POINT"
    [] p = "wait_transaction_done" -> "WAIT_FOR_C_TRANSACTION_DONE"
    [] OTHER                       -> "RUNNING"
SafePointInv ==
  /\ \A t \in Threads :
       InTransaction(t) => safe_point[assoc[t]] = SafePointOf(pc[t])
  /\ \A s \in Segs : running_thread[s] = NULL => safe_point[s] = "NO_TRANSACTION"

\* A thread that stops says so, and takes it back when it goes on.
LEMMA OwnSafePoint ==
  ASSUME TypeInv, SafePointInv, NEW t \in Threads, Step(t), InTransaction(t)'
  PROVE  safe_point'[assoc'[t]] = SafePointOf(pc'[t])
  <1>0. /\ TypeOK /\ assoc[t] \in Segs
        /\ InTransaction(t) => safe_point[assoc[t]] = SafePointOf(pc[t])
    BY DEF TypeInv, TypeOK, SafePointInv
  <1> USE <1>0 DEF TypeOK, SafePointOf, Goto, Continue, Leave, Wait, Holds,
                   threadVars, segVars, InContention, InTransaction
  <1>1. CASE AcquireSegment(t) \/ WaitSegmentFree(t) \/ BumpVersion(t)
             \/ reset_transaction_read_version(t)
    BY <1>1 DEF AcquireSegment, FreeSegs, WaitSegmentFree, BumpVersion,
                reset_transaction_read_version
  <1>2. CASE TakeWriteLock(t) \/ WriteLockTaken(t) \/ RecheckOwner(t)
    BY <1>2 DEF TakeWriteLock, WriteLockTaken, RecheckOwner
  <1>3. CASE SafePointAbort(t) \/ SafePointPause(t) \/ SafePointCommitSoon(t)
             \/ SafePointDone(t)
    BY <1>3 DEF SafePointAbort, SafePointPause, SafePointCommitSoon, SafePointDone
  <1>4. CASE AlreadyUnique(t) \/ signal_everybody_to_pause_running(t)
             \/ WaitAtSafePoint(t) \/ AllStopped(t) \/ BecomeGloballyUnique(t)
    BY <1>4 DEF AlreadyUnique, signal_everybody_to_pause_running,
                WaitAtSafePoint, AllStopped, BecomeGloballyUnique
  <1>5. CASE InevitableContention(t) \/ BecomeInevitable(t) \/ DetectConflict(t)
    BY <1>5 DEF InevitableContention, BecomeInevitable, DetectConflict
  <1>6. CASE Commit(t) \/ Abort(t)
    BY <1>6 DEF Commit, Abort
  <1>7. CASE ContentionMustAbort(t) \/ ContentionSleep(t)
             \/ ContentionAbortSelf(t) \/ ContentionAbortRunning(t)
    BY <1>7 DEF ContentionMustAbort, ContentionSleep, ContentionAbortSelf,
                ContentionAbortRunning
  <1>8. CASE ContentionAbortStopped(t) \/ ResumeAborted(t)
    BY <1>8 DEF ContentionAbortStopped, ResumeAborted, Return, Resolved, Retried
  <1>11. CASE Lock(t)
    BY <1>11 DEF Lock, Entry, TypeInv, CallOK
  <1>9. CASE ResumeSegmentFree(t) \/ ResumeRequestRemoved(t)
             \/ ResumeAtSafePoint(t) \/ ResumeTransactionDone(t)
    BY <1>9 DEF ResumeSegmentFree, ResumeRequestRemoved,
      ResumeAtSafePoint, ResumeTransactionDone, Awake, Running, Retried, Resolved
  <1>10. CASE User(t) \/ SpuriousWakeup(t)
    BY <1>10 DEF User, StartTransaction, stm_read, stm_write, Store,
                 RequestMutex, SpuriousWakeup
  <1> QED BY <1>1, <1>2, <1>3, <1>4, <1>5, <1>6, <1>7, <1>8, <1>9, <1>10, <1>11
          DEF Step, Library, TakeMutex

\* SafePointInv is inductive.
LEMMA NextSafePointInv ==
  ASSUME TypeInv, SegmentInv, SafePointInv, [Next]_vars
  PROVE  SafePointInv'
  <1>1. CASE UNCHANGED vars
    BY <1>1 DEF vars, threadVars, segVars, SafePointInv, InTransaction
  <1>2. ASSUME NEW t \in Threads, Step(t) PROVE SafePointInv'
    <2>0. SegmentInv'
      BY <1>2, NextSegmentInv DEF Next, Step
    <2>1. ASSUME NEW u \in Threads \ {t}, InTransaction(u)'
          PROVE  safe_point'[assoc'[u]] = SafePointOf(pc'[u])
      <3>1. pc'[u] = pc[u] /\ assoc'[u] = assoc[u]
        BY <1>2, ThreadFrame DEF Step
      <3>2. InTransaction(u)
        BY <2>1, <3>1 DEF InTransaction
      <3>3. /\ assoc[u] \in Segs
            /\ running_thread[assoc[u]] = u /\ running_thread'[assoc[u]] = u
        BY <2>0, <2>1, <3>1, <3>2 DEF SegmentInv, TypeInv, TypeOK
      <3>4. safe_point'[assoc[u]] = safe_point[assoc[u]]
        BY <1>2, <3>3, OtherSegment
      <3> QED BY <3>1, <3>2, <3>4 DEF SafePointInv
    <2>2. ASSUME NEW s \in Segs, running_thread'[s] = NULL
          PROVE  safe_point'[s] = "NO_TRANSACTION"
      <3>1. CASE running_thread[s] = t
        <4>1. InTransaction(t) /\ ~InTransaction(t)' /\ assoc[t] = s
          BY <1>2, <2>0, <2>2, <3>1, CoreAssumption, AssocFrame
          DEF SegmentInv, AcquireSegment, Holds, InTransaction
        <4>2. Commit(t) \/ Abort(t)
          BY <1>2, <4>1, LeaveTransaction
        <4> QED BY <4>1, <4>2 DEF Commit, Abort, FinishTransaction, TypeInv, TypeOK
      <3>2. CASE running_thread[s] # t
        <4>1. running_thread'[s] # t
          BY <2>2, CoreAssumption
        <4> QED BY <1>2, <2>2, <3>2, <4>1, OtherSegment DEF SafePointInv
      <3> QED BY <3>1, <3>2
    <2> QED BY <1>2, <2>1, <2>2, OwnSafePoint DEF SafePointInv
  <1> QED BY <1>1, <1>2 DEF Next, Step

-----------------------------------------------------------------------------
(* Pause requests and who may go on under them.                            *)

Synchronizing(t) == pc[t] \in {"stop", "wait_at_safe_point"}
Committing(t) == \/ pc[t] = "detect"
                 \/ pc[t] = "contention" /\ call[t].op = "commit"
Unique(t) == /\ globally_unique
             /\ InTransaction(t) /\ transaction_state[assoc[t]] = "INEVITABLE"

\* What threads may be at while another one has stopped the world: none of
\* these places leads to an access before the next safe point.
Harmless(t) ==
  \/ ~InTransaction(t)
  \/ pc[t] \in {"safe", "wait_request_removed", "wait_transaction_done",
                "inevitable", "abort"}
  \/ pc[t] = "contention" /\ call[t].op = "inevitable"

\* The signal that a synchronizing or a committing thread finds in its segment.
SignalOf(t) ==
  /\ pc[t] = "sync" \/ Committing(t) => nursery_end[assoc[t]] = "NURSERY_END"
  /\ pc[t] = "stop" => nursery_end[assoc[t]] = "SIGPAUSE"
  /\ pc[t] = "wait_at_safe_point" =>
       nursery_end[assoc[t]] \in {"SIGPAUSE", "SIGABORT"}

PauseInv ==
  /\ pause_signalled <=>
       globally_unique \/ \E t \in Threads : Synchronizing(t)
  /\ pause_signalled => \A s \in Segs : nursery_end[s] = "NURSERY_END" =>
       globally_unique /\ transaction_state[s] = "INEVITABLE"
  /\ ~pause_signalled => \A s \in Segs : nursery_end[s] # "SIGPAUSE"
  /\ \A t, u \in Threads : Synchronizing(t) /\ Synchronizing(u) => t = u
  /\ \A t \in Threads : SignalOf(t)

WorldInv ==
  /\ globally_unique => /\ \E t \in Threads : Unique(t)
                        /\ \A t \in Threads : ~Synchronizing(t)
  /\ \A t \in Threads : Committing(t) \/ Unique(t) =>
       \A u \in Threads \ {t} : Harmless(u)

\* An opponent is a running transaction, and only running transactions have
\* objects locked.
VictimInv ==
  /\ \A t \in Threads : pc[t] = "contention" =>
       /\ transaction_state[call[t].other] # "NONE"
       /\ call[t].op = "inevitable" =>
            transaction_state[call[t].other] = "INEVITABLE"
  /\ \A s \in Segs : transaction_state[s] = "NONE" => modified[s] = {}

StopInv == RequestInv /\ SafePointInv /\ PauseInv /\ WorldInv /\ VictimInv
KnownInv == TypeInv /\ HeapInv /\ CoreInv

-----------------------------------------------------------------------------
\* Nothing is requested at the start.
LEMMA InitStopInv == Init => StopInv
  <1> SUFFICES ASSUME Init PROVE StopInv
    OBVIOUS
  <1>1. RequestInv /\ SafePointInv
    BY CallRecords DEF Init, RequestInv, Asked, SafePointInv, InTransaction
  <1>2. PauseInv
    BY DEF Init, PauseInv, Synchronizing, Committing, SignalOf
  <1>3. WorldInv
    BY DEF Init, WorldInv, Committing, Unique
  <1>4. VictimInv
    BY DEF Init, VictimInv
  <1> QED BY <1>1, <1>2, <1>3, <1>4 DEF StopInv

\* The steps that change a signal or a pause request.
Signals(t) ==
  \/ SafePointCommitSoon(t) \/ signal_everybody_to_pause_running(t)
  \/ AllStopped(t) \/ BecomeGloballyUnique(t) \/ Commit(t) \/ Abort(t)
  \/ ContentionSleep(t) \/ ContentionAbortSelf(t)
  \/ ContentionAbortRunning(t) \/ ContentionAbortStopped(t)
  \/ ResumeAtSafePoint(t)

\* All of them are taken with the mutex.
LEMMA PauseFrame ==
  ASSUME TypeInv, NEW t \in Threads, Step(t)
  PROVE  /\ ~Signals(t) => UNCHANGED <<nursery_end, pause_signalled, globally_unique>>
         /\ Signals(t) => mutex \in {t, NULL}
  <1>1. CASE Signals(t)
    BY <1>1 DEF Signals, SafePointCommitSoon, signal_everybody_to_pause_running,
      AllStopped, BecomeGloballyUnique, Commit, Abort, ContentionSleep,
      ContentionAbortSelf, ContentionAbortRunning, ContentionAbortStopped,
      ResumeAtSafePoint, Awake, Holds, InContention
  <1>2. CASE ~Signals(t)
    <2>1. CASE Library(t)
      BY <1>2, <2>1 DEF Signals, Library, AcquireSegment, WaitSegmentFree,
        BumpVersion, reset_transaction_read_version, TakeWriteLock,
        WriteLockTaken, RecheckOwner, SafePointAbort, SafePointPause,
        SafePointDone, AlreadyUnique, WaitAtSafePoint, InevitableContention,
        BecomeInevitable, DetectConflict, ContentionMustAbort, signalVars,
        pauseVars
    <2>2. CASE TakeMutex(t)
      BY <1>2, <2>2 DEF Signals, TakeMutex, Lock, ResumeSegmentFree,
        ResumeRequestRemoved, ResumeTransactionDone, ResumeAborted,
        signalVars, pauseVars
    <2>3. CASE User(t) \/ SpuriousWakeup(t)
      BY <1>2, <2>3 DEF User, StartTransaction, stm_read, stm_write, Store,
        RequestMutex, SpuriousWakeup, signalVars, pauseVars
    <2> QED BY <1>2, <2>1, <2>2, <2>3 DEF Step
  <1> QED BY <1>1, <1>2

\* While a thread has the mutex the others do none of the steps that need it.
LEMMA MutexHeld ==
  ASSUME TypeInv, MutexInv, NEW t \in Threads, Step(t), NEW u \in Threads \ {t},
         pc[u] \in Locked
  PROVE  ~Signals(t) /\ UNCHANGED <<nursery_end, pause_signalled, globally_unique,
                                   transaction_state, running_thread>>
  <1>1. mutex = u /\ u # NULL
    BY CoreAssumption DEF MutexInv
  <1>2. ~Signals(t)
    BY <1>1, PauseFrame
  <1>3. ~AcquireSegment(t) /\ ~BecomeInevitable(t) /\ ~Commit(t) /\ ~Abort(t)
    BY <1>1 DEF AcquireSegment, BecomeInevitable, Commit, Abort, Holds
  <1>4. UNCHANGED <<transaction_state, running_thread>>
    <2>1. CASE Library(t)
      BY <1>1, <1>3, <2>1 DEF Library, WaitSegmentFree,
        BumpVersion, reset_transaction_read_version, TakeWriteLock,
        WriteLockTaken, RecheckOwner, SafePointAbort, SafePointPause,
        SafePointCommitSoon, SafePointDone, AlreadyUnique,
        signal_everybody_to_pause_running, WaitAtSafePoint, AllStopped,
        BecomeGloballyUnique, InevitableContention, DetectConflict,
        ContentionMustAbort, ContentionSleep, ContentionAbortSelf,
        ContentionAbortRunning, ContentionAbortStopped, segVars
    <2>2. CASE TakeMutex(t) \/ User(t) \/ SpuriousWakeup(t)
      BY <2>2 DEF TakeMutex, Lock, ResumeSegmentFree, ResumeRequestRemoved,
        ResumeAtSafePoint, ResumeTransactionDone, ResumeAborted, segVars,
        User, StartTransaction, stm_read, stm_write, Store,
        RequestMutex, SpuriousWakeup
    <2> QED BY <2>1, <2>2 DEF Step
  <1> QED BY <1>2, <1>4, PauseFrame

-----------------------------------------------------------------------------
(* Opponents run.                                                          *)

\* Only running transactions have modified objects.
LEMMA NextModifiedState ==
  ASSUME TypeInv, SegmentInv, VictimInv, NEW t \in Threads, Step(t), NEW s \in Segs,
         transaction_state'[s] = "NONE"
  PROVE  modified'[s] = {}
  <1>0. TypeOK
    BY DEF TypeInv
  <1>1. CASE (Commit(t) \/ Abort(t)) /\ s = assoc[t]
    BY <1>0, <1>1 DEF Commit, Abort, FinishTransaction, TypeOK
  <1>2. CASE TakeWriteLock(t) /\ s = assoc[t]
    <2>1. InTransaction(t) /\ transaction_state' = transaction_state
      BY <1>2 DEF TakeWriteLock, InTransaction, segVars
    <2> QED BY <1>0, <1>2, <2>1, CoreAssumption DEF SegmentInv
  <1>3. CASE ~((Commit(t) \/ Abort(t)) /\ s = assoc[t])
             /\ ~(TakeWriteLock(t) /\ s = assoc[t])
    <2>1. transaction_state[s] = "NONE"
      <3>1. CASE AcquireSegment(t)
        BY <1>0, <3>1 DEF AcquireSegment, FreeSegs, SegmentInv
      <3>2. CASE BecomeInevitable(t)
        BY <1>0, <3>2 DEF BecomeInevitable, TypeOK
      <3>3. CASE Commit(t) \/ Abort(t)
        BY <1>0, <1>3, <3>3 DEF Commit, Abort, FinishTransaction, TypeOK
      <3> QED BY <3>1, <3>2, <3>3, StateFrame DEF Step
    <2>2. modified'[s] \subseteq modified[s]
      BY <1>3, ModifiedFrame DEF Step
    <2> QED BY <2>1, <2>2 DEF VictimInv
  <1> QED BY <1>1, <1>2, <1>3

\* Contention management is entered against a running transaction, and on
\* the way to become inevitable against the inevitable one.
LEMMA OwnVictim ==
  ASSUME TypeInv, HeapInv, RequestInv, VictimInv, NEW t \in Threads, Step(t),
         pc'[t] = "contention"
  PROVE  /\ transaction_state'[call'[t].other] # "NONE"
         /\ call'[t].op = "inevitable" =>
              transaction_state'[call'[t].other] = "INEVITABLE"
  <1>0. TypeOK /\ CallOK
    BY DEF TypeInv
  <1>1. CASE RecheckOwner(t)
    <2> DEFINE o == call[t].obj
               i == write_locks[o]
    <2>1. call[t].op = "write" /\ o \in Objects /\ i \in Copies
      BY <1>0, <1>1 DEF RecheckOwner, Holds, CallOK, TypeOK
    <2>2. i # 0 /\ call' = [call EXCEPT ![t].other = i]
      BY <1>0, <1>1 DEF RecheckOwner, Goto, TypeOK
    <2>3. call'[t].op = "write" /\ call'[t].other = i
      BY <1>0, <2>1, <2>2, CallAgainst DEF TypeOK
    <2>4. i \in Segs /\ o \in modified[i]
      BY <2>1, <2>2, SegsFacts DEF HeapInv, LockOwnership
    <2>5. transaction_state[i] # "NONE" /\ transaction_state' = transaction_state
      BY <1>1, <2>4 DEF VictimInv, RecheckOwner, segVars
    <2> QED BY <2>3, <2>5
  <1>2. CASE InevitableContention(t)
    <2>1. PICK i \in Segs : /\ call' = [call EXCEPT ![t].other = i]
                           /\ transaction_state[i] = "INEVITABLE"
      BY <1>2 DEF InevitableContention, OtherInevitable
    <2>2. call'[t].other = i
      BY <1>0, <2>1, CallAgainst, SegsFacts DEF TypeOK
    <2> QED BY <1>2, <2>1, <2>2 DEF InevitableContention, segVars
  <1>3. CASE DetectConflict(t)
    <2>1. PICK i \in Segs : /\ call' = [call EXCEPT ![t].other = i]
                           /\ transaction_state[i] # "NONE"
      BY <1>3 DEF DetectConflict, Conflicts
    <2>2. call'[t].other = i /\ call'[t].op = call[t].op
      BY <1>0, <2>1, CallAgainst, SegsFacts DEF TypeOK
    <2>3. call[t].op = "commit"
      BY <1>3 DEF DetectConflict, Holds, RequestInv, Asked
    <2> QED BY <1>3, <2>1, <2>2, <2>3 DEF DetectConflict, segVars
  <1>4. CASE SpuriousWakeup(t)
    BY <1>0, <1>4 DEF SpuriousWakeup, Waits
  <1>5. CASE Library(t) /\ ~(RecheckOwner(t) \/ InevitableContention(t) \/ DetectConflict(t))
    <2>1. pc'[t] # "contention"
      BY <1>0, <1>5 DEF Library, AcquireSegment, WaitSegmentFree, BumpVersion,
        reset_transaction_read_version, TakeWriteLock, WriteLockTaken,
        SafePointAbort, SafePointCommitSoon, SafePointPause,
        SafePointDone, AlreadyUnique, signal_everybody_to_pause_running,
        WaitAtSafePoint, AllStopped, BecomeGloballyUnique, BecomeInevitable,
        Commit, Abort, ContentionMustAbort, ContentionSleep,
        ContentionAbortSelf, ContentionAbortRunning, ContentionAbortStopped,
        Holds, Goto, Continue, Leave, Wait, Return, Resolved, threadVars, TypeOK
    <2> QED BY <2>1
  <1>6. CASE TakeMutex(t) \/ User(t)
    <2>1. pc'[t] # "contention"
      BY <1>0, <1>6 DEF TakeMutex, Lock, Entry, ResumeSegmentFree,
        ResumeRequestRemoved, ResumeAtSafePoint, ResumeTransactionDone,
        ResumeAborted, Return, Retried, Resolved, Awake, Goto, threadVars,
        User, StartTransaction, stm_read, stm_write, Store, RequestMutex, TypeOK
    <2> QED BY <2>1
  <1> QED BY <1>1, <1>2, <1>3, <1>4, <1>5, <1>6 DEF Step

\* VictimInv is inductive.
LEMMA NextVictimInv ==
  ASSUME KnownInv, RequestInv, VictimInv, [Next]_vars
  PROVE  VictimInv'
  <1>0. TypeInv /\ HeapInv /\ MutexInv /\ SegmentInv
    BY DEF KnownInv, CoreInv
  <1>1. CASE UNCHANGED vars
    BY <1>1 DEF vars, threadVars, segVars, heapVars, VictimInv
  <1>2. ASSUME NEW t \in Threads, Step(t) PROVE VictimInv'
    <2>1. ASSUME NEW u \in Threads \ {t}, pc'[u] = "contention"
          PROVE  /\ transaction_state'[call'[u].other] # "NONE"
                 /\ call'[u].op = "inevitable" =>
                      transaction_state'[call'[u].other] = "INEVITABLE"
      <3>1. pc[u] = "contention" /\ call'[u] = call[u]
        BY <1>0, <1>2, <2>1, ThreadFrame DEF Step
      <3>2. transaction_state' = transaction_state
        BY <1>0, <1>2, <3>1, MutexHeld DEF Locked
      <3> QED BY <3>1, <3>2 DEF VictimInv
    <2> QED BY <1>0, <1>2, <2>1, NextModifiedState, OwnVictim DEF VictimInv
  <1> QED BY <1>1, <1>2 DEF Next, Step

-----------------------------------------------------------------------------
(* Pause requests.                                                         *)

\* The other threads take no signal away that a thread relies on.
LEMMA SignalOfOthers ==
  ASSUME KnownInv, PauseInv, WorldInv, NEW t \in Threads, Step(t),
         NEW u \in Threads \ {t}
  PROVE  SignalOf(u)'
  <1>0. /\ TypeInv /\ MutexInv /\ SegmentInv /\ TypeOK
        /\ assoc[t] \in Segs /\ assoc[u] \in Segs
    BY DEF KnownInv, CoreInv, TypeInv, TypeOK
  <1>1. pc'[u] = pc[u] /\ call'[u] = call[u] /\ assoc'[u] = assoc[u]
    BY <1>0, ThreadFrame DEF Step
  <1>2. SignalOf(u)
    BY DEF PauseInv
  <1>3. CASE pc[u] \in Locked \/ ~Signals(t)
    <2>1. nursery_end' = nursery_end
      BY <1>0, <1>3, MutexHeld, PauseFrame
    <2> QED BY <1>1, <1>2, <2>1 DEF SignalOf, Committing
  <1>4. CASE pc[u] = "wait_at_safe_point" /\ Signals(t)
    <2> DEFINE s == assoc[u]
    <2>0. nursery_end[s] \in {"SIGPAUSE", "SIGABORT"}
      BY <1>2, <1>4 DEF SignalOf
    <2>1. ~Synchronizing(t) /\ ~globally_unique /\ pause_signalled
      BY <1>4 DEF PauseInv, WorldInv, Synchronizing
    <2>2. InTransaction(t) => assoc[t] # s
      BY <1>0, <1>4, DistinctSegments DEF InTransaction
    <2> SUFFICES nursery_end'[s] \in {"SIGPAUSE", "SIGABORT"}
      BY <1>1, <1>4 DEF SignalOf, Committing
    <2> USE <1>0 DEF TypeOK
    <2>3. CASE SafePointCommitSoon(t) \/ Abort(t)
      BY <2>0, <2>2, <2>3 DEF SafePointCommitSoon, Abort, Holds, InTransaction
    <2>4. CASE signal_everybody_to_pause_running(t)
      BY <2>0, <2>4 DEF signal_everybody_to_pause_running
    <2>5. ~AllStopped(t) /\ ~BecomeGloballyUnique(t) /\ ~ResumeAtSafePoint(t)
      BY <2>1 DEF AllStopped, BecomeGloballyUnique, ResumeAtSafePoint, Awake,
                  Holds, Synchronizing
    <2>6. CASE Commit(t)
      BY <2>0, <2>1, <2>6 DEF Commit
    <2>7. CASE ContentionSleep(t) \/ ContentionAbortSelf(t)
      BY <2>0, <2>1, <2>7 DEF ContentionSleep, ContentionAbortSelf, CommitSoon
    <2>8. CASE ContentionAbortRunning(t) \/ ContentionAbortStopped(t)
      BY <2>0, <2>8 DEF ContentionAbortRunning, ContentionAbortStopped
    <2> QED BY <1>4, <2>3, <2>4, <2>5, <2>6, <2>7, <2>8 DEF Signals
  <1>5. CASE pc[u] \notin Locked \cup {"wait_at_safe_point"}
    BY <1>1, <1>5 DEF SignalOf, Committing, Locked
  <1> QED BY <1>3, <1>4, <1>5

\* Nobody else synchronizes when a thread gets past its own safe point.
LEMMA NobodySynchronizes ==
  ASSUME KnownInv, PauseInv, WorldInv, NEW t \in Threads
  PROVE  /\ pc[t] = "sync" /\ ~globally_unique =>
              ~pause_signalled /\ \A u \in Threads : ~Synchronizing(u)
         /\ pc[t] = "detect" /\ ~globally_unique =>
              ~pause_signalled /\ \A u \in Threads : ~Synchronizing(u)
         /\ pc[t] \in {"sync", "detect"} /\ globally_unique => Unique(t)
  <1>0. assoc[t] \in Segs
    BY DEF KnownInv, TypeInv, TypeOK
  <1>1. ASSUME pc[t] = "sync", ~globally_unique
        PROVE  ~pause_signalled /\ \A u \in Threads : ~Synchronizing(u)
    <2>1. nursery_end[assoc[t]] = "NURSERY_END"
      BY <1>1 DEF PauseInv, SignalOf
    <2> QED BY <1>0, <1>1, <2>1 DEF PauseInv
  <1>2. ASSUME pc[t] = "detect", ~globally_unique
        PROVE  ~pause_signalled /\ \A u \in Threads : ~Synchronizing(u)
    <2>1. \A u \in Threads : ~Synchronizing(u)
      BY <1>2 DEF WorldInv, Committing, Harmless, Synchronizing, InTransaction
    <2> QED BY <1>2, <2>1 DEF PauseInv
  <1>3. ASSUME pc[t] \in {"sync", "detect"}, globally_unique
        PROVE  Unique(t)
    BY <1>3 DEF WorldInv, Harmless, InTransaction
  <1> QED BY <1>1, <1>2, <1>3

\* The signal of the thread that takes the step.
LEMMA SignalOfOwn ==
  ASSUME KnownInv, RequestInv, PauseInv, WorldInv, NEW t \in Threads, Step(t)
  PROVE  SignalOf(t)'
  <1>0. /\ TypeInv /\ TypeOK /\ CallOK /\ assoc[t] \in Segs
        /\ SignalOf(t) /\ Asked(pc[t], call[t].op)
    BY DEF KnownInv, TypeInv, TypeOK, PauseInv, RequestInv
  <1> DEFINE n == nursery_end[assoc[t]]
             quiet == pc'[t] \notin {"sync", "detect", "contention", "stop",
                                     "wait_at_safe_point"}
  <1> USE DEF TypeOK, Goto, Continue, Leave, Wait, Holds, InContention
  <1>1. CASE SafePointDone(t)
    <2>1. n = "NURSERY_END" /\ nursery_end' = nursery_end /\ assoc' = assoc
      BY <1>1 DEF SafePointDone, signalVars
    <2>2. pc'[t] \in {"bump", "run", "inevitable", "sync"}
      BY <1>0, <1>1 DEF SafePointDone
    <2> QED BY <2>1, <2>2 DEF SignalOf, Committing
  <1>2. CASE AlreadyUnique(t)
    <2>1. pc[t] = "sync" /\ nursery_end' = nursery_end /\ assoc' = assoc
      BY <1>2 DEF AlreadyUnique, signalVars
    <2>2. pc'[t] \in {"detect", "run"}
      BY <1>0, <1>2 DEF AlreadyUnique
    <2> QED BY <1>0, <2>1, <2>2 DEF SignalOf, Committing
  <1>3. CASE signal_everybody_to_pause_running(t)
    <2>1. pc[t] = "sync" /\ assoc' = assoc /\ pc'[t] = "stop"
      BY <1>0, <1>3 DEF signal_everybody_to_pause_running
    <2>2. n = "NURSERY_END"
      BY <1>0, <2>1 DEF SignalOf
    <2>3. nursery_end'[assoc[t]] = "SIGPAUSE"
      BY <1>0, <1>3, <2>2 DEF signal_everybody_to_pause_running
    <2> QED BY <2>1, <2>3 DEF SignalOf, Committing
  <1>4. CASE WaitAtSafePoint(t)
    <2>1. /\ pc[t] = "stop" /\ pc'[t] = "wait_at_safe_point"
          /\ nursery_end' = nursery_end /\ assoc' = assoc
      BY <1>0, <1>4 DEF WaitAtSafePoint, signalVars
    <2> QED BY <1>0, <2>1 DEF SignalOf, Committing
  <1>5. CASE AllStopped(t)
    <2>1. /\ pc[t] = "stop" /\ pc'[t] = "detect" /\ assoc' = assoc
          /\ nursery_end' = Unpaused(nursery_end)
      BY <1>0, <1>5 DEF AllStopped
    <2>2. n = "SIGPAUSE"
      BY <1>0, <2>1 DEF SignalOf
    <2>3. nursery_end'[assoc[t]] = "NURSERY_END"
      BY <1>0, <2>1, <2>2 DEF Unpaused
    <2> QED BY <2>1, <2>3 DEF SignalOf
  <1>6. CASE DetectConflict(t)
    <2>1. /\ pc[t] = "detect" /\ pc'[t] = "contention"
          /\ nursery_end' = nursery_end /\ assoc' = assoc
      BY <1>0, <1>6 DEF DetectConflict, signalVars
    <2> QED BY <1>0, <2>1 DEF SignalOf, Committing
  <1>7. CASE InevitableContention(t) \/ RecheckOwner(t)
    <2>1. /\ pc'[t] \in {"contention", "write"}
          /\ pc[t] \in {"inevitable", "recheck"}
      BY <1>0, <1>7 DEF InevitableContention, RecheckOwner
    <2>2. call'[t].op # "commit"
      BY <1>0, <2>1, CallFrame, CoreAssumption
      DEF Asked, StartTransaction, Abort, stm_write, RequestMutex
    <2> QED BY <2>1, <2>2 DEF SignalOf, Committing
  <1>8. CASE ContentionAbortStopped(t)
    <2>1. /\ pc[t] = "contention" /\ pc'[t] = Resolved(t) /\ assoc' = assoc
          /\ nursery_end' = [nursery_end EXCEPT ![call[t].other] = "SIGABORT"]
      BY <1>0, <1>8 DEF ContentionAbortStopped, Return
    <2>2. call[t].other # assoc[t]
      BY <2>1 DEF KnownInv, CoreInv, OpponentInv
    <2>3. nursery_end'[assoc[t]] = n
      BY <1>0, <2>1, <2>2
    <2>4. pc'[t] \in {"write", "inevitable", "detect"}
          /\ (pc'[t] = "detect" => call[t].op = "commit")
      BY <2>1 DEF Resolved
    <2> QED BY <1>0, <2>1, <2>3, <2>4 DEF SignalOf, Committing
  <1>9. CASE ResumeAtSafePoint(t)
    <2>1. /\ pc[t] = "wait_at_safe_point" /\ assoc' = assoc
          /\ pc'[t] = "abort" \/ (pc'[t] = "stop" /\ n # "SIGABORT" /\ nursery_end' = nursery_end)
      BY <1>0, <1>9 DEF ResumeAtSafePoint, Awake, must_abort, is_abort
    <2> QED BY <1>0, <2>1 DEF SignalOf, Committing
  <1>10. CASE SafePointCommitSoon(t)
    <2>1. pc[t] = "safe" /\ pc' = pc
      BY <1>10 DEF SafePointCommitSoon, threadVars
    <2> QED BY <2>1 DEF SignalOf, Committing
  <1>11. CASE SpuriousWakeup(t)
    BY <1>0, <1>11 DEF SpuriousWakeup, SignalOf, Committing, signalVars
  <1>12. CASE (Library(t) \/ TakeMutex(t) \/ User(t))
              /\ ~ (\/ SafePointDone(t) \/ AlreadyUnique(t)
                   \/ signal_everybody_to_pause_running(t) \/ WaitAtSafePoint(t)
                   \/ AllStopped(t) \/ DetectConflict(t)
                   \/ InevitableContention(t) \/ RecheckOwner(t)
                   \/ ContentionAbortStopped(t) \/ ResumeAtSafePoint(t)
                   \/ SafePointCommitSoon(t))
    <2>1. quiet
      <3>1. CASE Library(t)
        BY <1>0, <1>12, <3>1 DEF Library, AcquireSegment, WaitSegmentFree,
          BumpVersion, reset_transaction_read_version, TakeWriteLock,
          WriteLockTaken, SafePointAbort, SafePointPause, BecomeGloballyUnique,
          BecomeInevitable, Commit, Abort, ContentionMustAbort,
          ContentionSleep, ContentionAbortSelf, ContentionAbortRunning
      <3>2. CASE TakeMutex(t)
        BY <1>0, <1>12, <3>2 DEF TakeMutex, Lock, Entry, ResumeSegmentFree,
          ResumeRequestRemoved, ResumeTransactionDone, ResumeAborted, Return,
          Retried, Resolved
      <3>3. CASE User(t)
        BY <1>0, <3>3 DEF User, StartTransaction, stm_read, stm_write, Store,
          RequestMutex, threadVars
      <3> QED BY <1>12, <3>1, <3>2, <3>3
    <2> QED BY <2>1 DEF SignalOf, Committing
  <1> QED BY <1>1, <1>2, <1>3, <1>4, <1>5, <1>6, <1>7, <1>8, <1>9, <1>10,
             <1>11, <1>12 DEF Step

\* When a thread starts and stops synchronizing.
LEMMA OwnSynchronizing ==
  ASSUME TypeInv, NEW t \in Threads, Step(t)
  PROVE  /\ signal_everybody_to_pause_running(t) => Synchronizing(t)'
         /\ AllStopped(t) \/ BecomeGloballyUnique(t) \/ ResumeAtSafePoint(t)
              => Synchronizing(t)
         /\ AllStopped(t) \/ BecomeGloballyUnique(t)
              \/ (ResumeAtSafePoint(t) /\ must_abort(t)) => ~Synchronizing(t)'
         /\ ~ (\/ signal_everybody_to_pause_running(t) \/ AllStopped(t)
              \/ BecomeGloballyUnique(t)
              \/ (ResumeAtSafePoint(t) /\ must_abort(t)))
              => (Synchronizing(t)' <=> Synchronizing(t))
  <1>0. TypeOK
    BY DEF TypeInv
  <1> USE <1>0 DEF TypeOK, Goto, Continue, Leave, Wait, Holds, InContention,
                   Synchronizing, threadVars, Awake
  <1>1. CASE signal_everybody_to_pause_running(t) \/ WaitAtSafePoint(t)
    BY <1>1 DEF signal_everybody_to_pause_running, WaitAtSafePoint, AllStopped,
                BecomeGloballyUnique, ResumeAtSafePoint
  <1>2. CASE AllStopped(t) \/ BecomeGloballyUnique(t)
    BY <1>2 DEF AllStopped, BecomeGloballyUnique, signal_everybody_to_pause_running,
                ResumeAtSafePoint
  <1>3. CASE ResumeAtSafePoint(t)
    BY <1>3 DEF ResumeAtSafePoint, signal_everybody_to_pause_running,
                AllStopped, BecomeGloballyUnique
  <1>4. CASE ~ (\/ signal_everybody_to_pause_running(t) \/ WaitAtSafePoint(t)
                \/ AllStopped(t) \/ BecomeGloballyUnique(t)
                \/ ResumeAtSafePoint(t))
    <2>1. CASE Library(t)
      BY <1>4, <2>1 DEF Library, AcquireSegment, WaitSegmentFree, BumpVersion,
        reset_transaction_read_version, TakeWriteLock, WriteLockTaken,
        RecheckOwner, SafePointAbort, SafePointCommitSoon, SafePointPause,
        SafePointDone, AlreadyUnique, InevitableContention, BecomeInevitable,
        DetectConflict, Commit, Abort, ContentionMustAbort, ContentionSleep,
        ContentionAbortSelf, ContentionAbortRunning, ContentionAbortStopped,
        Return, Resolved
    <2>2. CASE TakeMutex(t)
      BY <1>4, <2>2 DEF TakeMutex, Lock, Entry, ResumeSegmentFree,
        ResumeRequestRemoved, ResumeTransactionDone, ResumeAborted, Return,
        Retried, Resolved
    <2>3. CASE User(t) \/ SpuriousWakeup(t)
      BY <1>4, <2>3 DEF User, StartTransaction, stm_read, stm_write, Store,
        RequestMutex, SpuriousWakeup
    <2> QED BY <1>4, <2>1, <2>2, <2>3 DEF Step
  <1> QED BY <1>1, <1>2, <1>3, <1>4

\* Once unique, a transaction stays inevitable until it commits.
LEMMA InevitableKept ==
  ASSUME TypeInv, SegmentInv, InevitableInv, NEW t \in Threads, Step(t),
         ~Commit(t), NEW s \in Segs, transaction_state[s] = "INEVITABLE"
  PROVE  transaction_state'[s] = "INEVITABLE"
  <1>0. TypeOK
    BY DEF TypeInv
  <1>1. CASE AcquireSegment(t)
    BY <1>0, <1>1, CoreAssumption DEF AcquireSegment, FreeSegs, SegmentInv, TypeOK
  <1>2. CASE BecomeInevitable(t)
    BY <1>0, <1>2 DEF BecomeInevitable, TypeOK
  <1>3. CASE Abort(t)
    <2>1. transaction_state[assoc[t]] = "REGULAR"
      BY <1>3 DEF Abort, Holds, InevitableInv
    <2> QED BY <1>0, <1>3, <2>1 DEF Abort, FinishTransaction, TypeOK
  <1> QED BY <1>1, <1>2, <1>3, StateFrame DEF Step

\* PauseInv is inductive.
LEMMA NextPauseInv ==
  ASSUME KnownInv, StopInv, NEW t \in Threads, Step(t)
  PROVE  PauseInv'
  <1>0. /\ TypeInv /\ TypeOK /\ MutexInv /\ SegmentInv /\ InevitableInv
        /\ assoc[t] \in Segs
        /\ RequestInv /\ PauseInv /\ WorldInv
    BY DEF KnownInv, CoreInv, StopInv, TypeInv, TypeOK
  <1>1. \A u \in Threads : SignalOf(u)'
    BY <1>0, SignalOfOthers, SignalOfOwn
  <1>2. \A u \in Threads \ {t} : Synchronizing(u)' <=> Synchronizing(u)
    BY <1>0, ThreadFrame DEF Step, Synchronizing
  <1>3. ~Commit(t) => \A s \in Segs : transaction_state[s] = "INEVITABLE"
                                      => transaction_state'[s] = "INEVITABLE"
    BY <1>0, InevitableKept
  <1> DEFINE Goal == /\ pause_signalled' <=>
                          globally_unique' \/ \E u \in Threads : Synchronizing(u)'
                     /\ pause_signalled' => \A s \in Segs :
                          nursery_end'[s] = "NURSERY_END" =>
                          globally_unique' /\ transaction_state'[s] = "INEVITABLE"
                     /\ ~pause_signalled' => \A s \in Segs : nursery_end'[s] # "SIGPAUSE"
                     /\ \A v, u \in Threads :
                          Synchronizing(v)' /\ Synchronizing(u)' => v = u
  <1>4. SUFFICES Goal
    BY <1>1 DEF PauseInv
  <1> USE DEF TypeOK
  <1>5. CASE SafePointCommitSoon(t)
    <2>1. Synchronizing(t)' <=> Synchronizing(t)
      BY <1>5 DEF SafePointCommitSoon, threadVars, Synchronizing
    <2>2. /\ UNCHANGED <<pause_signalled, globally_unique, transaction_state>>
          /\ nursery_end' = [nursery_end EXCEPT ![assoc[t]] =
                IF pause_signalled THEN "SIGPAUSE" ELSE "NURSERY_END"]
      BY <1>5 DEF SafePointCommitSoon, pauseVars, segVars
    <2> QED BY <1>0, <1>2, <2>1, <2>2 DEF PauseInv
  <1>6. CASE signal_everybody_to_pause_running(t)
    <2>1. \A u \in Threads : ~Synchronizing(u)
      BY <1>0, <1>6, NobodySynchronizes DEF signal_everybody_to_pause_running, Holds
    <2>2. Synchronizing(t)'
      BY <1>0, <1>6, OwnSynchronizing
    <2>3. pause_signalled' = TRUE /\ globally_unique' = FALSE
          /\ \A s \in Segs : nursery_end'[s] # "NURSERY_END"
      BY <1>0, <1>6 DEF signal_everybody_to_pause_running
    <2> QED BY <1>2, <2>1, <2>2, <2>3
  <1>7. CASE AllStopped(t)
    <2>1. Synchronizing(t) /\ ~Synchronizing(t)'
      BY <1>0, <1>7, OwnSynchronizing
    <2>2. \A u \in Threads : ~Synchronizing(u)'
      BY <1>0, <1>2, <2>1 DEF PauseInv
    <2>3. globally_unique' = FALSE /\ pause_signalled' = FALSE
          /\ \A s \in Segs : nursery_end'[s] # "SIGPAUSE"
      BY <1>0, <1>7, <2>1 DEF AllStopped, WorldInv, Unpaused
    <2> QED BY <2>2, <2>3
  <1>8. CASE BecomeGloballyUnique(t)
    <2>1. Synchronizing(t) /\ ~Synchronizing(t)'
      BY <1>0, <1>8, OwnSynchronizing
    <2>2. \A u \in Threads : ~Synchronizing(u)'
      BY <1>0, <1>2, <2>1 DEF PauseInv
    <2>3. pause_signalled /\ pause_signalled' = pause_signalled
          /\ globally_unique = FALSE /\ globally_unique' = TRUE
          /\ nursery_end' = [nursery_end EXCEPT ![assoc[t]] = "NURSERY_END"]
          /\ transaction_state' = transaction_state
      BY <1>0, <1>8, <2>1 DEF BecomeGloballyUnique, WorldInv, PauseInv, segVars
    <2>4. transaction_state[assoc[t]] = "INEVITABLE"
      BY <1>0, <1>8 DEF BecomeGloballyUnique, RequestInv
    <2>5. \A s \in Segs : nursery_end[s] # "NURSERY_END"
      BY <1>0, <2>3 DEF PauseInv
    <2> QED BY <1>0, <2>2, <2>3, <2>4, <2>5
  <1>9. CASE Commit(t)
    <2>1. pc[t] = "detect" /\ (Synchronizing(t)' <=> Synchronizing(t))
      BY <1>0, <1>9 DEF Commit, Holds, Leave, Goto, Synchronizing
    <2>2. CASE globally_unique
      <3>1. transaction_state[assoc[t]] = "INEVITABLE"
        BY <1>0, <2>1, <2>2, NobodySynchronizes DEF Unique
      <3>2. globally_unique' = FALSE /\ pause_signalled' = FALSE
            /\ nursery_end' = Unpaused(nursery_end)
        BY <1>9, <2>2, <3>1 DEF Commit
      <3>3. \A s \in Segs : nursery_end'[s] # "SIGPAUSE"
        BY <1>0, <3>2 DEF Unpaused
      <3>4. \A u \in Threads : ~Synchronizing(u)'
        BY <1>0, <1>2, <2>1, <2>2 DEF WorldInv
      <3> QED BY <3>2, <3>3, <3>4
    <2>3. CASE ~globally_unique
      <3>1. ~pause_signalled /\ \A u \in Threads : ~Synchronizing(u)
        BY <1>0, <2>1, <2>3, NobodySynchronizes
      <3>2. UNCHANGED <<pause_signalled, globally_unique, nursery_end>>
        BY <1>9, <2>3 DEF Commit, pauseVars
      <3> QED BY <1>0, <1>2, <2>1, <2>3, <3>1, <3>2 DEF PauseInv
    <2> QED BY <2>2, <2>3
  <1>10. CASE Abort(t)
    <2>1. Synchronizing(t)' <=> Synchronizing(t)
      BY <1>0, <1>10 DEF Abort, Holds, Goto, Synchronizing
    <2>2. UNCHANGED <<pause_signalled, globally_unique>>
          /\ nursery_end' = [nursery_end EXCEPT ![assoc[t]] = SignalAfterAbort(assoc[t])]
      BY <1>10 DEF Abort, pauseVars
    <2>3. transaction_state[assoc[t]] = "REGULAR" /\ ~Commit(t)
      BY <1>0, <1>10 DEF Abort, Commit, Holds, InevitableInv
    <2>4. pause_signalled => SignalAfterAbort(assoc[t]) # "NURSERY_END"
      BY <1>0, <2>3 DEF SignalAfterAbort, PauseInv
    <2>5. ~pause_signalled => SignalAfterAbort(assoc[t]) # "SIGPAUSE"
      BY <1>0 DEF SignalAfterAbort, PauseInv
    <2> QED BY ZenonT(60), <1>0, <1>2, <1>3, <2>1, <2>2, <2>3, <2>4, <2>5 DEF PauseInv
  <1>11. CASE ContentionSleep(t) \/ ContentionAbortSelf(t)
    <2>1. Synchronizing(t)' <=> Synchronizing(t)
      BY <1>0, <1>11 DEF ContentionSleep, ContentionAbortSelf, InContention,
                         Holds, Wait, Continue, Goto, Synchronizing
    <2>2. UNCHANGED <<pause_signalled, globally_unique, transaction_state>>
          /\ nursery_end' = CommitSoon(call[t].other)
      BY <1>11 DEF ContentionSleep, ContentionAbortSelf, pauseVars, segVars
    <2>3. \/ nursery_end' = nursery_end
          \/ /\ ~pause_signalled
             /\ nursery_end' = [nursery_end EXCEPT ![call[t].other] = "SIGCOMMITSOON"]
      BY <2>2 DEF CommitSoon
    <2> QED BY <1>0, <1>2, <2>1, <2>2, <2>3 DEF PauseInv
  <1>12. CASE ContentionAbortRunning(t) \/ ContentionAbortStopped(t)
    <2>1. Synchronizing(t)' <=> Synchronizing(t)
      BY <1>0, <1>12 DEF ContentionAbortRunning, ContentionAbortStopped,
                         InContention, Holds, Wait, Return, Goto,
                         Synchronizing, Resolved
    <2>2. UNCHANGED <<pause_signalled, globally_unique, transaction_state>>
          /\ nursery_end' = [nursery_end EXCEPT ![call[t].other] = "SIGABORT"]
      BY <1>12 DEF ContentionAbortRunning, ContentionAbortStopped, pauseVars, segVars
    <2> QED BY <1>0, <1>2, <2>1, <2>2 DEF PauseInv
  <1>13. CASE ResumeAtSafePoint(t)
    <2>1. Synchronizing(t) /\ globally_unique' = globally_unique
          /\ transaction_state' = transaction_state
      BY <1>0, <1>13, OwnSynchronizing DEF ResumeAtSafePoint
    <2>2. CASE must_abort(t)
      <3>1. ~Synchronizing(t)'
        BY <1>0, <1>13, <2>2, OwnSynchronizing
      <3>2. \A u \in Threads : ~Synchronizing(u)'
        BY <1>0, <1>2, <2>1, <3>1 DEF PauseInv
      <3>3. globally_unique' = FALSE /\ pause_signalled' = FALSE
            /\ \A s \in Segs : nursery_end'[s] # "SIGPAUSE"
        BY <1>0, <1>13, <2>1, <2>2 DEF ResumeAtSafePoint, WorldInv, Unpaused
      <3> QED BY <3>2, <3>3
    <2>3. CASE ~must_abort(t)
      <3>1. Synchronizing(t)' /\ UNCHANGED <<pause_signalled, nursery_end>>
        BY <1>0, <1>13, <2>3 DEF ResumeAtSafePoint, Synchronizing, Goto
      <3> QED BY <1>0, <1>2, <2>1, <3>1 DEF PauseInv
    <2> QED BY <2>2, <2>3
  <1>14. CASE ~Signals(t)
    <2>1. UNCHANGED <<nursery_end, pause_signalled, globally_unique>>
      BY <1>0, <1>14, PauseFrame
    <2>2. Synchronizing(t)' <=> Synchronizing(t)
      BY <1>0, <1>14, OwnSynchronizing DEF Signals
    <2> QED BY <1>0, <1>2, <1>3, <1>14, <2>1, <2>2 DEF PauseInv, Signals
  <1> QED BY <1>5, <1>6, <1>7, <1>8, <1>9, <1>10, <1>11, <1>12, <1>13, <1>14
          DEF Signals

-----------------------------------------------------------------------------
(* Stopping the world.                                                     *)

\* The invariants, one by one.
LEMMA Parts ==
  ASSUME KnownInv, StopInv
  PROVE  /\ TypeInv /\ TypeOK /\ CallOK
         /\ HeapInv /\ MutexInv /\ SegmentInv /\ OpponentInv /\ InevitableInv
         /\ RequestInv /\ SafePointInv /\ PauseInv /\ WorldInv /\ VictimInv
         /\ \A t \in Threads : assoc[t] \in Segs /\ t # NULL
  BY CoreAssumption DEF KnownInv, CoreInv, StopInv, TypeInv, TypeOK

\* Once every other segment has left "running" its thread cannot do harm.
LEMMA AllHarmless ==
  ASSUME KnownInv, StopInv, NEW t \in Threads, Holds(t, "stop"),
         OthersRunning(assoc[t]) = {}, NEW u \in Threads \ {t}
  PROVE  Harmless(u)
  <1> SUFFICES ASSUME InTransaction(u) PROVE Harmless(u)
    BY DEF Harmless
  <1>1. InTransaction(t)
    BY DEF Holds, InTransaction
  <1>2. assoc[u] \in Segs \ {assoc[t]}
    BY <1>1, Parts, DistinctSegments
  <1>3. safe_point[assoc[u]] # "RUNNING"
    BY <1>2 DEF OthersRunning
  <1>4. pc[u] \in {"wait_request_removed", "wait_at_safe_point",
                   "wait_transaction_done"}
    BY <1>3, Parts DEF SafePointInv, SafePointOf
  <1>5. pc[u] # "wait_at_safe_point"
    BY Parts DEF PauseInv, Synchronizing, Holds
  <1> QED BY <1>4, <1>5 DEF Harmless

\* No thread gets past its safe point while another one is globally unique.
LEMMA HarmlessUnderUnique ==
  ASSUME KnownInv, StopInv, NEW u \in Threads, Unique(u),
         NEW t \in Threads \ {u}, Step(t)
  PROVE  Harmless(t)'
  <1>0. /\ TypeInv /\ TypeOK /\ CallOK /\ SegmentInv /\ assoc[t] \in Segs
        /\ assoc[u] \in Segs /\ Harmless(t) /\ Asked(pc[t], call[t].op)
    BY Parts DEF WorldInv, RequestInv
  <1>1. InTransaction(t) => transaction_state[assoc[t]] # "INEVITABLE"
    BY <1>0, Parts, DistinctSegments DEF Unique, InevitableInv
  <1>2. ~BecomeInevitable(t)
    BY <1>0 DEF BecomeInevitable, OtherInevitable, Unique
  <1>3. ~SafePointDone(t)
    <2>1. pause_signalled
      BY Parts DEF Unique, PauseInv
    <2> QED BY <1>0, <1>1, <2>1, Parts
            DEF SafePointDone, Holds, InTransaction, PauseInv
  <1>4. ~ContentionAbortRunning(t)
    <2> SUFFICES ASSUME ContentionAbortRunning(t) PROVE FALSE
      OBVIOUS
    <2>1. InContention(t) /\ AbortOther(assoc[t], call[t].other)
          /\ pc[t] = "contention"
      BY DEF ContentionAbortRunning, InContention, Holds
    <2>2. call[t].op = "inevitable"
      BY <1>0, <2>1 DEF Harmless, InTransaction
    <2>3. transaction_state[call[t].other] = "INEVITABLE"
      BY <2>1, <2>2, Parts DEF VictimInv
    <2> QED BY <2>1, <2>3, Parts, VictimIsNotInevitable
  <1>5. InevitableContention(t) => call'[t].op = "inevitable"
    <2> SUFFICES ASSUME InevitableContention(t) PROVE call'[t].op = "inevitable"
      OBVIOUS
    <2>1. \E i \in Copies : call' = [call EXCEPT ![t].other = i]
      BY SegsFacts DEF InevitableContention, OtherInevitable
    <2>2. call[t].op = "inevitable"
      BY <1>0 DEF InevitableContention, Holds, Asked
    <2> QED BY <1>0, <2>1, <2>2, OpKept
  <1> USE <1>0 DEF TypeOK, Goto, Continue, Leave, Wait, Holds, Harmless,
                   InTransaction, threadVars, InContention
  <1>6. CASE Library(t)
    <2>1. CASE ContentionAbortStopped(t)
      BY <2>1 DEF ContentionAbortStopped, Return, Resolved
    <2>2. CASE InevitableContention(t)
      BY <1>5, <2>2 DEF InevitableContention
    <2>3. CASE ContentionSleep(t) \/ ContentionAbortSelf(t) \/ ContentionMustAbort(t)
      BY <2>3 DEF ContentionSleep, ContentionAbortSelf, ContentionMustAbort
    <2>4. CASE Abort(t) \/ AcquireSegment(t) \/ WaitSegmentFree(t)
      BY <2>4 DEF Abort, AcquireSegment, WaitSegmentFree
    <2>5. CASE SafePointAbort(t) \/ SafePointCommitSoon(t) \/ SafePointPause(t)
      BY <2>5 DEF SafePointAbort, SafePointCommitSoon, SafePointPause
    <2> QED BY <1>2, <1>3, <1>4, <1>6, <2>1, <2>2, <2>3, <2>4, <2>5 DEF
        Library, BumpVersion, reset_transaction_read_version, TakeWriteLock,
        WriteLockTaken, RecheckOwner,
        AlreadyUnique, signal_everybody_to_pause_running,
        WaitAtSafePoint, AllStopped, BecomeGloballyUnique, DetectConflict, Commit
  <1>7. CASE TakeMutex(t)
    BY <1>7 DEF TakeMutex, Lock, Entry, CallOK, Asked, ResumeSegmentFree,
      ResumeRequestRemoved, ResumeAtSafePoint, ResumeTransactionDone,
      ResumeAborted, Retried, Resolved, Awake
  <1>8. CASE User(t) \/ SpuriousWakeup(t)
    BY <1>8 DEF User, StartTransaction, stm_read, stm_write, Store,
      RequestMutex, SpuriousWakeup
  <1> QED BY <1>6, <1>7, <1>8 DEF Step

\* Nor while another one looks for conflicts, with the mutex.
LEMMA HarmlessUnderMutex ==
  ASSUME KnownInv, StopInv, NEW u \in Threads, pc[u] \in Locked,
         NEW t \in Threads \ {u}, Harmless(t), Step(t)
  PROVE  Harmless(t)'
  <1>0. TypeOK /\ mutex = u /\ pc[t] \notin Locked /\ mutex # NULL
    BY Parts DEF MutexInv
  <1>1. ~Library(t)
    BY <1>0 DEF Library, AcquireSegment, WaitSegmentFree, BumpVersion,
      reset_transaction_read_version, TakeWriteLock, WriteLockTaken,
      RecheckOwner, SafePointAbort, SafePointCommitSoon, SafePointPause,
      SafePointDone, AlreadyUnique, signal_everybody_to_pause_running,
      WaitAtSafePoint, AllStopped, BecomeGloballyUnique, InevitableContention,
      BecomeInevitable, DetectConflict, Commit, Abort, ContentionMustAbort,
      ContentionSleep, ContentionAbortSelf, ContentionAbortRunning,
      ContentionAbortStopped, Holds, InContention, Harmless, InTransaction, Locked
  <1>2. ~TakeMutex(t)
    BY <1>0 DEF TakeMutex, Lock, ResumeSegmentFree, ResumeRequestRemoved,
      ResumeAtSafePoint, ResumeTransactionDone, ResumeAborted, Awake
  <1>3. CASE User(t) \/ SpuriousWakeup(t)
    BY <1>0, <1>3 DEF TypeOK, Goto, Harmless, InTransaction, threadVars, User,
      StartTransaction, stm_read, stm_write, Store, RequestMutex, SpuriousWakeup
  <1> QED BY <1>1, <1>2, <1>3 DEF Step

\* The step that makes a transaction globally unique, and the one that ends it.
LEMMA UniqueSteps ==
  ASSUME KnownInv, StopInv, NEW t \in Threads, Step(t)
  PROVE  /\ globally_unique' => globally_unique \/ BecomeGloballyUnique(t)
         /\ globally_unique /\ ~Commit(t) => globally_unique'
         /\ globally_unique /\ Commit(t) => ~globally_unique'
  <1>1. CASE ~Signals(t)
    BY <1>1, Parts, PauseFrame DEF Signals
  <1>2. CASE Commit(t)
    BY <1>2, Parts, NobodySynchronizes DEF Commit, Holds, Unique, pauseVars
  <1>3. CASE Signals(t) /\ ~Commit(t)
    BY <1>3 DEF Signals, SafePointCommitSoon, signal_everybody_to_pause_running,
      AllStopped, BecomeGloballyUnique, Abort, ContentionSleep,
      ContentionAbortSelf, ContentionAbortRunning, ContentionAbortStopped,
      ResumeAtSafePoint, pauseVars
  <1> QED BY <1>1, <1>2, <1>3

\* A unique transaction stays in its segment until it commits.
LEMMA UniqueKept ==
  ASSUME KnownInv, StopInv, NEW t \in Threads, Step(t), ~Commit(t),
         NEW u \in Threads, Unique(u)
  PROVE  Unique(u)'
  <1>0. /\ TypeInv /\ TypeOK /\ SegmentInv /\ InevitableInv /\ assoc[u] \in Segs
        /\ globally_unique'
    BY Parts, UniqueSteps DEF Unique
  <1>1. transaction_state'[assoc[u]] = "INEVITABLE"
    BY <1>0, InevitableKept DEF Unique
  <1>2. CASE u # t
    <2>1. pc'[u] = pc[u] /\ assoc'[u] = assoc[u]
      BY <1>0, <1>2, ThreadFrame DEF Step
    <2> QED BY <1>0, <1>1, <2>1 DEF Unique, InTransaction
  <1>3. CASE u = t
    <2>1. ~Abort(t)
      BY <1>0, <1>3 DEF Abort, Holds, InevitableInv, Unique
    <2>2. InTransaction(t)'
      BY <1>0, <1>3, <2>1, LeaveTransaction DEF Unique
    <2>3. ~AcquireSegment(t)
      BY <1>3 DEF AcquireSegment, Holds, Unique, InTransaction
    <2>4. assoc' = assoc
      BY <1>0, <2>3, AssocFrame
    <2> QED BY <1>0, <1>1, <1>3, <2>2, <2>4 DEF Unique
  <1> QED BY <1>2, <1>3

\* A transaction becomes unique in BecomeGloballyUnique only.
LEMMA BecomesUnique ==
  ASSUME KnownInv, StopInv, NEW t \in Threads, Step(t),
         NEW u \in Threads, Unique(u)'
  PROVE  Unique(u) \/ (u = t /\ BecomeGloballyUnique(t))
  <1>0. /\ TypeInv /\ TypeOK /\ SegmentInv /\ assoc[u] \in Segs /\ assoc[t] \in Segs
    BY Parts
  <1>1. CASE BecomeGloballyUnique(t) /\ u # t
    <2>1. InTransaction(t) /\ transaction_state' = transaction_state
          /\ transaction_state[assoc[t]] = "INEVITABLE"
      BY <1>0, <1>1, Parts DEF BecomeGloballyUnique, Holds, InTransaction,
                               RequestInv, segVars
    <2>2. InTransaction(u) /\ assoc'[u] = assoc[u]
      BY <1>0, <1>1, ThreadFrame DEF Step, Unique, InTransaction
    <2>3. transaction_state[assoc[u]] = "INEVITABLE"
      BY <2>1, <2>2 DEF Unique
    <2>4. assoc[u] # assoc[t]
      BY <1>0, <1>1, <2>1, <2>2, DistinctSegments
    <2> QED BY <1>0, <2>1, <2>3, <2>4, Parts DEF InevitableInv
  <1>2. CASE ~BecomeGloballyUnique(t)
    <2>1. globally_unique /\ globally_unique'
      BY <1>2, UniqueSteps DEF Unique
    <2>2. PICK v \in Threads : Unique(v)
      BY <2>1, Parts DEF WorldInv
    <2>3. ~Commit(t)
      BY <2>1, UniqueSteps
    <2>4. Unique(v)'
      BY <2>2, <2>3, UniqueKept
    <2>5. InevitableInv' /\ SegmentInv' /\ TypeOK'
      <3>1. [Next]_vars
        BY DEF Next, Step
      <3> QED BY <3>1, Parts, NextInevitableInv, NextSegmentInv, NextTypeInv DEF TypeInv
    <2>6. assoc'[u] = assoc'[v]
      BY <2>4, <2>5 DEF Unique, InevitableInv, TypeOK
    <2>7. running_thread'[assoc'[u]] = u /\ running_thread'[assoc'[v]] = v
      BY <2>4, <2>5 DEF Unique, SegmentInv
    <2> QED BY <2>2, <2>6, <2>7
  <1> QED BY <1>1, <1>2

\* Who starts to look for conflicts has stopped the world.
LEMMA BecomesCommitting ==
  ASSUME KnownInv, StopInv, NEW t \in Threads, Step(t), Committing(t)'
  PROVE  Committing(t) \/ AllStopped(t) \/ AlreadyUnique(t)
  <1>0. TypeOK /\ TypeInv /\ CallOK /\ Asked(pc[t], call[t].op)
    BY Parts DEF RequestInv
  <1> SUFFICES ASSUME ~AllStopped(t), ~AlreadyUnique(t) PROVE Committing(t)
    OBVIOUS
  <1>1. CASE RecheckOwner(t) \/ InevitableContention(t)
    <2>1. /\ pc'[t] \in {"contention", "write"}
          /\ pc[t] \in {"inevitable", "recheck"}
      BY <1>0, <1>1 DEF RecheckOwner, InevitableContention, Goto, Holds, TypeOK
    <2>2. call'[t].op # "commit"
      BY <1>0, <2>1, CallFrame, CoreAssumption
      DEF Asked, StartTransaction, Abort, stm_write, RequestMutex, Holds
    <2> QED BY <2>1, <2>2 DEF Committing
  <1> USE <1>0 DEF TypeOK, Goto, Continue, Leave, Wait, Holds, Committing,
                   threadVars, InContention, Return, Awake
  <1>2. CASE Library(t) /\ ~(RecheckOwner(t) \/ InevitableContention(t))
    <2>1. CASE DetectConflict(t) \/ ContentionAbortStopped(t)
      BY <2>1 DEF DetectConflict, ContentionAbortStopped, Resolved
    <2> QED BY <1>2, <2>1 DEF Library, AcquireSegment, WaitSegmentFree, BumpVersion,
      reset_transaction_read_version, TakeWriteLock, WriteLockTaken,
      SafePointAbort, SafePointCommitSoon, SafePointPause, SafePointDone,
      signal_everybody_to_pause_running,
      WaitAtSafePoint, BecomeGloballyUnique, BecomeInevitable, Commit, Abort,
      ContentionMustAbort, ContentionSleep, ContentionAbortSelf,
      ContentionAbortRunning
  <1>3. CASE TakeMutex(t)
    BY <1>3 DEF TakeMutex, Lock, Entry, ResumeSegmentFree,
      ResumeRequestRemoved, ResumeAtSafePoint, ResumeTransactionDone,
      ResumeAborted, Retried, Resolved
  <1>4. CASE User(t) \/ SpuriousWakeup(t)
    BY <1>4 DEF User, StartTransaction, stm_read, stm_write, Store,
      RequestMutex, SpuriousWakeup
  <1> QED BY <1>1, <1>2, <1>3, <1>4 DEF Step

\* WorldInv is inductive.
LEMMA NextWorldInv ==
  ASSUME KnownInv, StopInv, NEW t \in Threads, Step(t)
  PROVE  WorldInv'
  <1>0. TypeInv /\ TypeOK /\ MutexInv /\ WorldInv
    BY Parts
  <1>1. \A u \in Threads \ {t} : pc'[u] = pc[u] /\ call'[u] = call[u]
    BY <1>0, ThreadFrame DEF Step
  <1>2. ASSUME globally_unique'
        PROVE  \E v \in Threads : Unique(v)'
    <2>1. CASE BecomeGloballyUnique(t)
      <3>1. transaction_state[assoc[t]] = "INEVITABLE"
        BY <2>1, Parts DEF BecomeGloballyUnique, RequestInv
      <3>2. pc'[t] = "run" /\ assoc' = assoc /\ transaction_state' = transaction_state
        BY <1>0, <2>1 DEF BecomeGloballyUnique, Leave, Goto, segVars, TypeOK
      <3> QED BY <1>2, <3>1, <3>2 DEF Unique, InTransaction
    <2>2. CASE ~BecomeGloballyUnique(t)
      <3>1. globally_unique /\ ~Commit(t)
        BY <1>2, <2>2, UniqueSteps
      <3> QED BY <1>0, <3>1, UniqueKept DEF WorldInv
    <2> QED BY <2>1, <2>2
  <1>3. ASSUME globally_unique'
        PROVE  \A v \in Threads : ~Synchronizing(v)'
    <2>1. \A v \in Threads \ {t} : Synchronizing(v)' <=> Synchronizing(v)
      BY <1>1 DEF Synchronizing
    <2>2. CASE BecomeGloballyUnique(t)
      <3>1. Synchronizing(t) /\ ~Synchronizing(t)'
        BY <1>0, <2>2, OwnSynchronizing
      <3> QED BY <2>1, <3>1, Parts DEF PauseInv
    <2>3. CASE ~BecomeGloballyUnique(t)
      <3>1. globally_unique
        BY <1>3, <2>3, UniqueSteps
      <3>2. ~signal_everybody_to_pause_running(t)
        BY <3>1 DEF signal_everybody_to_pause_running
      <3> QED BY <1>0, <2>1, <3>1, <3>2, OwnSynchronizing DEF WorldInv
    <2> QED BY <2>2, <2>3
  <1>4. ASSUME NEW v \in Threads, Committing(v)' \/ Unique(v)',
               NEW u \in Threads \ {v}
        PROVE  Harmless(u)'
    <2>1. CASE v # t
      <3>1. Committing(v) \/ Unique(v)
        BY <1>1, <1>4, <2>1, BecomesUnique DEF Committing
      <3>2. Harmless(u)
        BY <1>0, <3>1 DEF WorldInv
      <3>3. CASE u # t
        BY <1>1, <3>2, <3>3 DEF Harmless, InTransaction
      <3>4. CASE u = t
        <4>1. Committing(v) => pc[v] \in Locked
          BY DEF Committing, Locked
        <4> QED BY <2>1, <3>1, <3>2, <3>4, <4>1, HarmlessUnderMutex, HarmlessUnderUnique
      <3> QED BY <3>3, <3>4
    <2>2. CASE v = t
      <3>1. \/ Committing(t) \/ Unique(t)
            \/ AllStopped(t) \/ AlreadyUnique(t) \/ BecomeGloballyUnique(t)
        BY <1>4, <2>2, BecomesCommitting, BecomesUnique
      <3>2. AlreadyUnique(t) => Unique(t)
        BY Parts, NobodySynchronizes DEF AlreadyUnique, Holds
      <3>3. Harmless(u)
        BY <1>0, <2>2, <3>1, <3>2, AllHarmless
        DEF WorldInv, AllStopped, BecomeGloballyUnique
      <3> QED BY <1>1, <2>2, <3>3 DEF Harmless, InTransaction
    <2> QED BY <2>1, <2>2
  <1> QED BY <1>2, <1>3, <1>4 DEF WorldInv

\* KnownInv and StopInv hold at every step.
LEMMA StopInvariant == Spec => [](KnownInv /\ StopInv)
  <1>1. Init => KnownInv /\ StopInv
    BY InitTypeInv, InitHeapInv, InitCoreInv, InitStopInv DEF KnownInv
  <1>2. KnownInv /\ StopInv /\ [Next]_vars => (KnownInv /\ StopInv)'
    <2> SUFFICES ASSUME KnownInv, StopInv, [Next]_vars PROVE KnownInv' /\ StopInv'
      OBVIOUS
    <2>1. KnownInv'
      BY Parts, NextTypeInv, NextHeapInv, NextMutexInv, NextSegmentInv,
         NextOpponentInv, NextInevitableInv DEF KnownInv, CoreInv
    <2>2. RequestInv' /\ SafePointInv' /\ VictimInv'
      BY Parts, NextRequestInv, NextSafePointInv, NextVictimInv
    <2>3. PauseInv' /\ WorldInv'
      <3>1. CASE UNCHANGED vars
        <4>1. PauseInv /\ WorldInv
          BY Parts
        <4> QED BY <3>1, <4>1 DEF vars, threadVars, segVars, signalVars, pauseVars,
                   PauseInv, WorldInv, Synchronizing, Committing, Unique,
                   Harmless, SignalOf, InTransaction
      <3>2. ASSUME NEW t \in Threads, Step(t) PROVE PauseInv' /\ WorldInv'
        BY <3>2, NextPauseInv, NextWorldInv
      <3> QED BY <3>1, <3>2 DEF Next, Step
    <2> QED BY <2>1, <2>2, <2>3 DEF StopInv
  <1> QED BY <1>1, <1>2, PTL DEF Spec

\* Pause requests are out exactly while somebody synchronizes or is globally
\* unique, and whoever gets past its synchronization has no signal left
\* (sync.c:272-281, 295, 304-311, 369, 391, 405-406, core.c:844).
THEOREM PauseRequestsMatch == Spec => []PauseRequests
  <1>1. KnownInv /\ StopInv => PauseRequests
    <2> SUFFICES ASSUME KnownInv, StopInv PROVE PauseRequests
      OBVIOUS
    <2>1. PauseInv
      BY Parts
    <2> QED BY <2>1 DEF PauseInv, PauseRequests, Synchronizing, SignalOf,
                        Committing, Holds
  <1> QED BY <1>1, StopInvariant, PTL

\* While a thread looks for conflicts or is globally unique nobody else runs
\* code that touches objects (sync.c:358-401, core.c:829).
THEOREM WorldStops == Spec => []StopTheWorld
  <1>1. KnownInv /\ StopInv => StopTheWorld
    <2> SUFFICES ASSUME KnownInv, StopInv, NEW t \in Threads,
                        \/ pc[t] = "detect"
                        \/ pc[t] = "contention" /\ call[t].op = "commit"
                        \/ /\ globally_unique
                           /\ transaction_state[assoc[t]] = "INEVITABLE"
                           /\ running_thread[assoc[t]] = t
                 PROVE  Mutators \subseteq {t}
      BY DEF StopTheWorld
    <2>1. Committing(t) \/ Unique(t)
      BY Parts DEF Committing, Unique, SegmentInv
    <2>2. \A u \in Threads \ {t} : Harmless(u)
      BY <2>1, Parts DEF WorldInv
    <2> QED BY <2>2 DEF Mutators, Harmless, InTransaction
  <1> QED BY <1>1, StopInvariant, PTL

\* The opponent of a contention has a transaction, one that may be aborted if
\* that is what will be done (contention.c:266, core.c:971).
THEOREM VictimRuns == Spec => []VictimIsRunning
  <1>1. KnownInv /\ StopInv => VictimIsRunning
    <2> SUFFICES ASSUME KnownInv, StopInv, NEW t \in Threads, pc[t] = "contention"
                 PROVE  LET s == assoc[t]
                            i == call[t].other
                        IN /\ i # s /\ transaction_state[i] # "NONE"
                           /\ AbortOther(s, i) => transaction_state[i] = "REGULAR"
      BY DEF VictimIsRunning
    <2> DEFINE s == assoc[t]
               i == call[t].other
    <2>1. /\ i \in Segs /\ s \in Segs /\ i # s
          /\ transaction_state[i] # "NONE"
      BY Parts DEF CallOK, OpponentInv, VictimInv
    <2>2. AbortOther(s, i) => transaction_state[i] # "INEVITABLE"
      BY <2>1, Parts DEF AbortOther, InevitableInv
    <2> QED BY <2>1, <2>2, Parts DEF TypeOK
  <1> QED BY <1>1, StopInvariant, PTL

-----------------------------------------------------------------------------
(* Segments and their threads, and segments told to abort.                 *)

\* The steps that touch read markers, versions and what was read.
LEMMA ReadFrame ==
  ASSUME TypeInv, NEW t \in Threads, Step(t)
  PROVE  \/ BumpVersion(t) \/ reset_transaction_read_version(t)
         \/ \E o \in Objects : stm_read(t, o) \/ stm_write(t, o)
         \/ Commit(t) \/ Abort(t)
         \/ UNCHANGED readVars
  <1>1. CASE Library(t)
    BY <1>1 DEF Library, AcquireSegment, WaitSegmentFree, TakeWriteLock,
      WriteLockTaken, RecheckOwner, SafePointAbort, SafePointCommitSoon,
      SafePointPause, SafePointDone, AlreadyUnique,
      signal_everybody_to_pause_running, WaitAtSafePoint, AllStopped,
      BecomeGloballyUnique, InevitableContention, BecomeInevitable,
      DetectConflict, ContentionMustAbort, ContentionSleep,
      ContentionAbortSelf, ContentionAbortRunning, ContentionAbortStopped
  <1>2. CASE TakeMutex(t)
    BY <1>2 DEF TakeMutex, Lock, ResumeSegmentFree, ResumeRequestRemoved,
      ResumeAtSafePoint, ResumeTransactionDone, ResumeAborted
  <1>3. CASE User(t) \/ SpuriousWakeup(t)
    BY <1>3 DEF User, StartTransaction, Store, RequestMutex, SpuriousWakeup
  <1> QED BY <1>1, <1>2, <1>3 DEF Step

\* The markers of a segment change in the steps of its thread only, and end
\* with the transaction.
LEMMA SegmentOf ==
  ASSUME KnownInv, StopInv, NEW t \in Threads, Step(t), NEW s \in Segs
  PROVE  \/ /\ running_thread[s] # t
            /\ UNCHANGED <<running_thread[s], transaction_state[s],
                           safe_point[s], version[s], rm[s], seen[s]>>
         \/ /\ AcquireSegment(t) /\ s = assoc'[t] /\ running_thread'[s] = t
            /\ running_thread[s] = NULL /\ transaction_state[s] = "NONE"
            /\ transaction_state'[s] = "REGULAR" /\ safe_point'[s] = "RUNNING"
         \/ /\ Commit(t) \/ Abort(t)
            /\ s = assoc[t] /\ running_thread[s] = t
            /\ running_thread'[s] = NULL /\ transaction_state'[s] = "NONE"
            /\ seen'[s] = [o \in Objects |-> NULL]
         \/ /\ InTransaction(t) /\ InTransaction(t)'
            /\ s = assoc[t] /\ assoc' = assoc
            /\ running_thread[s] = t /\ running_thread'[s] = t
            /\ ~AcquireSegment(t) /\ ~Commit(t) /\ ~Abort(t)
  <1>0. TypeInv /\ TypeOK /\ SegmentInv /\ assoc[t] \in Segs /\ t # NULL
    BY Parts
  <1>1. CASE running_thread[s] # t /\ running_thread'[s] # t
    BY <1>0, <1>1, OtherSegment
  <1>2. CASE AcquireSegment(t)
    <2>1. ~InTransaction(t)
      BY <1>2 DEF AcquireSegment, Holds, InTransaction
    <2>2. running_thread[s] # t
      BY <1>0, <2>1 DEF SegmentInv
    <2>3. PICK r \in FreeSegs :
            /\ assoc' = [assoc EXCEPT ![t] = r]
            /\ running_thread' = [running_thread EXCEPT ![r] = t]
            /\ safe_point' = [safe_point EXCEPT ![r] = "RUNNING"]
            /\ transaction_state' = [transaction_state EXCEPT ![r] = "REGULAR"]
      BY <1>2 DEF AcquireSegment
    <2>4. r \in Segs /\ running_thread[r] = NULL /\ assoc'[t] = r
      BY <1>0, <2>3 DEF FreeSegs, TypeOK
    <2>5. CASE s = r
      BY <1>0, <1>2, <2>3, <2>4, <2>5 DEF TypeOK, SegmentInv
    <2>6. CASE s # r
      <3>1. running_thread'[s] # t
        BY <1>0, <2>2, <2>3, <2>4, <2>6 DEF TypeOK
      <3> QED BY <1>1, <2>2, <3>1
    <2> QED BY <2>5, <2>6
  <1>3. CASE running_thread[s] = t /\ ~AcquireSegment(t)
    <2>1. InTransaction(t) /\ assoc[t] = s /\ assoc' = assoc
      BY <1>0, <1>3, AssocFrame DEF SegmentInv
    <2>2. CASE Commit(t) \/ Abort(t)
      BY <1>0, <1>3, <2>1, <2>2 DEF Commit, Abort, FinishTransaction, TypeOK
    <2>3. CASE ~Commit(t) /\ ~Abort(t)
      <3>1. InTransaction(t)'
        BY <1>0, <2>1, <2>3, LeaveTransaction
      <3>2. SegmentInv'
        BY <1>0, NextSegmentInv DEF Next, Step
      <3>3. running_thread'[s] = t
        BY <2>1, <3>1, <3>2 DEF SegmentInv
      <3> QED BY <1>3, <2>1, <2>3, <3>1, <3>3
    <2> QED BY <2>2, <2>3
  <1>4. CASE running_thread[s] # t /\ running_thread'[s] = t /\ ~AcquireSegment(t)
    <2>1. running_thread' = running_thread \/ Commit(t) \/ Abort(t)
      <3>1. CASE Library(t)
        BY <1>4, <3>1 DEF Library, WaitSegmentFree, BumpVersion,
          reset_transaction_read_version, TakeWriteLock,
          WriteLockTaken, RecheckOwner, SafePointAbort, SafePointCommitSoon,
          SafePointPause, SafePointDone, AlreadyUnique,
          signal_everybody_to_pause_running, WaitAtSafePoint, AllStopped,
          BecomeGloballyUnique, InevitableContention, BecomeInevitable,
          DetectConflict, ContentionMustAbort, ContentionSleep,
          ContentionAbortSelf, ContentionAbortRunning, ContentionAbortStopped,
          segVars
      <3>2. CASE TakeMutex(t) \/ User(t) \/ SpuriousWakeup(t)
        BY <3>2 DEF TakeMutex, Lock, ResumeSegmentFree, ResumeRequestRemoved,
          ResumeAtSafePoint, ResumeTransactionDone, ResumeAborted, User,
          StartTransaction, stm_read, stm_write, Store, RequestMutex,
          SpuriousWakeup, segVars
      <3> QED BY <3>1, <3>2 DEF Step
    <2> QED BY <1>0, <1>4, <2>1 DEF Commit, Abort, FinishTransaction, TypeOK
  <1> QED BY <1>1, <1>2, <1>3, <1>4

\* Nothing but the abort takes an abort request back.
LEMMA AbortKept ==
  ASSUME KnownInv, StopInv, NEW t \in Threads, Step(t), NEW s \in Segs, is_abort(s)
  PROVE  is_abort(s)' \/ (Abort(t) /\ s = assoc[t])
  <1>0. TypeInv /\ TypeOK /\ assoc[t] \in Segs
    BY Parts
  <1> USE <1>0 DEF TypeOK, is_abort
  <1>1. CASE Signals(t) /\ ~Abort(t)
    <2>1. CASE BecomeGloballyUnique(t)
      <3>1. nursery_end[assoc[t]] = "SIGPAUSE"
        BY <2>1, Parts DEF BecomeGloballyUnique, Holds, PauseInv, SignalOf
      <3> QED BY <2>1, <3>1 DEF BecomeGloballyUnique
    <2>2. CASE AllStopped(t) \/ Commit(t) \/ ResumeAtSafePoint(t)
      BY <2>2 DEF AllStopped, Commit, ResumeAtSafePoint, Unpaused
    <2>3. CASE SafePointCommitSoon(t) \/ signal_everybody_to_pause_running(t)
      BY <2>3 DEF SafePointCommitSoon, signal_everybody_to_pause_running
    <2>4. CASE ContentionSleep(t) \/ ContentionAbortSelf(t)
      BY <2>4 DEF ContentionSleep, ContentionAbortSelf, CommitSoon
    <2>5. CASE ContentionAbortRunning(t) \/ ContentionAbortStopped(t)
      BY <2>5 DEF ContentionAbortRunning, ContentionAbortStopped
    <2> QED BY <1>1, <2>1, <2>2, <2>3, <2>4, <2>5 DEF Signals
  <1>2. CASE Abort(t)
    BY <1>2 DEF Abort
  <1> QED BY <1>1, <1>2, PauseFrame

-----------------------------------------------------------------------------
(* No thread sleeps through what it waits for.                             *)

\* Only threads inside pthread_cond_wait() were signalled.
WokenInv == \A t \in woken : pc[t] \in Waits

\* What a thread that sleeps may rely on.
Sleeper(t) ==
  /\ pc[t] = "wait_request_removed" => pause_signalled /\ ~must_abort(t)
  /\ pc[t] = "wait_at_safe_point" => ~must_abort(t)
  /\ pc[t] = "wait_transaction_done" =>
       signal_when_done[call[t].other] /\ ~must_abort(t)
  /\ pc[t] = "wait_aborted" => is_abort(call[t].other)
SleepersInv == \A t \in Threads \ woken : Sleeper(t)

\* The threads that are about to look for a free segment.
Acquirers == {t \in Threads : \/ pc[t] = "acquire"
                              \/ pc[t] = "wait_segment_free" /\ t \in woken}

\* Each free segment has a thread of its own that is about to find it.
SegmentFreeInv == Waiters("wait_segment_free") # {} =>
                    ExistsInjection(FreeSegs, Acquirers)

WakeInv == WokenInv /\ SleepersInv /\ SegmentFreeInv

-----------------------------------------------------------------------------
\* At the start nobody sleeps.
LEMMA InitWakeInv == Init => WakeInv
  BY DEF Init, WakeInv, WokenInv, SleepersInv, Sleeper, SegmentFreeInv, Waiters

\* The steps that touch the threads that were signalled.
Wakes(t) ==
  \/ SafePointPause(t) \/ AllStopped(t) \/ Commit(t) \/ Abort(t)
  \/ ContentionSleep(t) \/ ContentionAbortStopped(t)

\* No other step signals, wakes up or forgets a sleeping thread.
LEMMA WokenFrame ==
  ASSUME TypeInv, NEW t \in Threads, Step(t)
  PROVE  Wakes(t) \/ TakeMutex(t) \/ SpuriousWakeup(t) \/ woken' = woken
  <1>1. CASE Library(t)
    BY <1>1 DEF Wakes, Library, AcquireSegment, WaitSegmentFree, BumpVersion,
      reset_transaction_read_version, TakeWriteLock, WriteLockTaken,
      RecheckOwner, SafePointAbort, SafePointCommitSoon, SafePointDone,
      AlreadyUnique, signal_everybody_to_pause_running, WaitAtSafePoint,
      BecomeGloballyUnique, InevitableContention, BecomeInevitable,
      DetectConflict, ContentionMustAbort, ContentionAbortSelf,
      ContentionAbortRunning, Continue, threadVars
  <1>2. CASE User(t)
    BY <1>2 DEF User, StartTransaction, stm_read, stm_write, Store,
      RequestMutex, threadVars
  <1> QED BY <1>1, <1>2 DEF Step

\* Nobody but the thread itself takes a signal back, and only threads that
\* wait are signalled.
LEMMA WokenOthers ==
  ASSUME TypeInv, NEW t \in Threads, Step(t), NEW u \in Threads
  PROVE  /\ u # t /\ u \in woken => u \in woken'
         /\ u \in woken' => u \in woken \/ pc[u] \in Waits
  <1> USE DEF Signalled, Waiters, Waits
  <1>1. CASE Wakes(t)
    <2>1. CASE SafePointPause(t) \/ ContentionSleep(t)
      BY <2>1 DEF SafePointPause, ContentionSleep, SignalAtSafePoint
    <2>2. CASE AllStopped(t)
      BY <2>2 DEF AllStopped, Paused
    <2>3. CASE Commit(t)
      BY <2>3 DEF Commit, FinishTransaction, Paused, Sleepers
    <2>4. CASE Abort(t)
      BY <2>4 DEF Abort, FinishTransaction, Sleepers
    <2>5. CASE ContentionAbortStopped(t)
      BY <2>5 DEF ContentionAbortStopped, WakeOf
    <2> QED BY <1>1, <2>1, <2>2, <2>3, <2>4, <2>5 DEF Wakes
  <1>2. CASE TakeMutex(t)
    BY <1>2 DEF TakeMutex, Lock, ResumeSegmentFree, ResumeRequestRemoved,
      ResumeAtSafePoint, ResumeTransactionDone, ResumeAborted, Paused
  <1>3. CASE SpuriousWakeup(t)
    BY <1>3 DEF SpuriousWakeup
  <1> QED BY <1>1, <1>2, <1>3, WokenFrame

\* A thread that sleeps does nothing in the library.
LEMMA LibraryStarts ==
  ASSUME NEW t \in Threads, Library(t)
  PROVE  pc[t] \notin Waits
  BY DEF Library, AcquireSegment, WaitSegmentFree, BumpVersion,
      reset_transaction_read_version, TakeWriteLock, WriteLockTaken,
      RecheckOwner, SafePointAbort, SafePointCommitSoon, SafePointPause,
      SafePointDone, AlreadyUnique, signal_everybody_to_pause_running,
      WaitAtSafePoint, AllStopped, BecomeGloballyUnique, InevitableContention,
      BecomeInevitable, DetectConflict, Commit, Abort, ContentionMustAbort,
      ContentionSleep, ContentionAbortSelf, ContentionAbortRunning,
      ContentionAbortStopped, InContention, Holds, Waits

\* The signals a thread gets itself: it goes on with its signal used up.
LEMMA WokenOwn ==
  ASSUME TypeInv, WokenInv, NEW t \in Threads, Step(t), t \in woken'
  PROVE  SpuriousWakeup(t)
  <1>0. t \in woken => pc[t] \in Waits
    BY DEF WokenInv
  <1> USE <1>0 DEF Signalled, Waiters, Waits
  <1>1. CASE Library(t)
    <2>1. pc[t] \notin Waits
      BY <1>1, LibraryStarts
    <2> QED BY <2>1, WokenOthers
  <1>2. CASE User(t)
    BY <1>2, WokenOthers DEF User, StartTransaction, stm_read, stm_write, Store,
      RequestMutex, threadVars
  <1>3. CASE TakeMutex(t)
    BY <1>3 DEF TakeMutex, Lock, ResumeSegmentFree, ResumeRequestRemoved,
      ResumeAtSafePoint, ResumeTransactionDone, ResumeAborted, Awake, Paused
  <1> QED BY <1>1, <1>2, <1>3 DEF Step

\* WokenInv is inductive.
LEMMA NextWokenInv ==
  ASSUME TypeInv, WokenInv, NEW t \in Threads, Step(t)
  PROVE  WokenInv'
  <1>0. woken' \subseteq Threads
    BY NextTypeInv DEF Next, Step, TypeInv, TypeOK
  <1>1. ASSUME NEW u \in woken', u # t PROVE pc'[u] \in Waits
    <2>1. pc[u] \in Waits
      BY <1>0, <1>1, WokenOthers DEF WokenInv
    <2> QED BY <1>0, <1>1, <2>1, ThreadFrame DEF Step
  <1>2. ASSUME t \in woken' PROVE pc'[t] \in Waits
    BY <1>2, WokenOwn DEF SpuriousWakeup
  <1> QED BY <1>1, <1>2 DEF WokenInv

-----------------------------------------------------------------------------
(* What a sleeping thread waits for is still to happen.                    *)

\* A stopped thread is woken up when it is told to abort.
LEMMA ToldToAbort ==
  ASSUME KnownInv, StopInv, NEW t \in Threads, Step(t),
         NEW u \in Threads \ {t}, u \notin woken', ~must_abort(u),
         pc[u] \in {"wait_request_removed", "wait_at_safe_point",
                   "wait_transaction_done"}
  PROVE  ~must_abort(u)'
  <1>0. TypeInv /\ TypeOK /\ SafePointInv
    BY Parts
  <1>1. u \notin woken /\ assoc'[u] = assoc[u] /\ assoc[u] \in Segs
    BY <1>0, WokenOthers, ThreadFrame DEF Step, TypeOK
  <1>2. safe_point[assoc[u]] = SafePointOf(pc[u])
    BY <1>0 DEF SafePointInv, InTransaction
  <1> SUFFICES ASSUME is_abort(assoc[u])' PROVE FALSE
    BY <1>1 DEF must_abort, is_abort
  <1>3. /\ ContentionAbortRunning(t) \/ ContentionAbortStopped(t)
        /\ assoc[u] = call[t].other
    BY <1>0, <1>1, SignalFrame DEF Step, must_abort
  <1>4. CASE ContentionAbortRunning(t)
    BY <1>2, <1>3, <1>4 DEF ContentionAbortRunning, SafePointOf
  <1>5. CASE ContentionAbortStopped(t)
    <2>1. Waiters(WakeOf(safe_point[assoc[u]])) \subseteq woken'
      BY <1>3, <1>5 DEF ContentionAbortStopped
    <2>2. WakeOf(safe_point[assoc[u]]) = pc[u]
      BY <1>2 DEF SafePointOf, WakeOf
    <2> QED BY <1>1, <2>1, <2>2 DEF Waiters
  <1> QED BY <1>3, <1>4, <1>5

\* Who takes the pause requests back wakes up the threads they stopped.
LEMMA ToldToGoOn ==
  ASSUME KnownInv, StopInv, NEW t \in Threads, Step(t),
         NEW u \in Threads \ {t}, u \notin woken', pause_signalled,
         pc[u] = "wait_request_removed"
  PROVE  pause_signalled'
  <1>0. TypeInv /\ u \notin woken
    BY Parts, WokenOthers
  <1>1. u \in Paused
    BY <1>0 DEF Paused, Waiters
  <1>2. CASE AllStopped(t)
    BY <1>1, <1>2 DEF AllStopped
  <1>3. CASE Commit(t)
    BY <1>1, <1>3 DEF Commit, FinishTransaction, pauseVars
  <1>4. CASE ResumeAtSafePoint(t)
    BY <1>1, <1>4 DEF ResumeAtSafePoint
  <1>5. CASE Signals(t) /\ ~(AllStopped(t) \/ Commit(t) \/ ResumeAtSafePoint(t))
    BY <1>5 DEF Signals, SafePointCommitSoon, signal_everybody_to_pause_running,
      BecomeGloballyUnique, Abort, ContentionSleep, ContentionAbortSelf,
      ContentionAbortRunning, ContentionAbortStopped, pauseVars
  <1> QED BY <1>0, <1>2, <1>3, <1>4, <1>5, PauseFrame

\* Nobody else forgets that the end of a transaction is waited for.
LEMMA EndSignalFrame ==
  ASSUME NEW t \in Threads, Step(t), ~Commit(t), ~Abort(t), ~ContentionSleep(t)
  PROVE  signal_when_done' = signal_when_done
  <1>1. CASE Library(t)
    BY <1>1 DEF Library, AcquireSegment, WaitSegmentFree, BumpVersion,
      reset_transaction_read_version, TakeWriteLock, WriteLockTaken,
      RecheckOwner, SafePointAbort, SafePointCommitSoon, SafePointPause,
      SafePointDone, AlreadyUnique, signal_everybody_to_pause_running,
      WaitAtSafePoint, AllStopped, BecomeGloballyUnique, InevitableContention,
      BecomeInevitable, DetectConflict, ContentionMustAbort,
      ContentionAbortSelf, ContentionAbortRunning, ContentionAbortStopped,
      signalVars
  <1>2. CASE TakeMutex(t)
    BY <1>2 DEF TakeMutex, Lock, ResumeSegmentFree, ResumeRequestRemoved,
      ResumeAtSafePoint, ResumeTransactionDone, ResumeAborted, signalVars
  <1>3. CASE User(t) \/ SpuriousWakeup(t)
    BY <1>3 DEF User, StartTransaction, stm_read, stm_write, Store,
      RequestMutex, SpuriousWakeup, signalVars
  <1> QED BY <1>1, <1>2, <1>3 DEF Step

\* A transaction that somebody waits for says so when it ends.
LEMMA ToldOfTheEnd ==
  ASSUME KnownInv, StopInv, NEW t \in Threads, Step(t),
         NEW u \in Threads \ {t}, u \notin woken', NEW i \in Segs,
         signal_when_done[i], pc[u] = "wait_transaction_done"
  PROVE  signal_when_done'[i]
  <1>0. TypeInv /\ TypeOK /\ u \notin woken
    BY Parts, WokenOthers
  <1>1. u \in Waiters("wait_transaction_done")
    BY <1>0 DEF Waiters
  <1>2. CASE Commit(t) \/ Abort(t)
    <2>1. /\ Sleepers(assoc[t]) \subseteq woken'
          /\ signal_when_done' = [signal_when_done EXCEPT ![assoc[t]] = FALSE]
      BY <1>2 DEF Commit, Abort, FinishTransaction
    <2>2. i # assoc[t]
      BY <1>1, <2>1 DEF Sleepers
    <2> QED BY <1>0, <2>1, <2>2 DEF TypeOK
  <1>3. CASE ContentionSleep(t)
    BY <1>0, <1>3 DEF ContentionSleep, TypeOK
  <1>4. CASE ~(Commit(t) \/ Abort(t) \/ ContentionSleep(t))
    <2>1. signal_when_done' = signal_when_done
      BY <1>4, EndSignalFrame
    <2> QED BY <2>1
  <1> QED BY <1>2, <1>3, <1>4

\* Who aborts wakes up the threads that wait for it.
LEMMA ToldOfTheAbort ==
  ASSUME KnownInv, StopInv, NEW t \in Threads, Step(t),
         NEW u \in Threads \ {t}, u \notin woken', NEW i \in Segs,
         is_abort(i), pc[u] = "wait_aborted"
  PROVE  is_abort(i)'
  <1>0. TypeInv /\ u \notin woken
    BY Parts, WokenOthers
  <1>1. u \in Waiters("wait_aborted")
    BY <1>0 DEF Waiters
  <1>2. ~Abort(t)
    BY <1>1 DEF Abort, FinishTransaction
  <1> QED BY <1>2, AbortKept

\* The others leave alone what a sleeping thread relies on.
LEMMA SleeperOfOthers ==
  ASSUME KnownInv, StopInv, SleepersInv, NEW t \in Threads, Step(t),
         NEW u \in Threads \ {t}, u \notin woken'
  PROVE  Sleeper(u)'
  <1>0. /\ TypeInv /\ TypeOK /\ CallOK
        /\ pc'[u] = pc[u] /\ call'[u] = call[u] /\ assoc'[u] = assoc[u]
    BY Parts, ThreadFrame DEF Step
  <1>1. u \notin woken /\ Sleeper(u)
    BY <1>0, WokenOthers DEF SleepersInv
  <1>2. ASSUME pc[u] \in {"wait_transaction_done", "wait_aborted"}
        PROVE  call[u].other \in Segs
    BY <1>0, <1>2 DEF CallOK
  <1>3. ~must_abort(u) /\ pc[u] \in {"wait_request_removed", "wait_at_safe_point",
           "wait_transaction_done"} => ~must_abort(u)'
    BY ToldToAbort
  <1>4. pc[u] = "wait_request_removed" => pause_signalled'
    BY <1>1, ToldToGoOn DEF Sleeper
  <1>5. pc[u] = "wait_transaction_done" => signal_when_done'[call[u].other]
    BY <1>1, <1>2, ToldOfTheEnd DEF Sleeper
  <1>6. ASSUME pc[u] = "wait_aborted" PROVE is_abort(call[u].other)'
    <2> DEFINE i == call[u].other
    <2>1. i \in Segs /\ is_abort(i)
      BY <1>1, <1>2, <1>6 DEF Sleeper
    <2>2. nursery_end'[i] = "SIGABORT"
      BY <1>6, <2>1, ToldOfTheAbort DEF is_abort
    <2> QED BY <1>0, <2>2 DEF is_abort
  <1> QED BY <1>0, <1>1, <1>3, <1>4, <1>5, <1>6 DEF Sleeper

\* The steps after which a thread sleeps.
LEMMA FallsAsleep ==
  ASSUME TypeInv, NEW t \in Threads, Step(t), t \notin woken',
         ~SafePointPause(t), ~WaitAtSafePoint(t), ~ContentionSleep(t),
         ~ContentionAbortRunning(t)
  PROVE  pc'[t] \notin Waits \/ WaitSegmentFree(t)
  <1>0. TypeOK
    BY DEF TypeInv
  <1> USE <1>0 DEF TypeOK, Waits, Goto, Continue, Leave, Wait, Return, threadVars
  <1>1. CASE Library(t)
    BY <1>1, WhereToGoOn DEF Library, AcquireSegment, BumpVersion,
      reset_transaction_read_version, TakeWriteLock, WriteLockTaken,
      RecheckOwner, SafePointAbort, SafePointCommitSoon, Holds,
      SafePointDone, AlreadyUnique, signal_everybody_to_pause_running,
      AllStopped, BecomeGloballyUnique, InevitableContention,
      BecomeInevitable, DetectConflict, Commit, Abort, ContentionMustAbort,
      ContentionAbortSelf, ContentionAbortStopped
  <1>2. CASE TakeMutex(t)
    <2>1. CASE ResumeTransactionDone(t) \/ ResumeAborted(t)
      <3>1. Retried(t) \in {"write", "safe", "inevitable"}
        BY WhereToGoOn
      <3>2. pc' = [pc EXCEPT ![t] = "abort"] \/ pc' = [pc EXCEPT ![t] = Retried(t)]
        BY <2>1 DEF ResumeTransactionDone, ResumeAborted
      <3> QED BY <3>1, <3>2
    <2>2. CASE Lock(t)
      BY <2>2 DEF Lock, Entry
    <2>3. CASE ResumeSegmentFree(t) \/ ResumeRequestRemoved(t) \/ ResumeAtSafePoint(t)
      BY <2>3 DEF ResumeSegmentFree, ResumeRequestRemoved, ResumeAtSafePoint, Awake
    <2> QED BY <1>2, <2>1, <2>2, <2>3 DEF TakeMutex
  <1>3. CASE User(t)
    BY <1>3 DEF User, StartTransaction, stm_read, stm_write, Store,
      RequestMutex
  <1>4. ~SpuriousWakeup(t)
    BY DEF SpuriousWakeup
  <1> QED BY <1>1, <1>2, <1>3, <1>4 DEF Step

\* A thread goes to sleep with nothing it waits for missed.
LEMMA SleeperOfOwn ==
  ASSUME KnownInv, StopInv, NEW t \in Threads, Step(t), t \notin woken'
  PROVE  Sleeper(t)'
  <1>0. /\ TypeInv /\ TypeOK /\ CallOK /\ OpponentInv /\ PauseInv /\ assoc[t] \in Segs
    BY Parts
  <1> USE <1>0 DEF TypeOK
  <1>1. CASE SafePointPause(t)
    <2>1. /\ nursery_end[assoc[t]] = "SIGPAUSE" /\ assoc' = assoc
          /\ UNCHANGED <<nursery_end, pause_signalled>>
          /\ pc'[t] = "wait_request_removed"
      BY <1>1 DEF SafePointPause, Wait, Goto, signalVars, pauseVars
    <2>2. pause_signalled
      BY <2>1 DEF PauseInv
    <2> QED BY <2>1, <2>2 DEF Sleeper, must_abort, is_abort
  <1>2. CASE WaitAtSafePoint(t)
    <2>1. /\ nursery_end[assoc[t]] = "SIGPAUSE"
      BY <1>2 DEF WaitAtSafePoint, Holds, PauseInv, SignalOf
    <2>2. UNCHANGED <<assoc, nursery_end>> /\ pc'[t] = "wait_at_safe_point"
      BY <1>2 DEF WaitAtSafePoint, Wait, Goto, signalVars
    <2> QED BY <2>1, <2>2 DEF Sleeper, must_abort, is_abort
  <1>3. CASE ContentionSleep(t)
    <2> DEFINE i == call[t].other
    <2>1. i \in Segs /\ i # assoc[t] /\ ~must_abort(t)
      BY <1>3 DEF ContentionSleep, InContention, Holds, CallOK,
                  OpponentInv
    <2>2. /\ UNCHANGED <<assoc, call>> /\ pc'[t] = "wait_transaction_done"
          /\ signal_when_done' = [signal_when_done EXCEPT ![i] = TRUE]
          /\ nursery_end' = CommitSoon(i)
      BY <1>3 DEF ContentionSleep, Wait, Goto
    <2>3. signal_when_done'[i] /\ nursery_end'[assoc[t]] # "SIGABORT"
      BY <2>1, <2>2 DEF CommitSoon, must_abort, is_abort
    <2> QED BY <2>2, <2>3 DEF Sleeper, must_abort, is_abort
  <1>4. CASE ContentionAbortRunning(t)
    <2> DEFINE i == call[t].other
    <2>1. i \in Segs
      BY <1>4 DEF ContentionAbortRunning, InContention, Holds, CallOK,
                  OpponentInv
    <2>2. /\ UNCHANGED <<assoc, call>> /\ pc'[t] = "wait_aborted"
          /\ nursery_end' = [nursery_end EXCEPT ![i] = "SIGABORT"]
      BY <1>4 DEF ContentionAbortRunning, Wait, Goto
    <2> QED BY <2>1, <2>2 DEF Sleeper, is_abort
  <1>5. CASE ~(\/ SafePointPause(t) \/ WaitAtSafePoint(t) \/ ContentionSleep(t)
               \/ ContentionAbortRunning(t))
    <2>1. pc'[t] \notin Waits \/ WaitSegmentFree(t)
      BY <1>5, FallsAsleep
    <2> QED BY <2>1 DEF Sleeper, Waits, WaitSegmentFree, Wait, Goto
  <1> QED BY <1>1, <1>2, <1>3, <1>4, <1>5

\* SleepersInv is inductive.
LEMMA NextSleepersInv ==
  ASSUME KnownInv, StopInv, SleepersInv, NEW t \in Threads, Step(t)
  PROVE  SleepersInv'
  BY SleeperOfOthers, SleeperOfOwn DEF SleepersInv

-----------------------------------------------------------------------------
(* Whoever waits for a segment is woken up for the one that is free.       *)

\* The steps that take or give back a segment.
LEMMA FreeFrame ==
  ASSUME KnownInv, StopInv, NEW t \in Threads, Step(t)
  PROVE  /\ AcquireSegment(t) \/ Commit(t) \/ Abort(t) \/ FreeSegs' = FreeSegs
         /\ Commit(t) \/ Abort(t) => FreeSegs' = FreeSegs \cup {assoc[t]}
         /\ AcquireSegment(t) => /\ assoc'[t] \in FreeSegs
                                 /\ FreeSegs' = FreeSegs \ {assoc'[t]}
  <1>0. TypeOK /\ SegmentInv /\ assoc[t] \in Segs /\ t # NULL
    BY Parts
  <1>1. CASE AcquireSegment(t)
    <2>1. PICK s \in FreeSegs :
             /\ assoc' = [assoc EXCEPT ![t] = s]
             /\ running_thread' = [running_thread EXCEPT ![s] = t]
      BY <1>1 DEF AcquireSegment
    <2>2. assoc'[t] = s /\ FreeSegs' = FreeSegs \ {s}
      BY <1>0, <2>1 DEF FreeSegs, TypeOK
    <2>3. ~Commit(t) /\ ~Abort(t)
      BY <1>1 DEF AcquireSegment, Commit, Abort, Holds
    <2> QED BY <1>1, <2>2, <2>3
  <1>2. CASE Commit(t) \/ Abort(t)
    <2>1. running_thread' = [running_thread EXCEPT ![assoc[t]] = NULL]
      BY <1>2 DEF Commit, Abort, FinishTransaction
    <2>2. ~AcquireSegment(t)
      BY <1>2 DEF AcquireSegment, Commit, Abort, Holds
    <2> QED BY <1>0, <1>2, <2>1, <2>2 DEF FreeSegs, TypeOK
  <1>3. CASE ~(AcquireSegment(t) \/ Commit(t) \/ Abort(t))
    <2>1. \A s \in Segs : running_thread'[s] = running_thread[s]
      BY <1>3, SegmentOf
    <2> QED BY <1>3, <2>1 DEF FreeSegs
  <1> QED BY <1>1, <1>2, <1>3

\* What a thread that looks for a segment may do.
LEMMA OnlyAcquires ==
  ASSUME NEW t \in Threads, Step(t), pc[t] = "acquire"
  PROVE  AcquireSegment(t) \/ WaitSegmentFree(t)
  <1>1. CASE Library(t)
    BY <1>1 DEF Library, BumpVersion, reset_transaction_read_version,
      TakeWriteLock, WriteLockTaken, RecheckOwner, SafePointAbort,
      SafePointCommitSoon, SafePointPause, SafePointDone, AlreadyUnique,
      signal_everybody_to_pause_running, WaitAtSafePoint, AllStopped,
      BecomeGloballyUnique, InevitableContention, BecomeInevitable,
      DetectConflict, Commit, Abort, ContentionMustAbort, ContentionSleep,
      ContentionAbortSelf, ContentionAbortRunning, ContentionAbortStopped,
      InContention, Holds
  <1>2. CASE TakeMutex(t)
    BY <1>2 DEF TakeMutex, Lock, ResumeSegmentFree, ResumeRequestRemoved,
      ResumeAtSafePoint, ResumeTransactionDone, ResumeAborted, Awake
  <1>3. CASE User(t) \/ SpuriousWakeup(t)
    BY <1>3 DEF User, StartTransaction, stm_read, stm_write, Store,
      RequestMutex, SpuriousWakeup, Waits
  <1> QED BY <1>1, <1>2, <1>3 DEF Step

\* What a thread that was woken up for a segment may do.
LEMMA OnlyResumes ==
  ASSUME NEW t \in Threads, Step(t), pc[t] = "wait_segment_free", t \in woken
  PROVE  ResumeSegmentFree(t)
  <1>1. ~Library(t)
    BY LibraryStarts DEF Waits
  <1>2. CASE TakeMutex(t)
    BY <1>2 DEF TakeMutex, Lock, ResumeRequestRemoved, ResumeAtSafePoint,
      ResumeTransactionDone, ResumeAborted, Awake
  <1>3. ~User(t) /\ ~SpuriousWakeup(t)
    BY DEF User, StartTransaction, stm_read, stm_write, Store, RequestMutex,
      SpuriousWakeup
  <1> QED BY <1>1, <1>2, <1>3 DEF Step

\* A thread that looks for a segment goes on looking until it has one or
\* there is none.
LEMMA AcquirersKept ==
  ASSUME KnownInv, StopInv, NEW t \in Threads, Step(t)
  PROVE  /\ Acquirers \ {t} \subseteq Acquirers'
         /\ ~AcquireSegment(t) /\ ~WaitSegmentFree(t) => Acquirers \subseteq Acquirers'
  <1>0. TypeInv /\ TypeOK
    BY Parts
  <1>1. ASSUME NEW u \in Acquirers, u # t PROVE u \in Acquirers'
    BY <1>0, <1>1, WokenOthers, ThreadFrame DEF Acquirers, Step
  <1>2. ASSUME t \in Acquirers, ~AcquireSegment(t), ~WaitSegmentFree(t)
        PROVE  t \in Acquirers'
    <2>1. CASE pc[t] = "acquire"
      BY <1>2, <2>1, OnlyAcquires
    <2>2. CASE pc[t] = "wait_segment_free" /\ t \in woken
      <3>1. ResumeSegmentFree(t)
        BY <2>2, OnlyResumes
      <3> QED BY <1>0, <3>1 DEF ResumeSegmentFree, Goto, Acquirers, TypeOK
    <2> QED BY <1>2, <2>1, <2>2 DEF Acquirers
  <1> QED BY <1>1, <1>2

\* Only WaitSegmentFree adds to the threads that sleep until there is one.
LEMMA WaitersKept ==
  ASSUME KnownInv, StopInv, NEW t \in Threads, Step(t), ~WaitSegmentFree(t)
  PROVE  Waiters("wait_segment_free")' \subseteq Waiters("wait_segment_free")
  <1>0. TypeInv /\ TypeOK
    BY Parts
  <1>1. ASSUME NEW u \in Threads \ {t}, u \notin woken', pc'[u] = "wait_segment_free"
        PROVE  u \notin woken /\ pc[u] = "wait_segment_free"
    BY <1>0, <1>1, WokenOthers, ThreadFrame DEF Step
  <1>2. ASSUME t \notin woken', pc'[t] = "wait_segment_free"
        PROVE  FALSE
    <2>1. CASE \/ SafePointPause(t) \/ WaitAtSafePoint(t) \/ ContentionSleep(t)
               \/ ContentionAbortRunning(t)
      BY <1>0, <1>2, <2>1 DEF SafePointPause, WaitAtSafePoint, ContentionSleep,
        ContentionAbortRunning, Wait, Goto, TypeOK
    <2>2. CASE ~(\/ SafePointPause(t) \/ WaitAtSafePoint(t) \/ ContentionSleep(t)
                 \/ ContentionAbortRunning(t))
      BY <1>0, <1>2, <2>2, FallsAsleep DEF Waits
    <2> QED BY <2>1, <2>2
  <1> QED BY <1>1, <1>2 DEF Waiters

\* SegmentFreeInv is inductive: a segment that is given back signals one
\* more thread, and the thread that takes one leaves the others theirs.
LEMMA NextSegmentFreeInv ==
  ASSUME KnownInv, StopInv, SegmentFreeInv, NEW t \in Threads, Step(t)
  PROVE  SegmentFreeInv'
  <1>0. TypeInv /\ TypeOK /\ SegmentInv /\ assoc[t] \in Segs /\ t # NULL
    BY Parts
  <1> SUFFICES ASSUME Waiters("wait_segment_free")' # {}
               PROVE  ExistsInjection(FreeSegs', Acquirers')
    BY DEF SegmentFreeInv
  <1>1. CASE WaitSegmentFree(t)
    <2>1. FreeSegs' = {}
      BY <1>1, FreeFrame DEF WaitSegmentFree, AcquireSegment, Commit, Abort, Holds
    <2>2. [r \in {} |-> t] \in Injection({}, Acquirers')
      BY DEF Injection, IsInjective
    <2> QED BY <2>1, <2>2 DEF ExistsInjection
  <1>2. CASE ~WaitSegmentFree(t)
    <2>1. Waiters("wait_segment_free") # {}
      BY <1>2, WaitersKept
    <2>2. PICK f \in [FreeSegs -> Acquirers] :
             \A q, r \in FreeSegs : f[q] = f[r] => q = r
      BY <2>1 DEF SegmentFreeInv, ExistsInjection, Injection, IsInjective
    <2>3. CASE AcquireSegment(t)
      <3> DEFINE s == assoc'[t]
                 g == [r \in FreeSegs \ {s} |-> IF f[r] = t THEN f[s] ELSE f[r]]
      <3>1. s \in FreeSegs /\ FreeSegs' = FreeSegs \ {s}
        BY <2>3, FreeFrame
      <3>2. Acquirers \ {t} \subseteq Acquirers'
        BY AcquirersKept
      <3>3. ASSUME NEW r \in FreeSegs \ {s} PROVE g[r] \in Acquirers \ {t}
        BY <2>2, <3>1
      <3>4. ASSUME NEW q \in FreeSegs \ {s}, NEW r \in FreeSegs \ {s}, g[q] = g[r]
            PROVE  q = r
        BY <2>2, <3>1, <3>4
      <3>5. g \in [FreeSegs' -> Acquirers']
        BY <3>1, <3>2, <3>3
      <3> HIDE DEF g
      <3> QED BY <3>1, <3>4, <3>5 DEF ExistsInjection, Injection, IsInjective
    <2>4. CASE Commit(t) \/ Abort(t)
      <3>1. PICK u \in Waiters("wait_segment_free") : u \in woken'
        BY <2>1, <2>4 DEF Commit, Abort, FinishTransaction, Signalled
      <3>2. u \notin Acquirers /\ u \in Threads \ {t}
        BY <2>4, <3>1 DEF Waiters, Acquirers, Commit, Abort, Holds
      <3>3. u \in Acquirers' /\ Acquirers \subseteq Acquirers'
        <4>1. u \in Acquirers'
          BY <1>0, <3>1, <3>2, ThreadFrame DEF Waiters, Acquirers, Step
        <4>2. ~AcquireSegment(t)
          BY <2>4 DEF AcquireSegment, Commit, Abort, Holds
        <4> QED BY <1>2, <4>1, <4>2, AcquirersKept
      <3> DEFINE s == assoc[t]
                 g == [r \in FreeSegs \cup {s} |-> IF r = s THEN u ELSE f[r]]
      <3>4. FreeSegs' = FreeSegs \cup {s}
        BY <2>4, FreeFrame
      <3>5. g \in [FreeSegs' -> Acquirers']
        BY <2>2, <3>3, <3>4
      <3>6. ASSUME NEW q \in FreeSegs', NEW r \in FreeSegs', g[q] = g[r]
            PROVE  q = r
        BY <2>2, <3>2, <3>4, <3>6
      <3> HIDE DEF g
      <3> QED BY <3>5, <3>6 DEF ExistsInjection, Injection, IsInjective
    <2>5. CASE ~AcquireSegment(t) /\ ~Commit(t) /\ ~Abort(t)
      <3>1. FreeSegs' = FreeSegs /\ Acquirers \subseteq Acquirers'
        BY <1>2, <2>5, FreeFrame, AcquirersKept
      <3> QED BY <2>2, <3>1 DEF ExistsInjection, Injection, IsInjective
    <2> QED BY <2>3, <2>4, <2>5
  <1> QED BY <1>1, <1>2

-----------------------------------------------------------------------------
\* The invariants hold together.
LEMMA WakeInvariant == Spec => [](KnownInv /\ StopInv /\ WakeInv)
  <1>1. Init => WakeInv
    BY InitWakeInv
  <1>2. KnownInv /\ StopInv /\ WakeInv /\ [Next]_vars => WakeInv'
    <2> SUFFICES ASSUME KnownInv, StopInv, WakeInv, [Next]_vars PROVE WakeInv'
      OBVIOUS
    <2>1. TypeInv /\ WokenInv /\ SleepersInv /\ SegmentFreeInv
      BY Parts DEF WakeInv
    <2>2. CASE UNCHANGED vars
      BY <2>1, <2>2 DEF vars, threadVars, segVars, signalVars, pauseVars,
         WakeInv, WokenInv, SleepersInv, Sleeper, SegmentFreeInv,
         FreeSegs, Acquirers, Waiters, must_abort, is_abort
    <2>3. ASSUME NEW t \in Threads, Step(t) PROVE WakeInv'
      BY <2>1, <2>3, NextWokenInv, NextSleepersInv, NextSegmentFreeInv
      DEF WakeInv
    <2> QED BY <2>2, <2>3 DEF Next, Step
  <1> QED BY <1>1, <1>2, StopInvariant, PTL DEF Spec

\* No lost wakeup: a thread that waits on a condition variable, and was not
\* signalled, waits for something that is still to happen (sync.c:179, 200,
\* 352; contention.c:174-185, 234).
THEOREM Wakeups == Spec => []NoLostWakeup
  <1>1. WakeInv => NoLostWakeup
    <2> SUFFICES ASSUME WakeInv PROVE NoLostWakeup
      OBVIOUS
    <2>1. \A c : \A t \in Waiters(c) : pc[t] = c /\ Sleeper(t)
      BY DEF WakeInv, SleepersInv, Waiters
    <2>2. ASSUME Waiters("wait_segment_free") # {}, FreeSegs # {}
          PROVE  Acquirers # {}
      BY <2>2 DEF WakeInv, SegmentFreeInv, ExistsInjection, Injection
    <2>3. /\ \A t \in Waiters("wait_request_removed") :
               pause_signalled /\ ~must_abort(t)
          /\ \A t \in Waiters("wait_at_safe_point") : ~must_abort(t)
          /\ \A t \in Waiters("wait_transaction_done") :
               signal_when_done[call[t].other] /\ ~must_abort(t)
          /\ \A t \in Waiters("wait_aborted") : is_abort(call[t].other)
      BY <2>1 DEF Sleeper
    <2> QED BY <2>2, <2>3 DEF NoLostWakeup, Acquirers
  <1> QED BY <1>1, WakeInvariant, PTL

-----------------------------------------------------------------------------
(* Opacity, and the transactions that StmCore implements: what a running   *)
(* transaction has read is what is committed, and every step is one of     *)
(* AtomicStm or leaves its transactions alone.                             *)

\* No read marker is ahead of its segment's version, except on the way
\* across the wrap.
MarkerInv ==
  \A s \in Segs, o \in Objects :
    running_thread[s] = NULL \/ pc[running_thread[s]] # "reset" =>
      rm[s][o] <= version[s]

\* A transaction that is not past the start of its code yet.
Starting(t) == pc[t] \in {"bump", "reset"} \/ call[t].op = "start"

\* What was read in this transaction is marked with its version; what is
\* modified, or about to be, was read.
SeenInv ==
  /\ \A s \in Segs, o \in Objects : seen[s][o] # NULL =>
       /\ running_thread[s] # NULL
       /\ ~Starting(running_thread[s])
       /\ rm[s][o] = version[s]
  /\ \A s \in Segs : \A o \in modified[s] : seen[s][o] # NULL
  /\ \A t \in Threads :
       call[t].op = "write" => seen[assoc[t]][call[t].obj] # NULL

\* An abort request does not outlive the transaction it was meant for.
FreshInv == \A s \in Segs : transaction_state[s] = "NONE" => ~is_abort(s)

OpacityInv == MarkerInv /\ SeenInv /\ FreshInv /\ Opacity

-----------------------------------------------------------------------------
\* At the start nothing was read.
LEMMA InitOpacityInv == Init => OpacityInv
  <1> SUFFICES ASSUME Init PROVE OpacityInv
    OBVIOUS
  <1>1. MarkerInv
    BY CoreAssumption DEF Init, MarkerInv
  <1>2. SeenInv
    BY CallRecords DEF Init, SeenInv
  <1>3. FreshInv
    BY DEF Init, FreshInv, is_abort
  <1>4. Opacity
    BY DEF Init, Opacity, Alive
  <1> QED BY <1>1, <1>2, <1>3, <1>4 DEF OpacityInv

\* The version moves on by one, or wraps to 0.
LEMMA WrapsToZero ==
  ASSUME NEW n \in Nat \ {0}, NEW a \in 0..n
  PROVE  a % n \in {a, 0}
  OBVIOUS

\* MarkerInv is inductive.
LEMMA NextMarkerInv ==
  ASSUME KnownInv, StopInv, MarkerInv, NEW t \in Threads, Step(t)
  PROVE  MarkerInv'
  <1>0. TypeInv /\ TypeOK /\ assoc[t] \in Segs /\ TypeInv'
    BY Parts, NextTypeInv DEF Next, Step
  <1> USE <1>0, CoreAssumption DEF TypeOK
  <1> SUFFICES ASSUME NEW s \in Segs, NEW o \in Objects,
                      running_thread'[s] = NULL \/ pc'[running_thread'[s]] # "reset"
               PROVE  rm'[s][o] <= version'[s]
    BY DEF MarkerInv
  <1>1. CASE /\ running_thread[s] # t
             /\ UNCHANGED <<running_thread[s], version[s], rm[s]>>
    <2>1. running_thread[s] = NULL \/ pc'[running_thread[s]] = pc[running_thread[s]]
      BY <1>1, ThreadFrame DEF Step
    <2> QED BY <1>1, <2>1 DEF MarkerInv
  <1>2. CASE AcquireSegment(t) /\ running_thread[s] = NULL
    BY <1>2 DEF AcquireSegment, readVars, MarkerInv
  <1>3. CASE s = assoc[t] /\ running_thread[s] = t
    <2>1. CASE BumpVersion(t)
      <3>1. pc'[t] # "reset" => NextVersion(s) # 0
        BY <1>3, <2>1 DEF BumpVersion, Goto
      <3>2. NextVersion(s) # 0 => NextVersion(s) = version[s] + 1
        <4>1. /\ MAX_VERSION + 1 \in Nat \ {0}
              /\ version[s] + 1 \in 0..(MAX_VERSION + 1)
          OBVIOUS
        <4> QED BY <4>1, WrapsToZero DEF NextVersion
      <3>3. running_thread' = running_thread /\ pc[t] # "reset" /\ rm' = rm
            /\ version' = [version EXCEPT ![s] = NextVersion(s)]
        BY <1>3, <2>1 DEF BumpVersion, segVars
      <3>4. rm[s][o] <= version[s] /\ version'[s] = version[s] + 1
        BY <1>3, <3>1, <3>2, <3>3 DEF MarkerInv
      <3> QED BY <3>3, <3>4
    <2>2. CASE reset_transaction_read_version(t)
      BY <1>3, <2>2 DEF reset_transaction_read_version, ClearedMarkers
    <2>3. CASE \E q \in Objects : stm_read(t, q) \/ stm_write(t, q)
      <3>1. PICK q \in Objects : /\ pc[t] = "run" /\ version' = version
                                 /\ rm' = [rm EXCEPT ![s][q] = version[s]]
        BY <1>3, <2>3 DEF stm_read, stm_write, MarkRead
      <3>2. rm[s][o] <= version[s]
        BY <1>3, <3>1 DEF MarkerInv
      <3>3. rm'[s][o] \in {rm[s][o], version[s]}
        BY <3>1
      <3> QED BY <3>1, <3>2, <3>3
    <2>4. CASE \/ Commit(t) \/ Abort(t)
               \/ /\ ~BumpVersion(t) /\ ~reset_transaction_read_version(t)
                  /\ ~ \E q \in Objects : stm_read(t, q) \/ stm_write(t, q)
                  /\ UNCHANGED readVars
      <3>1. rm' = rm /\ version' = version
        BY <2>4 DEF Commit, Abort, FinishTransaction, readVars
      <3>2. CASE pc[t] # "reset"
        BY <1>3, <3>1, <3>2 DEF MarkerInv
      <3>3. CASE pc[t] = "reset"
        <4>1. SpuriousWakeup(t) => FALSE
          BY <3>3 DEF SpuriousWakeup, Waits
        <4>2. FALSE
          BY <2>4, <3>3, <4>1 DEF Step, Library, AcquireSegment, WaitSegmentFree,
            BumpVersion, TakeWriteLock, WriteLockTaken, RecheckOwner,
            SafePointAbort, SafePointCommitSoon, SafePointPause, SafePointDone,
            AlreadyUnique, signal_everybody_to_pause_running, WaitAtSafePoint,
            AllStopped, BecomeGloballyUnique, InevitableContention,
            BecomeInevitable, DetectConflict, Commit, Abort,
            ContentionMustAbort, ContentionSleep, ContentionAbortSelf,
            ContentionAbortRunning, ContentionAbortStopped, InContention, Holds,
            TakeMutex, Lock, ResumeSegmentFree, ResumeRequestRemoved,
            ResumeAtSafePoint, ResumeTransactionDone, ResumeAborted, Awake,
            User, StartTransaction, stm_read, stm_write, Store, RequestMutex
        <4> QED BY <4>2
      <3> QED BY <3>2, <3>3
    <2> QED BY <2>1, <2>2, <2>3, <2>4, ReadFrame
  <1> QED BY <1>1, <1>2, <1>3, SegmentOf

\* The places a transaction passes before its code runs.
LEMMA StartingEnds ==
  ASSUME KnownInv, StopInv, NEW t \in Threads, Step(t),
         InTransaction(t), InTransaction(t)', Starting(t)'
  PROVE  Starting(t)
  <1>0. TypeInv /\ TypeOK /\ CallOK /\ Asked(pc[t], call[t].op)
    BY Parts DEF RequestInv
  <1> USE <1>0 DEF TypeOK
  <1>1. CASE call'[t].op = "start"
    <2>1. call[t].op = "start" \/ StartTransaction(t) \/ Abort(t)
      BY <1>1, CallFrame, CoreAssumption
    <2>2. ~StartTransaction(t) /\ ~Abort(t)
      BY DEF StartTransaction, Abort, InTransaction, Goto
    <2> QED BY <2>1, <2>2 DEF Starting
  <1>2. CASE pc'[t] \in {"bump", "reset"}
    <2>1. CASE SafePointDone(t)
      BY <1>2, <2>1 DEF SafePointDone, Leave, Continue, Goto, Starting
    <2>2. CASE BumpVersion(t) \/ SpuriousWakeup(t)
      BY <1>2, <2>2 DEF BumpVersion, SpuriousWakeup, Starting
    <2>3. CASE Library(t) /\ ~SafePointDone(t) /\ ~BumpVersion(t)
      <3>1. FALSE
        BY <1>2, <2>3 DEF Library, AcquireSegment, WaitSegmentFree,
          reset_transaction_read_version, TakeWriteLock, WriteLockTaken,
          RecheckOwner, SafePointAbort, SafePointCommitSoon, SafePointPause,
          AlreadyUnique, signal_everybody_to_pause_running, WaitAtSafePoint,
          AllStopped, BecomeGloballyUnique, InevitableContention,
          BecomeInevitable, DetectConflict, Commit, Abort,
          ContentionMustAbort, ContentionSleep, ContentionAbortSelf,
          ContentionAbortRunning, ContentionAbortStopped, InContention, Holds,
          Goto, Continue, Leave, Wait, Return, Resolved, threadVars
      <3> QED BY <3>1
    <2>4. CASE TakeMutex(t) \/ User(t)
      <3>1. FALSE
        BY <1>2, <2>4 DEF TakeMutex, Lock, Entry, ResumeSegmentFree,
          ResumeRequestRemoved, ResumeAtSafePoint, ResumeTransactionDone,
          ResumeAborted, Awake, Goto, Return, Retried, Resolved, threadVars,
          User, StartTransaction, stm_read, stm_write, Store, RequestMutex
      <3> QED BY <3>1
    <2> QED BY <2>1, <2>2, <2>3, <2>4 DEF Step
  <1> QED BY <1>1, <1>2 DEF Starting

\* What was read stays read until the transaction ends.
LEMMA SeenKept ==
  ASSUME KnownInv, StopInv, NEW t \in Threads, Step(t), NEW s \in Segs,
         NEW o \in Objects, seen[s][o] # NULL
  PROVE  \/ seen'[s][o] = seen[s][o]
         \/ (Commit(t) \/ Abort(t)) /\ s = assoc[t] /\ InTransaction(t)
  <1>0. TypeInv /\ TypeOK /\ assoc[t] \in Segs
    BY Parts
  <1>1. CASE BumpVersion(t) \/ reset_transaction_read_version(t) \/ UNCHANGED readVars
    BY <1>1 DEF BumpVersion, reset_transaction_read_version, readVars
  <1>2. CASE Commit(t) \/ Abort(t)
    BY <1>0, <1>2 DEF Commit, Abort, FinishTransaction, Holds, InTransaction, TypeOK
  <1>3. ASSUME NEW q \in Objects, stm_read(t, q) \/ stm_write(t, q)
        PROVE  seen'[s][o] = seen[s][o]
    <2>1. MarkRead(assoc[t], q)
      BY <1>3 DEF stm_read, stm_write
    <2> QED BY <1>0, <2>1 DEF MarkRead, TypeOK
  <1> QED BY <1>0, <1>1, <1>2, <1>3, ReadFrame

\* SeenInv is inductive.
LEMMA NextSeenInv ==
  ASSUME KnownInv, StopInv, SeenInv, NEW t \in Threads, Step(t)
  PROVE  SeenInv'
  <1>0. /\ TypeInv /\ TypeOK /\ CallOK /\ SegmentInv /\ OpponentInv
        /\ assoc[t] \in Segs /\ Asked(pc[t], call[t].op) /\ TypeInv'
    BY Parts, NextTypeInv DEF RequestInv, Next, Step
  <1>1. \A u \in Threads \ {t} :
          pc'[u] = pc[u] /\ call'[u] = call[u] /\ assoc'[u] = assoc[u]
    BY <1>0, ThreadFrame DEF Step
  <1>2. ASSUME NEW s \in Segs, NEW o \in Objects, seen'[s][o] # NULL
        PROVE  /\ running_thread'[s] # NULL
               /\ ~Starting(running_thread[s])'
               /\ rm'[s][o] = version'[s]
    <2>1. CASE /\ running_thread[s] # t
               /\ UNCHANGED <<running_thread[s], version[s], rm[s], seen[s]>>
      <3>1. running_thread[s] \in Threads \ {t} /\ ~Starting(running_thread[s])
            /\ rm[s][o] = version[s]
        BY <1>0, <1>2, <2>1 DEF SeenInv, TypeOK
      <3> QED BY <1>1, <2>1, <3>1, CoreAssumption DEF Starting
    <2>2. CASE AcquireSegment(t) /\ running_thread[s] = NULL
      BY <1>2, <2>2 DEF AcquireSegment, readVars, SeenInv
    <2>3. CASE seen'[s] = [q \in Objects |-> NULL]
      BY <1>2, <2>3
    <2>4. CASE /\ s = assoc[t] /\ running_thread[s] = t /\ running_thread'[s] = t
               /\ InTransaction(t) /\ InTransaction(t)'
               /\ ~Commit(t) /\ ~Abort(t)
      <3>1. t # NULL
        BY Parts
      <3>2. CASE BumpVersion(t) \/ reset_transaction_read_version(t)
        <4>1. Starting(t) /\ seen' = seen
          BY <3>2 DEF BumpVersion, reset_transaction_read_version, Starting
        <4> QED BY <1>2, <2>4, <4>1 DEF SeenInv
      <3>3. CASE UNCHANGED readVars
        <4>1. seen' = seen /\ rm' = rm /\ version' = version
          BY <3>3 DEF readVars
        <4>2. ~Starting(t) /\ rm[s][o] = version[s]
          BY <1>2, <2>4, <4>1 DEF SeenInv
        <4> QED BY <2>4, <3>1, <4>1, <4>2, StartingEnds DEF Starting
      <3>4. ASSUME NEW q \in Objects, stm_read(t, q) \/ stm_write(t, q)
            PROVE  ~Starting(t)' /\ rm'[s][o] = version'[s]
        <4>1. /\ pc[t] = "run" /\ version' = version
              /\ MarkRead(s, q)
          BY <2>4, <3>4 DEF stm_read, stm_write
        <4>2. ~Starting(t)
          BY <1>0, <4>1 DEF Starting, Asked
        <4>3. ~Starting(t)'
          BY <2>4, <4>2, StartingEnds
        <4>4. CASE o = q
          BY <1>0, <4>1, <4>3, <4>4 DEF MarkRead, TypeOK
        <4>5. CASE o # q
          <5>1. seen[s][o] # NULL /\ rm'[s][o] = rm[s][o]
            BY <1>0, <1>2, <4>1, <4>5 DEF MarkRead, TypeOK
          <5> QED BY <4>1, <4>3, <5>1 DEF SeenInv
        <4> QED BY <4>3, <4>4, <4>5
      <3> QED BY <1>0, <2>4, <3>1, <3>2, <3>3, <3>4, ReadFrame DEF Starting
    <2> QED BY <2>1, <2>2, <2>3, <2>4, SegmentOf
  <1>3. ASSUME NEW s \in Segs, NEW o \in modified'[s]
        PROVE  seen'[s][o] # NULL
    <2>1. o \in Objects
      BY <1>0 DEF TypeInv, TypeOK
    <2>2. CASE TakeWriteLock(t) /\ s = assoc[t]
      <3>1. o \in modified[s] \/ o = call[t].obj
        BY <1>0, <2>2 DEF TakeWriteLock, TypeOK
      <3>2. seen' = seen /\ call[t].op = "write"
        BY <1>0, <2>2 DEF TakeWriteLock, readVars, CallOK
      <3> QED BY <2>2, <3>1, <3>2 DEF SeenInv
    <2>3. CASE ~(TakeWriteLock(t) /\ s = assoc[t])
      <3>1. o \in modified[s]
        BY <1>0, <2>3, ModifiedFrame DEF Step
      <3>2. ~((Commit(t) \/ Abort(t)) /\ s = assoc[t])
        BY <1>0 DEF Commit, Abort, FinishTransaction, TypeOK
      <3> QED BY <2>1, <3>1, <3>2, SeenKept DEF SeenInv
    <2> QED BY <2>2, <2>3
  <1>4. ASSUME NEW u \in Threads, call'[u].op = "write"
        PROVE  seen'[assoc'[u]][call'[u].obj] # NULL
    <2>1. CASE u # t
      <3>1. call[u].op = "write" /\ call'[u].obj = call[u].obj /\ assoc'[u] = assoc[u]
        BY <1>1, <1>4, <2>1
      <3>2. call[u].obj \in Objects /\ assoc[u] \in Segs /\ InTransaction(u)
            /\ seen[assoc[u]][call[u].obj] # NULL
        BY <1>0, <3>1, Parts DEF CallOK, OpponentInv, InTransaction, SeenInv
      <3>3. InTransaction(t) => assoc[u] # assoc[t]
        BY <1>0, <2>1, <3>2, DistinctSegments
      <3> QED BY <3>1, <3>2, <3>3, SeenKept
    <2>2. CASE u = t
      <3>1. \/ call[t].op = "write" /\ call'[t].obj = call[t].obj
            \/ \E o \in Objects : stm_write(t, o) /\ call'[t].obj = o
        BY <1>0, <1>4, <2>2, CallFrame, CoreAssumption
      <3>2. CASE call[t].op = "write" /\ call'[t].obj = call[t].obj
        <4>1. pc[t] \in {"write", "request", "recheck", "contention",
                         "wait_aborted", "abort"} /\ call[t].obj \in Objects
          BY <1>0, <3>2 DEF OpponentInv, CallOK
        <4>2. ~Commit(t) /\ ~AcquireSegment(t)
          BY <4>1 DEF Commit, AcquireSegment, Holds
        <4>3. ~Abort(t)
          BY <1>0, <1>4, <2>2, CallRecords DEF Abort, TypeOK, Ops
        <4>4. assoc' = assoc
          BY <1>0, <4>2, AssocFrame
        <4> QED BY <1>0, <2>2, <3>2, <4>1, <4>2, <4>3, <4>4, SeenKept DEF SeenInv
      <3>3. ASSUME NEW o \in Objects, stm_write(t, o), call'[t].obj = o
            PROVE  seen'[assoc[t]][o] # NULL /\ assoc' = assoc
        <4>1. /\ MarkRead(assoc[t], o) /\ o \notin modified[assoc[t]]
              /\ assoc' = assoc
          BY <3>3 DEF stm_write
        <4>2. mem[assoc[t]][o] # NULL
          <5>1. assoc[t] \in Copies /\ mem \in [Copies -> [Objects -> Values]]
            BY <1>0, SegsFacts DEF TypeOK
          <5> QED BY <5>1, CoreAssumption
        <4> QED BY <1>0, <4>1, <4>2 DEF MarkRead, TypeOK
      <3> QED BY <2>2, <3>1, <3>2, <3>3
    <2> QED BY <2>1, <2>2
  <1> QED BY <1>2, <1>3, <1>4 DEF SeenInv

-----------------------------------------------------------------------------
(* Told to abort, and being aborted.                                       *)

\* FreshInv is inductive.
LEMMA NextFreshInv ==
  ASSUME KnownInv, StopInv, FreshInv, NEW t \in Threads, Step(t)
  PROVE  FreshInv'
  <1>0. TypeInv /\ TypeOK /\ SegmentInv /\ assoc[t] \in Segs
    BY Parts
  <1> SUFFICES ASSUME NEW s \in Segs, transaction_state'[s] = "NONE", is_abort(s)'
               PROVE  FALSE
    BY DEF FreshInv
  <1>1. CASE is_abort(s)
    <2>1. transaction_state[s] # "NONE"
      BY <1>1 DEF FreshInv
    <2>2. (Commit(t) \/ Abort(t)) /\ s = assoc[t]
      <3>1. CASE InTransaction(t)' /\ running_thread'[s] = t /\ assoc' = assoc /\ s = assoc[t]
        <4>1. SegmentInv'
          BY <1>0, NextSegmentInv DEF Next, Step
        <4> QED BY <3>1, <4>1, Parts DEF SegmentInv
      <3> QED BY <2>1, <3>1, SegmentOf
    <2>3. CASE Commit(t)
      BY <1>1, <2>2, <2>3, Parts DEF Commit, Holds, PauseInv, SignalOf, Committing, is_abort
    <2>4. CASE Abort(t)
      BY <1>0, <2>2, <2>4 DEF Abort, SignalAfterAbort, is_abort, TypeOK
    <2> QED BY <2>2, <2>3, <2>4
  <1>2. CASE ~is_abort(s)
    <2>1. /\ ContentionAbortRunning(t) \/ ContentionAbortStopped(t)
          /\ s = call[t].other /\ pc[t] = "contention"
      BY <1>0, <1>2, SignalFrame DEF Step, InContention, Holds
    <2>2. transaction_state[s] # "NONE" /\ transaction_state' = transaction_state
      BY <2>1, Parts DEF VictimInv, ContentionAbortRunning, ContentionAbortStopped, segVars
    <2> QED BY <2>2
  <1> QED BY <1>1, <1>2

\* Where a transaction that was told to abort cannot touch objects any more.
Dying(p) == p \in {"safe", "abort", "wait_request_removed",
                   "wait_at_safe_point", "wait_transaction_done"}

\* A slot is alive iff its transaction is there and is not on its way out.
GoesOn == \A s \in Segs :
  Alive(s) <=> /\ transaction_state[s] # "NONE"
               /\ ~(is_abort(s) /\ Dying(pc[running_thread[s]]))

\* Alive of the mapping is what the places of threads and their requests say.
LEMMA AliveGoesOn == TypeOK /\ SegmentInv /\ SafePointInv => GoesOn
  <1> SUFFICES ASSUME TypeOK, SegmentInv, SafePointInv, NEW s \in Segs
               PROVE  Alive(s) <=> /\ transaction_state[s] # "NONE"
                                   /\ ~(is_abort(s) /\ Dying(pc[running_thread[s]]))
    BY DEF GoesOn
  <1>1. CASE transaction_state[s] # "NONE"
    <2>1. running_thread[s] \in Threads /\ InTransaction(running_thread[s])
          /\ assoc[running_thread[s]] = s
      BY <1>1, CoreAssumption DEF TypeOK, SegmentInv
    <2>2. safe_point[s] = SafePointOf(pc[running_thread[s]])
      BY <2>1 DEF SafePointInv
    <2> QED BY <2>2 DEF Alive, SafePointOf, Dying
  <1> QED BY <1>1 DEF Alive

\* It stays there until it aborts.
LEMMA DyingStays ==
  ASSUME KnownInv, StopInv, NEW t \in Threads, Step(t), must_abort(t),
         Dying(pc[t]), ~Abort(t)
  PROVE  Dying(pc'[t])
  <1>0. TypeInv /\ TypeOK /\ CallOK /\ Asked(pc[t], call[t].op)
    BY Parts DEF RequestInv
  <1> USE <1>0 DEF TypeOK, must_abort, is_abort, Dying, Goto, Continue, Wait, Holds,
                   Leave, threadVars, InContention
  <1>1. CASE Library(t)
    BY <1>1 DEF Library, AcquireSegment, WaitSegmentFree, BumpVersion,
      reset_transaction_read_version, TakeWriteLock, WriteLockTaken,
      RecheckOwner, SafePointAbort, SafePointCommitSoon, SafePointPause,
      SafePointDone, AlreadyUnique, signal_everybody_to_pause_running,
      WaitAtSafePoint, AllStopped, BecomeGloballyUnique, InevitableContention,
      BecomeInevitable, DetectConflict, Commit, Abort, ContentionMustAbort,
      ContentionSleep, ContentionAbortSelf, ContentionAbortRunning,
      ContentionAbortStopped
  <1>2. CASE TakeMutex(t) \/ User(t) \/ SpuriousWakeup(t)
    BY <1>2 DEF TakeMutex, Lock, ResumeSegmentFree, ResumeRequestRemoved,
      ResumeAtSafePoint, ResumeTransactionDone, ResumeAborted, Awake, User,
      StartTransaction, stm_read, stm_write, Store, RequestMutex, SpuriousWakeup
  <1> QED BY <1>1, <1>2 DEF Step

\* The types and the segments at the next state.
LEMMA NextParts ==
  ASSUME KnownInv, StopInv, NEW t \in Threads, Step(t)
  PROVE  TypeInv' /\ TypeOK' /\ SegmentInv' /\ SafePointInv' /\ InevitableInv'
  <1>1. [Next]_vars
    BY DEF Next, Step
  <1> QED BY <1>1, Parts, NextTypeInv, NextSegmentInv, NextSafePointInv,
             NextInevitableInv DEF TypeInv

\* A transaction that is dead stays dead.
LEMMA NoResurrection ==
  ASSUME KnownInv, StopInv, NEW t \in Threads, Step(t), NEW s \in Segs, Alive(s)'
  PROVE  Alive(s) \/ transaction_state[s] = "NONE"
  <1>0. /\ TypeInv /\ TypeOK /\ SegmentInv /\ SafePointInv
        /\ TypeOK' /\ SegmentInv' /\ SafePointInv'
    BY Parts, NextParts
  <1> SUFFICES ASSUME transaction_state[s] # "NONE", is_abort(s),
                      Dying(pc[running_thread[s]])
               PROVE  FALSE
    BY <1>0, AliveGoesOn DEF GoesOn
  <1>1. GoesOn'
    <2>1. (TypeOK /\ SegmentInv /\ SafePointInv => GoesOn)'
      BY AliveGoesOn, PTL
    <2> QED BY <1>0, <2>1
  <1>2. (Commit(t) \/ Abort(t)) /\ s = assoc[t] => ~Alive(s)'
    BY <1>0 DEF Commit, Abort, FinishTransaction, TypeOK, Alive
  <1>3. is_abort(s)'
    BY <1>2, AbortKept
  <1>4. CASE running_thread[s] # t /\ UNCHANGED <<running_thread[s], transaction_state[s]>>
    <2>1. running_thread[s] \in Threads \ {t}
      BY <1>0, <1>4 DEF TypeOK, SegmentInv
    <2>2. pc'[running_thread[s]] = pc[running_thread[s]]
      BY <1>0, <2>1, ThreadFrame DEF Step
    <2> QED BY <1>1, <1>3, <1>4, <2>2 DEF GoesOn
  <1>5. CASE s = assoc[t] /\ running_thread[s] = t /\ running_thread'[s] = t /\ ~Abort(t)
    <2>1. Dying(pc'[t])
      BY <1>5, DyingStays DEF must_abort
    <2> QED BY <1>1, <1>3, <1>5, <2>1 DEF GoesOn, Dying
  <1> QED BY <1>2, <1>4, <1>5, SegmentOf

-----------------------------------------------------------------------------
(* Opacity.                                                                *)

\* Only a commit changes what is committed.
LEMMA StoreFrame ==
  ASSUME KnownInv, NEW t \in Threads, Step(t), ~Commit(t)
  PROVE  mem'[0] = mem[0]
  <1>0. TypeOK /\ CallOK /\ assoc[t] \in Segs
    BY DEF KnownInv, TypeInv, TypeOK
  <1> USE <1>0, SegsFacts DEF TypeOK
  <1>1. CASE Abort(t)
    BY <1>1 DEF Abort, Restored
  <1>2. CASE ContentionAbortStopped(t) \/ ResumeAborted(t)
    <2>1. call[t].other \in Segs
      BY <1>2 DEF ContentionAbortStopped, ResumeAborted, InContention, Holds, CallOK
    <2> QED BY <1>2, <2>1 DEF ContentionAbortStopped, ResumeAborted,
                              KillDataStructures, Restored, heapVars
  <1>3. CASE Library(t) /\ ~Abort(t) /\ ~ContentionAbortStopped(t)
    <2>1. mem' = mem
      BY <1>3 DEF Library, AcquireSegment, WaitSegmentFree, BumpVersion,
        reset_transaction_read_version, TakeWriteLock, WriteLockTaken,
        RecheckOwner, SafePointAbort, SafePointCommitSoon, SafePointPause,
        SafePointDone, AlreadyUnique, signal_everybody_to_pause_running,
        WaitAtSafePoint, AllStopped, BecomeGloballyUnique, InevitableContention,
        BecomeInevitable, DetectConflict, ContentionMustAbort, ContentionSleep,
        ContentionAbortSelf, ContentionAbortRunning, heapVars
    <2> QED BY <2>1
  <1>4. CASE (TakeMutex(t) /\ ~ResumeAborted(t)) \/ SpuriousWakeup(t)
    BY <1>4 DEF TakeMutex, Lock, ResumeSegmentFree, ResumeRequestRemoved,
      ResumeAtSafePoint, ResumeTransactionDone, SpuriousWakeup, heapVars
  <1>5. CASE User(t)
    BY <1>5 DEF User, StartTransaction, stm_read, stm_write, Store, RequestMutex, heapVars
  <1> QED BY <1>1, <1>2, <1>3, <1>4, <1>5 DEF Step

\* A commit changes nothing that a transaction which goes on has read.
LEMMA NobodyOutdated ==
  ASSUME KnownInv, SeenInv, NEW t \in Threads, Conflicts(assoc[t]) = {},
         NEW s \in Segs, s # assoc[t], Alive(s),
         NEW o \in modified[assoc[t]]
  PROVE  seen[s][o] = NULL
  <1>0. TypeOK
    BY DEF KnownInv, TypeInv
  <1>1. o \in Objects
    BY <1>0 DEF TypeOK
  <1>2. ~WasReadRemote(s, modified[assoc[t]])
    BY <1>0 DEF Conflicts, Alive, is_aborting_now
  <1> QED BY <1>1, <1>2 DEF WasReadRemote, SeenInv

\* Opacity is inductive, with the markers.
LEMMA NextOpacity ==
  ASSUME KnownInv, StopInv, SeenInv, Opacity, NEW t \in Threads, Step(t)
  PROVE  Opacity'
  <1>0. TypeInv /\ TypeOK /\ SegmentInv /\ HeapInv /\ assoc[t] \in Segs
    BY Parts
  <1> USE <1>0
  <1> SUFFICES ASSUME NEW s \in Segs, Alive(s)', NEW o \in Objects,
                      seen'[s][o] # NULL
               PROVE  seen'[s][o] = mem'[0][o]
    BY DEF Opacity
  <1>1. CASE seen[s][o] # NULL
    <2>1. transaction_state[s] # "NONE"
      BY <1>1 DEF SeenInv, SegmentInv
    <2>2. Alive(s)
      BY <2>1, NoResurrection
    <2>3. ~((Commit(t) \/ Abort(t)) /\ s = assoc[t])
      BY DEF Commit, Abort, FinishTransaction, TypeOK
    <2>4. seen'[s][o] = seen[s][o] /\ seen[s][o] = mem[0][o]
      BY <1>1, <2>2, <2>3, SeenKept DEF Opacity
    <2>5. CASE Commit(t)
      <3>1. o \notin modified[assoc[t]]
        BY <1>1, <2>2, <2>3, <2>5, NobodyOutdated DEF Commit
      <3> QED BY <2>4, <2>5, <3>1, SegsFacts DEF Commit, Pushed
    <2>6. CASE ~Commit(t)
      BY <2>4, <2>6, StoreFrame
    <2> QED BY <2>5, <2>6
  <1>2. CASE seen[s][o] = NULL
    <2>1. PICK q \in Objects : stm_read(t, q) \/ stm_write(t, q)
      <3>1. seen' # seen
        BY <1>2
      <3>2. ~Commit(t) /\ ~Abort(t)
        <4>1. Commit(t) \/ Abort(t) =>
                seen' = [seen EXCEPT ![assoc[t]] = [p \in Objects |-> NULL]]
          BY DEF Commit, Abort, FinishTransaction
        <4>2. seen \in [Segs -> [Objects -> Values \cup {NULL}]]
          BY DEF TypeOK
        <4>3. ~(Commit(t) \/ Abort(t))
          <5> SUFFICES ASSUME Commit(t) \/ Abort(t) PROVE FALSE
            OBVIOUS
          <5>1. CASE s = assoc[t]
            BY <4>1, <4>2, <5>1
          <5>2. CASE s # assoc[t]
            BY <1>2, <4>1, <4>2, <5>2
          <5> QED BY <5>1, <5>2
        <4> QED BY <4>3
      <3> QED BY <3>1, <3>2, ReadFrame
              DEF BumpVersion, reset_transaction_read_version, readVars
    <2>2. MarkRead(assoc[t], q) /\ mem' = mem
      BY <2>1 DEF stm_read, stm_write, heapVars
    <2>3. s = assoc[t] /\ o \notin modified[s] /\ seen'[s][o] = mem[s][o]
      BY <1>2, <2>2 DEF MarkRead, TypeOK
    <2> QED BY <2>2, <2>3 DEF HeapInv, Isolation
  <1> QED BY <1>1, <1>2

AllInv == KnownInv /\ StopInv /\ OpacityInv

\* The invariants hold together.
LEMMA OpacityInvariant == Spec => []AllInv
  <1>1. Init => OpacityInv
    BY InitOpacityInv
  <1>2. KnownInv /\ StopInv /\ OpacityInv /\ [Next]_vars => OpacityInv'
    <2> SUFFICES ASSUME KnownInv, StopInv, OpacityInv, [Next]_vars PROVE OpacityInv'
      OBVIOUS
    <2>1. MarkerInv /\ SeenInv /\ FreshInv /\ Opacity
      BY DEF OpacityInv
    <2>2. CASE UNCHANGED vars
      BY <2>1, <2>2 DEF vars, threadVars, segVars, signalVars, readVars, heapVars,
         OpacityInv, MarkerInv, SeenInv, Starting, FreshInv, Opacity, Alive, is_abort
    <2>3. ASSUME NEW t \in Threads, Step(t) PROVE OpacityInv'
      BY <2>1, <2>3, NextMarkerInv, NextSeenInv, NextFreshInv, NextOpacity
      DEF OpacityInv
    <2> QED BY <2>2, <2>3 DEF Next, Step
  <1> QED BY <1>1, <1>2, StopInvariant, PTL DEF Spec, AllInv

\* All that a live transaction ever read is what is committed now (core.c:
\* detect_write_read_conflicts; contention.c), so it sees one snapshot.
THEOREM Opaque == Spec => []Opacity
  <1>1. AllInv => Opacity
    BY DEF AllInv, OpacityInv
  <1> QED BY <1>1, OpacityInvariant, PTL

\* When a commit compares read markers none is ahead of its segment's version
\* (core.h:292), also across the wrap at MAX_VERSION without the mutex.
THEOREM MarkersBehind == Spec => []MarkersBehindVersion
  <1>1. AllInv => MarkersBehindVersion
    <2> SUFFICES ASSUME AllInv, NEW t \in Threads, pc[t] = "detect",
                        NEW s \in Segs, NEW o \in Objects,
                        transaction_state[s] # "NONE"
                 PROVE  rm[s][o] <= version[s]
      BY DEF MarkersBehindVersion
    <2>1. KnownInv /\ StopInv /\ MarkerInv
      BY DEF AllInv, OpacityInv
    <2>2. running_thread[s] \in Threads /\ InTransaction(running_thread[s])
      BY <2>1, Parts DEF SegmentInv, TypeOK
    <2>3. running_thread[s] = t \/ Harmless(running_thread[s])
      BY <2>1, <2>2, Parts DEF WorldInv, Committing
    <2>4. pc[running_thread[s]] # "reset"
      BY <2>2, <2>3 DEF Harmless
    <2> QED BY <2>1, <2>4 DEF MarkerInv
  <1> QED BY <1>1, OpacityInvariant, PTL

\* What an inevitable transaction wrote is kept until all of it is committed
\* (core.c:871-877, 966-974).
THEOREM InevitableKeeps == Spec => InevitableIsNeverUndone
  <1>1. AllInv /\ [Next]_vars =>
          [\A s \in OtherInevitable :
             \/ transaction_state'[s] = "INEVITABLE" /\ modified[s] \subseteq modified'[s]
             \/ \A o \in modified[s] : mem'[0][o] = mem[s][o]]_vars
    <2> SUFFICES ASSUME KnownInv, StopInv, NEW t \in Threads, Step(t),
                        NEW s \in Segs, transaction_state[s] = "INEVITABLE"
                 PROVE  \/ /\ transaction_state'[s] = "INEVITABLE"
                           /\ modified[s] \subseteq modified'[s]
                        \/ \A o \in modified[s] : mem'[0][o] = mem[s][o]
      BY DEF AllInv, Next, Step, OtherInevitable
    <2>0. /\ TypeInv /\ TypeOK /\ CallOK /\ SegmentInv /\ OpponentInv
          /\ InevitableInv /\ assoc[t] \in Segs
      BY Parts
    <2> USE <2>0, SegsFacts DEF TypeOK
    <2>1. CASE Commit(t) /\ s = assoc[t]
      BY <2>1 DEF Commit, Pushed
    <2>2. CASE Commit(t) /\ s # assoc[t]
      BY <2>2 DEF Commit, FinishTransaction
    <2>3. CASE ~Commit(t)
      <3>1. transaction_state'[s] = "INEVITABLE"
        BY <2>3, InevitableKept
      <3>2. ~is_abort(s)
        BY DEF InevitableInv
      <3>3. CASE Abort(t)
        <4>1. s # assoc[t]
          BY <3>3 DEF Abort, Holds, InevitableInv
        <4> QED BY <3>1, <3>3, <4>1 DEF Abort, FinishTransaction
      <3>4. CASE ContentionAbortStopped(t)
        <4>1. call[t].other # s
          BY <3>4, VictimIsNotInevitable DEF ContentionAbortStopped
        <4> QED BY <3>1, <3>4, <4>1 DEF ContentionAbortStopped, KillDataStructures
      <3>5. CASE ResumeAborted(t)
        <4>1. is_aborting_now(call[t].other) => call[t].other # s
          BY <3>2 DEF is_aborting_now
        <4> QED BY <3>1, <3>5, <4>1 DEF ResumeAborted, KillDataStructures, heapVars
      <3>6. CASE TakeWriteLock(t)
        BY <3>1, <3>6 DEF TakeWriteLock
      <3>7. CASE /\ ~Abort(t) /\ ~ContentionAbortStopped(t)
                 /\ ~ResumeAborted(t) /\ ~TakeWriteLock(t)
        <4>1. CASE Library(t)
          BY <2>3, <3>1, <3>7, <4>1 DEF Library, AcquireSegment, WaitSegmentFree,
            BumpVersion, reset_transaction_read_version, WriteLockTaken,
            RecheckOwner, SafePointAbort, SafePointCommitSoon, SafePointPause,
            SafePointDone, AlreadyUnique, signal_everybody_to_pause_running,
            WaitAtSafePoint, AllStopped, BecomeGloballyUnique,
            InevitableContention, BecomeInevitable, DetectConflict,
            ContentionMustAbort, ContentionSleep, ContentionAbortSelf,
            ContentionAbortRunning, heapVars
        <4>2. CASE TakeMutex(t) \/ User(t) \/ SpuriousWakeup(t)
          BY <3>1, <3>7, <4>2 DEF TakeMutex, Lock, ResumeSegmentFree,
            ResumeRequestRemoved, ResumeAtSafePoint, ResumeTransactionDone,
            User, StartTransaction, stm_read, stm_write, Store, RequestMutex,
            SpuriousWakeup, heapVars
        <4> QED BY <4>1, <4>2 DEF Step
      <3> QED BY <3>3, <3>4, <3>5, <3>6, <3>7
    <2> QED BY <2>1, <2>2, <2>3
  <1> QED BY <1>1, OpacityInvariant, PTL DEF Spec, InevitableIsNeverUndone

-----------------------------------------------------------------------------
(* StmCore implements AtomicStm.                                           *)

\* What the abstract transactions show of one segment does not change.
Same(s) == /\ AbstractStatus(s)' = AbstractStatus(s)
           /\ AbstractReads(s)' = AbstractReads(s)
           /\ AbstractWrites(s)' = AbstractWrites(s)

-----------------------------------------------------------------------------
(* When a step looks like a step of AtomicStm.                             *)

\* Nothing the abstract transactions can see has changed: a stutter.
LEMMA IsStutter ==
  ASSUME \A s \in Segs : Same(s), mem'[0] = mem[0]
  PROVE  UNCHANGED Atomic!vars
  BY DEF Atomic!vars, Same

\* A segment without a transaction gets one (stm_start_transaction).
LEMMA IsBegin ==
  ASSUME NEW s \in Segs, AbstractStatus(s) = "idle", AbstractStatus(s)' = "active",
         AbstractReads(s)' = AbstractReads(s), AbstractWrites(s)' = AbstractWrites(s),
         \A r \in Segs \ {s} : Same(r), mem'[0] = mem[0]
  PROVE  Atomic!Begin(s)
  BY DEF Atomic!Begin, Same

\* A running transaction is told to abort by another thread, which throws
\* its writes away (abort_data_structures_from_segment_num).
LEMMA IsDoom ==
  ASSUME NEW s \in Segs, AbstractStatus(s) = "active", AbstractStatus(s)' = "doomed",
         AbstractReads(s)' = Atomic!Nothing, AbstractWrites(s)' = Atomic!Nothing,
         \A r \in Segs \ {s} : Same(r), mem'[0] = mem[0]
  PROVE  Atomic!Doom(s)
  BY DEF Atomic!Doom, Atomic!Forget, Same

\* A transaction, doomed or not, is rolled back (stm_abort_transaction).
LEMMA IsAbort ==
  ASSUME NEW s \in Segs, AbstractStatus(s) \in {"active", "doomed"},
         AbstractStatus(s)' = "idle",
         AbstractReads(s)' = Atomic!Nothing, AbstractWrites(s)' = Atomic!Nothing,
         \A r \in Segs \ {s} : Same(r), mem'[0] = mem[0]
  PROVE  Atomic!Abort(s)
  BY DEF Atomic!Abort, Atomic!Forget, Same

\* The only transaction that may not be rolled back is chosen.
LEMMA IsBecomeInevitable ==
  ASSUME NEW s \in Segs, AbstractStatus(s) = "active",
         AbstractStatus(s)' = "inevitable",
         \A r \in Segs : AbstractStatus(r) # "inevitable",
         AbstractReads(s)' = AbstractReads(s), AbstractWrites(s)' = AbstractWrites(s),
         \A r \in Segs \ {s} : Same(r), mem'[0] = mem[0]
  PROVE  Atomic!BecomeInevitable(s)
  BY DEF Atomic!BecomeInevitable, Same

\* A read of an object not written yet returns the committed contents.
LEMMA IsRead ==
  ASSUME NEW s \in Segs, NEW o \in Objects,
         AbstractStatus(s) \in {"active", "inevitable"},
         AbstractStatus(s)' = AbstractStatus(s),
         AbstractWrites(s)[o] = NULL, AbstractWrites(s)' = AbstractWrites(s),
         AbstractReads(s)' = [AbstractReads(s) EXCEPT ![o] = mem[0][o]],
         \A r \in Segs \ {s} : Same(r), mem'[0] = mem[0]
  PROVE  Atomic!Read(s, o)
  BY DEF Atomic!Read, Atomic!Live, Same

\* A write changes what its own transaction sees and nothing else.
LEMMA IsWrite ==
  ASSUME NEW s \in Segs, NEW o \in Objects, NEW v \in Values,
         AbstractStatus(s) \in {"active", "inevitable"},
         AbstractStatus(s)' = AbstractStatus(s),
         AbstractReads(s)[o] # NULL, AbstractReads(s)' = AbstractReads(s),
         AbstractWrites(s)' = [AbstractWrites(s) EXCEPT ![o] = v],
         \A r \in Segs \ {s} : Same(r), mem'[0] = mem[0]
  PROVE  Atomic!Write(s, o, v)
  BY DEF Atomic!Write, Atomic!Live, Same

\* A commit outdates nobody: who was outdated is doomed before.
LEMMA IsCommit ==
  ASSUME NEW s \in Segs, AbstractStatus(s) \in {"active", "inevitable"},
         AbstractStatus(s)' = "idle",
         \A r \in Segs \ {s}, o \in Objects :
           AbstractStatus(r) \in {"active", "inevitable"} /\ AbstractWrites(s)[o] # NULL
             => AbstractReads(r)[o] = NULL,
         AbstractReads(s)' = Atomic!Nothing, AbstractWrites(s)' = Atomic!Nothing,
         mem'[0] = [o \in Objects |-> IF AbstractWrites(s)[o] # NULL
                                      THEN AbstractWrites(s)[o] ELSE mem[0][o]],
         \A r \in Segs \ {s} : Same(r)
  PROVE  Atomic!Commit(s)
  <1>1. Atomic!Outdated(s) = {}
    BY DEF Atomic!Outdated, Atomic!Live
  <1> QED BY <1>1 DEF Atomic!Commit, Atomic!Live, Same

-----------------------------------------------------------------------------
(* What a step changes of the abstract transactions.                       *)

\* A transaction that goes on as before looks as before.
LEMMA SameView ==
  ASSUME NEW s \in Segs, transaction_state'[s] = transaction_state[s],
         Alive(s)' <=> Alive(s),
         Alive(s) => /\ seen'[s] = seen[s] /\ modified'[s] = modified[s]
                     /\ \A o \in modified[s] : mem'[s][o] = mem[s][o]
  PROVE  Same(s)
  <1>1. AbstractStatus(s)' = AbstractStatus(s)
    BY DEF AbstractStatus
  <1>2. AbstractReads(s)' = AbstractReads(s)
    BY DEF AbstractReads
  <1>3. AbstractWrites(s)' = AbstractWrites(s)
    BY DEF AbstractWrites
  <1> QED BY <1>1, <1>2, <1>3 DEF Same

\* A transaction that is dead has read and written nothing.
LEMMA DeadView ==
  ASSUME NEW s \in Segs
  PROVE  /\ ~Alive(s) => /\ AbstractReads(s) = Atomic!Nothing
                         /\ AbstractWrites(s) = Atomic!Nothing
         /\ ~Alive(s)' => /\ AbstractReads(s)' = Atomic!Nothing
                          /\ AbstractWrites(s)' = Atomic!Nothing
  BY DEF AbstractReads, AbstractWrites, Atomic!Nothing

\* GoesOn, before and after a step.
LEMMA GoesOnBoth ==
  ASSUME KnownInv, StopInv, NEW t \in Threads, Step(t)
  PROVE  GoesOn /\ GoesOn'
  <1>1. (TypeOK /\ SegmentInv /\ SafePointInv => GoesOn)'
    BY AliveGoesOn, PTL
  <1> QED BY <1>1, AliveGoesOn, Parts, NextParts

\* A live transaction has its data changed by its own thread, or is undone by
\* contention management.
LEMMA HeapOfOthers ==
  ASSUME KnownInv, StopInv, NEW t \in Threads, Step(t), NEW s \in Segs,
         running_thread[s] # t, Alive(s),
         ~(ContentionAbortStopped(t) /\ s = call[t].other)
  PROVE  /\ modified'[s] = modified[s]
         /\ \A o \in modified[s] : mem'[s][o] = mem[s][o]
  <1>0. /\ TypeInv /\ TypeOK /\ CallOK /\ SegmentInv /\ HeapInv
        /\ assoc[t] \in Segs /\ (InTransaction(t) => s # assoc[t])
        /\ ~is_aborting_now(s)
    BY Parts DEF SegmentInv, Alive, is_aborting_now
  <1> USE <1>0, SegsFacts DEF TypeOK
  <1>1. CASE TakeWriteLock(t)
    <2>1. InTransaction(t)
      BY <1>1 DEF TakeWriteLock, InTransaction
    <2> QED BY <1>1, <2>1 DEF TakeWriteLock
  <1>2. ASSUME NEW o \in Objects, NEW v \in Values, Store(t, o, v)
        PROVE  mem'[s] = mem[s] /\ modified' = modified
    <2>1. InTransaction(t)
      BY <1>2 DEF Store, InTransaction
    <2> QED BY <1>2, <2>1 DEF Store
  <1>3. CASE Commit(t)
    <2>1. InTransaction(t)
      BY <1>3 DEF Commit, Holds, InTransaction
    <2>2. \A o \in modified[s] : o \in Objects /\ o \notin modified[assoc[t]]
      <3> SUFFICES ASSUME NEW o \in modified[s]
                   PROVE  o \in Objects /\ o \notin modified[assoc[t]]
        OBVIOUS
      <3>1. o \in Objects
        OBVIOUS
      <3>2. /\ write_locks[o] = s
            /\ o \in modified[assoc[t]] => write_locks[o] = assoc[t]
        BY <3>1 DEF HeapInv, LockOwnership
      <3> QED BY <2>1, <3>1, <3>2
    <2> QED BY <1>3, <2>1, <2>2 DEF Commit, FinishTransaction, Pushed
  <1>4. CASE Abort(t)
    <2>1. InTransaction(t)
      BY <1>4 DEF Abort, Holds, InTransaction
    <2> QED BY <1>4, <2>1 DEF Abort, FinishTransaction, Restored
  <1>5. CASE ContentionAbortStopped(t) \/ ResumeAborted(t)
    <2>1. call[t].other \in Segs
      BY <1>5 DEF ContentionAbortStopped, ResumeAborted, InContention, Holds, CallOK
    <2>2. \/ UNCHANGED heapVars
          \/ KillDataStructures(call[t].other) /\ s # call[t].other
      BY <1>5 DEF ContentionAbortStopped, ResumeAborted
    <2> QED BY <2>1, <2>2 DEF KillDataStructures, Restored, heapVars
  <1>6. CASE /\ Library(t)
             /\ ~TakeWriteLock(t) /\ ~Commit(t) /\ ~Abort(t) /\ ~ContentionAbortStopped(t)
    <2>1. UNCHANGED heapVars
      BY <1>6 DEF Library, AcquireSegment, WaitSegmentFree,
        BumpVersion, reset_transaction_read_version, WriteLockTaken,
        RecheckOwner, SafePointAbort, SafePointCommitSoon, SafePointPause,
        SafePointDone, AlreadyUnique, signal_everybody_to_pause_running,
        WaitAtSafePoint, AllStopped, BecomeGloballyUnique,
        InevitableContention, BecomeInevitable, DetectConflict,
        ContentionMustAbort, ContentionSleep, ContentionAbortSelf,
        ContentionAbortRunning
    <2> QED BY <2>1 DEF heapVars
  <1>7. CASE (TakeMutex(t) /\ ~ResumeAborted(t)) \/ SpuriousWakeup(t)
    BY <1>7 DEF TakeMutex, Lock, ResumeSegmentFree, ResumeRequestRemoved,
      ResumeAtSafePoint, ResumeTransactionDone, SpuriousWakeup, heapVars
  <1>8. CASE User(t)
    <2>1. CASE \E o \in Objects, v \in Values : Store(t, o, v)
      BY <1>2, <2>1
    <2>2. CASE ~ \E o \in Objects, v \in Values : Store(t, o, v)
      <3>1. UNCHANGED heapVars
        BY <1>8, <2>2 DEF User, StartTransaction, stm_read, stm_write, RequestMutex
      <3> QED BY <3>1 DEF heapVars
    <2> QED BY <2>1, <2>2
  <1> QED BY <1>1, <1>3, <1>4, <1>5, <1>6, <1>7, <1>8 DEF Step

\* Of the other transactions a step changes the one it undoes, at most.
LEMMA OtherView ==
  ASSUME KnownInv, StopInv, NEW t \in Threads, Step(t), NEW s \in Segs,
         running_thread[s] # t,
         UNCHANGED <<running_thread[s], transaction_state[s], safe_point[s], seen[s]>>
  PROVE  \/ Same(s)
         \/ /\ ContentionAbortStopped(t) /\ s = call[t].other
            /\ Alive(s) /\ ~Alive(s)'
  <1>0. /\ TypeInv /\ TypeOK /\ SegmentInv /\ MutexInv /\ SafePointInv
        /\ GoesOn /\ GoesOn'
    BY Parts, GoesOnBoth
  <1>1. Alive(s)' => Alive(s)
    <2>1. transaction_state[s] = "NONE" => ~Alive(s)'
      BY <1>0 DEF GoesOn
    <2> QED BY <2>1, NoResurrection
  <1>2. ASSUME Alive(s), ~Alive(s)'
        PROVE  ContentionAbortStopped(t) /\ s = call[t].other
    <2>1. /\ running_thread[s] \in Threads \ {t} /\ InTransaction(running_thread[s])
          /\ assoc[running_thread[s]] = s
          /\ pc'[running_thread[s]] = pc[running_thread[s]]
      BY <1>0, <1>2, ThreadFrame DEF GoesOn, SegmentInv, TypeOK, Step
    <2>2. is_abort(s)' /\ Dying(pc[running_thread[s]])
      BY <1>0, <1>2, <2>1 DEF GoesOn
    <2>3. ~is_abort(s)
      BY <1>0, <1>2, <2>2 DEF GoesOn
    <2>4. /\ ContentionAbortRunning(t) \/ ContentionAbortStopped(t)
          /\ s = call[t].other /\ mutex = t
      BY <1>0, <2>2, <2>3, SignalFrame DEF Step, InContention, Holds
    <2>5. pc[running_thread[s]] \notin Locked
      BY <1>0, <2>1, <2>4 DEF MutexInv
    <2>6. safe_point[s] # "RUNNING"
      BY <1>0, <2>1, <2>2, <2>5 DEF SafePointInv, SafePointOf, Dying, Locked
    <2> QED BY <2>4, <2>6 DEF ContentionAbortRunning
  <1>3. ContentionAbortStopped(t) /\ s = call[t].other => ~Alive(s)'
    BY <1>0 DEF ContentionAbortStopped, TypeOK, Alive, is_abort, segVars
  <1>4. CASE Alive(s) /\ Alive(s)'
    <2>1. modified'[s] = modified[s] /\ \A o \in modified[s] : mem'[s][o] = mem[s][o]
      BY <1>3, <1>4, HeapOfOthers
    <2> QED BY <1>4, <2>1, SameView
  <1>5. CASE ~Alive(s) /\ ~Alive(s)'
    BY <1>5, SameView
  <1> QED BY <1>1, <1>2, <1>4, <1>5

\* The transactions other than the one of the thread that takes the step.
LEMMA Others ==
  ASSUME KnownInv, StopInv, NEW t \in Threads, Step(t), NEW s \in Segs,
         running_thread[s] # t, ~(AcquireSegment(t) /\ s = assoc'[t])
  PROVE  \/ Same(s)
         \/ /\ ContentionAbortStopped(t) /\ s = call[t].other
            /\ Alive(s) /\ ~Alive(s)'
  <1>1. UNCHANGED <<running_thread[s], transaction_state[s], safe_point[s], seen[s]>>
    BY SegmentOf
  <1> QED BY <1>1, OtherView

\* A step inside a transaction, as far as its own thread is concerned.
LEMMA OwnView ==
  ASSUME KnownInv, StopInv, NEW t \in Threads, Step(t),
         InTransaction(t), InTransaction(t)', NEW s, s = assoc[t],
         ~BecomeInevitable(t), ~TakeWriteLock(t),
         ~ \E o \in Objects : stm_read(t, o) \/ stm_write(t, o),
         ~ \E o \in Objects, v \in Values : Store(t, o, v)
  PROVE  \/ Same(s)
         \/ /\ Alive(s) /\ ~Alive(s)' /\ ~ContentionAbortStopped(t)
            /\ transaction_state[s] = "REGULAR"
            /\ transaction_state'[s] = "REGULAR"
  <1>0. /\ TypeInv /\ TypeOK /\ CallOK /\ SegmentInv /\ OpponentInv /\ s \in Segs
        /\ TypeOK' /\ InevitableInv' /\ GoesOn /\ GoesOn'
    BY Parts, NextParts, GoesOnBoth
  <1>1. ~AcquireSegment(t) /\ ~Commit(t) /\ ~Abort(t)
    <2>1. Commit(t) => pc'[t] = "outside"
      BY <1>0 DEF Commit, Leave, Goto, TypeOK
    <2>2. Abort(t) => pc'[t] = "start"
      BY <1>0 DEF Abort, Goto, TypeOK
    <2> QED BY <2>1, <2>2 DEF AcquireSegment, Holds, InTransaction
  <1>2. running_thread[s] = t /\ running_thread'[s] = t
    BY <1>0, <1>1, SegmentOf DEF SegmentInv
  <1>3. transaction_state'[s] = transaction_state[s] /\ transaction_state[s] # "NONE"
    BY <1>0, <1>1, <1>2, StateFrame, Parts DEF Step, SegmentInv
  <1>4. seen' = seen
    BY <1>0, <1>1, ReadFrame DEF BumpVersion, reset_transaction_read_version, readVars
  <1>5. modified'[s] = modified[s] /\ mem'[s] = mem[s]
    <2> USE <1>0, SegsFacts DEF TypeOK
    <2>1. CASE ContentionAbortStopped(t) \/ ResumeAborted(t)
      <3>1. call[t].other \in Segs
        BY <2>1 DEF ContentionAbortStopped, ResumeAborted, InContention, Holds, CallOK
      <3>2. \/ UNCHANGED heapVars
            \/ KillDataStructures(call[t].other) /\ s # call[t].other
        BY <2>1 DEF ContentionAbortStopped, ResumeAborted, InContention, Holds,
          OpponentInv, is_aborting_now, must_abort
      <3> QED BY <3>1, <3>2 DEF KillDataStructures, Restored, heapVars
    <2>2. CASE Library(t) /\ ~ContentionAbortStopped(t)
      <3>1. UNCHANGED heapVars
        BY <1>1, <2>2 DEF Library, WaitSegmentFree,
          BumpVersion, reset_transaction_read_version, WriteLockTaken,
          RecheckOwner, SafePointAbort, SafePointCommitSoon, SafePointPause,
          SafePointDone, AlreadyUnique, signal_everybody_to_pause_running,
          WaitAtSafePoint, AllStopped, BecomeGloballyUnique,
          InevitableContention, DetectConflict,
          ContentionMustAbort, ContentionSleep, ContentionAbortSelf,
          ContentionAbortRunning
      <3> QED BY <3>1 DEF heapVars
    <2>3. CASE (TakeMutex(t) /\ ~ResumeAborted(t)) \/ User(t) \/ SpuriousWakeup(t)
      <3>1. UNCHANGED heapVars
        BY <2>3 DEF TakeMutex, Lock, ResumeSegmentFree, ResumeRequestRemoved,
          ResumeAtSafePoint, ResumeTransactionDone, SpuriousWakeup, User,
          StartTransaction, RequestMutex
      <3> QED BY <3>1 DEF heapVars
    <2> QED BY <2>1, <2>2, <2>3 DEF Step
  <1>6. Alive(s)' => Alive(s)
    BY <1>0, <1>3, NoResurrection
  <1>7. CASE Alive(s)' <=> Alive(s)
    BY <1>0, <1>3, <1>4, <1>5, <1>7, SameView
  <1>8. CASE Alive(s) /\ ~Alive(s)'
    <2>1. is_abort(s)' /\ Dying(pc'[t])
      BY <1>0, <1>2, <1>3, <1>8 DEF GoesOn
    <2>2. transaction_state'[s] = "REGULAR"
      BY <1>0, <1>3, <2>1 DEF InevitableInv, TypeOK
    <2>3. ~ContentionAbortStopped(t)
      BY <1>0, <2>1 DEF ContentionAbortStopped, Return, Goto, Resolved, Dying, TypeOK
    <2> QED BY <1>3, <1>8, <2>2, <2>3
  <1> QED BY <1>6, <1>7, <1>8

\* Running code is alive.
LEMMA RunningView ==
  ASSUME KnownInv, StopInv, NEW t \in Threads, Step(t), pc[t] \in {"run", "write"},
         pc'[t] \in {"run", "write"}, UNCHANGED <<assoc, segVars>>,
         NEW s, s = assoc[t]
  PROVE  /\ s \in Segs /\ running_thread[s] = t
         /\ Alive(s) /\ Alive(s)'
         /\ AbstractStatus(s) \in {"active", "inevitable"}
         /\ AbstractStatus(s)' = AbstractStatus(s)
  <1>1. s \in Segs /\ running_thread[s] = t /\ transaction_state[s] \in {"REGULAR", "INEVITABLE"}
    <2>1. s \in Segs /\ InTransaction(t) /\ t # NULL /\ SegmentInv
      BY Parts DEF InTransaction
    <2>2. running_thread[s] = t /\ transaction_state[s] # "NONE"
      BY <2>1 DEF SegmentInv
    <2> QED BY <2>1, <2>2, Parts DEF TypeOK
  <1>2. /\ transaction_state'[s] = transaction_state[s]
        /\ running_thread'[s] = running_thread[s]
    BY DEF segVars
  <1>3. Alive(s) /\ Alive(s)'
    BY <1>1, <1>2, GoesOnBoth DEF GoesOn, Dying
  <1> QED BY <1>1, <1>2, <1>3 DEF AbstractStatus

\* A read barrier is a read of the committed contents, or changes nothing.
LEMMA ReadStep ==
  ASSUME KnownInv, StopInv, NEW t \in Threads, Step(t), NEW o \in Objects,
         stm_read(t, o) \/ stm_write(t, o), NEW s, s = assoc[t]
  PROVE  Atomic!Read(s, o) \/ UNCHANGED Atomic!vars
  <1>0. TypeOK /\ HeapInv
    BY Parts
  <1>1. /\ pc[t] = "run" /\ pc'[t] \in {"run", "write"}
        /\ UNCHANGED <<assoc, segVars, heapVars>> /\ MarkRead(s, o)
    BY <1>0 DEF stm_read, stm_write, Goto, threadVars, TypeOK
  <1>2. /\ s \in Segs /\ running_thread[s] = t
        /\ Alive(s) /\ Alive(s)'
        /\ AbstractStatus(s) \in {"active", "inevitable"}
        /\ AbstractStatus(s)' = AbstractStatus(s)
    BY <1>1, RunningView
  <1>3. \A r \in Segs \ {s} : Same(r)
    <2>1. ~ContentionAbortStopped(t) /\ ~AcquireSegment(t)
      BY <1>1 DEF ContentionAbortStopped, InContention, Holds, AcquireSegment
    <2>2. \A r \in Segs \ {s} : running_thread[r] # t
      BY Parts DEF SegmentInv
    <2> QED BY <2>1, <2>2, Others
  <1>4. mem' = mem /\ modified' = modified
    BY <1>1 DEF heapVars
  <1>5. AbstractWrites(s)' = AbstractWrites(s)
    BY <1>2, <1>4 DEF AbstractWrites
  <1>6. CASE seen[s][o] = NULL /\ o \notin modified[s]
    <2>1. seen' = [seen EXCEPT ![s][o] = mem[s][o]]
      BY <1>1, <1>6 DEF MarkRead
    <2>2. mem[s][o] = mem[0][o]
      BY <1>0, <1>2, <1>6 DEF HeapInv, Isolation
    <2>3. AbstractReads(s)' = [AbstractReads(s) EXCEPT ![o] = mem[0][o]]
      BY <1>0, <1>2, <2>1, <2>2 DEF AbstractReads, TypeOK
    <2>4. AbstractWrites(s)[o] = NULL
      BY <1>6 DEF AbstractWrites
    <2> QED BY <1>2, <1>3, <1>4, <1>5, <2>3, <2>4, IsRead
  <1>7. CASE ~(seen[s][o] = NULL /\ o \notin modified[s])
    <2>1. seen' = seen
      BY <1>1, <1>7 DEF MarkRead
    <2>2. AbstractReads(s)' = AbstractReads(s)
      BY <1>2, <2>1 DEF AbstractReads
    <2> QED BY <1>2, <1>3, <1>4, <1>5, <2>2, IsStutter DEF Same
  <1> QED BY <1>6, <1>7

\* Getting the write lock writes what was read; a store writes what it stores.
LEMMA WriteStep ==
  ASSUME KnownInv, StopInv, SeenInv, NEW t \in Threads, Step(t),
         \/ TakeWriteLock(t)
         \/ \E o \in Objects, v \in Values : Store(t, o, v),
         NEW s, s = assoc[t]
  PROVE  \E o \in Objects, v \in Values : Atomic!Write(s, o, v)
  <1>0. TypeOK /\ CallOK
    BY Parts
  <1>1. PICK o \in Objects, v \in Values :
          /\ seen[s][o] # NULL /\ v # NULL
          /\ modified' = [modified EXCEPT ![s] = @ \cup {o}]
          /\ mem' = [mem EXCEPT ![s][o] = v]
    <2>1. CASE TakeWriteLock(t)
      <3> DEFINE o == call[t].obj
                 v == mem[s][o]
      <3>1. call[t].op = "write" /\ o \in Objects
        BY <1>0, <2>1 DEF TakeWriteLock, CallOK
      <3>2. v \in Values /\ mem = [mem EXCEPT ![s][o] = v]
        BY <1>0, <3>1, SegsFacts DEF TypeOK
      <3>3. mem' = mem /\ modified' = [modified EXCEPT ![s] = @ \cup {o}]
        BY <2>1 DEF TakeWriteLock
      <3>4. seen[s][o] # NULL
        BY <3>1 DEF SeenInv
      <3> QED BY <3>1, <3>2, <3>3, <3>4, CoreAssumption
    <2>2. ASSUME NEW o \in Objects, NEW v \in Values, Store(t, o, v)
          PROVE  /\ seen[s][o] # NULL /\ v # NULL
                 /\ modified' = [modified EXCEPT ![s] = @ \cup {o}]
                 /\ mem' = [mem EXCEPT ![s][o] = v]
      <3>1. o \in modified[s] /\ modified' = modified /\ mem' = [mem EXCEPT ![s][o] = v]
        BY <2>2 DEF Store
      <3>2. modified = [modified EXCEPT ![s] = @ \cup {o}]
        BY <1>0, <3>1 DEF TypeOK
      <3>3. s \in Segs
        BY Parts
      <3> QED BY <3>1, <3>2, <3>3, CoreAssumption DEF SeenInv
    <2> QED BY <2>1, <2>2
  <1>2. /\ pc[t] \in {"run", "write"} /\ pc'[t] \in {"run", "write"}
        /\ UNCHANGED <<assoc, segVars, seen>>
    BY <1>0 DEF TakeWriteLock, Store, Goto, threadVars, readVars, TypeOK
  <1>3. /\ s \in Segs /\ running_thread[s] = t
        /\ Alive(s) /\ Alive(s)'
        /\ AbstractStatus(s) \in {"active", "inevitable"}
        /\ AbstractStatus(s)' = AbstractStatus(s)
    BY <1>2, RunningView
  <1>4. \A r \in Segs \ {s} : Same(r)
    <2>1. ~ContentionAbortStopped(t) /\ ~AcquireSegment(t)
      BY <1>2 DEF ContentionAbortStopped, InContention, Holds, AcquireSegment
    <2>2. \A r \in Segs \ {s} : running_thread[r] # t
      BY Parts DEF SegmentInv
    <2> QED BY <2>1, <2>2, Others
  <1>5. mem'[0] = mem[0]
    BY <1>0, <1>1, <1>3, SegsFacts DEF TypeOK
  <1>6. AbstractReads(s)' = AbstractReads(s) /\ AbstractReads(s)[o] # NULL
    BY <1>1, <1>2, <1>3 DEF AbstractReads
  <1>7. AbstractWrites(s)' = [AbstractWrites(s) EXCEPT ![o] = v]
    <2>1. modified'[s] = modified[s] \cup {o} /\ mem'[s] = [mem[s] EXCEPT ![o] = v]
      BY <1>0, <1>1, <1>3, SegsFacts DEF TypeOK
    <2>2. \A q \in Objects : mem'[s][q] = IF q = o THEN v ELSE mem[s][q]
      BY <1>0, <1>3, <2>1, SegsFacts DEF TypeOK
    <2> QED BY <1>3, <2>1, <2>2 DEF AbstractWrites
  <1> QED BY <1>3, <1>4, <1>5, <1>6, <1>7, IsWrite

\* A commit of the library is a commit, and dooms nobody: the conflicts were
\* resolved before.
LEMMA CommitStep ==
  ASSUME KnownInv, StopInv, SeenInv, NEW t \in Threads, Step(t), Commit(t),
         NEW s, s = assoc[t]
  PROVE  Atomic!Commit(s)
  <1>0. TypeOK /\ s \in Segs /\ pc[t] = "detect" /\ InTransaction(t)
    BY Parts DEF Commit, Holds, InTransaction
  <1>1. running_thread[s] = t /\ t # NULL
    BY <1>0, Parts DEF SegmentInv
  <1>2. transaction_state[s] \in {"REGULAR", "INEVITABLE"} /\ ~is_abort(s)
    BY <1>0, <1>1, Parts DEF SegmentInv, TypeOK, PauseInv, SignalOf, Committing, is_abort
  <1>3. Alive(s) /\ AbstractStatus(s) \in {"active", "inevitable"}
    BY <1>2 DEF Alive, AbstractStatus
  <1>4. transaction_state'[s] = "NONE" /\ mem' = Pushed(s) /\ Conflicts(s) = {}
    BY <1>0 DEF Commit, FinishTransaction, TypeOK
  <1>5. ~Alive(s)' /\ AbstractStatus(s)' = "idle"
    BY <1>4 DEF Alive, AbstractStatus
  <1>6. AbstractReads(s)' = Atomic!Nothing /\ AbstractWrites(s)' = Atomic!Nothing
    BY <1>0, <1>5, DeadView
  <1>7. \A r \in Segs \ {s} : Same(r)
    <2>1. ~ContentionAbortStopped(t) /\ ~AcquireSegment(t)
      BY <1>0 DEF ContentionAbortStopped, InContention, Holds, AcquireSegment
    <2>2. \A r \in Segs \ {s} : running_thread[r] # t
      BY <1>0, Parts DEF SegmentInv
    <2> QED BY <2>1, <2>2, Others
  <1>8. \A o \in Objects : AbstractWrites(s)[o] # NULL <=> o \in modified[s]
    <2> SUFFICES ASSUME NEW o \in Objects
                 PROVE  AbstractWrites(s)[o] # NULL <=> o \in modified[s]
      OBVIOUS
    <2>1. mem[s][o] # NULL
      <3>1. s \in Copies /\ mem \in [Copies -> [Objects -> Values]]
        BY <1>0, SegsFacts DEF TypeOK
      <3> QED BY <3>1, CoreAssumption
    <2> QED BY <1>3, <2>1 DEF AbstractWrites
  <1>9. ASSUME NEW r \in Segs \ {s}, NEW o \in Objects,
               AbstractStatus(r) \in {"active", "inevitable"},
               AbstractWrites(s)[o] # NULL
        PROVE  AbstractReads(r)[o] = NULL
    <2>1. CASE Alive(r)
      <3>1. seen[r][o] = NULL
        BY <1>0, <1>4, <1>8, <1>9, <2>1, NobodyOutdated
      <3> QED BY <3>1 DEF AbstractReads
    <2>2. CASE ~Alive(r)
      BY <2>2 DEF AbstractReads
    <2> QED BY <2>1, <2>2
  <1>10. mem'[0] = [o \in Objects |-> IF AbstractWrites(s)[o] # NULL
                                      THEN AbstractWrites(s)[o] ELSE mem[0][o]]
    <2>1. mem'[0] = [o \in Objects |-> IF o \in modified[s] THEN mem[s][o]
                                                            ELSE mem[0][o]]
      BY <1>4, SegsFacts DEF Pushed
    <2>2. \A o \in modified[s] : o \in Objects => AbstractWrites(s)[o] = mem[s][o]
      BY <1>3 DEF AbstractWrites
    <2> QED BY <1>8, <2>1, <2>2
  <1> QED BY <1>0, <1>3, <1>5, <1>6, <1>7, <1>9, <1>10, IsCommit

\* An abort of the library is one.
LEMMA AbortStep ==
  ASSUME KnownInv, StopInv, NEW t \in Threads, Step(t), Abort(t),
         NEW s, s = assoc[t]
  PROVE  Atomic!Abort(s)
  <1>0. TypeOK /\ s \in Segs /\ pc[t] = "abort" /\ InTransaction(t)
    BY Parts DEF Abort, Holds, InTransaction
  <1>1. transaction_state[s] = "REGULAR"
    BY <1>0, Parts DEF InevitableInv
  <1>2. AbstractStatus(s) \in {"active", "doomed"}
    BY <1>1 DEF AbstractStatus
  <1>3. transaction_state'[s] = "NONE"
    BY <1>0 DEF Abort, FinishTransaction, TypeOK
  <1>4. ~Alive(s)' /\ AbstractStatus(s)' = "idle"
    BY <1>3 DEF Alive, AbstractStatus
  <1>5. AbstractReads(s)' = Atomic!Nothing /\ AbstractWrites(s)' = Atomic!Nothing
    BY <1>0, <1>4, DeadView
  <1>6. ~ContentionAbortStopped(t) /\ ~AcquireSegment(t) /\ ~Commit(t)
    BY <1>0 DEF ContentionAbortStopped, InContention, Holds, AcquireSegment, Commit
  <1>7. \A r \in Segs \ {s} : Same(r)
    <2>1. \A r \in Segs \ {s} : running_thread[r] # t
      BY <1>0, Parts DEF SegmentInv
    <2> QED BY <1>6, <2>1, Others
  <1>8. mem'[0] = mem[0]
    BY <1>6, StoreFrame
  <1> QED BY <1>0, <1>2, <1>4, <1>5, <1>7, <1>8, IsAbort

\* Getting a segment begins a transaction.
LEMMA BeginStep ==
  ASSUME KnownInv, StopInv, OpacityInv, NEW t \in Threads, Step(t), AcquireSegment(t)
  PROVE  \E s \in Segs : Atomic!Begin(s)
  <1>0. TypeOK /\ SegmentInv /\ pc[t] = "acquire" /\ ~InTransaction(t) /\ t # NULL
    BY Parts DEF AcquireSegment, Holds, InTransaction
  <1>1. PICK s \in FreeSegs :
          /\ assoc' = [assoc EXCEPT ![t] = s]
          /\ running_thread' = [running_thread EXCEPT ![s] = t]
          /\ safe_point' = [safe_point EXCEPT ![s] = "RUNNING"]
          /\ transaction_state' = [transaction_state EXCEPT ![s] = "REGULAR"]
          /\ nursery_end' = nursery_end /\ UNCHANGED readVars /\ UNCHANGED heapVars
    BY DEF AcquireSegment
  <1>2. /\ s \in Segs /\ running_thread[s] = NULL /\ assoc'[t] = s
        /\ transaction_state[s] = "NONE" /\ transaction_state'[s] = "REGULAR"
        /\ safe_point'[s] = "RUNNING" /\ running_thread'[s] = t
    BY <1>0, <1>1 DEF FreeSegs, TypeOK, SegmentInv
  <1>3. \A o \in Objects : seen[s][o] = NULL
    BY <1>2 DEF OpacityInv, SeenInv
  <1>4. modified[s] = {}
    BY <1>2, Parts DEF VictimInv
  <1>5. ~is_abort(s) /\ ~is_abort(s)'
    BY <1>1, <1>2 DEF OpacityInv, FreshInv, is_abort
  <1>6. ~Alive(s) /\ Alive(s)'
    BY <1>2, <1>5 DEF Alive
  <1>7. AbstractStatus(s) = "idle" /\ AbstractStatus(s)' = "active"
    BY <1>2, <1>6 DEF AbstractStatus
  <1>8. seen' = seen /\ modified' = modified /\ mem' = mem
    BY <1>1 DEF readVars, heapVars
  <1>9. AbstractReads(s)' = AbstractReads(s) /\ AbstractWrites(s)' = AbstractWrites(s)
    BY <1>3, <1>4, <1>6, <1>8 DEF AbstractReads, AbstractWrites
  <1>10. \A r \in Segs \ {s} : Same(r)
    <2>1. ~ContentionAbortStopped(t)
      BY <1>0 DEF ContentionAbortStopped, InContention, Holds
    <2>2. \A r \in Segs \ {s} : running_thread[r] # t
      BY <1>0 DEF SegmentInv
    <2> QED BY <1>2, <2>1, <2>2, Others
  <1> QED BY <1>2, <1>7, <1>8, <1>9, <1>10, IsBegin

\* There is no other inevitable transaction when one becomes it.
LEMMA InevitableStep ==
  ASSUME KnownInv, StopInv, NEW t \in Threads, Step(t), BecomeInevitable(t),
         NEW s, s = assoc[t]
  PROVE  Atomic!BecomeInevitable(s)
  <1>0. /\ TypeOK /\ SegmentInv /\ s \in Segs /\ pc[t] = "inevitable"
        /\ InTransaction(t) /\ t # NULL /\ running_thread[s] = t
    BY Parts DEF BecomeInevitable, Holds, InTransaction, SegmentInv
  <1>1. /\ transaction_state[s] = "REGULAR"
        /\ \A r \in Segs : transaction_state[r] # "INEVITABLE"
    BY <1>0, Parts DEF BecomeInevitable, OtherInevitable, TypeOK, SegmentInv
  <1>2. ~is_abort(s)
    BY <1>0, Parts DEF InevitableInv, must_abort
  <1>3. /\ transaction_state'[s] = "INEVITABLE" /\ nursery_end' = nursery_end
        /\ running_thread' = running_thread /\ safe_point' = safe_point
        /\ seen' = seen /\ modified' = modified /\ mem' = mem
    BY <1>0 DEF BecomeInevitable, signalVars, readVars, heapVars, TypeOK
  <1>4. Alive(s) /\ Alive(s)'
    BY <1>1, <1>2, <1>3 DEF Alive, is_abort
  <1>5. AbstractStatus(s) = "active" /\ AbstractStatus(s)' = "inevitable"
    BY <1>1, <1>3, <1>4 DEF AbstractStatus
  <1>6. \A r \in Segs : AbstractStatus(r) # "inevitable"
    BY <1>1 DEF AbstractStatus
  <1>7. AbstractReads(s)' = AbstractReads(s) /\ AbstractWrites(s)' = AbstractWrites(s)
    BY <1>3, <1>4 DEF AbstractReads, AbstractWrites
  <1>8. \A r \in Segs \ {s} : Same(r)
    <2>1. ~ContentionAbortStopped(t) /\ ~AcquireSegment(t)
      BY <1>0 DEF ContentionAbortStopped, InContention, Holds, AcquireSegment
    <2>2. \A r \in Segs \ {s} : running_thread[r] # t
      BY <1>0 DEF SegmentInv
    <2> QED BY <2>1, <2>2, Others
  <1> QED BY <1>0, <1>3, <1>5, <1>6, <1>7, <1>8, IsBecomeInevitable

\* A transaction that can no longer go on is doomed.
LEMMA DoomStep ==
  ASSUME KnownInv, NEW t \in Threads, Step(t), ~Commit(t), NEW s \in Segs,
         Alive(s), ~Alive(s)', transaction_state[s] = "REGULAR",
         transaction_state'[s] = "REGULAR", \A r \in Segs \ {s} : Same(r)
  PROVE  Atomic!Doom(s)
  <1>1. AbstractStatus(s) = "active" /\ AbstractStatus(s)' = "doomed"
    BY DEF AbstractStatus
  <1>2. AbstractReads(s)' = Atomic!Nothing /\ AbstractWrites(s)' = Atomic!Nothing
    BY DeadView
  <1> QED BY <1>1, <1>2, StoreFrame, IsDoom

-----------------------------------------------------------------------------
\* At the start no transaction runs.
LEMMA InitImplements == Init => Atomic!Init
  <1> SUFFICES ASSUME Init PROVE Atomic!Init
    OBVIOUS
  <1>1. mem[0] \in [Objects -> Values]
    BY SegsFacts DEF Init
  <1>2. \A s \in Segs : ~Alive(s) /\ AbstractStatus(s) = "idle"
    BY DEF Init, Alive, AbstractStatus
  <1>3. \A s \in Segs : /\ AbstractReads(s) = Atomic!Nothing
                        /\ AbstractWrites(s) = Atomic!Nothing
    BY <1>2, DeadView
  <1> QED BY <1>1, <1>2, <1>3 DEF Atomic!Init

\* Every step of the library is a step of the abstract transactions, or none.
LEMMA StepImplements ==
  ASSUME AllInv, NEW t \in Threads, Step(t)
  PROVE  Atomic!Next \/ UNCHANGED Atomic!vars
  <1>0. KnownInv /\ StopInv /\ OpacityInv /\ SeenInv
    BY DEF AllInv, OpacityInv
  <1>1. /\ TypeInv /\ TypeOK /\ CallOK /\ SegmentInv /\ OpponentInv /\ InevitableInv
        /\ assoc[t] \in Segs
    BY <1>0, Parts
  <1>2. PICK s \in Segs : s = assoc[t]
    BY <1>1
  <1>3. \A r \in Segs : running_thread[r] = t => r = s
    BY <1>1, <1>2, <1>0, Parts DEF SegmentInv
  <1>4. CASE Commit(t)
    BY <1>0, <1>2, <1>4, CommitStep DEF Atomic!Next
  <1>5. CASE Abort(t)
    BY <1>0, <1>2, <1>5, AbortStep DEF Atomic!Next
  <1>6. CASE AcquireSegment(t)
    BY <1>0, <1>6, BeginStep DEF Atomic!Next
  <1>7. CASE BecomeInevitable(t)
    BY <1>0, <1>2, <1>7, InevitableStep DEF Atomic!Next
  <1>8. CASE \E o \in Objects : stm_read(t, o) \/ stm_write(t, o)
    BY <1>0, <1>2, <1>8, ReadStep DEF Atomic!Next
  <1>9. CASE TakeWriteLock(t) \/ \E o \in Objects, v \in Values : Store(t, o, v)
    BY <1>0, <1>2, <1>9, WriteStep DEF Atomic!Next
  <1>10. CASE /\ ~Commit(t) /\ ~Abort(t) /\ ~AcquireSegment(t) /\ ~BecomeInevitable(t)
              /\ ~TakeWriteLock(t)
              /\ ~ \E o \in Objects : stm_read(t, o) \/ stm_write(t, o)
              /\ ~ \E o \in Objects, v \in Values : Store(t, o, v)
    <2>1. mem'[0] = mem[0]
      BY <1>0, <1>10, StoreFrame
    <2>2. CASE ContentionAbortStopped(t)
      <3> DEFINE i == call[t].other
      <3>1. /\ InContention(t) /\ pc[t] = "contention" /\ InTransaction(t)
            /\ i \in Segs /\ i # s
        BY <1>1, <1>2, <2>2 DEF ContentionAbortStopped, InContention, Holds,
          InTransaction, CallOK, OpponentInv
      <3>2. InTransaction(t)'
        BY <1>0, <1>1, <1>10, <3>1, LeaveTransaction
      <3>3. Same(s)
        BY <1>0, <1>2, <1>10, <2>2, <3>1, <3>2, OwnView
      <3>4. \A r \in Segs \ {s} : Same(r) \/ (r = i /\ Alive(i) /\ ~Alive(r)')
        BY <1>0, <1>3, <1>10, Others
      <3>5. CASE Same(i)
        BY <2>1, <3>3, <3>4, <3>5, IsStutter
      <3>6. CASE ~Same(i)
        <4>1. PICK r \in Segs : r = i
          BY <3>1
        <4>2. Alive(r) /\ ~Alive(r)'
          BY <3>1, <3>4, <3>6, <4>1
        <4>3. transaction_state[r] # "INEVITABLE" /\ transaction_state[r] # "NONE"
          BY <1>0, <1>1, <2>2, <3>1, <4>1, VictimIsNotInevitable, Parts
          DEF ContentionAbortStopped, VictimInv
        <4>4. transaction_state[r] = "REGULAR" /\ transaction_state'[r] = "REGULAR"
          BY <1>1, <2>2, <4>3 DEF ContentionAbortStopped, segVars, TypeOK
        <4>5. \A q \in Segs \ {r} : Same(q)
          BY <3>3, <3>4, <4>1
        <4>6. Atomic!Doom(r)
          BY <1>0, <1>10, <4>2, <4>4, <4>5, DoomStep
        <4> QED BY <4>6 DEF Atomic!Next
      <3> QED BY <3>5, <3>6
    <2>3. CASE ~ContentionAbortStopped(t) /\ InTransaction(t)
      <3>1. InTransaction(t)'
        BY <1>0, <1>1, <1>10, <2>3, LeaveTransaction
      <3>2. \A r \in Segs \ {s} : Same(r)
        BY <1>0, <1>3, <1>10, <2>3, Others
      <3>3. CASE Same(s)
        BY <2>1, <3>2, <3>3, IsStutter
      <3>4. CASE /\ Alive(s) /\ ~Alive(s)'
                 /\ transaction_state[s] = "REGULAR" /\ transaction_state'[s] = "REGULAR"
        <4>1. Atomic!Doom(s)
          BY <1>0, <1>10, <3>2, <3>4, DoomStep
        <4> QED BY <4>1 DEF Atomic!Next
      <3> QED BY <1>0, <1>2, <1>10, <2>3, <3>1, <3>3, <3>4, OwnView
    <2>4. CASE ~ContentionAbortStopped(t) /\ ~InTransaction(t)
      <3>1. \A r \in Segs : running_thread[r] # t
        BY <1>0, <1>1, <2>4, Parts DEF SegmentInv
      <3>2. \A r \in Segs : Same(r)
        BY <1>0, <1>10, <2>4, <3>1, Others
      <3> QED BY <2>1, <3>2, IsStutter
    <2> QED BY <2>2, <2>3, <2>4
  <1> QED BY <1>4, <1>5, <1>6, <1>7, <1>8, <1>9, <1>10

\* The library implements atomic transactions (core.c, sync.c, contention.c
\* against the promises of stmgc.h): it starts and steps as they do.
THEOREM Implements == Spec => ImplementsAtomicStm
  <1>1. Init => Atomic!Init
    BY InitImplements
  <1>2. AllInv /\ [Next]_vars => [Atomic!Next]_(Atomic!vars)
    <2> SUFFICES ASSUME AllInv, [Next]_vars
                 PROVE  Atomic!Next \/ UNCHANGED Atomic!vars
      OBVIOUS
    <2>1. CASE UNCHANGED vars
      <3>1. \A s \in Segs : Alive(s)' <=> Alive(s)
        BY <2>1 DEF Alive, is_abort, vars, threadVars, segVars, signalVars
      <3>2. /\ transaction_state' = transaction_state /\ seen' = seen
            /\ modified' = modified /\ mem' = mem
        BY <2>1 DEF vars, segVars, readVars, heapVars
      <3>3. \A s \in Segs : Same(s)
        BY <3>1, <3>2, SameView
      <3> QED BY <3>2, <3>3, IsStutter
    <2>2. ASSUME NEW t \in Threads, Step(t)
          PROVE  Atomic!Next \/ UNCHANGED Atomic!vars
      BY <2>2, StepImplements
    <2> QED BY <2>1, <2>2 DEF Next, Step
  <1> QED BY <1>1, <1>2, OpacityInvariant, PTL DEF Spec, Atomic!Spec, ImplementsAtomicStm

=============================================================================
