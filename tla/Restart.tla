------------------------------- MODULE Restart -------------------------------
(***************************************************************************)
(* How a transaction is restarted (stm/rewind_setjmp.c), and what its      *)
(* callbacks hear of it (stm/extra.c), in c7 and in c8, which have the same *)
(* files: one thread that enters and leaves frames, changes its variables  *)
(* and its shadow stack, and starts, commits and aborts transactions.      *)
(*                                                                         *)
(* stm_start_transaction() may return again when the frame that called it  *)
(* has been left long ago.  So the stack is copied away, but lazily: the   *)
(* innermost frame at the start of the transaction, and an outer one when  *)
(* the program returns into it, which is when it can change it.            *)
(*                                                                         *)
(* A frame of the model is what is on both stacks from one rewind_jmp_buf  *)
(* to the next: a variable and the references pushed there.  The frames    *)
(* that PyPy's JIT makes (lowest bit of shadowstack_base) are left out.    *)
(***************************************************************************)
EXTENDS Integers, Sequences, FiniteSets, SequencesExt

CONSTANTS
    Keys,         \* of callbacks
    Values,       \* of variables
    Roots,        \* references on the shadow stack
    MAX_FRAMES,   \* bound of the model
    MAX_RESTARTS  \* bound of the model

VARIABLES
    stack,        \* the frames, outermost first
    rjthread,     \* the fields of rewind_jmp_thread; addresses are frame numbers
    status,       \* transaction_state, or "restarting" before the longjmp
    callbacks_on_commit_and_abort,  \* <<keys for commit, keys for abort>>
    started,      \* the stacks at the start of the transaction
    asked, called \* callbacks registered and called since then

vars == <<stack, rjthread, status,
          callbacks_on_commit_and_abort, started, asked, called>>

NewFrame == [local |-> CHOOSE v \in Values : TRUE, ss |-> <<>>]
COMMIT == 1
ABORT == 2
NoCalls == <<{}, {}>>

-----------------------------------------------------------------------------
(* rewind_setjmp.c.                                                        *)

rewind_jmp_armed == rjthread.moved_off_base # 0
_rewind_jmp_free_stack_slices(rj) ==
    [rj EXCEPT !.moved_off = <<>>, !.moved_off_base = 0]
rewind_jmp_forget(rj) == _rewind_jmp_free_stack_slices(rj)

\* Copies the frame at the head.
copy_stack(rj, frames) ==
    [rj EXCEPT !.moved_off = <<frames[rj.head]>> \o @, !.moved_off_base = rj.head]

\* Faulty: a frame is not copied when the program returns into it.
NotCopied(rj, frames) == rj

_rewind_jmp_copy_stack_slice(rj, frames) ==
    IF rj.head = 0 THEN _rewind_jmp_free_stack_slices(rj) ELSE copy_stack(rj, frames)

\* What the slices give back is on top of the frames that were never left.
Restored == SubSeq(stack, 1, rjthread.moved_off_base - 1) \o rjthread.moved_off

stm_rewind_jmp_enterframe ==
    /\ Len(stack) < MAX_FRAMES /\ status # "restarting"
    /\ stack' = Append(stack, NewFrame)
    /\ rjthread' = [rjthread EXCEPT !.head = Len(stack) + 1]
    /\ UNCHANGED <<status, callbacks_on_commit_and_abort, started, asked, called>>

\* The outermost frame is not left while the transaction may abort.
stm_rewind_jmp_leaveframe ==
    /\ stack # <<>> /\ status # "restarting"
    /\ Last(stack).ss = <<>>                    \* asserted: shadowstack_base == ss
    /\ Len(stack) = 1 => status # "TS_REGULAR"
    /\ LET left == [rjthread EXCEPT !.head = @ - 1]
       IN rjthread' = IF rjthread.head = rjthread.moved_off_base
                      THEN _rewind_jmp_copy_stack_slice(left, stack) ELSE left
    /\ stack' = Front(stack)
    /\ UNCHANGED <<status, callbacks_on_commit_and_abort, started, asked, called>>

\* The program: it changes the innermost frame, as it is not expected to
\* change others, and the object that belongs to the thread.
Run ==
    /\ stack # <<>> /\ status # "restarting"
    /\ \/ \E v \in Values : stack' = [stack EXCEPT ![Len(stack)].local = v]
       \/ \E r \in Roots :
              Last(stack).ss = <<>> /\ stack' = [stack EXCEPT ![Len(stack)].ss = Append(@, r)]
       \/ Last(stack).ss # <<>> /\ stack' = [stack EXCEPT ![Len(stack)].ss = Front(@)]
    /\ UNCHANGED <<rjthread, status, callbacks_on_commit_and_abort,
                   started, asked, called>>

\* rewind_jmp_setjmp(), for the first time or after a longjmp.
rewind_jmp_setjmp(rj, frames, repeat_count) ==
    copy_stack([_rewind_jmp_free_stack_slices(rj) EXCEPT
                    !.initial_head = rj.head, !.repeat_count = repeat_count], frames)

-----------------------------------------------------------------------------
(* extra.c.                                                                *)

\* Registering a key twice crashes, so that no program does it.
register_callbacks(index, key) ==
    /\ status = "TS_REGULAR"
    /\ key \notin callbacks_on_commit_and_abort[index] \cup called[index]
    /\ callbacks_on_commit_and_abort' =
           [callbacks_on_commit_and_abort EXCEPT ![index] = @ \cup {key}]
    /\ asked' = [asked EXCEPT ![index] = @ \cup {key}]
    /\ UNCHANGED <<stack, rjthread, status, started, called>>

\* With NULL for the callback.
Unregister(index, key) ==
    /\ status = "TS_REGULAR"
    /\ callbacks_on_commit_and_abort' =
           [callbacks_on_commit_and_abort EXCEPT ![index] = @ \ {key}]
    /\ asked' = [asked EXCEPT ![index] = @ \ {key}]
    /\ UNCHANGED <<stack, rjthread, status, started, called>>

\* A transaction that cannot abort, and none, call a commit callback at once.
stm_call_on_commit(key) ==
    \/ register_callbacks(COMMIT, key)
    \/ /\ status \in {"TS_INEVITABLE", "TS_NONE"} /\ key \notin called[COMMIT]
       /\ asked' = [asked EXCEPT ![COMMIT] = @ \cup {key}]
       /\ called' = [called EXCEPT ![COMMIT] = @ \cup {key}]
       /\ UNCHANGED <<stack, rjthread, status, callbacks_on_commit_and_abort, started>>

stm_call_on_abort(key) == register_callbacks(ABORT, key)

\* The callbacks of the other group are dropped, those of this one are called.
\* A callback that unregisters itself finds nothing to unregister.
invoke_and_clear_user_callbacks(index) ==
    /\ callbacks_on_commit_and_abort' = NoCalls
    /\ called' = [called EXCEPT ![index] = @ \cup callbacks_on_commit_and_abort[index]]

-----------------------------------------------------------------------------
(* The transaction, in core.c.                                             *)

\* What both ways to start have in common: from here on the ghosts look at
\* a new transaction.
_stm_start_transaction(frames) ==
    /\ status' = "TS_REGULAR"
    /\ started' = frames
    /\ asked' = NoCalls /\ called' = NoCalls

stm_start_transaction ==
    /\ status = "TS_NONE" /\ stack # <<>>
    /\ rjthread' = rewind_jmp_setjmp(rjthread, stack, 0)
    /\ _stm_start_transaction(stack)
    /\ UNCHANGED <<stack, callbacks_on_commit_and_abort>>

_stm_become_inevitable ==
    /\ status = "TS_REGULAR" /\ rewind_jmp_armed
    /\ status' = "TS_INEVITABLE"
    /\ rjthread' = rewind_jmp_forget(rjthread)
    /\ invoke_and_clear_user_callbacks(COMMIT)
    /\ started' = <<>>
    /\ UNCHANGED <<stack, asked>>

\* c8 calls the callbacks before rewind_jmp_forget(), with the same result.
stm_commit_transaction ==
    /\ status \in {"TS_REGULAR", "TS_INEVITABLE"}
    /\ status' = "TS_NONE"
    /\ rjthread' = rewind_jmp_forget(rjthread)
    /\ invoke_and_clear_user_callbacks(COMMIT)
    /\ started' = <<>>
    /\ UNCHANGED <<stack, asked>>

\* abort_with_mutex() up to the point where it releases the mutex: the shadow
\* stack is already as it was, for a collection of another thread.
abort_with_mutex_no_longjmp ==
    /\ status = "TS_REGULAR" /\ rjthread.repeat_count < MAX_RESTARTS
    /\ status' = "restarting"
    /\ invoke_and_clear_user_callbacks(ABORT)
    /\ stack' = [i \in 1..Len(stack) |->
                     IF i <= Len(Restored) THEN [stack[i] EXCEPT !.ss = Restored[i].ss]
                                           ELSE [stack[i] EXCEPT !.ss = <<>>]]
    /\ UNCHANGED <<rjthread, started, asked>>

\* The longjmp, the second return of setjmp, and the new start.
rewind_jmp_longjmp ==
    /\ status = "restarting"
    /\ stack' = Restored
    /\ rjthread' = rewind_jmp_setjmp([rjthread EXCEPT !.head = rjthread.initial_head],
                                     Restored, rjthread.repeat_count + 1)
    /\ _stm_start_transaction(started)
    /\ UNCHANGED callbacks_on_commit_and_abort

Init ==
    /\ stack = <<>>
    /\ rjthread = [head |-> 0, initial_head |-> 0, moved_off_base |-> 0,
                   moved_off |-> <<>>, repeat_count |-> 0]
    /\ status = "TS_NONE"
    /\ callbacks_on_commit_and_abort = NoCalls
    /\ started = <<>>
    /\ asked = NoCalls /\ called = NoCalls

Next ==
    \/ stm_rewind_jmp_enterframe \/ stm_rewind_jmp_leaveframe \/ Run
    \/ \E key \in Keys : \/ stm_call_on_commit(key) \/ stm_call_on_abort(key)
                         \/ \E index \in {COMMIT, ABORT} : Unregister(index, key)
    \/ stm_start_transaction \/ _stm_become_inevitable \/ stm_commit_transaction
    \/ abort_with_mutex_no_longjmp \/ rewind_jmp_longjmp

Spec == Init /\ [][Next]_vars

-----------------------------------------------------------------------------
\* A transaction that may still abort can always be restarted as it began:
\* the frames that have not been left since, with the slices on top of them,
\* are the stacks of its start, whatever has been left,
\* changed and entered again in between.  (copy_stack, leaveframe and do_longjmp.)
RestartsAsItBegan ==
    status \in {"TS_REGULAR", "restarting"} =>
        /\ rewind_jmp_armed
        /\ Restored = started /\ rjthread.initial_head = Len(started)

\* Callbacks are called when the fate of the transaction is known, those of
\* the right kind, all of them, no other one, and none is left for the next
\* transaction of the segment.
CallbacksOnce ==
    /\ status = "TS_REGULAR" => called = NoCalls /\ callbacks_on_commit_and_abort = asked
    /\ status = "TS_INEVITABLE" => called = <<asked[COMMIT], {}>>
    /\ status = "restarting" => called = <<{}, asked[ABORT]>>
    /\ status = "TS_NONE" => called = <<asked[COMMIT], {}>>
    /\ status # "TS_REGULAR" => callbacks_on_commit_and_abort = NoCalls

\* What an abort leaves behind of the transaction: nothing.  The thread is
\* where the transaction began, with the frames it had there, and each of
\* the callbacks was called once or not at all.
AbortsStartOver == RestartsAsItBegan /\ CallbacksOnce
=============================================================================
