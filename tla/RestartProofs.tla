--------------------------- MODULE RestartProofs ---------------------------
(* A transaction can always be restarted as it began, and its callbacks    *)
(* are called once, for any frames, variables, references and keys and any *)
(* number of frames and restarts.                                          *)
EXTENDS Restart, SequenceTheorems, TLAPS

\* What is on both stacks between two frames.
Frames == [local : Values \cup {NewFrame.local}, ss : Seq(Roots)]

TypeOK ==
  /\ stack \in Seq(Frames)
  /\ rjthread \in [head : Nat, initial_head : Nat, moved_off_base : Nat,
                   moved_off : Seq(Frames), repeat_count : Nat]
  /\ status \in {"TS_NONE", "TS_REGULAR", "TS_INEVITABLE", "restarting"}
  /\ callbacks_on_commit_and_abort \in (SUBSET Keys) \X (SUBSET Keys)
  /\ started \in Seq(Frames)
  /\ asked \in (SUBSET Keys) \X (SUBSET Keys)
  /\ called \in (SUBSET Keys) \X (SUBSET Keys)

Undoable == status \in {"TS_REGULAR", "restarting"}

\* The head is the innermost frame; the slices begin at a frame that is
\* still there, or at none if there is nothing to go back to.
SliceInv ==
  /\ rjthread.head = Len(stack)
  /\ Undoable => /\ rjthread.moved_off_base \in 1..Len(stack)
                 /\ rjthread.moved_off # <<>>
                 /\ Restored = started
                 /\ rjthread.initial_head = Len(started)
  /\ ~Undoable => rjthread.moved_off_base = 0

RestartInv == TypeOK /\ SliceInv /\ CallbacksOnce

-----------------------------------------------------------------------------
(* Frames and slices.                                                      *)

\* The frames below the nth.
LEMMA Below ==
  ASSUME NEW S, NEW a \in Seq(S), NEW n \in 1..(Len(a) + 1)
  PROVE  /\ SubSeq(a, 1, n - 1) \in Seq(S) /\ Len(SubSeq(a, 1, n - 1)) = n - 1
         /\ \A i \in 1..(n - 1) : SubSeq(a, 1, n - 1)[i] = a[i]
  OBVIOUS

\* The frames below the innermost one, and that one.
LEMMA FrontAndLast ==
  ASSUME NEW S, NEW a \in Seq(S), a # <<>>
  PROVE  /\ Len(a) \in Nat \ {0}
         /\ Front(a) \in Seq(S) /\ Len(Front(a)) = Len(a) - 1
         /\ \A i \in 1..(Len(a) - 1) : Front(a)[i] = a[i]
         /\ Last(a) = a[Len(a)] /\ Last(a) \in S
         /\ a = Front(a) \o <<a[Len(a)]>>
  <1>1. Len(a) \in Nat \ {0}
    BY EmptySeq
  <1>2. /\ SubSeq(a, 1, Len(a) - 1) \in Seq(S)
        /\ Len(SubSeq(a, 1, Len(a) - 1)) = Len(a) - 1
        /\ \A i \in 1..(Len(a) - 1) : SubSeq(a, 1, Len(a) - 1)[i] = a[i]
    <2>1. Len(a) \in 1..(Len(a) + 1)
      BY <1>1
    <2> QED BY <2>1, Below
  <1>3. Last(a) = a[Len(a)] /\ Last(a) \in S
    BY <1>1, ElementOfSeq DEF Last
  <1>4. SubSeq(a, 1, Len(a)) = SubSeq(a, 1, Len(a) - 1) \o <<a[Len(a)]>>
    BY <1>1, SubSeqRecursiveSecond
  <1>5. SubSeq(a, 1, Len(a)) = a
    BY SubSeqFull
  <1> QED BY <1>1, <1>2, <1>3, <1>4, <1>5 DEF Front

\* Only the frames below the slices count.
LEMMA SameBelow ==
  ASSUME NEW S, NEW a \in Seq(S), NEW c \in Seq(S), NEW n \in Nat \ {0},
         n <= Len(a) + 1, n <= Len(c) + 1,
         \A i \in 1..(n - 1) : a[i] = c[i]
  PROVE  SubSeq(a, 1, n - 1) = SubSeq(c, 1, n - 1)
  <1> DEFINE p == SubSeq(a, 1, n - 1)  q == SubSeq(c, 1, n - 1)
  <1>1. /\ p \in Seq(S) /\ Len(p) = n - 1 /\ \A i \in 1..(n - 1) : p[i] = a[i]
        /\ q \in Seq(S) /\ Len(q) = n - 1 /\ \A i \in 1..(n - 1) : q[i] = c[i]
    BY Below
  <1>2. \A i \in 1..Len(p) : p[i] = q[i]
    BY <1>1
  <1> QED BY <1>1, <1>2, SeqEqual

\* What is restored, element by element.
LEMMA RestoredParts ==
  ASSUME NEW S, NEW a \in Seq(S), NEW b \in Seq(S), NEW n \in 1..Len(a)
  PROVE  LET c == SubSeq(a, 1, n - 1) \o b IN
         /\ c \in Seq(S) /\ Len(c) = n - 1 + Len(b)
         /\ \A i \in 1..(n - 1) : c[i] = a[i]
  <1>1. /\ SubSeq(a, 1, n - 1) \in Seq(S) /\ Len(SubSeq(a, 1, n - 1)) = n - 1
        /\ \A i \in 1..(n - 1) : SubSeq(a, 1, n - 1)[i] = a[i]
    BY Below
  <1> QED BY <1>1, ConcatProperties

\* It stays the same when one more frame is in a slice instead of on the stack.
LEMMA SliceMoves ==
  ASSUME NEW S, NEW a \in Seq(S), NEW b \in Seq(S), Len(a) >= 1
  PROVE  a \o b = SubSeq(a, 1, Len(a) - 1) \o (<<a[Len(a)]>> \o b)
  <1>1. a # <<>>
    BY EmptySeq
  <1>2. Front(a) \in Seq(S) /\ a[Len(a)] \in S /\ a = Front(a) \o <<a[Len(a)]>>
    BY <1>1, FrontAndLast
  <1>3. (Front(a) \o <<a[Len(a)]>>) \o b = Front(a) \o (<<a[Len(a)]>> \o b)
    BY SMTT(30), <1>2, ConcatAssociative
  <1> QED BY <1>2, <1>3 DEF Front

-----------------------------------------------------------------------------
(* The steps of rewind_setjmp.c.                                           *)

\* What the invariant says of the fields.
LEMMA Facts ==
  ASSUME TypeOK
  PROVE  /\ stack \in Seq(Frames) /\ Len(stack) \in Nat
         /\ rjthread.head \in Nat /\ rjthread.moved_off_base \in Nat
         /\ rjthread.moved_off \in Seq(Frames) /\ rjthread.initial_head \in Nat
         /\ rjthread.repeat_count \in Nat
         /\ NewFrame \in Frames
  <1>1. NewFrame \in Frames
    <2>1. <<>> \in Seq(Roots)
      BY EmptySeq
    <2>2. NewFrame = [local |-> NewFrame.local, ss |-> <<>>]
      BY DEF NewFrame
    <2>3. \A l : [local |-> l, ss |-> <<>>] \in [local : Values \cup {l}, ss : Seq(Roots)]
      BY <2>1
    <2> QED BY <2>2, <2>3 DEF Frames
  <1> QED BY <1>1, LenProperties DEF TypeOK

\* The stack of now, as far as what is restored depends on it.
LEMMA RestoredSame ==
  ASSUME TypeOK, SliceInv, Undoable, stack' \in Seq(Frames),
         rjthread'.moved_off_base = rjthread.moved_off_base,
         rjthread'.moved_off = rjthread.moved_off,
         rjthread.moved_off_base <= Len(stack') + 1,
         \A i \in 1..(rjthread.moved_off_base - 1) : stack'[i] = stack[i]
  PROVE  Restored' = Restored
  <1>1. /\ rjthread.moved_off_base \in Nat \ {0}
        /\ rjthread.moved_off_base <= Len(stack) + 1
    BY Facts DEF SliceInv
  <1>2. Len(stack') \in Nat
    BY LenProperties
  <1>3. SubSeq(stack', 1, rjthread.moved_off_base - 1)
          = SubSeq(stack, 1, rjthread.moved_off_base - 1)
    BY <1>1, <1>2, Facts, SameBelow
  <1> QED BY <1>3 DEF Restored

\* A frame entered is above all that was copied.
LEMMA NextEnter ==
  ASSUME RestartInv, stm_rewind_jmp_enterframe
  PROVE  RestartInv'
  <1> USE DEF stm_rewind_jmp_enterframe
  <1>1. TypeOK /\ SliceInv /\ CallbacksOnce
    BY DEF RestartInv
  <1>2. /\ stack' \in Seq(Frames) /\ Len(stack') = Len(stack) + 1
        /\ \A i \in 1..Len(stack) : stack'[i] = stack[i]
    BY <1>1, Facts, AppendProperties
  <1>3. rjthread' = [rjthread EXCEPT !.head = Len(stack')]
    BY <1>2
  <1>4. TypeOK'
    <2>1. Len(stack') \in Nat
      BY <1>2, LenProperties
    <2> QED BY <1>1, <1>2, <1>3, <2>1 DEF TypeOK
  <1>5. SliceInv'
    <2>1. /\ rjthread'.head = Len(stack')
          /\ rjthread'.moved_off_base = rjthread.moved_off_base
          /\ rjthread'.moved_off = rjthread.moved_off
          /\ rjthread'.initial_head = rjthread.initial_head
      BY <1>1, <1>3 DEF TypeOK
    <2>2. CASE Undoable
      <3>1. rjthread.moved_off_base \in 1..Len(stack)
        BY <1>1, <2>2 DEF SliceInv
      <3>2. Restored' = Restored
        <4>1. /\ rjthread.moved_off_base <= Len(stack') + 1
              /\ \A i \in 1..(rjthread.moved_off_base - 1) : stack'[i] = stack[i]
          BY <1>1, <1>2, <3>1, Facts
        <4> QED BY <1>1, <1>2, <2>1, <2>2, <4>1, RestoredSame
      <3>3. rjthread'.moved_off_base \in 1..Len(stack')
        BY <1>1, <1>2, <2>1, <3>1, Facts
      <3> QED BY <1>1, <2>1, <2>2, <3>2, <3>3 DEF SliceInv, Undoable
    <2>3. CASE ~Undoable
      BY <1>1, <2>1, <2>3 DEF SliceInv, Undoable
    <2> QED BY <2>2, <2>3
  <1>6. CallbacksOnce'
    BY <1>1 DEF CallbacksOnce
  <1> QED BY <1>4, <1>5, <1>6 DEF RestartInv

\* A frame that is left is copied just before the program can change the one
\* below it.
LEMMA NextLeave ==
  ASSUME RestartInv, stm_rewind_jmp_leaveframe
  PROVE  RestartInv'
  <1> USE DEF stm_rewind_jmp_leaveframe
  <1>1. TypeOK /\ SliceInv /\ CallbacksOnce
    BY DEF RestartInv
  <1> DEFINE left == [rjthread EXCEPT !.head = @ - 1]
  <1>2. /\ stack' \in Seq(Frames) /\ Len(stack) \in Nat \ {0}
        /\ Len(stack') = Len(stack) - 1
        /\ \A i \in 1..(Len(stack) - 1) : stack'[i] = stack[i]
    BY <1>1, Facts, FrontAndLast
  <1>3. /\ left.head = Len(stack')
        /\ left.moved_off_base = rjthread.moved_off_base
        /\ left.moved_off = rjthread.moved_off
        /\ left.initial_head = rjthread.initial_head
        /\ left \in [head : Nat, initial_head : Nat, moved_off_base : Nat,
                     moved_off : Seq(Frames), repeat_count : Nat]
    <2>1. rjthread.head = Len(stack) /\ Len(stack) - 1 \in Nat
      BY <1>1, <1>2 DEF SliceInv
    <2> QED BY <1>1, <1>2, <2>1 DEF TypeOK
  <1>4. CallbacksOnce'
    BY <1>1 DEF CallbacksOnce
  <1>5. CASE ~Undoable
    <2>1. rjthread.head # rjthread.moved_off_base
      BY <1>1, <1>2, <1>5 DEF SliceInv
    <2>2. rjthread' = left
      BY <2>1
    <2> HIDE DEF left
    <2>3. TypeOK'
      BY <1>1, <1>2, <1>3, <2>2 DEF TypeOK
    <2>4. SliceInv'
      BY <1>1, <1>3, <1>5, <2>2 DEF SliceInv, Undoable
    <2> QED BY <1>4, <2>3, <2>4 DEF RestartInv
  <1>6. CASE Undoable /\ rjthread.head # rjthread.moved_off_base
    <2>1. rjthread' = left
      BY <1>6
    <2> HIDE DEF left
    <2>2. TypeOK'
      BY <1>1, <1>2, <1>3, <2>1 DEF TypeOK
    <2>3. rjthread.moved_off_base \in 1..Len(stack')
      BY <1>1, <1>2, <1>6, Facts DEF SliceInv
    <2>4. Restored' = Restored
      <3>1. /\ rjthread.moved_off_base <= Len(stack') + 1
            /\ \A i \in 1..(rjthread.moved_off_base - 1) : stack'[i] = stack[i]
        BY <1>1, <1>2, <2>3, Facts
      <3> QED BY <1>1, <1>2, <1>3, <1>6, <2>1, <3>1, RestoredSame
    <2>5. SliceInv'
      BY <1>1, <1>3, <1>6, <2>1, <2>3, <2>4 DEF SliceInv, Undoable
    <2> QED BY <1>4, <2>2, <2>5 DEF RestartInv
  <1>7. CASE Undoable /\ rjthread.head = rjthread.moved_off_base
    <2>1. Len(stack) >= 2
      BY <1>2, <1>7 DEF Undoable
    <2>2. rjthread' = copy_stack(left, stack)
      BY <1>2, <1>3, <1>7, <2>1 DEF _rewind_jmp_copy_stack_slice
    <2> DEFINE slice == <<stack[Len(stack')]>>
    <2>3. /\ rjthread'.head = Len(stack')
          /\ rjthread'.moved_off_base = Len(stack')
          /\ rjthread'.moved_off = slice \o rjthread.moved_off
          /\ rjthread'.initial_head = rjthread.initial_head
      BY <1>3, <2>2 DEF copy_stack
    <2>4. stack[Len(stack')] \in Frames /\ stack[Len(stack')] = stack'[Len(stack')]
      BY SMTT(30), <1>1, <1>2, <2>1, ElementOfSeq, Facts
    <2>5. /\ slice \o rjthread.moved_off \in Seq(Frames)
          /\ slice \o rjthread.moved_off # <<>>
      <3>1. slice \in Seq(Frames) /\ Len(slice) = 1
        BY <2>4
      <3>2. Len(slice \o rjthread.moved_off) = 1 + Len(rjthread.moved_off)
        BY <1>1, <3>1, Facts, ConcatProperties
      <3> QED BY <1>1, <3>1, <3>2, Facts, ConcatProperties, EmptySeq, LenProperties
    <2>6. Len(stack') \in Nat /\ Len(stack') >= 1
      BY <1>2, <2>1
    <2>7. TypeOK'
      <3>1. rjthread' = [left EXCEPT !.moved_off = slice \o rjthread.moved_off,
                                     !.moved_off_base = Len(stack')]
        BY <1>3, <2>2 DEF copy_stack
      <3> HIDE DEF left, slice
      <3> QED BY <1>1, <1>2, <1>3, <2>5, <2>6, <3>1 DEF TypeOK
    <2>8. Restored' = Restored
      <3>1. Restored = SubSeq(stack, 1, Len(stack) - 1) \o rjthread.moved_off
        BY <1>1, <1>7 DEF Restored, SliceInv
      <3>2. SubSeq(stack, 1, Len(stack) - 1) = stack'
        BY DEF Front
      <3>3. stack' \o rjthread.moved_off
              = SubSeq(stack', 1, Len(stack') - 1)
                  \o (<<stack'[Len(stack')]>> \o rjthread.moved_off)
        BY <1>1, <1>2, <2>6, Facts, SliceMoves
      <3> QED BY <2>3, <2>4, <3>1, <3>2, <3>3 DEF Restored
    <2>9. SliceInv'
      BY <1>1, <1>7, <2>3, <2>5, <2>6, <2>8 DEF SliceInv, Undoable
    <2> QED BY <1>4, <2>7, <2>9 DEF RestartInv
  <1> QED BY <1>5, <1>6, <1>7

\* The program changes the innermost frame, which is in no slice that counts.
LEMMA NextRun ==
  ASSUME RestartInv, Run
  PROVE  RestartInv'
  <1> USE DEF Run
  <1>1. TypeOK /\ SliceInv /\ CallbacksOnce
    BY DEF RestartInv
  <1>2. /\ Len(stack) \in Nat \ {0}
        /\ stack[Len(stack)] \in Frames
        /\ Last(stack) = stack[Len(stack)]
    <2>1. stack \in Seq(Frames) /\ stack # <<>>
      BY <1>1, Facts
    <2> HIDE DEF Run
    <2> QED BY <2>1, FrontAndLast
  <1>3. PICK f \in Frames : stack' = [stack EXCEPT ![Len(stack)] = f]
    <2>1. CASE \E v \in Values : stack' = [stack EXCEPT ![Len(stack)].local = v]
      <3>1. PICK v \in Values : stack' = [stack EXCEPT ![Len(stack)].local = v]
        BY <2>1
      <3>2. [stack[Len(stack)] EXCEPT !.local = v] \in Frames
        BY <1>2, <3>1 DEF Frames
      <3> QED BY <3>1, <3>2
    <2>2. CASE \E r \in Roots :
                 stack' = [stack EXCEPT ![Len(stack)].ss = Append(@, r)]
      <3>1. PICK r \in Roots : stack' = [stack EXCEPT ![Len(stack)].ss = Append(@, r)]
        BY <2>2
      <3>2. stack[Len(stack)].ss \in Seq(Roots)
        BY <1>2 DEF Frames
      <3>3. Append(stack[Len(stack)].ss, r) \in Seq(Roots)
        BY <3>1, <3>2, AppendProperties
      <3>4. [stack[Len(stack)] EXCEPT !.ss = Append(@, r)] \in Frames
        BY <1>2, <3>3 DEF Frames
      <3> QED BY <3>1, <3>4
    <2>3. CASE /\ Last(stack).ss # <<>>
               /\ stack' = [stack EXCEPT ![Len(stack)].ss = Front(@)]
      <3>1. stack[Len(stack)].ss \in Seq(Roots) /\ stack[Len(stack)].ss # <<>>
        BY <1>2, <2>3 DEF Frames
      <3>2. Front(stack[Len(stack)].ss) \in Seq(Roots)
        BY <3>1, FrontAndLast
      <3>3. [stack[Len(stack)] EXCEPT !.ss = Front(@)] \in Frames
        BY <1>2, <3>2 DEF Frames
      <3> QED BY <2>3, <3>3
    <2> QED BY <2>1, <2>2, <2>3
  <1>4. /\ stack' \in Seq(Frames) /\ Len(stack') = Len(stack)
        /\ \A i \in 1..(Len(stack) - 1) : stack'[i] = stack[i]
    BY <1>1, <1>2, <1>3, Facts, ExceptSeq
  <1>5. TypeOK'
    BY <1>1, <1>4 DEF TypeOK
  <1>6. SliceInv'
    <2>1. CASE Undoable
      <3>1. rjthread.moved_off_base \in 1..Len(stack)
        BY <1>1, <2>1 DEF SliceInv
      <3>2. Restored' = Restored
        <4>1. /\ rjthread.moved_off_base <= Len(stack') + 1
              /\ \A i \in 1..(rjthread.moved_off_base - 1) : stack'[i] = stack[i]
          BY <1>2, <1>4, <3>1
        <4> QED BY <1>1, <1>4, <2>1, <4>1, RestoredSame
      <3> QED BY <1>1, <1>4, <2>1, <3>2 DEF SliceInv, Undoable
    <2>2. CASE ~Undoable
      BY <1>1, <1>4, <2>2 DEF SliceInv, Undoable
    <2> QED BY <2>1, <2>2
  <1>7. CallbacksOnce'
    BY <1>1 DEF CallbacksOnce
  <1> QED BY <1>5, <1>6, <1>7 DEF RestartInv

-----------------------------------------------------------------------------
(* The callbacks.                                                          *)

\* A pair of sets with one of them changed.
LEMMA PairExcept ==
  ASSUME NEW S, NEW c \in (SUBSET S) \X (SUBSET S), NEW X \in SUBSET S
  PROVE  /\ [c EXCEPT ![COMMIT] = X] = <<X, c[ABORT]>>
         /\ [c EXCEPT ![ABORT] = X] = <<c[COMMIT], X>>
         /\ c = <<c[COMMIT], c[ABORT]>>
         /\ c[COMMIT] \in SUBSET S /\ c[ABORT] \in SUBSET S
         /\ <<X, c[ABORT]>> \in (SUBSET S) \X (SUBSET S)
         /\ <<c[COMMIT], X>> \in (SUBSET S) \X (SUBSET S)
  BY DEF COMMIT, ABORT

\* One list of a pair is replaced.
LEMMA PairIn ==
  ASSUME NEW S, NEW c \in (SUBSET S) \X (SUBSET S), NEW X \in SUBSET S,
         NEW index \in {COMMIT, ABORT}
  PROVE  [c EXCEPT ![index] = X] \in (SUBSET S) \X (SUBSET S)
  <1>1. CASE index = COMMIT
    <2>1. [c EXCEPT ![COMMIT] = X] = <<X, c[ABORT]>>
          /\ <<X, c[ABORT]>> \in (SUBSET S) \X (SUBSET S)
      BY DEF COMMIT, ABORT
    <2> QED BY <1>1, <2>1
  <1>2. CASE index = ABORT
    <2>1. [c EXCEPT ![ABORT] = X] = <<c[COMMIT], X>>
          /\ <<c[COMMIT], X>> \in (SUBSET S) \X (SUBSET S)
      BY DEF COMMIT, ABORT
    <2> QED BY <1>2, <2>1
  <1> QED BY <1>1, <1>2

\* Callbacks have nothing to do with stacks.
LEMMA SameStacks ==
  ASSUME TypeOK, SliceInv, UNCHANGED <<stack, rjthread, status, started>>
  PROVE  SliceInv'
  BY DEF SliceInv, Undoable, Restored

\* The callbacks registered stay those that the program asked for.
LEMMA NextCall ==
  ASSUME RestartInv, NEW key \in Keys, NEW index \in {COMMIT, ABORT},
         register_callbacks(index, key) \/ Unregister(index, key)
  PROVE  RestartInv'
  <1>1. TypeOK /\ SliceInv /\ CallbacksOnce
    BY DEF RestartInv
  <1>2. UNCHANGED <<stack, rjthread, status, started, called>> /\ status = "TS_REGULAR"
    BY DEF register_callbacks, Unregister
  <1>3. callbacks_on_commit_and_abort = asked
    BY <1>1, <1>2 DEF CallbacksOnce
  <1>4. callbacks_on_commit_and_abort' = asked'
    BY <1>3 DEF register_callbacks, Unregister
  <1>5. asked' \in (SUBSET Keys) \X (SUBSET Keys)
    <2>1. asked \in (SUBSET Keys) \X (SUBSET Keys)
      BY <1>1 DEF TypeOK
    <2>2. asked[index] \in SUBSET Keys
      BY <2>1, PairExcept
    <2>3. /\ asked[index] \cup {key} \in SUBSET Keys
          /\ asked[index] \ {key} \in SUBSET Keys
      BY <2>2
    <2>4. \E X \in SUBSET Keys : asked' = [asked EXCEPT ![index] = X]
      BY <2>3 DEF register_callbacks, Unregister
    <2>5. PICK X \in SUBSET Keys : asked' = [asked EXCEPT ![index] = X]
      BY <2>4
    <2> QED BY <2>1, <2>5, PairIn
  <1>6. TypeOK'
    BY <1>1, <1>2, <1>4, <1>5 DEF TypeOK
  <1>7. CallbacksOnce'
    BY <1>1, <1>2, <1>4 DEF CallbacksOnce
  <1> QED BY <1>1, <1>2, <1>6, <1>7, SameStacks DEF RestartInv

\* Outside of a transaction, and in one that cannot abort, at once.
LEMMA NextCallAtOnce ==
  ASSUME RestartInv, NEW key \in Keys, stm_call_on_commit(key), status # "TS_REGULAR"
  PROVE  RestartInv'
  <1>1. TypeOK /\ SliceInv /\ CallbacksOnce
    BY DEF RestartInv
  <1>2. /\ UNCHANGED <<stack, rjthread, status, callbacks_on_commit_and_abort, started>>
        /\ status \in {"TS_INEVITABLE", "TS_NONE"}
        /\ asked' = [asked EXCEPT ![COMMIT] = @ \cup {key}]
        /\ called' = [called EXCEPT ![COMMIT] = @ \cup {key}]
    BY DEF stm_call_on_commit, register_callbacks
  <1>3. /\ asked \in (SUBSET Keys) \X (SUBSET Keys)
        /\ called \in (SUBSET Keys) \X (SUBSET Keys)
    BY <1>1 DEF TypeOK
  <1>4. called = <<asked[COMMIT], {}>> /\ callbacks_on_commit_and_abort = NoCalls
    BY <1>1, <1>2 DEF CallbacksOnce
  <1>5. called[COMMIT] = asked[COMMIT] /\ called[ABORT] = {}
    BY <1>4 DEF COMMIT, ABORT
  <1> DEFINE X == asked[COMMIT] \cup {key}
  <1>6. X \in SUBSET Keys
    <2>1. asked[COMMIT] \in SUBSET Keys
      BY <1>3, PairExcept
    <2> QED BY <2>1
  <1>7. asked' = [asked EXCEPT ![COMMIT] = X] /\ called' = [called EXCEPT ![COMMIT] = X]
    BY <1>2, <1>5
  <1> HIDE DEF X
  <1>8. asked' = <<X, asked[ABORT]>> /\ called' = <<X, {}>>
    <2>1. [asked EXCEPT ![COMMIT] = X] = <<X, asked[ABORT]>>
      BY <1>3, <1>6 DEF COMMIT, ABORT
    <2>2. [called EXCEPT ![COMMIT] = X] = <<X, called[ABORT]>>
      BY <1>3, <1>6 DEF COMMIT, ABORT
    <2> QED BY <1>5, <1>7, <2>1, <2>2
  <1>9. asked' \in (SUBSET Keys) \X (SUBSET Keys) /\ asked'[COMMIT] = X
    BY <1>3, <1>6, <1>8, PairExcept DEF COMMIT
  <1>10. TypeOK'
    <2>1. called' \in (SUBSET Keys) \X (SUBSET Keys)
      BY <1>6, <1>8
    <2> QED BY <1>1, <1>2, <1>9, <2>1 DEF TypeOK
  <1>11. CallbacksOnce'
    BY <1>2, <1>4, <1>8, <1>9 DEF CallbacksOnce
  <1> QED BY <1>1, <1>2, <1>10, <1>11, SameStacks DEF RestartInv

\* Calling one group, if nothing has been called, or nothing is left.
LEMMA Invoked ==
  ASSUME TypeOK, NEW index \in {COMMIT, ABORT}, invoke_and_clear_user_callbacks(index)
  PROVE  /\ called' \in (SUBSET Keys) \X (SUBSET Keys)
         /\ callbacks_on_commit_and_abort' = NoCalls
         /\ callbacks_on_commit_and_abort' \in (SUBSET Keys) \X (SUBSET Keys)
         /\ callbacks_on_commit_and_abort = NoCalls => called' = called
         /\ called = NoCalls /\ index = COMMIT =>
              called' = <<callbacks_on_commit_and_abort[COMMIT], {}>>
         /\ called = NoCalls /\ index = ABORT =>
              called' = <<{}, callbacks_on_commit_and_abort[ABORT]>>
  <1> DEFINE X == called[index] \cup callbacks_on_commit_and_abort[index]
  <1>1. /\ called \in (SUBSET Keys) \X (SUBSET Keys)
        /\ callbacks_on_commit_and_abort \in (SUBSET Keys) \X (SUBSET Keys)
    BY DEF TypeOK
  <1>2. called[index] \in SUBSET Keys /\ callbacks_on_commit_and_abort[index] \in SUBSET Keys
    BY <1>1, PairExcept
  <1>3. X \in SUBSET Keys /\ called' = [called EXCEPT ![index] = X]
    BY <1>2 DEF invoke_and_clear_user_callbacks
  <1>4. NoCalls[COMMIT] = {} /\ NoCalls[ABORT] = {}
    BY DEF NoCalls, COMMIT, ABORT
  <1>5. callbacks_on_commit_and_abort = NoCalls => X = called[index]
    BY <1>4
  <1>6. called = NoCalls => X = callbacks_on_commit_and_abort[index]
    BY <1>4
  <1> HIDE DEF X
  <1>7. called' \in (SUBSET Keys) \X (SUBSET Keys)
    BY <1>1, <1>3, PairIn
  <1>8. callbacks_on_commit_and_abort = NoCalls => called' = called
    BY <1>1, <1>3, <1>5
  <1>9. called = NoCalls /\ index = COMMIT =>
          called' = <<callbacks_on_commit_and_abort[COMMIT], {}>>
    <2>1. [called EXCEPT ![COMMIT] = X] = <<X, called[ABORT]>>
      BY <1>1, <1>3 DEF COMMIT, ABORT
    <2> QED BY <1>3, <1>4, <1>6, <2>1
  <1>10. called = NoCalls /\ index = ABORT =>
          called' = <<{}, callbacks_on_commit_and_abort[ABORT]>>
    <2>1. [called EXCEPT ![ABORT] = X] = <<called[COMMIT], X>>
      BY <1>1, <1>3 DEF COMMIT, ABORT
    <2> QED BY <1>3, <1>4, <1>6, <2>1
  <1>11. /\ callbacks_on_commit_and_abort' = NoCalls
         /\ callbacks_on_commit_and_abort' \in (SUBSET Keys) \X (SUBSET Keys)
    BY DEF invoke_and_clear_user_callbacks, NoCalls
  <1> QED BY <1>7, <1>8, <1>9, <1>10, <1>11

-----------------------------------------------------------------------------
(* The steps of core.c.                                                    *)

\* The frame at the head is copied when a transaction starts.
LEMMA SetjmpFacts ==
  ASSUME NEW frames \in Seq(Frames), NEW n \in Nat,
         NEW rj \in [head : Nat, initial_head : Nat, moved_off_base : Nat,
                     moved_off : Seq(Frames), repeat_count : Nat],
         rj.head = Len(frames), frames # <<>>
  PROVE  LET new == rewind_jmp_setjmp(rj, frames, n) IN
         /\ new \in [head : Nat, initial_head : Nat, moved_off_base : Nat,
                     moved_off : Seq(Frames), repeat_count : Nat]
         /\ new.head = Len(frames) /\ new.initial_head = Len(frames)
         /\ new.moved_off_base = Len(frames)
         /\ Len(frames) \in Nat \ {0}
         /\ new.moved_off # <<>>
         /\ SubSeq(frames, 1, new.moved_off_base - 1) \o new.moved_off = frames
  <1> DEFINE new == rewind_jmp_setjmp(rj, frames, n)
  <1>1. Len(frames) \in Nat \ {0} /\ frames[Len(frames)] \in Frames
    BY FrontAndLast
  <1>2. <<frames[Len(frames)]>> \o <<>> = <<frames[Len(frames)]>>
    <2>1. <<frames[Len(frames)]>> \in Seq(Frames)
      BY <1>1
    <2> QED BY <2>1, ConcatEmptySeq
  <1>3. new = [rj EXCEPT !.initial_head = Len(frames), !.repeat_count = n,
                         !.moved_off = <<frames[Len(frames)]>>,
                         !.moved_off_base = Len(frames)]
    BY <1>2 DEF rewind_jmp_setjmp, copy_stack, _rewind_jmp_free_stack_slices
  <1> HIDE DEF new
  <1>4. /\ <<frames[Len(frames)]>> \in Seq(Frames)
        /\ <<frames[Len(frames)]>> # <<>>
    BY <1>1
  <1>5. /\ new \in [head : Nat, initial_head : Nat, moved_off_base : Nat,
                    moved_off : Seq(Frames), repeat_count : Nat]
        /\ new.head = Len(frames) /\ new.initial_head = Len(frames)
        /\ new.moved_off_base = Len(frames)
        /\ new.moved_off = <<frames[Len(frames)]>>
    BY <1>1, <1>3, <1>4
  <1>6. SubSeq(frames, 1, Len(frames) - 1) \o <<frames[Len(frames)]>> = frames
    BY FrontAndLast DEF Front
  <1> QED BY <1>1, <1>4, <1>5, <1>6 DEF new

\* A start copies the frame on top, and the stack it is from is whole.
LEMMA NextStart ==
  ASSUME RestartInv, stm_start_transaction
  PROVE  RestartInv'
  <1> USE DEF stm_start_transaction, _stm_start_transaction
  <1>1. TypeOK /\ SliceInv /\ CallbacksOnce
    BY DEF RestartInv
  <1>2. /\ stack \in Seq(Frames) /\ stack # <<>> /\ rjthread.head = Len(stack)
        /\ rjthread \in [head : Nat, initial_head : Nat, moved_off_base : Nat,
                         moved_off : Seq(Frames), repeat_count : Nat]
        /\ rjthread' = rewind_jmp_setjmp(rjthread, stack, 0)
    BY <1>1 DEF TypeOK, SliceInv
  <1>3. /\ rjthread' \in [head : Nat, initial_head : Nat, moved_off_base : Nat,
                          moved_off : Seq(Frames), repeat_count : Nat]
        /\ rjthread'.head = Len(stack) /\ rjthread'.initial_head = Len(stack)
        /\ rjthread'.moved_off_base = Len(stack) /\ rjthread'.moved_off # <<>>
        /\ Len(stack) \in Nat \ {0}
        /\ SubSeq(stack, 1, rjthread'.moved_off_base - 1) \o rjthread'.moved_off = stack
    <2>1. 0 \in Nat
      OBVIOUS
    <2> HIDE DEF stm_start_transaction, _stm_start_transaction
    <2> QED BY <1>2, <2>1, SetjmpFacts
  <1>4. /\ status' = "TS_REGULAR" /\ started' = stack /\ stack' = stack
        /\ asked' = NoCalls /\ called' = NoCalls
        /\ callbacks_on_commit_and_abort' = NoCalls
    BY <1>1 DEF CallbacksOnce
  <1>5. NoCalls \in (SUBSET Keys) \X (SUBSET Keys)
    BY DEF NoCalls
  <1>6. TypeOK'
    BY <1>1, <1>3, <1>4, <1>5 DEF TypeOK
  <1>7. SliceInv'
    <2>1. Restored' = stack'
      BY <1>3, <1>4 DEF Restored
    <2> HIDE DEF stm_start_transaction, _stm_start_transaction
    <2> QED BY <1>3, <1>4, <2>1 DEF SliceInv, Undoable
  <1>8. CallbacksOnce'
    BY <1>4 DEF CallbacksOnce
  <1> QED BY <1>6, <1>7, <1>8 DEF RestartInv

\* The slices are thrown away when there is nothing to go back to any more.
LEMMA NextForget ==
  ASSUME RestartInv, _stm_become_inevitable \/ stm_commit_transaction
  PROVE  RestartInv'
  <1>1. TypeOK /\ SliceInv /\ CallbacksOnce
    BY DEF RestartInv
  <1>2. /\ status \in {"TS_REGULAR", "TS_INEVITABLE"}
        /\ status' \in {"TS_NONE", "TS_INEVITABLE"}
        /\ rjthread' = [rjthread EXCEPT !.moved_off = <<>>, !.moved_off_base = 0]
        /\ started' = <<>> /\ stack' = stack /\ asked' = asked
        /\ invoke_and_clear_user_callbacks(COMMIT)
    BY DEF _stm_become_inevitable, stm_commit_transaction, rewind_jmp_forget,
       _rewind_jmp_free_stack_slices
  <1>3. /\ called' \in (SUBSET Keys) \X (SUBSET Keys)
        /\ callbacks_on_commit_and_abort' = NoCalls
        /\ callbacks_on_commit_and_abort' \in (SUBSET Keys) \X (SUBSET Keys)
        /\ callbacks_on_commit_and_abort = NoCalls => called' = called
        /\ called = NoCalls => called' = <<callbacks_on_commit_and_abort[COMMIT], {}>>
    BY <1>1, <1>2, Invoked
  <1>4. called' = <<asked[COMMIT], {}>>
    <2>1. CASE status = "TS_REGULAR"
      BY <1>1, <1>3, <2>1 DEF CallbacksOnce
    <2>2. CASE status = "TS_INEVITABLE"
      BY <1>1, <1>3, <2>2 DEF CallbacksOnce
    <2> QED BY <1>2, <2>1, <2>2
  <1>5. TypeOK'
    <2>1. <<>> \in Seq(Frames)
      BY EmptySeq
    <2> QED BY <1>1, <1>2, <1>3, <2>1 DEF TypeOK
  <1>6. SliceInv'
    BY <1>1, <1>2 DEF SliceInv, Undoable, TypeOK
  <1>7. CallbacksOnce'
    BY <1>2, <1>3, <1>4 DEF CallbacksOnce
  <1> QED BY <1>5, <1>6, <1>7 DEF RestartInv

\* An abort gives the shadow stack back before it gives the rest back.
LEMMA NextAbort ==
  ASSUME RestartInv, abort_with_mutex_no_longjmp
  PROVE  RestartInv'
  <1>1. TypeOK /\ SliceInv /\ CallbacksOnce
    BY DEF RestartInv
  <1>2. /\ status = "TS_REGULAR" /\ status' = "restarting"
        /\ rjthread' = rjthread /\ started' = started /\ asked' = asked
        /\ invoke_and_clear_user_callbacks(ABORT)
        /\ stack' = [i \in 1..Len(stack) |->
                       IF i <= Len(Restored) THEN [stack[i] EXCEPT !.ss = Restored[i].ss]
                                             ELSE [stack[i] EXCEPT !.ss = <<>>]]
    BY DEF abort_with_mutex_no_longjmp
  <1>3. /\ Restored \in Seq(Frames)
        /\ Len(Restored) = rjthread.moved_off_base - 1 + Len(rjthread.moved_off)
        /\ \A i \in 1..(rjthread.moved_off_base - 1) : Restored[i] = stack[i]
        /\ rjthread.moved_off_base \in 1..Len(stack)
    <2>1. rjthread.moved_off_base \in 1..Len(stack)
      BY <1>1, <1>2 DEF SliceInv, Undoable
    <2> QED BY <1>1, <2>1, Facts, RestoredParts DEF Restored
  <1>4. stack' \in Seq(Frames) /\ Len(stack') = Len(stack)
    <2>1. \A i \in 1..Len(stack) : stack[i] \in Frames
      BY <1>1, Facts, ElementOfSeq
    <2>2. \A i \in 1..Len(Restored) : Restored[i] \in Frames
      BY <1>3, ElementOfSeq
    <2>3. <<>> \in Seq(Roots)
      BY EmptySeq
    <2>4. ASSUME NEW i \in 1..Len(stack)
          PROVE  (IF i <= Len(Restored) THEN [stack[i] EXCEPT !.ss = Restored[i].ss]
                                        ELSE [stack[i] EXCEPT !.ss = <<>>]) \in Frames
      <3>1. \A r \in Seq(Roots) : [stack[i] EXCEPT !.ss = r] \in Frames
        BY <2>1 DEF Frames
      <3>2. CASE i <= Len(Restored)
        <4>1. i \in 1..Len(Restored)
          BY <1>3, <3>2, LenProperties
        <4>2. Restored[i].ss \in Seq(Roots)
          BY <2>2, <4>1 DEF Frames
        <4> QED BY <3>1, <3>2, <4>2
      <3> QED BY <2>3, <3>1, <3>2
    <2>5. Len(stack) \in Nat
      BY <1>1, Facts
    <2>6. stack' \in [1..Len(stack) -> Frames]
      BY <1>2, <2>4
    <2> QED BY <2>5, <2>6
  <1>5. \A i \in 1..(rjthread.moved_off_base - 1) : stack'[i] = stack[i]
    <2> SUFFICES ASSUME NEW i \in 1..(rjthread.moved_off_base - 1)
                 PROVE  stack'[i] = stack[i]
      OBVIOUS
    <2>1. i \in 1..Len(stack) /\ i <= Len(Restored) /\ Restored[i] = stack[i]
      BY <1>1, <1>3, Facts, LenProperties
    <2>2. stack'[i] = [stack[i] EXCEPT !.ss = stack[i].ss]
      BY <1>2, <2>1
    <2>3. stack[i] \in Frames
      BY <1>1, <2>1, Facts, ElementOfSeq
    <2> QED BY <2>2, <2>3 DEF Frames
  <1>6. /\ called' \in (SUBSET Keys) \X (SUBSET Keys)
        /\ callbacks_on_commit_and_abort' = NoCalls
        /\ callbacks_on_commit_and_abort' \in (SUBSET Keys) \X (SUBSET Keys)
        /\ called = NoCalls => called' = <<{}, callbacks_on_commit_and_abort[ABORT]>>
    BY <1>1, <1>2, Invoked
  <1>7. called' = <<{}, asked[ABORT]>>
    BY <1>1, <1>2, <1>6 DEF CallbacksOnce
  <1>8. TypeOK'
    BY <1>1, <1>2, <1>4, <1>6 DEF TypeOK
  <1>9. SliceInv'
    <2>1. Restored' = Restored
      <3>1. rjthread.moved_off_base <= Len(stack') + 1
        BY <1>1, <1>3, <1>4, Facts
      <3> QED BY <1>1, <1>2, <1>4, <1>5, <3>1, RestoredSame DEF Undoable
    <2> QED BY <1>1, <1>2, <1>4, <2>1 DEF SliceInv, Undoable
  <1>10. CallbacksOnce'
    BY <1>2, <1>6, <1>7 DEF CallbacksOnce
  <1> QED BY <1>8, <1>9, <1>10 DEF RestartInv

\* The longjmp leads to the stacks of the start.
LEMMA NextLongjmp ==
  ASSUME RestartInv, rewind_jmp_longjmp
  PROVE  RestartInv'
  <1>1. TypeOK /\ SliceInv /\ CallbacksOnce
    BY DEF RestartInv
  <1> DEFINE rj == [rjthread EXCEPT !.head = rjthread.initial_head]
  <1>2. /\ status = "restarting" /\ status' = "TS_REGULAR"
        /\ stack' = Restored
        /\ rjthread' = rewind_jmp_setjmp(rj, Restored, rjthread.repeat_count + 1)
        /\ started' = started /\ asked' = NoCalls /\ called' = NoCalls
        /\ callbacks_on_commit_and_abort' = callbacks_on_commit_and_abort
    BY DEF rewind_jmp_longjmp, _stm_start_transaction
  <1>3. /\ Restored = started /\ Restored \in Seq(Frames) /\ Restored # <<>>
        /\ rjthread.initial_head = Len(Restored)
    <2>1. /\ rjthread.moved_off_base \in 1..Len(stack) /\ rjthread.moved_off # <<>>
          /\ Restored = started /\ rjthread.initial_head = Len(started)
      BY <1>1, <1>2 DEF SliceInv, Undoable
    <2>2. /\ Restored \in Seq(Frames)
          /\ Len(Restored) = rjthread.moved_off_base - 1 + Len(rjthread.moved_off)
      BY <1>1, <2>1, Facts, RestoredParts DEF Restored
    <2>3. Len(rjthread.moved_off) \in Nat \ {0}
      BY <1>1, <2>1, Facts, EmptySeq
    <2>4. Restored # <<>>
      BY <2>1, <2>2, <2>3, EmptySeq, <1>1, Facts
    <2> QED BY <2>1, <2>2, <2>4
  <1>4. /\ rj \in [head : Nat, initial_head : Nat, moved_off_base : Nat,
                   moved_off : Seq(Frames), repeat_count : Nat]
        /\ rj.head = Len(Restored) /\ rjthread.repeat_count + 1 \in Nat
    <2>1. rjthread \in [head : Nat, initial_head : Nat, moved_off_base : Nat,
                        moved_off : Seq(Frames), repeat_count : Nat]
      BY <1>1 DEF TypeOK
    <2>2. rjthread.repeat_count \in Nat /\ rjthread.initial_head \in Nat
      BY <2>1
    <2>3. rj \in [head : Nat, initial_head : Nat, moved_off_base : Nat,
                  moved_off : Seq(Frames), repeat_count : Nat]
      BY <2>1, <2>2
    <2>4. rj.head = rjthread.initial_head
      BY <2>1
    <2> QED BY <1>3, <2>2, <2>3, <2>4
  <1> HIDE DEF rj
  <1>5. /\ rjthread' \in [head : Nat, initial_head : Nat, moved_off_base : Nat,
                          moved_off : Seq(Frames), repeat_count : Nat]
        /\ rjthread'.head = Len(stack') /\ rjthread'.initial_head = Len(stack')
        /\ rjthread'.moved_off_base = Len(stack') /\ rjthread'.moved_off # <<>>
        /\ Len(stack') \in Nat \ {0}
        /\ SubSeq(stack', 1, rjthread'.moved_off_base - 1) \o rjthread'.moved_off = stack'
    BY ZenonT(60), <1>2, <1>3, <1>4, SetjmpFacts
  <1>6. callbacks_on_commit_and_abort' = NoCalls
    BY <1>1, <1>2 DEF CallbacksOnce
  <1>7. NoCalls \in (SUBSET Keys) \X (SUBSET Keys)
    BY DEF NoCalls
  <1>8. TypeOK'
    BY <1>1, <1>2, <1>3, <1>5, <1>6, <1>7 DEF TypeOK
  <1>9. SliceInv'
    <2>1. Restored' = stack'
      BY <1>5 DEF Restored
    <2> QED BY <1>2, <1>3, <1>5, <2>1 DEF SliceInv, Undoable
  <1>10. CallbacksOnce'
    BY <1>2, <1>6 DEF CallbacksOnce
  <1> QED BY <1>8, <1>9, <1>10 DEF RestartInv

-----------------------------------------------------------------------------
\* Before the first transaction nothing is copied and nothing registered.
LEMMA InitRestartInv == Init => RestartInv
  <1> SUFFICES ASSUME Init PROVE RestartInv
    OBVIOUS
  <1>1. <<>> \in Seq(Frames) /\ Len(<<>>) = 0
    BY EmptySeq
  <1>2. NoCalls \in (SUBSET Keys) \X (SUBSET Keys) /\ NoCalls = <<NoCalls[COMMIT], {}>>
    BY DEF NoCalls, COMMIT
  <1> QED BY <1>1, <1>2 DEF Init, RestartInv, TypeOK, SliceInv, Undoable, CallbacksOnce

\* The stack of the start can be put together at any time.
LEMMA RestartInvariant == Spec => []RestartInv
  <1>1. RestartInv /\ [Next]_vars => RestartInv'
    <2> SUFFICES ASSUME RestartInv, [Next]_vars PROVE RestartInv'
      OBVIOUS
    <2>1. CASE UNCHANGED vars
      BY <2>1 DEF vars, RestartInv, TypeOK, SliceInv, Undoable, Restored, CallbacksOnce
    <2>2. ASSUME NEW key \in Keys, stm_call_on_commit(key) \/ stm_call_on_abort(key)
          PROVE  RestartInv'
      <3>1. \/ \E index \in {COMMIT, ABORT} : register_callbacks(index, key)
            \/ stm_call_on_commit(key) /\ status # "TS_REGULAR"
        BY <2>2 DEF stm_call_on_commit, stm_call_on_abort
      <3> QED BY <3>1, NextCall, NextCallAtOnce
    <2>3. ASSUME NEW key \in Keys, NEW index \in {COMMIT, ABORT}, Unregister(index, key)
          PROVE  RestartInv'
      BY <2>3, NextCall
    <2>4. CASE \/ stm_rewind_jmp_enterframe \/ stm_rewind_jmp_leaveframe \/ Run
               \/ stm_start_transaction \/ _stm_become_inevitable
               \/ stm_commit_transaction \/ abort_with_mutex_no_longjmp
               \/ rewind_jmp_longjmp
      BY <2>4, NextEnter, NextLeave, NextRun, NextStart, NextForget, NextAbort, NextLongjmp
    <2> QED BY <2>1, <2>2, <2>3, <2>4 DEF Next
  <1> QED BY <1>1, InitRestartInv, PTL DEF Spec

\* A transaction that may abort is restarted on the stacks of its start
\* (rewind_setjmp.c: copy_stack, do_longjmp), and each callback is called once,
\* by the commit or by the abort (extra.c).
THEOREM StartsOver == Spec => []AbortsStartOver
  <1>1. RestartInv => AbortsStartOver
    BY DEF RestartInv, SliceInv, Undoable, AbortsStartOver, RestartsAsItBegan,
       rewind_jmp_armed
  <1> QED BY <1>1, RestartInvariant, PTL
=============================================================================
