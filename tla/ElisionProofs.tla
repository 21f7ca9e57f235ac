--------------------------- MODULE ElisionProofs ---------------------------
(* gil-c7 and htm-c7: transactions that elide the lock are atomic, and the *)
(* collector loses nothing, for any number of threads and objects and any  *)
(* programs.                                                               *)
EXTENDS LockElision, SequenceTheorems, TLAPS

\* Threads, places and NULL are different things.
ElisionAssumption ==
  /\ NULL \notin Threads /\ "old" \notin Threads
  /\ \A o, p : Ref(o, p) # NULL
  /\ \A p, r, b, w : Object(p, r, b, w) # NULL

Objs == Prebuilt \cup Ids
Refs == [obj : Objs, place : {"old"} \cup Threads]
Objects == [place : {"old"} \cup Threads, ref : Refs \cup {NULL},
            barrier : BOOLEAN, weak : BOOLEAN]
\* What of a thread matters here.
IsThread(x) ==
  /\ {"pc", "use_gil", "shadowstack", "pointing"} \subseteq DOMAIN x
  /\ x.pc \in {"out", "xbegin", "locked", "spin", "transient", "lock", "run"}
  /\ x.use_gil \in BOOLEAN
  /\ x.shadowstack \in Seq(Refs) /\ x.pointing \subseteq Objs

-----------------------------------------------------------------------------
(* The invariant, of a state m: a step undoes transactions of others, then *)
(* goes on from the state in between.                                      *)

Now == [heap |-> heap, undo |-> undo, seen |-> seen, th |-> th, saved |-> saved,
        gil |-> _stm_gil]

Types(m) ==
  /\ m.heap = [o \in DOMAIN m.heap |-> m.heap[o]] /\ DOMAIN m.heap \subseteq Objs
  /\ \A o \in DOMAIN m.heap : m.heap[o] \in Objects
  /\ m.undo = [t \in Threads |-> m.undo[t]] /\ m.seen = [t \in Threads |-> m.seen[t]]
  /\ m.th = [t \in Threads |-> m.th[t]] /\ m.saved = [t \in Threads |-> m.saved[t]]
  /\ \A t \in Threads :
       /\ IsThread(m.th[t])
       /\ DOMAIN m.undo[t] \subseteq Objs
       /\ \A o \in DOMAIN m.undo[t] : m.undo[t][o] \in Objects \cup {NULL}
  /\ m.gil \in Threads \cup {NULL}

Runs(m, t) == m.th[t].pc = "run"
Elides(m, t) == Runs(m, t) /\ ~m.th[t].use_gil

\* One thread has the lock and runs, or all that run elide it.
Locking(m) ==
  \A t \in Threads :
    /\ Runs(m, t) /\ m.th[t].use_gil <=> m.gil = t
    /\ m.gil # NULL => ~Elides(m, t)
    /\ m.th[t].pc \notin {"out", "run"} => ~m.th[t].use_gil

\* An object from before the transactions that run.
Settled(m, o) ==
  /\ o \in DOMAIN m.heap
  /\ \A t \in Threads : o \in DOMAIN m.undo[t] => m.undo[t][o] # NULL
SettledRef(m, r) == r.place = "old" /\ Settled(m, r.obj)
Clean(m, x) ==
  /\ x \in Objects /\ x.place = "old" /\ x.barrier
  /\ x.ref # NULL => SettledRef(m, x.ref)

\* No object is written by two transactions; without them, all objects are
\* old, have the write barrier, and refer to such objects.
Committed(m) ==
  /\ \A t, u \in Threads : t # u => DOMAIN m.undo[t] \cap DOMAIN m.undo[u] = {}
  /\ \A o \in DOMAIN m.heap :
       (\A t \in Threads : o \notin DOMAIN m.undo[t]) => Clean(m, m.heap[o])
  /\ \A t \in Threads : \A o \in DOMAIN m.undo[t] : m.undo[t][o] # NULL =>
       /\ o \in DOMAIN m.heap /\ m.heap[o].place = "old"
       /\ Clean(m, m.undo[t][o])
  /\ \A o \in Prebuilt : Settled(m, o)

\* A transaction may have references to old objects, its own ones among
\* them, and into its own nursery.
Sees(m, t, r) ==
  /\ r.place \in {"old", t}
  /\ r.obj \in DOMAIN m.heap /\ m.heap[r.obj].place = r.place
  /\ r.obj \in DOMAIN m.undo[t] \/ Settled(m, r.obj)

Stack(m, t) == m.th[t].shadowstack

\* An old object that refers into the nursery is remembered, and so is one
\* that has lost its write barrier.
Running(m, t) ==
  /\ \A o \in DOMAIN m.undo[t] \cap DOMAIN m.heap :
       /\ m.heap[o].place \in {"old", t} /\ (m.heap[o].place = t => ~m.heap[o].barrier)
       /\ m.heap[o].ref # NULL => Sees(m, t, m.heap[o].ref)
       /\ m.heap[o].place = "old" /\ (Young(m.heap[o].ref, t) \/ ~m.heap[o].barrier)
            => o \in m.th[t].pointing
  /\ \A o \in m.th[t].pointing :
       o \in DOMAIN m.undo[t] /\ o \in DOMAIN m.heap /\ m.heap[o].place = "old"
  /\ \A k \in DOMAIN Stack(m, t) : Sees(m, t, Stack(m, t)[k])

\* Between transactions.
Resting(m, x) ==
  x.pointing = {} /\ \A k \in DOMAIN x.shadowstack : SettledRef(m, x.shadowstack[k])

\* What has been read is what was there, and nobody else has written it.
ReadsHold(m, t) ==
  \A o \in DOMAIN m.seen[t] :
    /\ Settled(m, o)
    /\ \A u \in Threads \ {t} : o \notin DOMAIN m.undo[u]
    /\ m.seen[t][o] = IF o \in DOMAIN m.undo[t] THEN m.undo[t][o].ref ELSE m.heap[o].ref

ThreadInv(m, t) ==
  /\ Runs(m, t) => Running(m, t)
  /\ ~Runs(m, t) => Resting(m, m.th[t]) /\ DOMAIN m.undo[t] = {} /\ DOMAIN m.seen[t] = {}
  /\ Elides(m, t) => IsThread(m.saved[t]) /\ ~m.saved[t].use_gil /\ Resting(m, m.saved[t])
  /\ ReadsHold(m, t)

Inv(m) ==
  /\ Types(m) /\ Locking(m) /\ Committed(m)
  /\ \A t \in Threads : ThreadInv(m, t)
ElisionInv == Inv(Now)

-----------------------------------------------------------------------------
(* Steps that others make.                                                 *)

\* The objects from before are old.
LEMMA SettledIsOld ==
  ASSUME NEW m, Committed(m), NEW o, Settled(m, o)
  PROVE  o \in DOMAIN m.heap /\ m.heap[o].place = "old"
  <1>1. CASE \A t \in Threads : o \notin DOMAIN m.undo[t]
    BY <1>1 DEF Settled, Committed, Clean
  <1>2. CASE \E t \in Threads : o \in DOMAIN m.undo[t]
    BY <1>2 DEF Settled, Committed
  <1> QED BY <1>1, <1>2

\* A thread does not notice what happens to other objects than those that
\* it has read or written, as long as old objects stay where they are.
LEMMA Unnoticed ==
  ASSUME NEW m, NEW n, Committed(m), NEW u \in Threads, ThreadInv(m, u),
         n.th[u] = m.th[u], n.undo[u] = m.undo[u], n.seen[u] = m.seen[u],
         n.saved[u] = m.saved[u],
         \A o \in DOMAIN m.undo[u] : (o \in DOMAIN n.heap <=> o \in DOMAIN m.heap)
                                     /\ (o \in DOMAIN m.heap => n.heap[o] = m.heap[o]),
         \A o : Settled(m, o) => Settled(n, o) /\ n.heap[o].place = "old",
         \A o \in DOMAIN m.seen[u] : (\A v \in Threads \ {u} : o \notin DOMAIN n.undo[v])
                                     /\ n.heap[o] = m.heap[o]
  PROVE  ThreadInv(n, u)
  <1>1. ASSUME NEW r, Sees(m, u, r)
        PROVE  Sees(n, u, r)
    <2>1. CASE r.obj \in DOMAIN m.undo[u]
      BY <1>1, <2>1 DEF Sees
    <2>2. CASE Settled(m, r.obj)
      <3>1. m.heap[r.obj].place = "old" /\ n.heap[r.obj].place = "old" /\ Settled(n, r.obj)
        BY <2>2, SettledIsOld
      <3> QED BY <1>1, <3>1 DEF Sees, Settled
    <2> QED BY <1>1, <2>1, <2>2 DEF Sees
  <1>2. \A r : SettledRef(m, r) => SettledRef(n, r)
    BY DEF SettledRef
  <1>3. Runs(m, u) => Running(n, u)
    BY <1>1 DEF ThreadInv, Running, Stack
  <1>4. \A x : Resting(m, x) => Resting(n, x)
    BY <1>2 DEF Resting
  <1>5. ReadsHold(n, u)
    BY DEF ThreadInv, ReadsHold
  <1> QED BY <1>3, <1>4, <1>5 DEF ThreadInv, Runs, Elides

-----------------------------------------------------------------------------
(* The hardware undoes transactions.                                       *)

\* The state in which the transactions of S are undone.
After(S, pc) ==
  [heap |-> Undone(S), undo |-> Ends(undo, S), seen |-> Ends(seen, S),
   th |-> [u \in Threads |-> IF u \in S THEN [saved[u] EXCEPT !.pc = pc] ELSE th[u]],
   saved |-> saved, gil |-> _stm_gil]

\* The heap h without what the threads of S have written.
IsUndone(S, h) ==
  /\ h = [o \in DOMAIN h |-> h[o]]
  /\ DOMAIN h = {o \in DOMAIN heap :
                   \A u \in S : o \in DOMAIN undo[u] => undo[u][o] # NULL}
  /\ \A o \in DOMAIN h : \A u \in S : o \in DOMAIN undo[u] => h[o] = undo[u][o]
  /\ \A o \in DOMAIN heap : (\A u \in S : o \notin DOMAIN undo[u]) => h[o] = heap[o]

\* What is undone and what is not.
LEMMA UndoneObjects ==
  ASSUME ElisionInv, NEW S \in SUBSET Threads
  PROVE  IsUndone(S, Undone(S))
  <1>1. DOMAIN Undone(S) = {o \in DOMAIN heap :
                              \A u \in S : o \in DOMAIN undo[u] => undo[u][o] # NULL}
    BY DEF Undone
  <1>2. ASSUME NEW o \in DOMAIN Undone(S), NEW u \in S, o \in DOMAIN undo[u]
        PROVE  Undone(S)[o] = undo[u][o]
    <2>1. \A v \in S : o \in DOMAIN undo[v] => v = u
      BY <1>2 DEF ElisionInv, Inv, Now, Committed
    <2>2. (CHOOSE v \in S : o \in DOMAIN undo[v]) = u
      BY <1>2, <2>1
    <2> QED BY <1>1, <1>2, <2>2 DEF Undone
  <1>3. ASSUME NEW o \in DOMAIN heap, \A u \in S : o \notin DOMAIN undo[u]
        PROVE  o \in DOMAIN Undone(S) /\ Undone(S)[o] = heap[o]
    BY <1>1, <1>3 DEF Undone
  <1>4. Undone(S) = [o \in DOMAIN Undone(S) |-> Undone(S)[o]]
    BY DEF Undone
  <1> QED BY <1>1, <1>2, <1>3, <1>4 DEF IsUndone

\* Undoing brings back the objects from before.
LEMMA UndoneSettled ==
  ASSUME ElisionInv, NEW S \in SUBSET Threads, NEW pc, NEW o, Settled(Now, o)
  PROVE  Settled(After(S, pc), o) /\ Undone(S)[o].place = "old"
  <1>0. IsUndone(S, Undone(S))
    BY UndoneObjects
  <1>1. o \in DOMAIN heap /\ \A t \in Threads : o \in DOMAIN undo[t] => undo[t][o] # NULL
    BY DEF Settled, Now
  <1>2. o \in DOMAIN Undone(S)
    BY <1>0, <1>1 DEF IsUndone
  <1>3. \A t \in Threads : o \in DOMAIN Ends(undo, S)[t] => Ends(undo, S)[t][o] # NULL
    BY <1>1 DEF Ends, None
  <1>4. Undone(S)[o].place = "old"
    <2>1. CASE \E u \in S : o \in DOMAIN undo[u]
      <3>1. PICK u \in S : o \in DOMAIN undo[u]
        BY <2>1
      <3>2. undo[u][o] # NULL /\ Undone(S)[o] = undo[u][o]
        BY <1>0, <1>1, <1>2, <3>1 DEF IsUndone
      <3> QED BY <3>1, <3>2 DEF ElisionInv, Inv, Now, Committed, Clean
    <2>2. CASE \A u \in S : o \notin DOMAIN undo[u]
      <3>1. Undone(S)[o] = heap[o]
        BY <1>0, <1>1, <2>2 DEF IsUndone
      <3>2. Now.heap[o].place = "old"
        BY SettledIsOld DEF ElisionInv, Inv
      <3> QED BY <3>1, <3>2 DEF Now
    <2> QED BY <2>1, <2>2
  <1> QED BY <1>2, <1>3, <1>4 DEF Settled, After

\* ... and leaves a state like any other.
LEMMA UndoneTypes ==
  ASSUME ElisionInv, NEW S \in SUBSET Threads, \A u \in S : Elided(u),
         NEW pc \in {"transient", "lock"}
  PROVE  Types(After(S, pc)) /\ Locking(After(S, pc))
  <1> DEFINE n == After(S, pc)
  <1>0. IsUndone(S, n.heap)
    BY UndoneObjects DEF After
  <1>1. n.heap = [o \in DOMAIN n.heap |-> n.heap[o]] /\ DOMAIN n.heap \subseteq Objs
    BY <1>0 DEF IsUndone, ElisionInv, Inv, Now, Types
  <1>2. ASSUME NEW o \in DOMAIN n.heap
        PROVE  n.heap[o] \in Objects
    <2>1. CASE \E u \in S : o \in DOMAIN undo[u]
      <3>1. PICK u \in S : o \in DOMAIN undo[u]
        BY <2>1
      <3>2. undo[u][o] # NULL /\ n.heap[o] = undo[u][o]
        BY <1>0, <1>2, <3>1 DEF IsUndone
      <3> QED BY <3>1, <3>2 DEF ElisionInv, Inv, Now, Types
    <2>2. CASE \A u \in S : o \notin DOMAIN undo[u]
      BY <1>0, <1>2, <2>2 DEF IsUndone, ElisionInv, Inv, Now, Types
    <2> QED BY <2>1, <2>2
  <1>3. /\ n.undo = [t \in Threads |-> n.undo[t]] /\ n.seen = [t \in Threads |-> n.seen[t]]
        /\ n.th = [t \in Threads |-> n.th[t]] /\ n.saved = [t \in Threads |-> n.saved[t]]
        /\ n.gil \in Threads \cup {NULL}
    BY DEF ElisionInv, Inv, Now, Types, After, Ends
  <1>4. ASSUME NEW t \in Threads
        PROVE  /\ IsThread(n.th[t])
               /\ DOMAIN n.undo[t] \subseteq Objs
               /\ \A o \in DOMAIN n.undo[t] : n.undo[t][o] \in Objects \cup {NULL}
               /\ t \in S => n.th[t].pc = pc /\ ~n.th[t].use_gil
               /\ t \notin S => n.th[t] = th[t]
    <2>1. t \in S => n.th[t] = [saved[t] EXCEPT !.pc = pc] /\ Elides(Now, t)
      BY DEF After, Elided, Elides, Runs, Now
    <2>2. t \in S => IsThread(saved[t]) /\ ~saved[t].use_gil
      BY <2>1 DEF ElisionInv, Inv, ThreadInv, Now
    <2>3. t \in S => IsThread(n.th[t]) /\ n.th[t].pc = pc /\ ~n.th[t].use_gil
      BY <2>1, <2>2 DEF IsThread
    <2>4. t \notin S => n.th[t] = th[t] /\ IsThread(th[t])
      BY DEF After, ElisionInv, Inv, Types, Now
    <2>5. /\ DOMAIN n.undo[t] \subseteq Objs
          /\ \A o \in DOMAIN n.undo[t] : n.undo[t][o] \in Objects \cup {NULL}
      BY DEF After, Ends, None, ElisionInv, Inv, Types, Now
    <2> QED BY <2>3, <2>4, <2>5
  <1>5. Types(n)
    BY <1>1, <1>2, <1>3, <1>4 DEF Types
  <1>6. Locking(n)
    <2>1. n.gil = _stm_gil /\ \A t \in S : _stm_gil # t
      <3>1. \A t \in S : Elides(Now, t) /\ Now.gil # t
        BY DEF Elided, Elides, Runs, Now, ElisionInv, Inv, Locking
      <3> QED BY <3>1 DEF Now, After
    <2>2. Locking(Now) /\ Now.gil = _stm_gil /\ Now.th = th
      BY DEF ElisionInv, Inv, Now
    <2> HIDE DEF n
    <2> QED BY <1>4, <2>1, <2>2 DEF Locking, Elides, Runs
  <1> QED BY <1>5, <1>6

\* Without a transaction the objects that it had written are clean.
LEMMA UndoneCommitted ==
  ASSUME ElisionInv, NEW S \in SUBSET Threads, NEW pc
  PROVE  Committed(After(S, pc))
  <1> DEFINE n == After(S, pc)
  <1>1. IsUndone(S, n.heap) /\ n.undo = Ends(undo, S)
    BY UndoneObjects DEF After
  <1>2. Committed(Now) /\ Now.heap = heap /\ Now.undo = undo
    BY DEF ElisionInv, Inv, Now
  <1>3. \A o : Settled(Now, o) => Settled(n, o)
    BY UndoneSettled
  <1>4. \A x : Clean(Now, x) => Clean(n, x)
    BY <1>3 DEF Clean, SettledRef
  <1>5. \A t \in Threads : n.undo[t] = IF t \in S THEN None ELSE undo[t]
    BY <1>1 DEF Ends
  <1> HIDE DEF n
  <1>6. \A t, u \in Threads : t # u => DOMAIN n.undo[t] \cap DOMAIN n.undo[u] = {}
    BY <1>2, <1>5 DEF Committed, None
  <1>7. ASSUME NEW o \in DOMAIN n.heap, \A t \in Threads : o \notin DOMAIN n.undo[t]
        PROVE  Clean(n, n.heap[o])
    <2>1. o \in DOMAIN heap
      BY <1>1, <1>7 DEF IsUndone
    <2>2. CASE \E u \in S : o \in DOMAIN undo[u]
      <3>1. PICK u \in S : o \in DOMAIN undo[u]
        BY <2>2
      <3>2. undo[u][o] # NULL /\ n.heap[o] = undo[u][o]
        BY <1>1, <1>7, <3>1 DEF IsUndone
      <3> QED BY <1>2, <1>4, <3>1, <3>2 DEF Committed
    <2>3. CASE \A u \in S : o \notin DOMAIN undo[u]
      <3>1. n.heap[o] = heap[o] /\ \A t \in Threads : o \notin DOMAIN undo[t]
        BY <1>1, <1>5, <1>7, <2>1, <2>3 DEF IsUndone
      <3> QED BY <1>2, <1>4, <2>1, <3>1 DEF Committed
    <2> QED BY <2>2, <2>3
  <1>8. ASSUME NEW t \in Threads, NEW o \in DOMAIN n.undo[t], n.undo[t][o] # NULL
        PROVE  o \in DOMAIN n.heap /\ n.heap[o].place = "old" /\ Clean(n, n.undo[t][o])
    <2>1. t \notin S /\ n.undo[t] = undo[t]
      BY <1>5, <1>8 DEF None
    <2>2. o \in DOMAIN heap /\ heap[o].place = "old" /\ Clean(Now, undo[t][o])
      BY <1>2, <1>8, <2>1 DEF Committed
    <2>3. \A u \in S : o \notin DOMAIN undo[u]
      BY <1>2, <1>8, <2>1 DEF Committed
    <2>4. o \in DOMAIN n.heap /\ n.heap[o] = heap[o]
      BY <1>1, <2>2, <2>3 DEF IsUndone
    <2> QED BY <1>4, <2>1, <2>2, <2>4
  <1>9. \A o \in Prebuilt : Settled(n, o)
    BY <1>2, <1>3 DEF Committed
  <1> QED BY <1>6, <1>7, <1>8, <1>9 DEF Committed, n

\* The state after transactions are undone is as good as before.
LEMMA Undoing ==
  ASSUME ElisionInv, NEW S \in SUBSET Threads, \A u \in S : Elided(u),
         NEW pc \in {"transient", "lock"}
  PROVE  Inv(After(S, pc))
  <1> DEFINE n == After(S, pc)
  <1>1. IsUndone(S, n.heap) /\ n.saved = saved
    BY UndoneObjects DEF After
  <1>2. Committed(Now) /\ Now.heap = heap /\ Now.undo = undo /\ Now.seen = seen /\ Now.th = th
        /\ Now.saved = saved /\ \A u \in Threads : ThreadInv(Now, u)
    BY DEF ElisionInv, Inv, Now
  <1>3. \A o : Settled(Now, o) => Settled(n, o) /\ n.heap[o].place = "old"
    BY UndoneSettled DEF After
  <1>4. \A u \in Threads :
          /\ n.undo[u] = (IF u \in S THEN None ELSE undo[u])
          /\ n.seen[u] = (IF u \in S THEN None ELSE seen[u])
          /\ n.th[u] = (IF u \in S THEN [saved[u] EXCEPT !.pc = pc] ELSE th[u])
    BY DEF After, Ends
  <1>5. Types(n) /\ Locking(n) /\ Committed(n)
    BY UndoneTypes, UndoneCommitted
  <1> HIDE DEF n
  <1>6. ASSUME NEW u \in Threads \ S
        PROVE  ThreadInv(n, u)
    <2>1. /\ n.th[u] = Now.th[u] /\ n.undo[u] = Now.undo[u] /\ n.seen[u] = Now.seen[u]
          /\ n.saved[u] = Now.saved[u]
      BY <1>1, <1>2, <1>4
    <2>2. ASSUME NEW o, \A v \in S : o \notin DOMAIN undo[v]
          PROVE  /\ o \in DOMAIN n.heap <=> o \in DOMAIN heap
                 /\ o \in DOMAIN heap => n.heap[o] = heap[o]
      BY <1>1, <2>2 DEF IsUndone
    <2>3. \A o \in DOMAIN undo[u] : \A v \in S : o \notin DOMAIN undo[v]
      BY <1>2, <1>6 DEF Committed
    <2>4. \A o \in DOMAIN seen[u] : o \in DOMAIN heap /\ \A v \in Threads \ {u} : o \notin DOMAIN undo[v]
      BY <1>2, <1>6 DEF ThreadInv, ReadsHold, Settled
    <2>5. \A o \in DOMAIN Now.undo[u] : /\ o \in DOMAIN n.heap <=> o \in DOMAIN Now.heap
                                        /\ o \in DOMAIN Now.heap => n.heap[o] = Now.heap[o]
      BY <1>2, <2>2, <2>3
    <2>6. \A o \in DOMAIN Now.seen[u] : /\ \A v \in Threads \ {u} : o \notin DOMAIN n.undo[v]
                                        /\ n.heap[o] = Now.heap[o]
      <3>1. \A o \in DOMAIN seen[u] : \A v \in Threads \ {u} : o \notin DOMAIN n.undo[v]
        BY <1>4, <2>4 DEF None
      <3>2. \A o \in DOMAIN seen[u] : n.heap[o] = heap[o]
        BY <1>6, <2>2, <2>4
      <3> QED BY <1>2, <3>1, <3>2
    <2> QED BY <1>2, <1>3, <1>6, <2>1, <2>5, <2>6, Unnoticed
  <1>7. ASSUME NEW u \in S
        PROVE  ThreadInv(n, u)
    <2>1. n.th[u] = [saved[u] EXCEPT !.pc = pc] /\ Elides(Now, u)
      BY <1>4, <1>7 DEF Elides, Runs, Elided, Now
    <2>2. IsThread(saved[u]) /\ Resting(Now, saved[u])
      BY <1>2, <2>1 DEF ThreadInv
    <2>3. n.th[u].pc = pc /\ n.th[u].pointing = {} /\ n.th[u].shadowstack = saved[u].shadowstack
      BY <2>1, <2>2 DEF IsThread, Resting
    <2>4. Resting(n, n.th[u])
      BY <1>3, <2>2, <2>3 DEF Resting, SettledRef
    <2>5. DOMAIN n.undo[u] = {} /\ DOMAIN n.seen[u] = {} /\ ~Runs(n, u)
      BY <1>4, <1>7, <2>3 DEF None, Runs
    <2> QED BY <2>4, <2>5 DEF ThreadInv, ReadsHold, Elides
  <1> QED BY <1>5, <1>6, <1>7 DEF Inv, n

-----------------------------------------------------------------------------
(* A thread takes a step, and the others do not notice.                    *)

\* From m to n only t has changed, and the objects of W.
Step(m, n, t, W) ==
  /\ \A u \in Threads \ {t} : /\ n.th[u] = m.th[u] /\ n.undo[u] = m.undo[u]
                              /\ n.seen[u] = m.seen[u] /\ n.saved[u] = m.saved[u]
                              /\ W \cap DOMAIN m.undo[u] = {}
                              /\ W \cap DOMAIN m.seen[u] = {}
  /\ DOMAIN n.undo[t] \subseteq DOMAIN m.undo[t] \cup W
  /\ \A o : o \notin W => /\ o \in DOMAIN n.heap <=> o \in DOMAIN m.heap
                          /\ o \in DOMAIN m.heap => n.heap[o] = m.heap[o]
  /\ \A o : Settled(m, o) => Settled(n, o) /\ n.heap[o].place = "old"

\* Another thread does not notice such a step.
LEMMA OthersGoOn ==
  ASSUME NEW m, NEW n, NEW W, Inv(m), NEW t \in Threads, Step(m, n, t, W),
         NEW u \in Threads \ {t}
  PROVE  ThreadInv(n, u)
  <1>1. /\ n.th[u] = m.th[u] /\ n.undo[u] = m.undo[u] /\ n.seen[u] = m.seen[u]
        /\ n.saved[u] = m.saved[u]
    BY DEF Step
  <1>2. Committed(m) /\ ThreadInv(m, u)
    BY DEF Inv
  <1>3. \A o \in DOMAIN m.undo[u] : /\ o \in DOMAIN n.heap <=> o \in DOMAIN m.heap
                                    /\ o \in DOMAIN m.heap => n.heap[o] = m.heap[o]
    BY DEF Step
  <1>4. ASSUME NEW o \in DOMAIN m.seen[u]
        PROVE  (\A v \in Threads \ {u} : o \notin DOMAIN n.undo[v]) /\ n.heap[o] = m.heap[o]
    <2>1. o \in DOMAIN m.heap /\ \A v \in Threads \ {u} : o \notin DOMAIN m.undo[v]
      BY <1>2, <1>4 DEF ThreadInv, ReadsHold, Settled
    <2>2. o \notin W
      BY <1>4 DEF Step
    <2>3. n.heap[o] = m.heap[o]
      BY <2>1, <2>2 DEF Step
    <2>4. ASSUME NEW v \in Threads \ {u}
          PROVE  o \notin DOMAIN n.undo[v]
      <3>1. CASE v = t
        BY <2>1, <2>2, <3>1 DEF Step
      <3>2. CASE v # t
        BY <2>1, <3>2 DEF Step
      <3> QED BY <3>1, <3>2
    <2> QED BY <2>3, <2>4
  <1>5. \A o : Settled(m, o) => Settled(n, o) /\ n.heap[o].place = "old"
    BY DEF Step
  <1> QED BY <1>1, <1>2, <1>3, <1>4, <1>5, Unnoticed

\* A step that writes nothing.
LEMMA NothingWritten ==
  ASSUME NEW m, NEW n, Inv(m), NEW t \in Threads,
         n.heap = m.heap, n.undo = m.undo,
         \A u \in Threads \ {t} : /\ n.th[u] = m.th[u] /\ n.seen[u] = m.seen[u]
                                  /\ n.saved[u] = m.saved[u]
  PROVE  /\ Committed(n) /\ Step(m, n, t, {})
         /\ \A o : Settled(n, o) <=> Settled(m, o)
         /\ \A r : Sees(n, t, r) <=> Sees(m, t, r)
  <1>1. \A o : Settled(n, o) <=> Settled(m, o)
    BY DEF Settled
  <1>2. Committed(m)
    BY DEF Inv
  <1>3. \A x : Clean(n, x) <=> Clean(m, x)
    BY <1>1 DEF Clean, SettledRef
  <1>4. Committed(n)
    BY <1>1, <1>2, <1>3 DEF Committed
  <1>5. \A o : Settled(m, o) => n.heap[o].place = "old"
    BY <1>2, SettledIsOld
  <1> QED BY <1>1, <1>4, <1>5 DEF Step, Sees

\* A thread between transactions, or about to start one.
LEMMA Waits ==
  ASSUME NEW m, NEW n, Inv(m), NEW t \in Threads, NEW x,
         n.heap = m.heap, n.undo = m.undo, n.seen = m.seen, n.saved = m.saved, n.gil = m.gil,
         n.th = [m.th EXCEPT ![t] = x], IsThread(x),
         ~Runs(m, t), x.pc # "run", x.pc # "out" => ~x.use_gil,
         x.shadowstack = Stack(m, t), x.pointing = m.th[t].pointing
  PROVE  Inv(n)
  <1>1. n.th[t] = x /\ \A u \in Threads \ {t} : n.th[u] = m.th[u]
    BY DEF Inv, Types
  <1>2. /\ Committed(n) /\ Step(m, n, t, {})
        /\ \A o : Settled(n, o) <=> Settled(m, o)
    BY <1>1, NothingWritten
  <1>3. Types(n)
    BY <1>1 DEF Inv, Types
  <1>4. Locking(n)
    BY <1>1 DEF Inv, Locking, Runs, Elides
  <1>5. ThreadInv(m, t)
    BY DEF Inv
  <1>6. ThreadInv(n, t)
    BY <1>1, <1>2, <1>5 DEF ThreadInv, Runs, Elides, ReadsHold, Resting, SettledRef, Stack
  <1> QED BY <1>2, <1>3, <1>4, <1>6, OthersGoOn DEF Inv

\* stm_start_inevitable_transaction() up to where it runs, and its retries.
LEMMA WaitingSteps ==
  ASSUME ElisionInv, NEW t \in Threads,
         \/ stm_start_inevitable_transaction(t) \/ GilLocked(t) \/ spin_and_acquire_gil(t)
         \/ Transient(t)
  PROVE  Inv(Now')
  <1>1. Inv(Now) /\ th = [u \in Threads |-> th[u]] /\ IsThread(th[t])
        /\ (th[t].pc \notin {"out", "run"} => ~th[t].use_gil)
    BY DEF ElisionInv, Inv, Types, Locking, Now
  <1>2. /\ heap' = heap /\ undo' = undo /\ seen' = seen /\ saved' = saved /\ _stm_gil' = _stm_gil
        /\ th[t].pc \in {"out", "locked", "spin", "transient"}
    BY DEF stm_start_inevitable_transaction, GilLocked, spin_and_acquire_gil, Transient
  <1>3. PICK x : /\ th' = [th EXCEPT ![t] = x] /\ IsThread(x)
                 /\ x.pc \in {"lock", "xbegin", "spin"} /\ ~x.use_gil
                 /\ x.shadowstack = th[t].shadowstack /\ x.pointing = th[t].pointing
    <2> DEFINE x == th'[t]
    <2>1. th' = [th EXCEPT ![t] = x]
      BY <1>1 DEF stm_start_inevitable_transaction, GilLocked, spin_and_acquire_gil, Transient
    <2>2. /\ IsThread(x) /\ x.pc \in {"lock", "xbegin", "spin"} /\ ~x.use_gil
          /\ x.shadowstack = th[t].shadowstack /\ x.pointing = th[t].pointing
      <3>1. CASE stm_start_inevitable_transaction(t)
        BY <1>1, <3>1 DEF stm_start_inevitable_transaction, IsThread
      <3>2. CASE GilLocked(t)
        BY <1>1, <3>2 DEF GilLocked, IsThread
      <3>3. CASE spin_and_acquire_gil(t)
        BY <1>1, <3>3 DEF spin_and_acquire_gil, IsThread
      <3>4. CASE Transient(t)
        BY <1>1, <3>4 DEF Transient, IsThread
      <3> QED BY <3>1, <3>2, <3>3, <3>4
    <2> HIDE DEF x
    <2> QED BY <2>1, <2>2
  <1>4. /\ Now'.heap = Now.heap /\ Now'.undo = Now.undo /\ Now'.seen = Now.seen
        /\ Now'.saved = Now.saved /\ Now'.gil = Now.gil
        /\ Now'.th = [Now.th EXCEPT ![t] = x] /\ ~Runs(Now, t)
        /\ Stack(Now, t) = th[t].shadowstack /\ Now.th[t] = th[t]
    BY <1>2, <1>3 DEF Now, Runs, Stack
  <1> HIDE DEF Now
  <1> QED BY <1>1, <1>3, <1>4, Waits

\* A hardware transaction begins with the lock among what it has read.
LEMMA Begins ==
  ASSUME ElisionAssumption, ElisionInv, NEW t \in Threads, xbegin(t)
  PROVE  Inv(Now')
  <1> DEFINE m == Now
             n == Now'
             pc == IF _stm_gil # NULL THEN "locked" ELSE "run"
  <1>1. /\ n.heap = m.heap /\ n.undo = m.undo /\ n.seen = m.seen /\ n.gil = m.gil
        /\ n.th = [m.th EXCEPT ![t].pc = pc] /\ n.saved = [m.saved EXCEPT ![t] = m.th[t]]
        /\ m.th[t].pc = "xbegin" /\ m.gil = _stm_gil
    BY DEF xbegin, mutex_locked, Now
  <1>2. Inv(m)
    BY DEF ElisionInv
  <1>3. pc \in {"locked", "run"} /\ (pc = "run" <=> m.gil = NULL)
    BY <1>1
  <1> HIDE DEF m, n, pc
  <1>4. IsThread(m.th[t]) /\ ~m.th[t].use_gil /\ ~Runs(m, t) /\ ThreadInv(m, t)
    BY <1>1, <1>2 DEF Inv, Types, Locking, Runs
  <1>5. /\ n.th[t] = [m.th[t] EXCEPT !.pc = pc] /\ n.saved[t] = m.th[t]
        /\ \A u \in Threads \ {t} : n.th[u] = m.th[u] /\ n.saved[u] = m.saved[u]
    BY <1>1, <1>2 DEF Inv, Types
  <1>6. /\ IsThread(n.th[t]) /\ n.th[t].pc = pc /\ ~n.th[t].use_gil
        /\ n.th[t].shadowstack = Stack(m, t) /\ n.th[t].pointing = m.th[t].pointing
    BY <1>3, <1>4, <1>5 DEF IsThread, Stack
  <1>7. /\ Committed(n) /\ Step(m, n, t, {})
        /\ \A o : Settled(n, o) <=> Settled(m, o)
        /\ \A r : Sees(n, t, r) <=> Sees(m, t, r)
    BY <1>1, <1>2, <1>5, NothingWritten
  <1>8. Types(n)
    BY <1>1, <1>2, <1>5, <1>6 DEF Inv, Types
  <1>9. Locking(n)
    BY <1>1, <1>2, <1>3, <1>4, <1>5, <1>6 DEF Inv, Locking, Runs, Elides, ElisionAssumption
  <1>10. ThreadInv(n, t)
    <2>1. Resting(m, m.th[t]) /\ DOMAIN m.undo[t] = {} /\ DOMAIN m.seen[t] = {}
      BY <1>4 DEF ThreadInv
    <2>2. Resting(n, m.th[t]) /\ Resting(n, n.th[t])
      BY <1>6, <1>7, <2>1 DEF Resting, SettledRef, Stack
    <2>3. \A k \in DOMAIN Stack(n, t) : Sees(n, t, Stack(n, t)[k])
      <3>1. \A r : SettledRef(m, r) => Sees(m, t, r)
        BY <1>2, SettledIsOld DEF Inv, SettledRef, Sees
      <3> QED BY <1>6, <1>7, <2>1, <3>1 DEF Resting, Stack
    <2>4. Running(n, t)
      BY <1>1, <1>6, <2>1, <2>3 DEF Running, Resting
    <2>5. ReadsHold(n, t)
      BY <1>1, <2>1 DEF ReadsHold
    <2> QED BY <1>1, <1>4, <1>5, <2>1, <2>2, <2>4, <2>5 DEF ThreadInv
  <1>11. Inv(n)
    BY <1>2, <1>7, <1>8, <1>9, <1>10, OthersGoOn DEF Inv
  <1> QED BY <1>11 DEF n

\* The hardware undoes a transaction for a reason of its own.
LEMMA Interruptions ==
  ASSUME ElisionInv, NEW t \in Threads, Interrupted(t)
  PROVE  Inv(Now')
  <1>1. PICK pc \in {"transient", "lock"} : th' = [th EXCEPT ![t] = [saved[t] EXCEPT !.pc = pc]]
    BY DEF Interrupted
  <1>2. th = [u \in Threads |-> th[u]]
    BY DEF ElisionInv, Inv, Types, Now
  <1>3. Now' = After({t}, pc)
    BY <1>1, <1>2 DEF Interrupted, Now, After
  <1>4. Inv(After({t}, pc))
    BY Undoing DEF Interrupted
  <1> QED BY <1>3, <1>4

\* A thread starts to run with the lock.
LEMMA RunsWithLock ==
  ASSUME ElisionAssumption, NEW m, NEW n, Inv(m), NEW t \in Threads,
         n.heap = m.heap, n.undo = m.undo, n.seen = m.seen, n.saved = m.saved,
         n.th = [m.th EXCEPT ![t] = [m.th[t] EXCEPT !.pc = "run", !.use_gil = TRUE]],
         m.gil = NULL, n.gil = t, \A u \in Threads : ~Runs(m, u)
  PROVE  Inv(n)
  <1>1. IsThread(m.th[t]) /\ ThreadInv(m, t)
    BY DEF Inv, Types
  <1>2. /\ n.th[t] = [m.th[t] EXCEPT !.pc = "run", !.use_gil = TRUE]
        /\ \A u \in Threads \ {t} : n.th[u] = m.th[u]
    BY DEF Inv, Types
  <1>3. /\ IsThread(n.th[t]) /\ n.th[t].pc = "run" /\ n.th[t].use_gil
        /\ n.th[t].shadowstack = Stack(m, t) /\ n.th[t].pointing = m.th[t].pointing
    BY <1>1, <1>2 DEF IsThread, Stack
  <1>4. /\ Committed(n) /\ Step(m, n, t, {})
        /\ \A o : Settled(n, o) <=> Settled(m, o)
        /\ \A r : Sees(n, t, r) <=> Sees(m, t, r)
    BY <1>2, NothingWritten
  <1>5. Types(n)
    BY <1>2, <1>3 DEF Inv, Types
  <1>6. Locking(n)
    BY <1>2, <1>3 DEF Inv, Locking, Runs, Elides, ElisionAssumption
  <1>7. ThreadInv(n, t)
    <2>1. Resting(m, m.th[t]) /\ DOMAIN m.undo[t] = {} /\ DOMAIN m.seen[t] = {}
      BY <1>1 DEF ThreadInv
    <2>2. \A k \in DOMAIN Stack(n, t) : Sees(n, t, Stack(n, t)[k])
      <3>1. \A r : SettledRef(m, r) => Sees(m, t, r)
        BY SettledIsOld DEF Inv, SettledRef, Sees
      <3> QED BY <1>3, <1>4, <2>1, <3>1 DEF Resting, Stack
    <2>3. Running(n, t)
      BY <1>3, <2>1, <2>2 DEF Running, Resting
    <2>4. ReadsHold(n, t)
      BY <2>1 DEF ReadsHold
    <2> QED BY <1>3, <2>3, <2>4 DEF ThreadInv, Runs, Elides
  <1> QED BY <1>4, <1>5, <1>7, <1>6, OthersGoOn DEF Inv

\* Whoever takes the lock is alone.
LEMMA TakesLock ==
  ASSUME ElisionAssumption, ElisionInv, NEW t \in Threads, acquire_gil(t)
  PROVE  Inv(Now')
  <1> DEFINE S == Subscribers(t)
             m == After(S, "transient")
             n == Now'
             own == [th[t] EXCEPT !.pc = "run", !.use_gil = TRUE]
  <1>1. S \in SUBSET Threads /\ t \notin S /\ \A u \in S : Elided(u)
    BY DEF Subscribers
  <1>2. Inv(m)
    BY <1>1, Undoing
  <1>3. th[t].pc = "lock" /\ _stm_gil = NULL /\ _stm_gil' = t /\ saved' = saved
        /\ th' = [u \in Threads |-> IF u = t THEN own ELSE
                    IF u \in S THEN [saved[u] EXCEPT !.pc = "transient"] ELSE th[u]]
        /\ heap' = Undone(S) /\ undo' = Ends(undo, S) /\ seen' = Ends(seen, S)
    BY DEF acquire_gil, Back
  <1>4. m.th[t] = th[t] /\ \A u \in Threads :
          m.th[u] = IF u \in S THEN [saved[u] EXCEPT !.pc = "transient"] ELSE th[u]
    BY <1>1 DEF After
  <1>5. /\ n.heap = m.heap /\ n.undo = m.undo /\ n.seen = m.seen /\ n.saved = m.saved
        /\ m.gil = NULL /\ n.gil = t
    BY <1>3 DEF After, Now
  <1>6. n.th = [m.th EXCEPT ![t] = own]
    <2>1. m.th = [u \in Threads |-> IF u \in S THEN [saved[u] EXCEPT !.pc = "transient"] ELSE th[u]]
      BY DEF After
    <2> QED BY <1>1, <1>3, <2>1 DEF Now
  <1>7. ASSUME NEW u \in Threads
        PROVE  ~Runs(m, u)
    <2>1. Runs(m, u) => Elides(m, u)
      BY <1>2, <1>5 DEF Inv, Locking, Elides, ElisionAssumption
    <2>2. u \in S => ~Runs(m, u)
      <3>1. u \in S => Elides(Now, u)
        BY <1>1 DEF Elides, Runs, Elided, Now
      <3>2. u \in S => IsThread(saved[u])
        BY <3>1 DEF ElisionInv, Inv, ThreadInv, Now
      <3> QED BY <1>4, <3>2 DEF Runs, IsThread
    <2>3. u \notin S => (Elides(m, u) => Elided(u))
      BY <1>4 DEF Elides, Runs, Elided
    <2>4. u \notin S /\ u # t => ~Elided(u)
      BY DEF Subscribers
    <2>5. ~Elided(t)
      BY <1>3 DEF Elided
    <2> QED BY <2>1, <2>2, <2>3, <2>4, <2>5
  <1> HIDE DEF m, n, S
  <1>8. Inv(n)
    BY <1>2, <1>4, <1>5, <1>6, <1>7, RunsWithLock
  <1> QED BY <1>8 DEF n

-----------------------------------------------------------------------------
(* Reading and writing.                                                    *)

\* A thread goes on without writing.
LEMMA RunsOn ==
  ASSUME NEW m, NEW n, Inv(m), NEW t \in Threads, NEW x, Runs(m, t),
         n.heap = m.heap, n.undo = m.undo, n.saved = m.saved, n.gil = m.gil,
         n.seen = [u \in Threads |-> n.seen[u]],
         \A u \in Threads \ {t} : n.seen[u] = m.seen[u],
         n.th = [m.th EXCEPT ![t] = x], IsThread(x), x.pc = "run",
         x.use_gil = m.th[t].use_gil, x.pointing = m.th[t].pointing,
         \A k \in DOMAIN x.shadowstack : Sees(m, t, x.shadowstack[k]),
         ReadsHold(n, t)
  PROVE  Inv(n)
  <1>1. n.th[t] = x /\ \A u \in Threads \ {t} : n.th[u] = m.th[u]
    BY DEF Inv, Types
  <1>2. /\ Committed(n) /\ Step(m, n, t, {})
        /\ \A o : Settled(n, o) <=> Settled(m, o)
        /\ \A r : Sees(n, t, r) <=> Sees(m, t, r)
    BY <1>1, NothingWritten
  <1>3. Types(n)
    BY <1>1 DEF Inv, Types
  <1>4. Locking(n)
    BY <1>1 DEF Inv, Locking, Runs, Elides
  <1>5. ThreadInv(m, t)
    BY DEF Inv
  <1>6. Running(n, t)
    BY <1>1, <1>2, <1>5 DEF ThreadInv, Running, Stack
  <1>7. \A y : Resting(m, y) => Resting(n, y)
    BY <1>2 DEF Resting, SettledRef
  <1>8. ThreadInv(n, t)
    BY <1>1, <1>5, <1>6, <1>7 DEF ThreadInv, Runs, Elides
  <1> QED BY <1>2, <1>3, <1>4, <1>8, OthersGoOn DEF Inv

\* The top of the stack is taken away.
LEMMA FrontOfStack ==
  ASSUME NEW s \in Seq(Refs), Len(s) >= 1
  PROVE  /\ Front(s) \in Seq(Refs) /\ \A k \in DOMAIN Front(s) : k \in DOMAIN s /\ Front(s)[k] = s[k]
         /\ Len(s) \in DOMAIN s /\ Last(s) = s[Len(s)] /\ Last(s) \in Refs
         /\ Tail(s) \in Seq(Refs)
  <1>1. Len(s) \in Nat /\ DOMAIN s = 1..Len(s)
    BY LenProperties
  <1>2. Front(s) = SubSeq(s, 1, Len(s) - 1)
    BY DEF Front
  <1>3. Front(s) \in Seq(Refs) /\ Len(Front(s)) = Len(s) - 1 /\ \A k \in 1..(Len(s) - 1) : Front(s)[k] = s[k]
    BY <1>1, <1>2
  <1>4. DOMAIN Front(s) = 1..(Len(s) - 1)
    BY <1>3, LenProperties
  <1>5. Last(s) = s[Len(s)] /\ s[Len(s)] \in Refs
    BY <1>1 DEF Last
  <1> QED BY <1>1, <1>3, <1>4, <1>5

\* STM_POP_ROOT() leaves what is below.
LEMMA Pops ==
  ASSUME ElisionInv, NEW t \in Threads, Pop(t)
  PROVE  Inv(Now')
  <1> DEFINE m == Now
             n == Now'
             x == [Called(th[t]) EXCEPT !.shadowstack = Front(@)]
  <1>1. /\ n.heap = m.heap /\ n.undo = m.undo /\ n.seen = m.seen /\ n.saved = m.saved
        /\ n.gil = m.gil /\ n.th = [m.th EXCEPT ![t] = x] /\ m.th[t] = th[t] /\ Runs(m, t)
        /\ Len(th[t].shadowstack) >= 1
    <2>1. heap' = heap /\ undo' = undo /\ seen' = seen /\ saved' = saved /\ _stm_gil' = _stm_gil
      BY DEF Pop
    <2>2. th' = [th EXCEPT ![t] = x]
      BY DEF Pop
    <2>3. th[t].pc = "run" /\ Len(th[t].shadowstack) >= 1
      BY DEF Pop, Calls, Pushed
    <2> HIDE DEF x
    <2> QED BY <2>1, <2>2, <2>3 DEF Now, Runs
  <1>2. Inv(m)
    BY DEF ElisionInv
  <1>3. IsThread(th[t])
    BY <1>1, <1>2 DEF Inv, Types
  <1>4. /\ IsThread(x) /\ x.pc = "run" /\ x.use_gil = th[t].use_gil /\ x.pointing = th[t].pointing
        /\ x.shadowstack = Front(th[t].shadowstack)
    <2>1. Front(th[t].shadowstack) \in Seq(Refs)
      BY <1>1, <1>3, FrontOfStack DEF IsThread
    <2> QED BY <1>1, <1>3, <2>1 DEF IsThread, Called, Runs
  <1>5. ThreadInv(m, t)
    BY <1>2 DEF Inv
  <1> HIDE DEF m, n, x
  <1>6. \A k \in DOMAIN x.shadowstack : Sees(m, t, x.shadowstack[k])
    <2>1. \A k \in DOMAIN th[t].shadowstack : Sees(m, t, th[t].shadowstack[k])
      BY <1>1, <1>5 DEF ThreadInv, Running, Stack
    <2> QED BY <1>1, <1>3, <1>4, <2>1, FrontOfStack DEF IsThread
  <1>7. ReadsHold(n, t)
    BY <1>1, <1>5 DEF ThreadInv, ReadsHold, Settled
  <1>8. n.seen = [u \in Threads |-> n.seen[u]]
    BY <1>1, <1>2 DEF Inv, Types
  <1>9. Inv(n)
    BY <1>1, <1>2, <1>4, <1>6, <1>7, <1>8, RunsOn
  <1> QED BY <1>9 DEF n

\* Who runs beside t elides the lock; once those that have written o are
\* undone, nobody else has.
LEMMA NoConflict ==
  ASSUME ElisionAssumption, ElisionInv, NEW t \in Threads, th[t].pc = "run", NEW o,
         NEW S \in SUBSET Threads, t \notin S, Writers(t, o) \subseteq S,
         NEW u \in Threads \ {t}
  PROVE  o \notin DOMAIN Ends(undo, S)[u]
  <1>1. CASE u \in S
    BY <1>1 DEF Ends, None
  <1>2. CASE u \notin S
    <2>1. Ends(undo, S)[u] = undo[u]
      BY <1>2 DEF Ends
    <2>2. Runs(Now, u) => Elided(u)
      BY DEF ElisionAssumption, ElisionInv, Inv, Locking, Runs, Elides, Elided, Now
    <2>3. ~Runs(Now, u) => DOMAIN undo[u] = {}
      BY DEF ElisionInv, Inv, ThreadInv, Now
    <2> QED BY <1>2, <2>1, <2>2, <2>3 DEF Writers
  <1> QED BY <1>1, <1>2

\* A transaction sees the prebuilt objects and what is on its stack.
LEMMA TargetsSeen ==
  ASSUME NEW m, Inv(m), NEW t \in Threads, Runs(m, t), NEW o,
         \/ o \in Prebuilt
         \/ \E k \in DOMAIN Stack(m, t) : o = Stack(m, t)[k].obj
  PROVE  /\ o \in DOMAIN m.heap /\ m.heap[o] \in Objects /\ o \in Objs
         /\ m.heap[o].place \in {"old", t}
         /\ o \in DOMAIN m.undo[t] \/ Settled(m, o)
  <1>1. Types(m) /\ Committed(m) /\ Running(m, t)
    BY DEF Inv, ThreadInv
  <1>2. CASE o \in Prebuilt
    BY <1>1, <1>2, SettledIsOld DEF Committed, Types
  <1>3. CASE \E k \in DOMAIN Stack(m, t) : o = Stack(m, t)[k].obj
    BY <1>1, <1>3 DEF Running, Sees, Types
  <1> QED BY <1>2, <1>3

\* stm_read() undoes who has written the object, and reads what is committed.
LEMMA Reads ==
  ASSUME ElisionAssumption, ElisionInv, NEW t \in Threads, stm_read(t)
  PROVE  Inv(Now')
  <1> DEFINE o == Target(t)
             S == Writers(t, o)
             m == After(S, "transient")
             n == Now'
             h == Undone(S)
             x == [Called(th[t]) EXCEPT
                     !.shadowstack = IF h[o].ref = NULL THEN @ ELSE Append(@, h[o].ref)]
  <1>1. S \in SUBSET Threads /\ t \notin S /\ \A u \in S : Elided(u)
    BY DEF Writers
  <1>2. Inv(m)
    BY <1>1, Undoing
  <1>3. /\ heap' = h /\ undo' = Ends(undo, S) /\ saved' = saved /\ _stm_gil' = _stm_gil
        /\ th' = [u \in Threads |-> IF u = t THEN x ELSE
                    IF u \in S THEN [saved[u] EXCEPT !.pc = "transient"] ELSE th[u]]
        /\ th[t].pc = "run"
        /\ o \in Prebuilt \/ (Len(th[t].shadowstack) >= 1 /\ o = Last(th[t].shadowstack).obj)
    <2>1. heap' = h /\ undo' = Ends(undo, S) /\ _stm_gil' = _stm_gil
      BY DEF stm_read
    <2>2. Back(S, t, x)
      BY DEF stm_read
    <2>3. th[t].pc = "run"
      BY DEF stm_read, Calls
    <2>4. o \in Prebuilt \/ (Len(th[t].shadowstack) >= 1 /\ o = Last(th[t].shadowstack).obj)
      BY DEF stm_read, Target, Pushed, Top
    <2> HIDE DEF x, S, o, h
    <2> QED BY <2>1, <2>2, <2>3, <2>4 DEF Back
  <1>4. LET s == Ends(seen, S) IN
        seen' = IF o \in DOMAIN undo[t] \cup DOMAIN s[t] THEN s
                ELSE [s EXCEPT ![t] = Over(@, Only(o, h[o].ref))]
    BY DEF stm_read
  <1>5. /\ m.th[t] = th[t] /\ m.undo[t] = undo[t] /\ m.heap = h /\ m.undo = Ends(undo, S)
        /\ m.seen = Ends(seen, S) /\ Stack(m, t) = th[t].shadowstack /\ Runs(m, t)
        /\ m.th = [u \in Threads |-> IF u \in S THEN [saved[u] EXCEPT !.pc = "transient"]
                                                ELSE th[u]]
        /\ m.saved = saved /\ m.gil = _stm_gil
    BY <1>1, <1>3 DEF After, Ends, Stack, Runs
  <1>6. \A u \in Threads \ {t} : o \notin DOMAIN m.undo[u]
    BY <1>1, <1>3, <1>5, NoConflict
  <1> HIDE DEF m, S, o, h
  <1>7. IsThread(th[t]) /\ ThreadInv(m, t)
    BY <1>2, <1>5 DEF Inv, Types
  <1>8. /\ o \in DOMAIN m.heap /\ h[o] \in Objects /\ o \in Objs
        /\ o \in DOMAIN m.undo[t] \/ Settled(m, o)
    <2>1. Len(th[t].shadowstack) >= 1 =>
            Len(th[t].shadowstack) \in DOMAIN th[t].shadowstack
            /\ Last(th[t].shadowstack) = th[t].shadowstack[Len(th[t].shadowstack)]
      BY <1>7, FrontOfStack DEF IsThread
    <2> QED BY <1>2, <1>3, <1>5, <2>1, TargetsSeen
  <1>9. h[o].ref # NULL => h[o].ref \in Refs /\ Sees(m, t, h[o].ref)
    <2>1. h[o].ref # NULL => h[o].ref \in Refs
      BY <1>8 DEF Objects
    <2>2. CASE o \in DOMAIN m.undo[t]
      BY <1>5, <1>7, <1>8, <2>1, <2>2 DEF ThreadInv, Running
    <2>3. CASE o \notin DOMAIN m.undo[t]
      <3>1. Clean(m, h[o])
        BY <1>2, <1>5, <1>6, <1>8, <2>3 DEF Inv, Committed
      <3> QED BY <1>2, <2>1, <3>1, SettledIsOld DEF Inv, Clean, SettledRef, Sees
    <2> QED BY <2>2, <2>3
  <1>10. /\ IsThread(x) /\ x.pc = "run" /\ x.use_gil = th[t].use_gil
         /\ x.pointing = th[t].pointing
         /\ x.shadowstack = IF h[o].ref = NULL THEN th[t].shadowstack
                            ELSE Append(th[t].shadowstack, h[o].ref)
    BY <1>3, <1>7, <1>9 DEF IsThread, Called
  <1>11. n.th = [m.th EXCEPT ![t] = x]
    <2> HIDE DEF x
    <2> QED BY <1>1, <1>3, <1>5 DEF Now
  <1> HIDE DEF x
  <1>12. \A k \in DOMAIN x.shadowstack : Sees(m, t, x.shadowstack[k])
    <2>1. \A k \in DOMAIN th[t].shadowstack : Sees(m, t, th[t].shadowstack[k])
      BY <1>5, <1>7 DEF ThreadInv, Running
    <2>2. CASE h[o].ref = NULL
      BY <1>10, <2>1, <2>2
    <2>3. CASE h[o].ref # NULL
      <3>1. x.shadowstack = Append(th[t].shadowstack, h[o].ref) /\ th[t].shadowstack \in Seq(Refs)
        BY <1>7, <1>10, <2>3 DEF IsThread
      <3>2. \A k \in DOMAIN x.shadowstack : \/ k \in DOMAIN th[t].shadowstack /\ x.shadowstack[k] = th[t].shadowstack[k]
                                            \/ x.shadowstack[k] = h[o].ref
        BY <1>9, <2>3, <3>1, AppendProperties
      <3> QED BY <1>9, <2>1, <2>3, <3>2
    <2> QED BY <2>2, <2>3
  <1>13. /\ n.seen = [u \in Threads |-> n.seen[u]]
         /\ \A u \in Threads \ {t} : n.seen[u] = m.seen[u]
         /\ n.seen[t] = m.seen[t] \/ (o \notin DOMAIN m.undo[t] /\ n.seen[t] = Over(m.seen[t], Only(o, h[o].ref)))
    <2>1. m.seen = [u \in Threads |-> m.seen[u]] /\ n.seen = seen'
      BY <1>2 DEF Inv, Types, Now
    <2> QED BY <1>4, <1>5, <2>1
  <1>14. n.heap = m.heap /\ n.undo = m.undo /\ n.saved = m.saved /\ n.gil = m.gil
    BY <1>3, <1>5 DEF Now
  <1> HIDE DEF n
  <1>15. ReadsHold(n, t)
    <2>1. ReadsHold(m, t) /\ \A y : Settled(n, y) <=> Settled(m, y)
      BY <1>7, <1>14 DEF ThreadInv, Settled
    <2>2. CASE n.seen[t] = m.seen[t]
      BY <1>14, <2>1, <2>2 DEF ReadsHold
    <2>3. CASE o \notin DOMAIN m.undo[t] /\ n.seen[t] = Over(m.seen[t], Only(o, h[o].ref))
      <3>1. ASSUME NEW y \in DOMAIN n.seen[t]
            PROVE  \/ y = o /\ n.seen[t][y] = h[o].ref
                   \/ y \in DOMAIN m.seen[t] /\ n.seen[t][y] = m.seen[t][y]
        BY <2>3, <3>1 DEF Over, Only
      <3> QED BY <1>5, <1>6, <1>8, <1>14, <2>1, <2>3, <3>1 DEF ReadsHold
    <2> QED BY <1>13, <2>2, <2>3
  <1>16. Inv(n)
    BY <1>2, <1>5, <1>10, <1>11, <1>12, <1>13, <1>14, <1>15, RunsOn
  <1> QED BY <1>16 DEF n

\* A transaction writes r to o, which nobody else has read or written, and
\* remembers it if that is the first time; x is the thread afterwards.
WriteStep(m, n, t, o, r, x) ==
  /\ Runs(m, t) /\ o \in DOMAIN m.heap /\ r \in Refs
  /\ m.heap[o].place \in {"old", t} /\ (o \in DOMAIN m.undo[t] \/ Settled(m, o))
  /\ \A u \in Threads \ {t} : o \notin DOMAIN m.undo[u] /\ o \notin DOMAIN m.seen[u]
  /\ Sees(m, t, r)
  /\ n.heap = [m.heap EXCEPT ![o].barrier = FALSE, ![o].ref = r]
  /\ n.undo = [m.undo EXCEPT ![t] = Over(Only(o, m.heap[o]), @)]
  /\ n.seen = m.seen /\ n.saved = m.saved /\ n.gil = m.gil
  /\ n.th = [m.th EXCEPT ![t] = x] /\ IsThread(x) /\ x.pc = "run"
  /\ x.use_gil = m.th[t].use_gil /\ x.shadowstack = Stack(m, t)
  /\ x.pointing = m.th[t].pointing \cup (IF m.heap[o].barrier THEN {o} ELSE {})

\* Such a write leaves the state as good as before.
LEMMA WritesObject ==
  ASSUME ElisionAssumption, NEW m, NEW n, Inv(m), NEW t \in Threads, NEW o, NEW r, NEW x,
         WriteStep(m, n, t, o, r, x)
  PROVE  Inv(n)
  <1> USE DEF WriteStep
  <1>1. Types(m) /\ Committed(m) /\ ThreadInv(m, t) /\ Running(m, t)
    BY DEF Inv, ThreadInv
  <1>2. n.th[t] = x /\ \A u \in Threads \ {t} : n.th[u] = m.th[u]
    BY <1>1 DEF Types
  <1>3. /\ DOMAIN n.heap = DOMAIN m.heap /\ n.heap = [y \in DOMAIN n.heap |-> n.heap[y]]
        /\ \A y \in DOMAIN m.heap \ {o} : n.heap[y] = m.heap[y]
        /\ n.heap[o] \in Objects /\ n.heap[o].place = m.heap[o].place
        /\ n.heap[o].ref = r /\ ~n.heap[o].barrier
    <2> DEFINE w == [m.heap[o] EXCEPT !.barrier = FALSE, !.ref = r]
    <2>1. m.heap[o] \in Objects
      BY <1>1 DEF Types
    <2>2. w \in Objects /\ w.place = m.heap[o].place /\ w.ref = r /\ ~w.barrier
      BY <2>1 DEF Objects
    <2>3. m.heap = [y \in DOMAIN m.heap |-> m.heap[y]]
      BY <1>1 DEF Types
    <2>4. DOMAIN n.heap = DOMAIN m.heap /\ n.heap = [y \in DOMAIN n.heap |-> n.heap[y]]
      BY <2>3
    <2>5. \A y \in DOMAIN m.heap \ {o} : n.heap[y] = m.heap[y]
      BY <2>3
    <2>6. n.heap[o] = w
      BY <2>3
    <2> QED BY <2>2, <2>4, <2>5, <2>6
  <1>4. /\ DOMAIN n.undo[t] = DOMAIN m.undo[t] \cup {o}
        /\ \A y \in DOMAIN m.undo[t] : n.undo[t][y] = m.undo[t][y]
        /\ o \notin DOMAIN m.undo[t] => n.undo[t][o] = m.heap[o]
        /\ \A u \in Threads \ {t} : n.undo[u] = m.undo[u]
        /\ n.undo = [u \in Threads |-> n.undo[u]]
    <2>1. /\ n.undo[t] = Over(Only(o, m.heap[o]), m.undo[t])
          /\ \A u \in Threads \ {t} : n.undo[u] = m.undo[u]
          /\ n.undo = [u \in Threads |-> n.undo[u]]
      BY <1>1 DEF Types
    <2>2. DOMAIN Only(o, m.heap[o]) = {o} /\ Only(o, m.heap[o])[o] = m.heap[o]
      BY DEF Only
    <2>3. PICK f, g : f = Only(o, m.heap[o]) /\ g = m.undo[t]
      OBVIOUS
    <2>4. /\ DOMAIN Over(f, g) = DOMAIN f \cup DOMAIN g
          /\ \A y \in DOMAIN g : Over(f, g)[y] = g[y]
          /\ \A y \in DOMAIN f \ DOMAIN g : Over(f, g)[y] = f[y]
      BY DEF Over
    <2> QED BY <2>1, <2>2, <2>3, <2>4
  <1>5. m.heap[o] \in Objects /\ m.heap[o] # NULL
    <2>1. m.heap[o] \in Objects
      BY <1>1 DEF Types
    <2>2. m.heap[o] = Object(m.heap[o].place, m.heap[o].ref, m.heap[o].barrier, m.heap[o].weak)
      BY <2>1 DEF Objects, Object
    <2> QED BY <2>1, <2>2 DEF ElisionAssumption
  <1>6. \A y : Settled(m, y) => Settled(n, y)
    BY <1>3, <1>4, <1>5 DEF Settled
  <1>7. Types(n)
    <2>1. \A u \in Threads : /\ DOMAIN n.undo[u] \subseteq Objs
                             /\ \A y \in DOMAIN n.undo[u] : n.undo[u][y] \in Objects \cup {NULL}
      <3>1. o \in Objs
        BY <1>1 DEF Types
      <3>2. CASE TRUE
        BY <1>1, <1>4, <1>5, <3>1 DEF Types
      <3> QED BY <3>2
    <2>2. \A u \in Threads : IsThread(n.th[u])
      BY <1>1, <1>2 DEF Types
    <2>3. n.th = [u \in Threads |-> n.th[u]]
      BY <1>1 DEF Types
    <2>4. \A y \in DOMAIN n.heap : n.heap[y] \in Objects
      BY <1>1, <1>3 DEF Types
    <2> QED BY <1>1, <1>3, <1>4, <2>1, <2>2, <2>3, <2>4 DEF Types
  <1>8. Locking(n)
    BY <1>2 DEF Inv, Locking, Runs, Elides
  <1>9. \A y : Clean(m, y) => Clean(n, y)
    BY <1>6 DEF Clean, SettledRef
  <1>10. o \notin DOMAIN m.undo[t] => m.heap[o].place = "old" /\ Clean(m, m.heap[o])
    BY <1>1 DEF Committed, Clean
  <1>11. Committed(n)
    <2>1. \A u, v \in Threads : u # v => DOMAIN n.undo[u] \cap DOMAIN n.undo[v] = {}
      BY <1>1, <1>4 DEF Committed
    <2>2. ASSUME NEW y \in DOMAIN n.heap, \A u \in Threads : y \notin DOMAIN n.undo[u]
          PROVE  Clean(n, n.heap[y])
      <3>1. y # o /\ \A u \in Threads : y \notin DOMAIN m.undo[u]
        BY <1>4, <2>2
      <3> QED BY <1>1, <1>3, <1>9, <2>2, <3>1 DEF Committed
    <2>3. ASSUME NEW u \in Threads, NEW y \in DOMAIN n.undo[u], n.undo[u][y] # NULL
          PROVE  y \in DOMAIN n.heap /\ n.heap[y].place = "old" /\ Clean(n, n.undo[u][y])
      <3>1. CASE y \in DOMAIN m.undo[u]
        <4>1. n.undo[u][y] = m.undo[u][y]
          BY <1>4, <3>1
        <4> QED BY <1>1, <1>3, <1>9, <2>3, <3>1, <4>1 DEF Committed
      <3>2. CASE y \notin DOMAIN m.undo[u]
        <4>1. u = t /\ y = o
          BY <1>4, <2>3, <3>2
        <4> QED BY <1>3, <1>4, <1>9, <1>10, <3>2, <4>1
      <3> QED BY <3>1, <3>2
    <2>4. \A y \in Prebuilt : Settled(n, y)
      BY <1>1, <1>6 DEF Committed
    <2> QED BY <2>1, <2>2, <2>3, <2>4 DEF Committed
  <1>12. Step(m, n, t, {o})
    <2>1. \A y : Settled(m, y) => n.heap[y].place = "old"
      BY <1>1, <1>3, SettledIsOld
    <2>2. \A u \in Threads \ {t} : /\ n.th[u] = m.th[u] /\ n.undo[u] = m.undo[u]
                                    /\ {o} \cap DOMAIN m.undo[u] = {}
                                    /\ {o} \cap DOMAIN m.seen[u] = {}
      BY <1>2, <1>4
    <2>3. \A y : y \notin {o} => /\ y \in DOMAIN n.heap <=> y \in DOMAIN m.heap
                                 /\ y \in DOMAIN m.heap => n.heap[y] = m.heap[y]
      BY <1>3
    <2>4. DOMAIN n.undo[t] \subseteq DOMAIN m.undo[t] \cup {o}
      BY <1>4
    <2> QED BY <1>6, <2>1, <2>2, <2>3, <2>4 DEF Step
  <1>13. \A y : Sees(m, t, y) => Sees(n, t, y)
    BY <1>3, <1>4, <1>6 DEF Sees
  <1>14. Running(n, t)
    <2>1. ASSUME NEW y \in DOMAIN n.undo[t] \cap DOMAIN n.heap
          PROVE  /\ n.heap[y].place \in {"old", t} /\ (n.heap[y].place = t => ~n.heap[y].barrier)
                 /\ n.heap[y].ref # NULL => Sees(n, t, n.heap[y].ref)
                 /\ n.heap[y].place = "old" /\ (Young(n.heap[y].ref, t) \/ ~n.heap[y].barrier)
                      => y \in n.th[t].pointing
      <3>1. CASE y = o
        <4>1. m.heap[o].place = "old" /\ ~m.heap[o].barrier => o \in m.th[t].pointing
          BY <1>1, <1>10 DEF Running, Clean
        <4> QED BY <1>2, <1>3, <1>13, <3>1, <4>1
      <3>2. CASE y # o
        <4>1. y \in DOMAIN m.undo[t] \cap DOMAIN m.heap /\ n.heap[y] = m.heap[y]
          BY <1>3, <1>4, <2>1, <3>2
        <4> QED BY <1>1, <1>2, <1>13, <4>1 DEF Running
      <3> QED BY <3>1, <3>2
    <2>2. ASSUME NEW y \in n.th[t].pointing
          PROVE  y \in DOMAIN n.undo[t] /\ y \in DOMAIN n.heap /\ n.heap[y].place = "old"
      <3>1. CASE y \in m.th[t].pointing
        BY <1>1, <1>3, <1>4, <3>1 DEF Running
      <3>2. CASE y \notin m.th[t].pointing
        <4>1. y = o /\ m.heap[o].barrier
          BY <1>2, <2>2, <3>2
        <4>2. m.heap[o].place = "old"
          BY <1>1, <1>10, <4>1 DEF Running
        <4> QED BY <1>3, <1>4, <4>1, <4>2
      <3> QED BY <3>1, <3>2
    <2>3. \A k \in DOMAIN Stack(n, t) : Sees(n, t, Stack(n, t)[k])
      BY <1>1, <1>2, <1>13 DEF Running, Stack
    <2> QED BY <2>1, <2>2, <2>3 DEF Running
  <1>15. ReadsHold(n, t)
    BY <1>1, <1>3, <1>4, <1>6 DEF ThreadInv, ReadsHold, Settled
  <1>16. ThreadInv(n, t)
    <2>1. \A y : Resting(m, y) => Resting(n, y)
      BY <1>6 DEF Resting, SettledRef
    <2> QED BY <1>1, <1>2, <1>14, <1>15, <2>1 DEF ThreadInv, Runs, Elides
  <1> QED BY <1>7, <1>8, <1>11, <1>12, <1>16, OthersGoOn DEF Inv

\* stm_write() undoes who has read or written the object, and remembers it.
LEMMA WritesSteps ==
  ASSUME ElisionAssumption, ElisionInv, NEW t \in Threads, stm_write(t)
  PROVE  Inv(Now')
  <1> DEFINE s == th[t].shadowstack
             o == IF Argument(t) \in Prebuilt THEN Argument(t) ELSE s[Len(s) - 1].obj
             S == Readers(t, o) \cup Writers(t, o)
             m == After(S, "transient")
             n == Now'
             h == Undone(S)
             x == IF h[o].barrier THEN _stm_write_slowpath(o, Called(th[t])) ELSE Called(th[t])
  <1>1. S \in SUBSET Threads /\ t \notin S /\ \A u \in S : Elided(u)
    BY DEF Readers, Writers
  <1>2. Inv(m)
    BY <1>1, Undoing
  <1>3. /\ heap' = [h EXCEPT ![o].barrier = FALSE, ![o].ref = Top(t)]
        /\ undo' = [Ends(undo, S) EXCEPT ![t] = Over(Only(o, h[o]), @)]
        /\ seen' = Ends(seen, S) /\ _stm_gil' = _stm_gil /\ Back(S, t, x)
        /\ th[t].pc = "run"
        /\ Len(s) >= 1 /\ (Argument(t) \notin Prebuilt => Len(s) >= 2)
    <2>1. Len(s) >= (IF Argument(t) \in Prebuilt THEN 1 ELSE 2) /\ th[t].pc = "run"
      BY DEF stm_write, Calls, Pushed
    <2>2. Len(s) \in Nat
      <3>1. s \in Seq(Refs)
        BY DEF ElisionInv, Inv, Types, IsThread, Now
      <3> QED BY <3>1, LenProperties
    <2>3. Len(s) >= 1 /\ (Argument(t) \notin Prebuilt => Len(s) >= 2)
      <3> HIDE DEF s
      <3> QED BY <2>1, <2>2
    <2>4. /\ heap' = [h EXCEPT ![o].barrier = FALSE, ![o].ref = Top(t)]
          /\ undo' = [Ends(undo, S) EXCEPT ![t] = Over(Only(o, h[o]), @)]
          /\ seen' = Ends(seen, S) /\ _stm_gil' = _stm_gil /\ Back(S, t, x)
      BY DEF stm_write
    <2> QED BY <2>1, <2>3, <2>4
  <1> HIDE DEF x
  <1>4. /\ m.th[t] = th[t] /\ m.undo[t] = undo[t] /\ m.heap = h /\ m.undo = Ends(undo, S)
        /\ m.seen = Ends(seen, S) /\ Stack(m, t) = s /\ Runs(m, t)
        /\ m.th = [u \in Threads |-> IF u \in S THEN [saved[u] EXCEPT !.pc = "transient"]
                                                ELSE th[u]]
        /\ m.saved = saved /\ m.gil = _stm_gil
    BY <1>1, <1>3 DEF After, Ends, Stack, Runs
  <1>5. IsThread(th[t]) /\ ThreadInv(m, t)
    BY <1>2, <1>4 DEF Inv, Types
  <1>6. s \in Seq(Refs) /\ Len(s) \in Nat /\ DOMAIN s = 1..Len(s)
    BY <1>5, LenProperties DEF IsThread
  <1>7. Len(s) \in DOMAIN s /\ Top(t) = s[Len(s)] /\ Top(t) \in Refs
    <2>1. Top(t) = s[Len(s)]
      BY DEF Top, Last
    <2> HIDE DEF s
    <2> QED BY <1>3, <1>6, <2>1
  <1>8. o \in Prebuilt \/ \E k \in DOMAIN s : o = s[k].obj
    <2>1. Argument(t) \notin Prebuilt => Len(s) - 1 \in DOMAIN s
      <3> HIDE DEF s
      <3> QED BY <1>3, <1>6
    <2>2. o = IF Argument(t) \in Prebuilt THEN Argument(t) ELSE s[Len(s) - 1].obj
      OBVIOUS
    <2> HIDE DEF o, s
    <2> QED BY <2>1, <2>2
  <1>9. \A u \in Threads \ {t} : o \notin DOMAIN m.undo[u]
    <2>1. Writers(t, o) \subseteq S
      OBVIOUS
    <2> HIDE DEF m, S, o
    <2> QED BY <1>1, <1>3, <1>4, <2>1, NoConflict
  <1>10. \A u \in Threads \ {t} : o \notin DOMAIN m.seen[u]
    <2>0. Readers(t, o) \subseteq S
      OBVIOUS
    <2> HIDE DEF m, S, o
    <2> TAKE u \in Threads \ {t}
    <2>1. CASE u \in S
      BY <1>4, <2>1 DEF Ends, None
    <2>2. CASE u \notin S
      <3>1. m.seen[u] = seen[u]
        BY <1>4, <2>2 DEF Ends
      <3>2. Runs(Now, u) => Elided(u)
        BY <1>3 DEF ElisionAssumption, ElisionInv, Inv, Locking, Runs, Elides, Elided, Now
      <3>3. ~Runs(Now, u) => DOMAIN seen[u] = {}
        BY DEF ElisionInv, Inv, ThreadInv, Now
      <3> QED BY <2>0, <2>2, <3>1, <3>2, <3>3 DEF Readers
    <2> QED BY <2>1, <2>2
  <1>11. n.th = [m.th EXCEPT ![t] = x] /\ n.saved = m.saved
    BY <1>1, <1>3, <1>4 DEF Now, Back
  <1> HIDE DEF m, S, o, h, s
  <1>12. /\ o \in DOMAIN m.heap /\ m.heap[o].place \in {"old", t} /\ o \in Objs
         /\ o \in DOMAIN m.undo[t] \/ Settled(m, o)
    BY <1>2, <1>4, <1>8, TargetsSeen
  <1>13. Sees(m, t, Top(t))
    BY <1>4, <1>5, <1>7 DEF ThreadInv, Running
  <1>14. /\ IsThread(x) /\ x.pc = "run" /\ x.use_gil = th[t].use_gil /\ x.shadowstack = s
         /\ x.pointing = th[t].pointing \cup (IF h[o].barrier THEN {o} ELSE {})
    BY <1>3, <1>5, <1>12 DEF IsThread, Called, _stm_write_slowpath, x, s
  <1>15. /\ n.heap = [m.heap EXCEPT ![o].barrier = FALSE, ![o].ref = Top(t)]
         /\ n.undo = [m.undo EXCEPT ![t] = Over(Only(o, m.heap[o]), @)]
         /\ n.seen = m.seen /\ n.gil = m.gil
    BY <1>3, <1>4 DEF Now
  <1> HIDE DEF n
  <1>16. Inv(n)
    <2>1. /\ x.use_gil = m.th[t].use_gil /\ x.shadowstack = Stack(m, t)
          /\ x.pointing = m.th[t].pointing \cup (IF m.heap[o].barrier THEN {o} ELSE {})
          /\ IsThread(x) /\ x.pc = "run"
      BY <1>4, <1>14
    <2>2. /\ Runs(m, t) /\ Top(t) \in Refs /\ Sees(m, t, Top(t))
          /\ \A u \in Threads \ {t} : o \notin DOMAIN m.undo[u] /\ o \notin DOMAIN m.seen[u]
      BY <1>4, <1>7, <1>9, <1>10, <1>13
    <2>3. WriteStep(m, n, t, o, Top(t), x)
      BY <1>11, <1>12, <1>15, <2>1, <2>2 DEF WriteStep
    <2> QED BY <1>2, <2>3, WritesObject
  <1> QED BY <1>16 DEF n

-----------------------------------------------------------------------------
(* The collector.                                                          *)

Roots(m, t) == Range(Stack(m, t)) \cup {m.heap[o].ref : o \in m.th[t].pointing}
Alive(m, t) == Reached(m.heap, t, Roots(m, t))

\* What is in the nursery of a thread was written by its transaction.
LEMMA NurseryWritten ==
  ASSUME ElisionAssumption, NEW m, Inv(m), NEW t \in Threads, NEW o \in InNursery(m.heap, t)
  PROVE  o \in DOMAIN m.heap /\ m.heap[o].place = t /\ o \in DOMAIN m.undo[t]
  <1>1. o \in DOMAIN m.heap /\ m.heap[o].place = t /\ t # "old"
    BY DEF InNursery, ElisionAssumption
  <1>2. \A u \in Threads : o \in DOMAIN m.undo[u] => u = t
    <2> TAKE u \in Threads
    <2> HAVE o \in DOMAIN m.undo[u]
    <2>1. Running(m, u)
      BY DEF Inv, ThreadInv
    <2>2. m.heap[o].place \in {"old", u}
      BY <1>1, <2>1 DEF Running
    <2> QED BY <1>1, <2>2
  <1>3. \E u \in Threads : o \in DOMAIN m.undo[u]
    BY <1>1 DEF Inv, Committed, Clean
  <1> QED BY <1>1, <1>2, <1>3

\* What is reached is a part of the nursery, and with an object it has what
\* that refers to.
LEMMA AliveClosed ==
  ASSUME ElisionAssumption, NEW m, Inv(m), NEW t \in Threads, Runs(m, t)
  PROVE  /\ Alive(m, t) \subseteq InNursery(m.heap, t)
         /\ Traced(m.heap, t, Roots(m, t), Alive(m, t))
  <1> DEFINE Y == InNursery(m.heap, t)
             A == Alive(m, t)
  <1>1. /\ A \subseteq Y
        /\ \A o \in A : \A S \in SUBSET Y : Traced(m.heap, t, Roots(m, t), S) => o \in S
        /\ \A o \in Y : (\A S \in SUBSET Y : Traced(m.heap, t, Roots(m, t), S) => o \in S) => o \in A
    BY DEF Alive, Reached
  <1>2. Running(m, t)
    BY DEF Inv, ThreadInv
  <1>3. ASSUME NEW r, Sees(m, t, r), Young(r, t)
        PROVE  r.obj \in Y
    BY <1>3 DEF Sees, Young, InNursery
  <1>4. ASSUME NEW r \in Roots(m, t), Young(r, t)
        PROVE  r.obj \in Y
    <2>1. CASE r \in Range(Stack(m, t))
      BY <1>2, <1>3, <1>4, <2>1 DEF Running, Range
    <2>2. CASE \E o \in m.th[t].pointing : r = m.heap[o].ref
      BY <1>2, <1>3, <1>4, <2>2 DEF Running, Young
    <2> QED BY <1>4, <2>1, <2>2 DEF Roots
  <1>5. ASSUME NEW o \in A, Young(m.heap[o].ref, t)
        PROVE  m.heap[o].ref.obj \in Y
    <2>1. o \in DOMAIN m.heap /\ o \in DOMAIN m.undo[t]
      BY <1>1, <1>5, NurseryWritten
    <2> QED BY <1>2, <1>3, <1>5, <2>1 DEF Running, Young
  <1> HIDE DEF A, Y
  <1>6. \A r \in Roots(m, t) : Young(r, t) => r.obj \in A
    BY <1>1, <1>4 DEF Traced
  <1>7. \A o \in A : ~m.heap[o].weak /\ Young(m.heap[o].ref, t) => m.heap[o].ref.obj \in A
    BY <1>1, <1>5 DEF Traced
  <1>8. Traced(m.heap, t, Roots(m, t), A)
    BY <1>6, <1>7 DEF Traced
  <1> QED BY <1>1, <1>8 DEF A, Y

\* What a collection does: objects of A move out of the nursery, with them
\* and the remembered ones their references; the others are gone.
Emptied(m, t, A, h) ==
  /\ h = [o \in DOMAIN h |-> h[o]]
  /\ DOMAIN h = DOMAIN m.heap \ (InNursery(m.heap, t) \ A)
  /\ \A o \in DOMAIN h : o \notin A \cup m.th[t].pointing => h[o] = m.heap[o]
  /\ \A o \in A \cup m.th[t].pointing :
       /\ o \in DOMAIN h /\ h[o] \in Objects /\ h[o].place = "old" /\ h[o].barrier
       /\ h[o].ref # NULL => /\ h[o].ref = Moved(m.heap[o].ref, t)
                             /\ Young(m.heap[o].ref, t) => m.heap[o].ref.obj \in A

\* A reference that moves is one to an old object.
LEMMA MovedRef ==
  ASSUME ElisionAssumption, NEW t \in Threads, NEW r \in Refs \cup {NULL}
  PROVE  /\ Moved(r, t) \in Refs \cup {NULL} /\ (r # NULL => Moved(r, t) \in Refs)
         /\ r = NULL => Moved(r, t) = NULL
         /\ Young(r, t) => Moved(r, t) = Ref(r.obj, "old")
         /\ ~Young(r, t) => Moved(r, t) = r
         /\ ~Young(Moved(r, t), t)
         /\ r # NULL => Moved(r, t).obj = r.obj
  BY DEF Moved, Young, Ref, Refs, ElisionAssumption

\* This is what stm_collect() does to the heap.
LEMMA CollectedHeap ==
  ASSUME ElisionAssumption, NEW m, Inv(m), NEW t \in Threads, Runs(m, t)
  PROVE  Emptied(m, t, Alive(m, t), stm_collect(t, m.th[t], m.heap).heap)
  <1> DEFINE A == Alive(m, t)
             old == m.th[t].pointing
             h == stm_collect(t, m.th[t], m.heap).heap
             after(o) == [m.heap[o] EXCEPT
               !.place = "old", !.barrier = TRUE,
               !.ref = IF m.heap[o].weak THEN WeakMoved(@, t, A) ELSE Moved(@, t)]
  <1>1. h = [o \in DOMAIN m.heap \ (InNursery(m.heap, t) \ A) |->
               IF o \in A \cup old THEN after(o) ELSE m.heap[o]]
    BY DEF stm_collect, Alive, Roots, Stack
  <1>2. Running(m, t) /\ Types(m)
    BY DEF Inv, ThreadInv
  <1>3. A \subseteq InNursery(m.heap, t) /\ Traced(m.heap, t, Roots(m, t), A)
    BY AliveClosed
  <1>4. ASSUME NEW o \in A \cup old
        PROVE  /\ o \in DOMAIN m.heap /\ m.heap[o] \in Objects
               /\ o \in DOMAIN m.heap \ (InNursery(m.heap, t) \ A)
    <2>1. o \in DOMAIN m.heap
      BY <1>2, <1>3, <1>4 DEF InNursery, Running
    <2>2. o \in old => m.heap[o].place = "old" /\ "old" # t
      BY <1>2 DEF Running, ElisionAssumption
    <2> QED BY <1>2, <2>1, <2>2, <1>4 DEF InNursery, Types
  <1>5. ASSUME NEW o \in A \cup old
        PROVE  LET r == after(o).ref
                   w == m.heap[o].ref
               IN /\ r \in Refs \cup {NULL}
                  /\ r # NULL => r = Moved(w, t) /\ (Young(w, t) => w.obj \in A)
    <2> DEFINE w == m.heap[o].ref
    <2>1. m.heap[o] \in Objects /\ w \in Refs \cup {NULL}
      BY <1>4, <1>5 DEF Objects
    <2>2. after(o).ref = IF m.heap[o].weak THEN WeakMoved(w, t, A) ELSE Moved(w, t)
      BY <2>1 DEF Objects
    <2>3. Moved(w, t) \in Refs \cup {NULL} /\ (~Young(w, t) => Moved(w, t) = w)
      BY <2>1, MovedRef
    <2>4. ~m.heap[o].weak /\ Young(w, t) => w.obj \in A
      <3>1. CASE o \in A
        BY <1>3, <3>1 DEF Traced
      <3>2. CASE o \in old
        BY <1>3, <3>2 DEF Traced, Roots
      <3> QED BY <1>5, <3>1, <3>2
    <2>5. CASE ~m.heap[o].weak
      BY <2>2, <2>3, <2>4, <2>5
    <2>6. CASE m.heap[o].weak
      BY <2>2, <2>3, <2>6 DEF WeakMoved
    <2> QED BY <2>5, <2>6
  <1>6. ASSUME NEW o \in A \cup old
        PROVE  after(o) \in Objects /\ after(o).place = "old" /\ after(o).barrier
    <2>1. m.heap[o] \in Objects /\ after(o).ref \in Refs \cup {NULL}
      BY <1>4, <1>5, <1>6
    <2> DEFINE y == IF m.heap[o].weak THEN WeakMoved(m.heap[o].ref, t, A) ELSE Moved(m.heap[o].ref, t)
    <2>2. after(o) = [m.heap[o] EXCEPT !.place = "old", !.barrier = TRUE, !.ref = y]
      BY <2>1 DEF Objects
    <2>3. y \in Refs \cup {NULL}
      BY <2>1, <2>2 DEF Objects
    <2> HIDE DEF y, after
    <2> QED BY <2>1, <2>2, <2>3 DEF Objects
  <1> HIDE DEF A, old, h, after
  <1>7. \A o \in A \cup old : o \in DOMAIN h /\ h[o] = after(o)
    BY <1>1, <1>4
  <1>8. \A o \in DOMAIN h : o \notin A \cup old => h[o] = m.heap[o]
    BY <1>1
  <1>9. DOMAIN h = DOMAIN m.heap \ (InNursery(m.heap, t) \ A) /\ h = [o \in DOMAIN h |-> h[o]]
    BY <1>1
  <1>10. Emptied(m, t, A, h)
    BY <1>5, <1>6, <1>7, <1>8, <1>9 DEF Emptied, old
  <1> QED BY <1>10 DEF A, h

\* A transaction empties its nursery; x is the thread afterwards.
CollectStep(m, n, t, x) ==
  /\ Runs(m, t) /\ Emptied(m, t, Alive(m, t), n.heap)
  /\ n.undo = m.undo /\ n.seen = m.seen /\ n.saved = m.saved /\ n.gil = m.gil
  /\ n.th = [m.th EXCEPT ![t] = x] /\ IsThread(x) /\ x.pc = "run"
  /\ x.use_gil = m.th[t].use_gil /\ x.pointing = {}
  /\ x.shadowstack = [k \in DOMAIN Stack(m, t) |-> Moved(Stack(m, t)[k], t)]

\* What a transaction sees, it sees where it has moved to.
LEMMA MovedIsSeen ==
  ASSUME ElisionAssumption, NEW m, NEW n, NEW x, Inv(m), NEW t \in Threads,
         CollectStep(m, n, t, x)
  PROVE  /\ \A o : Settled(m, o) => Settled(n, o) /\ n.heap[o].place = "old"
         /\ \A o \in DOMAIN m.heap : m.heap[o].place = "old" =>
              o \in DOMAIN n.heap /\ n.heap[o].place = "old"
         /\ \A r \in Refs : Sees(m, t, r) /\ (Young(r, t) => r.obj \in Alive(m, t))
              => Sees(n, t, Moved(r, t))
  <1> DEFINE A == Alive(m, t)
  <1>1. Emptied(m, t, A, n.heap) /\ n.undo = m.undo /\ Runs(m, t)
    BY DEF CollectStep
  <1>2. A \subseteq InNursery(m.heap, t)
    BY <1>1, AliveClosed
  <1> HIDE DEF A
  <1>3. ASSUME NEW o \in DOMAIN m.heap, m.heap[o].place = "old"
        PROVE  o \in DOMAIN n.heap /\ n.heap[o].place = "old"
    <2>1. o \notin InNursery(m.heap, t)
      BY <1>3 DEF InNursery, ElisionAssumption
    <2>2. o \in DOMAIN n.heap
      BY <1>1, <1>3, <2>1 DEF Emptied
    <2>3. CASE o \in A \cup m.th[t].pointing
      BY <1>1, <2>2, <2>3 DEF Emptied
    <2>4. CASE o \notin A \cup m.th[t].pointing
      BY <1>1, <1>3, <2>2, <2>4 DEF Emptied
    <2> QED BY <2>2, <2>3, <2>4
  <1>4. ASSUME NEW o, Settled(m, o)
        PROVE  Settled(n, o) /\ n.heap[o].place = "old"
    <2>1. o \in DOMAIN m.heap /\ m.heap[o].place = "old"
      BY <1>4, SettledIsOld DEF Inv
    <2> QED BY <1>1, <1>3, <1>4, <2>1 DEF Settled
  <1>5. ASSUME NEW r \in Refs, Sees(m, t, r), Young(r, t) => r.obj \in A
        PROVE  Sees(n, t, Moved(r, t))
    <2>1. r.obj \in DOMAIN m.undo[t] \/ Settled(m, r.obj)
      BY <1>5 DEF Sees
    <2>2. CASE Young(r, t)
      <3>1. Moved(r, t) = Ref(r.obj, "old") /\ r.obj \in A
        BY <1>5, <2>2, MovedRef
      <3>2. r.obj \in DOMAIN n.heap /\ n.heap[r.obj].place = "old"
        BY <1>1, <3>1 DEF Emptied
      <3>3. Moved(r, t).obj = r.obj /\ Moved(r, t).place = "old"
        BY <3>1 DEF Ref
      <3> QED BY <1>1, <1>4, <2>1, <3>2, <3>3 DEF Sees
    <2>3. CASE ~Young(r, t)
      <3>1. Moved(r, t) = r
        BY <2>3, MovedRef
      <3>2. r = Ref(r.obj, r.place)
        BY DEF Refs, Ref
      <3>3. r.place # t
        BY <2>3, <3>2 DEF Young, ElisionAssumption
      <3>4. r.place = "old" /\ r.obj \in DOMAIN m.heap /\ m.heap[r.obj].place = "old"
        BY <1>5, <3>3 DEF Sees
      <3> QED BY <1>1, <1>3, <1>4, <2>1, <3>1, <3>4 DEF Sees
    <2> QED BY <2>2, <2>3
  <1> QED BY <1>3, <1>4, <1>5 DEF A

\* Where t has been in its nursery nothing is left, and nothing is
\* remembered.
Tidy(m, t) ==
  /\ \A o \in DOMAIN m.heap : m.heap[o].place # t
  /\ m.th[t].pointing = {}

\* The objects that t has not written are as they were.
OnlyOwn(m, n, t) ==
  \A o : o \notin DOMAIN m.undo[t] => /\ o \in DOMAIN n.heap <=> o \in DOMAIN m.heap
                                      /\ o \in DOMAIN m.heap => n.heap[o] = m.heap[o]

\* A collection changes only what the transaction has written, and leaves
\* the state as good as before.
LEMMA Collects ==
  ASSUME ElisionAssumption, NEW m, NEW n, NEW x, Inv(m), NEW t \in Threads,
         CollectStep(m, n, t, x)
  PROVE  Inv(n) /\ Tidy(n, t) /\ OnlyOwn(m, n, t)
  <1> DEFINE A == Alive(m, t)
             old == m.th[t].pointing
  <1>1. /\ Emptied(m, t, A, n.heap) /\ Runs(m, t) /\ n.undo = m.undo /\ n.seen = m.seen
        /\ n.saved = m.saved /\ n.gil = m.gil /\ n.th = [m.th EXCEPT ![t] = x]
        /\ IsThread(x) /\ x.pc = "run" /\ x.use_gil = m.th[t].use_gil /\ x.pointing = {}
        /\ x.shadowstack = [k \in DOMAIN Stack(m, t) |-> Moved(Stack(m, t)[k], t)]
    BY DEF CollectStep
  <1>2. Types(m) /\ Committed(m) /\ Locking(m) /\ ThreadInv(m, t) /\ Running(m, t)
    BY <1>1 DEF Inv, ThreadInv
  <1>3. A \subseteq InNursery(m.heap, t) /\ Traced(m.heap, t, Roots(m, t), A)
    BY <1>1, AliveClosed
  <1>4. InNursery(m.heap, t) \subseteq DOMAIN m.undo[t] /\ A \cup old \subseteq DOMAIN m.undo[t]
    BY <1>2, <1>3, NurseryWritten DEF Running
  <1>5. /\ \A o : Settled(m, o) => Settled(n, o) /\ n.heap[o].place = "old"
        /\ \A o \in DOMAIN m.heap : m.heap[o].place = "old" =>
             o \in DOMAIN n.heap /\ n.heap[o].place = "old"
        /\ \A r \in Refs : Sees(m, t, r) /\ (Young(r, t) => r.obj \in A) => Sees(n, t, Moved(r, t))
    BY MovedIsSeen
  <1> HIDE DEF A
  <1>6. n.th[t] = x /\ \A u \in Threads \ {t} : n.th[u] = m.th[u]
    BY <1>1, <1>2 DEF Types
  <1>7. ASSUME NEW o, o \notin DOMAIN m.undo[t]
        PROVE  /\ o \in DOMAIN n.heap <=> o \in DOMAIN m.heap
               /\ o \in DOMAIN m.heap => n.heap[o] = m.heap[o]
    BY <1>1, <1>4, <1>7 DEF Emptied
  <1>8. Types(n)
    <2>1. n.heap = [o \in DOMAIN n.heap |-> n.heap[o]] /\ DOMAIN n.heap \subseteq Objs
      BY <1>1, <1>2 DEF Types, Emptied
    <2>2. ASSUME NEW o \in DOMAIN n.heap
          PROVE  n.heap[o] \in Objects
      <3>1. CASE o \in A \cup old
        BY <1>1, <3>1 DEF Emptied
      <3>2. CASE o \notin A \cup old
        <4>1. n.heap[o] = m.heap[o] /\ o \in DOMAIN m.heap
          BY <1>1, <2>2, <3>2 DEF Emptied
        <4> QED BY <1>2, <4>1 DEF Types
      <3> QED BY <3>1, <3>2
    <2> QED BY <1>1, <1>2, <1>6, <2>1, <2>2 DEF Types
  <1>9. Locking(n)
    BY <1>1, <1>2, <1>6 DEF Locking, Runs, Elides
  <1>10. \A y : Clean(m, y) => Clean(n, y)
    BY <1>5 DEF Clean, SettledRef
  <1>11. Committed(n)
    <2>1. \A o \in DOMAIN n.heap : (\A u \in Threads : o \notin DOMAIN n.undo[u]) => Clean(n, n.heap[o])
      BY <1>1, <1>2, <1>7, <1>10 DEF Committed
    <2>2. \A u \in Threads : \A o \in DOMAIN n.undo[u] : n.undo[u][o] # NULL =>
            /\ o \in DOMAIN n.heap /\ n.heap[o].place = "old"
            /\ Clean(n, n.undo[u][o])
      BY <1>1, <1>2, <1>5, <1>10 DEF Committed
    <2> QED BY <1>1, <1>2, <1>5, <2>1, <2>2 DEF Committed
  <1>12. Step(m, n, t, DOMAIN m.undo[t])
    <2>1. ASSUME NEW u \in Threads \ {t}
          PROVE  /\ DOMAIN m.undo[t] \cap DOMAIN m.undo[u] = {}
                 /\ DOMAIN m.undo[t] \cap DOMAIN m.seen[u] = {}
      <3>1. ThreadInv(m, u)
        BY DEF Inv
      <3> QED BY <1>2, <3>1 DEF Committed, ThreadInv, ReadsHold
    <2> QED BY <1>1, <1>5, <1>6, <1>7, <2>1 DEF Step
  <1>13. ASSUME NEW o \in DOMAIN n.undo[t] \cap DOMAIN n.heap
         PROVE  /\ n.heap[o].place = "old" /\ n.heap[o].barrier /\ ~Young(n.heap[o].ref, t)
                /\ n.heap[o].ref # NULL => Sees(n, t, n.heap[o].ref)
    <2>0. o \in DOMAIN m.heap /\ o \in DOMAIN m.undo[t] /\ m.heap[o].ref \in Refs \cup {NULL}
      BY <1>1, <1>2, <1>13 DEF Emptied, Types, Objects
    <2>1. m.heap[o].ref # NULL => Sees(m, t, m.heap[o].ref)
      BY <1>2, <2>0 DEF Running
    <2>2. CASE o \in A \cup old
      <3>1. /\ n.heap[o].place = "old" /\ n.heap[o].barrier
            /\ n.heap[o].ref # NULL => /\ n.heap[o].ref = Moved(m.heap[o].ref, t)
                                       /\ Young(m.heap[o].ref, t) => m.heap[o].ref.obj \in A
        BY <1>1, <2>2 DEF Emptied
      <3>2. CASE n.heap[o].ref = NULL
        BY <3>1, <3>2 DEF Young
      <3>3. CASE n.heap[o].ref # NULL
        <4>1. m.heap[o].ref # NULL /\ ~Young(n.heap[o].ref, t)
          BY <2>0, <3>1, <3>3, MovedRef
        <4>2. Sees(n, t, Moved(m.heap[o].ref, t))
          BY <1>5, <2>0, <2>1, <3>1, <3>3, <4>1
        <4> QED BY <3>1, <3>3, <4>1, <4>2
      <3> QED BY <3>2, <3>3
    <2>3. CASE o \notin A \cup old
      <3>1. n.heap[o] = m.heap[o] /\ o \notin InNursery(m.heap, t)
        BY <1>1, <1>13, <2>3 DEF Emptied
      <3>2. m.heap[o].place = "old"
        BY <1>2, <2>0, <3>1 DEF Running, InNursery
      <3>3. m.heap[o].barrier /\ ~Young(m.heap[o].ref, t)
        BY <1>2, <2>0, <2>3, <3>2 DEF Running
      <3>4. m.heap[o].ref # NULL => Sees(n, t, Moved(m.heap[o].ref, t)) /\ Moved(m.heap[o].ref, t) = m.heap[o].ref
        BY <1>5, <2>0, <2>1, <3>3, MovedRef
      <3> QED BY <3>1, <3>2, <3>3, <3>4
    <2> QED BY <2>2, <2>3
  <1>14. ASSUME NEW k \in DOMAIN x.shadowstack
         PROVE  Sees(n, t, x.shadowstack[k])
    <2> DEFINE r == Stack(m, t)[k]
    <2>1. k \in DOMAIN Stack(m, t) /\ x.shadowstack[k] = Moved(r, t)
      BY <1>1, <1>14
    <2>2. r \in Refs
      BY <1>2, <2>1 DEF Types, IsThread, Stack
    <2>3. r \in Roots(m, t)
      BY <2>1 DEF Roots, Range
    <2>4. Sees(m, t, r) /\ (Young(r, t) => r.obj \in A)
      BY <1>2, <1>3, <2>1, <2>3 DEF Running, Traced
    <2> HIDE DEF r
    <2> QED BY <1>5, <2>1, <2>2, <2>4
  <1>15. Running(n, t)
    BY <1>1, <1>6, <1>13, <1>14 DEF Running, Stack, ElisionAssumption
  <1>16. ReadsHold(n, t)
    BY <1>1, <1>2, <1>5, <1>7 DEF ThreadInv, ReadsHold, Settled
  <1>17. ThreadInv(n, t)
    <2>1. \A y : Resting(m, y) => Resting(n, y)
      BY <1>5 DEF Resting, SettledRef
    <2> QED BY <1>1, <1>2, <1>6, <1>15, <1>16, <2>1 DEF ThreadInv, Runs, Elides
  <1>18. Tidy(n, t)
    <2>1. ASSUME NEW o \in DOMAIN n.heap
          PROVE  n.heap[o].place # t
      <3>1. CASE o \in A \cup old
        BY <1>1, <3>1 DEF Emptied, ElisionAssumption
      <3>2. CASE o \notin A \cup old
        BY <1>1, <2>1, <3>2 DEF Emptied, InNursery
      <3> QED BY <3>1, <3>2
    <2> QED BY <1>1, <1>6, <2>1 DEF Tidy
  <1>19. OnlyOwn(m, n, t)
    BY <1>7 DEF OnlyOwn
  <1> QED BY <1>8, <1>9, <1>11, <1>12, <1>17, <1>18, <1>19, OthersGoOn DEF Inv

\* What the collector makes of a thread.
LEMMA CollectedThread ==
  ASSUME ElisionAssumption, NEW own, IsThread(own), NEW t \in Threads, NEW h
  PROVE  LET x == stm_collect(t, own, h).own
         IN /\ IsThread(x) /\ x.pc = own.pc /\ x.use_gil = own.use_gil /\ x.pointing = {}
            /\ x.shadowstack = [k \in DOMAIN own.shadowstack |-> Moved(own.shadowstack[k], t)]
            /\ Len(x.shadowstack) = Len(own.shadowstack)
  <1> DEFINE s == own.shadowstack
             z == [k \in DOMAIN s |-> Moved(s[k], t)]
             x == stm_collect(t, own, h).own
  <1>1. x = [own EXCEPT !.shadowstack = z, !.pointing = {}, !.weakrefs = {}]
    BY DEF stm_collect
  <1>2. s \in Seq(Refs) /\ Len(s) \in Nat /\ DOMAIN s = 1..Len(s)
    BY LenProperties DEF IsThread
  <1>3. \A k \in 1..Len(s) : Moved(s[k], t) \in Refs
    <2>1. \A k \in 1..Len(s) : s[k] \in Refs
      BY <1>2
    <2>2. \A r \in Refs : r # NULL
      <3>1. \A r \in Refs : r = Ref(r.obj, r.place)
        BY DEF Refs, Ref
      <3> QED BY <3>1 DEF ElisionAssumption
    <2> QED BY <2>1, <2>2, MovedRef
  <1>4. z \in Seq(Refs) /\ Len(z) = Len(s)
    <2>1. z \in [1..Len(s) -> Refs]
      BY <1>2, <1>3
    <2> HIDE DEF z, s
    <2> QED BY <1>2, <2>1
  <1> HIDE DEF z, x
  <1>5. /\ IsThread(x) /\ x.pc = own.pc /\ x.use_gil = own.use_gil /\ x.pointing = {}
        /\ x.shadowstack = z
    BY <1>1, <1>4 DEF IsThread
  <1> QED BY <1>4, <1>5 DEF z, x

\* The state in which t has called stm_collect().
Mid(t) ==
  LET full == stm_collect(t, th[t], heap)
  IN [Now EXCEPT !.heap = full.heap, !.th = [th EXCEPT ![t] = full.own]]

\* The collector, called by a thread.
LEMMA CollectsNow ==
  ASSUME ElisionAssumption, ElisionInv, NEW t \in Threads, th[t].pc = "run"
  PROVE  /\ Inv(Mid(t)) /\ Tidy(Mid(t), t) /\ CollectStep(Now, Mid(t), t, stm_collect(t, th[t], heap).own)
         /\ Mid(t).th[t] = stm_collect(t, th[t], heap).own
         /\ Mid(t).heap = stm_collect(t, th[t], heap).heap
  <1> DEFINE full == stm_collect(t, th[t], heap)
             m == Now
             n == Mid(t)
  <1>1. Inv(m) /\ Runs(m, t) /\ m.th[t] = th[t] /\ IsThread(th[t]) /\ Stack(m, t) = th[t].shadowstack
        /\ m.heap = heap /\ th = [u \in Threads |-> th[u]]
    BY DEF ElisionInv, Inv, Types, Runs, Stack, Now
  <1>2. /\ n.heap = full.heap /\ n.th = [m.th EXCEPT ![t] = full.own]
        /\ n.undo = m.undo /\ n.seen = m.seen /\ n.saved = m.saved /\ n.gil = m.gil
    BY DEF Mid, Now
  <1> HIDE DEF m, n
  <1>3. Emptied(m, t, Alive(m, t), n.heap)
    BY <1>1, <1>2, CollectedHeap
  <1>4. /\ IsThread(full.own) /\ full.own.pc = th[t].pc /\ full.own.use_gil = th[t].use_gil
        /\ full.own.pointing = {}
        /\ full.own.shadowstack = [k \in DOMAIN th[t].shadowstack |-> Moved(th[t].shadowstack[k], t)]
    BY <1>1, CollectedThread
  <1> HIDE DEF full
  <1>5. CollectStep(m, n, t, full.own)
    BY <1>1, <1>2, <1>3, <1>4 DEF CollectStep
  <1>6. n.th[t] = full.own
    BY <1>1, <1>2 DEF Inv, Types
  <1> QED BY <1>1, <1>2, <1>5, <1>6, Collects DEF full, m, n

\* A transaction whose nursery is empty ends.
LEMMA Ending ==
  ASSUME ElisionAssumption, NEW m, NEW n, NEW x, Inv(m), NEW t \in Threads,
         Runs(m, t), Tidy(m, t), n.heap = m.heap,
         n.undo = Ends(m.undo, {t}), n.seen = Ends(m.seen, {t}),
         n.saved = [m.saved EXCEPT ![t] = NULL],
         n.gil = (IF m.th[t].use_gil THEN NULL ELSE m.gil),
         n.th = [m.th EXCEPT ![t] = x], IsThread(x), x.pc = "out",
         x.pointing = {}, x.shadowstack = Stack(m, t)
  PROVE  Inv(n)
  <1>1. Types(m) /\ Committed(m) /\ Locking(m) /\ ThreadInv(m, t) /\ Running(m, t)
    BY DEF Inv, ThreadInv
  <1>2. /\ n.th[t] = x /\ \A u \in Threads \ {t} : n.th[u] = m.th[u] /\ n.saved[u] = m.saved[u]
        /\ DOMAIN n.undo[t] = {} /\ DOMAIN n.seen[t] = {}
        /\ \A u \in Threads \ {t} : n.undo[u] = m.undo[u] /\ n.seen[u] = m.seen[u]
    BY <1>1 DEF Types, Ends, None
  <1>3. /\ n.undo = [u \in Threads |-> n.undo[u]] /\ n.seen = [u \in Threads |-> n.seen[u]]
        /\ n.th = [u \in Threads |-> n.th[u]] /\ n.saved = [u \in Threads |-> n.saved[u]]
    BY <1>1 DEF Types, Ends
  <1>4. Types(n)
    BY <1>1, <1>2, <1>3 DEF Types
  <1>5. Locking(n)
    BY <1>1, <1>2 DEF Locking, Runs, Elides, ElisionAssumption
  <1>6. \A o : Settled(m, o) => Settled(n, o)
    BY <1>2 DEF Settled
  <1>7. \A o \in DOMAIN m.heap \cap DOMAIN m.undo[t] : Settled(n, o)
    BY <1>1, <1>2 DEF Settled, Committed
  <1>8. \A y : Clean(m, y) => Clean(n, y)
    BY <1>6 DEF Clean, SettledRef
  <1>9. \A r : Sees(m, t, r) => SettledRef(n, r)
    BY <1>6, <1>7 DEF Sees, Tidy, SettledRef
  <1>10. ASSUME NEW o \in DOMAIN m.heap \cap DOMAIN m.undo[t]
         PROVE  Clean(n, m.heap[o])
    <2>1. m.heap[o] \in Objects /\ m.heap[o].barrier \in BOOLEAN
      BY <1>1 DEF Types, Objects
    <2>2. m.heap[o].place = "old"
      BY <1>1 DEF Running, Tidy
    <2>3. m.heap[o].barrier
      BY <1>1, <2>2 DEF Running, Tidy
    <2>4. m.heap[o].ref # NULL => SettledRef(n, m.heap[o].ref)
      BY <1>1, <1>9 DEF Running
    <2> QED BY <2>1, <2>2, <2>3, <2>4 DEF Clean
  <1>11. Committed(n)
    <2>1. \A u, v \in Threads : u # v => DOMAIN n.undo[u] \cap DOMAIN n.undo[v] = {}
      BY <1>1, <1>2 DEF Committed
    <2>2. ASSUME NEW o \in DOMAIN n.heap, \A u \in Threads : o \notin DOMAIN n.undo[u]
          PROVE  Clean(n, n.heap[o])
      <3>1. CASE o \in DOMAIN m.undo[t]
        BY <1>10, <2>2, <3>1
      <3>2. CASE o \notin DOMAIN m.undo[t]
        BY <1>1, <1>2, <1>8, <2>2, <3>2 DEF Committed
      <3> QED BY <3>1, <3>2
    <2>3. ASSUME NEW u \in Threads, NEW o \in DOMAIN n.undo[u], n.undo[u][o] # NULL
          PROVE  o \in DOMAIN n.heap /\ n.heap[o].place = "old" /\ Clean(n, n.undo[u][o])
      <3>1. u # t /\ n.undo[u] = m.undo[u]
        BY <1>2, <2>3
      <3> QED BY <1>1, <1>8, <2>3, <3>1 DEF Committed
    <2> QED BY <1>1, <1>6, <2>1, <2>2, <2>3 DEF Committed
  <1>12. Step(m, n, t, {})
    <2>1. \A o : Settled(m, o) => n.heap[o].place = "old"
      BY <1>1, SettledIsOld
    <2> QED BY <1>2, <1>6, <2>1 DEF Step
  <1>13. ThreadInv(n, t)
    <2>1. Resting(n, x)
      BY <1>1, <1>9 DEF Resting, Running, Stack
    <2> QED BY <1>2, <2>1 DEF ThreadInv, Runs, Elides, ReadsHold
  <1> QED BY <1>4, <1>5, <1>11, <1>12, <1>13, OthersGoOn DEF Inv

\* A transaction is committed with its nursery empty.
LEMMA Commits ==
  ASSUME ElisionAssumption, ElisionInv, NEW t \in Threads, stm_commit_transaction(t)
  PROVE  Inv(Now')
  <1> DEFINE full == stm_collect(t, th[t], heap)
             m == Mid(t)
             n == Now'
             x == [full.own EXCEPT !.pc = "out"]
  <1>1. /\ th[t].pc = "run" /\ heap' = full.heap /\ th' = [th EXCEPT ![t] = x]
        /\ _stm_gil' = IF th[t].use_gil THEN NULL ELSE _stm_gil
        /\ undo' = Ends(undo, {t}) /\ seen' = Ends(seen, {t}) /\ saved' = [saved EXCEPT ![t] = NULL]
    BY DEF stm_commit_transaction
  <1>2. Inv(m) /\ Tidy(m, t) /\ CollectStep(Now, m, t, full.own) /\ m.th[t] = full.own
        /\ m.heap = full.heap
    BY <1>1, CollectsNow
  <1>3. IsThread(th[t]) /\ Now.th[t] = th[t]
    BY DEF ElisionInv, Inv, Types, Now
  <1> HIDE DEF full
  <1>4. /\ m.undo = undo /\ m.seen = seen /\ m.saved = saved /\ m.gil = _stm_gil
        /\ m.th = [th EXCEPT ![t] = full.own] /\ full.own.use_gil = th[t].use_gil
        /\ IsThread(full.own) /\ full.own.pointing = {} /\ Runs(m, t)
    BY <1>2, <1>3 DEF CollectStep, Mid, Now, Runs
  <1> HIDE DEF m
  <1>5. /\ IsThread(x) /\ x.pc = "out" /\ x.pointing = {} /\ x.shadowstack = Stack(m, t)
    BY <1>2, <1>4 DEF IsThread, Stack
  <1>6. /\ n.heap = m.heap /\ n.undo = Ends(m.undo, {t}) /\ n.seen = Ends(m.seen, {t})
        /\ n.saved = [m.saved EXCEPT ![t] = NULL]
        /\ n.gil = (IF m.th[t].use_gil THEN NULL ELSE m.gil)
    BY <1>1, <1>2, <1>4 DEF Now
  <1>7. n.th = [m.th EXCEPT ![t] = x]
    <2> HIDE DEF x
    <2> QED BY <1>1, <1>4 DEF Now
  <1> HIDE DEF n, x
  <1>8. Inv(n)
    BY <1>2, <1>4, <1>5, <1>6, <1>7, Ending
  <1> QED BY <1>8 DEF n

-----------------------------------------------------------------------------
(* New objects.                                                            *)

\* A transaction makes the object o, and puts it on its stack; x is the
\* thread afterwards.
NewStep(m, n, t, o, object, x) ==
  /\ Runs(m, t) /\ o \in Objs \ DOMAIN m.heap /\ \A u \in Threads : o \notin DOMAIN m.undo[u]
  /\ object \in Objects /\ object.place \in {"old", t} /\ ~object.barrier
  /\ object.ref # NULL => Sees(m, t, object.ref)
  /\ n.heap = Over(m.heap, Only(o, object))
  /\ n.undo = [m.undo EXCEPT ![t] = Over(Only(o, NULL), @)]
  /\ n.seen = m.seen /\ n.saved = m.saved /\ n.gil = m.gil
  /\ n.th = [m.th EXCEPT ![t] = x] /\ IsThread(x) /\ x.pc = "run"
  /\ x.use_gil = m.th[t].use_gil
  /\ x.shadowstack = Append(Stack(m, t), Ref(o, object.place))
  /\ x.pointing = m.th[t].pointing \cup (IF object.place = t THEN {} ELSE {o})

\* The objects that are there already stay, and what has been written is
\* remembered.
Extended(m, n, t, o, object) ==
  /\ DOMAIN n.heap = DOMAIN m.heap \cup {o} /\ n.heap[o] = object
  /\ n.heap = [y \in DOMAIN n.heap |-> n.heap[y]]
  /\ \A y \in DOMAIN m.heap : y # o /\ n.heap[y] = m.heap[y]
  /\ DOMAIN n.undo[t] = DOMAIN m.undo[t] \cup {o} /\ n.undo[t][o] = NULL
  /\ \A y \in DOMAIN m.undo[t] : y # o /\ n.undo[t][y] = m.undo[t][y]
  /\ \A u \in Threads \ {t} : n.undo[u] = m.undo[u]
  /\ n.undo = [u \in Threads |-> n.undo[u]]

\* This is what making an object does.
LEMMA NewObject ==
  ASSUME NEW m, NEW n, NEW x, NEW o, NEW object, Inv(m), NEW t \in Threads,
         NewStep(m, n, t, o, object, x)
  PROVE  Extended(m, n, t, o, object)
  <1>1. /\ n.heap = Over(m.heap, Only(o, object)) /\ o \notin DOMAIN m.heap
        /\ n.undo = [m.undo EXCEPT ![t] = Over(Only(o, NULL), @)]
        /\ o \notin DOMAIN m.undo[t] /\ m.undo = [u \in Threads |-> m.undo[u]]
    BY DEF NewStep, Inv, Types
  <1>2. /\ n.undo[t] = Over(Only(o, NULL), m.undo[t])
        /\ \A u \in Threads \ {t} : n.undo[u] = m.undo[u]
        /\ n.undo = [u \in Threads |-> n.undo[u]]
    BY <1>1
  <1>3. \A z : DOMAIN Only(o, z) = {o} /\ Only(o, z)[o] = z
    BY DEF Only
  <1>4. ASSUME NEW f, NEW g
        PROVE  /\ DOMAIN Over(f, g) = DOMAIN f \cup DOMAIN g
               /\ \A y \in DOMAIN g : Over(f, g)[y] = g[y]
               /\ \A y \in DOMAIN f \ DOMAIN g : Over(f, g)[y] = f[y]
    BY DEF Over
  <1>5. PICK a, b : a = Only(o, object) /\ b = Only(o, NULL)
    OBVIOUS
  <1>6. /\ DOMAIN a = {o} /\ a[o] = object /\ DOMAIN b = {o} /\ b[o] = NULL
        /\ n.heap = Over(m.heap, a) /\ n.undo[t] = Over(b, m.undo[t])
    BY <1>1, <1>2, <1>3, <1>5
  <1>7. /\ DOMAIN n.heap = DOMAIN m.heap \cup {o} /\ n.heap[o] = object
        /\ n.heap = [y \in DOMAIN n.heap |-> n.heap[y]]
        /\ \A y \in DOMAIN m.heap : y # o /\ n.heap[y] = m.heap[y]
    <2>1. PICK f : f = m.heap
      OBVIOUS
    <2>2. /\ DOMAIN Over(f, a) = DOMAIN f \cup DOMAIN a
          /\ Over(f, a) = [y \in DOMAIN Over(f, a) |-> Over(f, a)[y]]
          /\ \A y \in DOMAIN a : Over(f, a)[y] = a[y]
          /\ \A y \in DOMAIN f \ DOMAIN a : Over(f, a)[y] = f[y]
      BY DEF Over
    <2> QED BY <1>1, <1>6, <2>1, <2>2
  <1>8. /\ DOMAIN n.undo[t] = DOMAIN m.undo[t] \cup {o} /\ n.undo[t][o] = NULL
        /\ \A y \in DOMAIN m.undo[t] : y # o /\ n.undo[t][y] = m.undo[t][y]
    <2>1. PICK g : g = m.undo[t]
      OBVIOUS
    <2>2. /\ DOMAIN Over(b, g) = DOMAIN b \cup DOMAIN g
          /\ \A y \in DOMAIN g : Over(b, g)[y] = g[y]
          /\ \A y \in DOMAIN b \ DOMAIN g : Over(b, g)[y] = b[y]
      BY <1>4
    <2> QED BY <1>1, <1>6, <2>1, <2>2
  <1> QED BY <1>2, <1>7, <1>8 DEF Extended

\* A new object is seen by its transaction only.
LEMMA MakesObject ==
  ASSUME ElisionAssumption, NEW m, NEW n, NEW x, NEW o, NEW object, Inv(m), NEW t \in Threads,
         NewStep(m, n, t, o, object, x)
  PROVE  Inv(n)
  <1>1. /\ DOMAIN n.heap = DOMAIN m.heap \cup {o} /\ n.heap[o] = object
        /\ n.heap = [y \in DOMAIN n.heap |-> n.heap[y]]
        /\ \A y \in DOMAIN m.heap : y # o /\ n.heap[y] = m.heap[y]
        /\ DOMAIN n.undo[t] = DOMAIN m.undo[t] \cup {o} /\ n.undo[t][o] = NULL
        /\ \A y \in DOMAIN m.undo[t] : y # o /\ n.undo[t][y] = m.undo[t][y]
        /\ \A u \in Threads \ {t} : n.undo[u] = m.undo[u]
        /\ n.undo = [u \in Threads |-> n.undo[u]]
    <2>1. Extended(m, n, t, o, object)
      BY NewObject
    <2> QED BY <2>1 DEF Extended
  <1>2. /\ Runs(m, t) /\ o \in Objs /\ o \notin DOMAIN m.heap
        /\ \A u \in Threads : o \notin DOMAIN m.undo[u]
        /\ object \in Objects /\ object.place \in {"old", t} /\ ~object.barrier
        /\ object.ref # NULL => Sees(m, t, object.ref)
        /\ n.seen = m.seen /\ n.saved = m.saved /\ n.gil = m.gil
        /\ n.th = [m.th EXCEPT ![t] = x] /\ IsThread(x) /\ x.pc = "run"
        /\ x.use_gil = m.th[t].use_gil
        /\ x.shadowstack = Append(Stack(m, t), Ref(o, object.place))
        /\ x.pointing = m.th[t].pointing \cup (IF object.place = t THEN {} ELSE {o})
    BY DEF NewStep
  <1>3. Types(m) /\ Committed(m) /\ Locking(m) /\ ThreadInv(m, t) /\ Running(m, t)
    BY <1>2 DEF Inv, ThreadInv
  <1>4. n.th[t] = x /\ \A u \in Threads \ {t} : n.th[u] = m.th[u]
    BY <1>2, <1>3 DEF Types
  <1>5. \A y : Settled(m, y) => Settled(n, y) /\ n.heap[y].place = "old"
    <2> TAKE y
    <2> HAVE Settled(m, y)
    <2>1. y \in DOMAIN m.heap /\ m.heap[y].place = "old"
      BY <1>3, SettledIsOld
    <2>2. y # o /\ n.heap[y].place = "old" /\ y \in DOMAIN n.heap
      BY <1>1, <2>1
    <2>3. ASSUME NEW u \in Threads, y \in DOMAIN n.undo[u]
          PROVE  n.undo[u][y] # NULL
      <3>1. y \in DOMAIN m.undo[u] /\ n.undo[u][y] = m.undo[u][y]
        BY <1>1, <2>2, <2>3
      <3> QED BY <3>1 DEF Settled
    <2> QED BY <2>2, <2>3 DEF Settled
  <1>6. Types(n)
    <2>1. \A y \in DOMAIN n.heap : n.heap[y] \in Objects
      BY <1>1, <1>2, <1>3 DEF Types
    <2>2. ASSUME NEW u \in Threads
          PROVE  /\ IsThread(n.th[u]) /\ DOMAIN n.undo[u] \subseteq Objs
                 /\ \A y \in DOMAIN n.undo[u] : n.undo[u][y] \in Objects \cup {NULL}
      <3>1. CASE u = t
        <4>1. \A y \in DOMAIN m.undo[t] : m.undo[t][y] \in Objects \cup {NULL}
          BY <1>3 DEF Types
        <4> QED BY <1>1, <1>2, <1>3, <1>4, <3>1, <4>1 DEF Types
      <3>2. CASE u # t
        BY <1>1, <1>3, <1>4, <3>2 DEF Types
      <3> QED BY <3>1, <3>2
    <2>3. DOMAIN n.heap \subseteq Objs
      BY <1>1, <1>2, <1>3 DEF Types
    <2>4. n.th = [u \in Threads |-> n.th[u]]
      BY <1>2, <1>3 DEF Types
    <2> QED BY <1>1, <1>2, <1>3, <2>1, <2>2, <2>3, <2>4 DEF Types
  <1>7. Locking(n)
    BY <1>2, <1>3, <1>4 DEF Locking, Runs, Elides
  <1>8. \A y : Clean(m, y) => Clean(n, y)
    BY <1>5 DEF Clean, SettledRef
  <1>9. Committed(n)
    <2>1. \A u, v \in Threads : u # v => DOMAIN n.undo[u] \cap DOMAIN n.undo[v] = {}
      <3>1. \A u \in Threads \ {t} : DOMAIN n.undo[t] \cap DOMAIN n.undo[u] = {}
        BY <1>1, <1>2, <1>3 DEF Committed
      <3>2. \A u, v \in Threads \ {t} : u # v => DOMAIN n.undo[u] \cap DOMAIN n.undo[v] = {}
        BY <1>1, <1>3 DEF Committed
      <3> QED BY <3>1, <3>2
    <2>2. ASSUME NEW y \in DOMAIN n.heap, \A u \in Threads : y \notin DOMAIN n.undo[u]
          PROVE  Clean(n, n.heap[y])
      <3>1. y # o /\ \A u \in Threads : y \notin DOMAIN m.undo[u]
        BY <1>1, <2>2
      <3>2. y \in DOMAIN m.heap /\ n.heap[y] = m.heap[y]
        BY <1>1, <2>2, <3>1
      <3> QED BY <1>3, <1>8, <3>1, <3>2 DEF Committed
    <2>3. ASSUME NEW u \in Threads, NEW y \in DOMAIN n.undo[u], n.undo[u][y] # NULL
          PROVE  y \in DOMAIN n.heap /\ n.heap[y].place = "old" /\ Clean(n, n.undo[u][y])
      <3>1. y \in DOMAIN m.undo[u] /\ n.undo[u][y] = m.undo[u][y]
        BY <1>1, <2>3
      <3>2. y \in DOMAIN m.heap /\ m.heap[y].place = "old" /\ Clean(m, m.undo[u][y])
        BY <1>3, <2>3, <3>1 DEF Committed
      <3> QED BY <1>1, <1>8, <3>1, <3>2
    <2>4. \A y \in Prebuilt : Settled(n, y)
      BY <1>3, <1>5 DEF Committed
    <2> QED BY <2>1, <2>2, <2>3, <2>4 DEF Committed
  <1>10. Step(m, n, t, {o})
    <2>1. \A u \in Threads \ {t} : {o} \cap DOMAIN m.seen[u] = {}
      BY <1>2 DEF Inv, ThreadInv, ReadsHold, Settled
    <2>2. \A y : y \notin {o} => /\ y \in DOMAIN n.heap <=> y \in DOMAIN m.heap
                                 /\ y \in DOMAIN m.heap => n.heap[y] = m.heap[y]
      BY <1>1
    <2>3. DOMAIN n.undo[t] \subseteq DOMAIN m.undo[t] \cup {o}
      BY <1>1
    <2>4. \A u \in Threads \ {t} : /\ n.th[u] = m.th[u] /\ n.undo[u] = m.undo[u]
                                   /\ n.seen[u] = m.seen[u] /\ n.saved[u] = m.saved[u]
                                   /\ {o} \cap DOMAIN m.undo[u] = {}
      BY <1>1, <1>2, <1>4
    <2> QED BY <1>5, <2>1, <2>2, <2>3, <2>4 DEF Step
  <1>11. \A r : Sees(m, t, r) => Sees(n, t, r)
    BY <1>1, <1>5 DEF Sees
  <1>12. Running(n, t)
    <2>1. ASSUME NEW y \in DOMAIN n.undo[t] \cap DOMAIN n.heap
          PROVE  /\ n.heap[y].place \in {"old", t} /\ (n.heap[y].place = t => ~n.heap[y].barrier)
                 /\ n.heap[y].ref # NULL => Sees(n, t, n.heap[y].ref)
                 /\ n.heap[y].place = "old" /\ (Young(n.heap[y].ref, t) \/ ~n.heap[y].barrier)
                      => y \in n.th[t].pointing
      <3>1. CASE y = o
        <4>1. object.place = "old" => o \in x.pointing
          BY <1>2 DEF ElisionAssumption
        <4> QED BY <1>1, <1>2, <1>4, <1>11, <3>1, <4>1
      <3>2. CASE y # o
        <4>1. y \in DOMAIN m.undo[t] \cap DOMAIN m.heap /\ n.heap[y] = m.heap[y]
          BY <1>1, <2>1, <3>2
        <4>2. m.th[t].pointing \subseteq n.th[t].pointing
          BY <1>2, <1>4
        <4> QED BY <1>3, <1>11, <4>1, <4>2 DEF Running
      <3> QED BY <3>1, <3>2
    <2>2. ASSUME NEW y \in n.th[t].pointing
          PROVE  y \in DOMAIN n.undo[t] /\ y \in DOMAIN n.heap /\ n.heap[y].place = "old"
      <3>1. CASE y \in m.th[t].pointing
        BY <1>1, <1>3, <3>1 DEF Running
      <3>2. CASE y \notin m.th[t].pointing
        BY <1>1, <1>2, <1>4, <2>2, <3>2
      <3> QED BY <3>1, <3>2
    <2>3. ASSUME NEW k \in DOMAIN Stack(n, t)
          PROVE  Sees(n, t, Stack(n, t)[k])
      <3> DEFINE s == Stack(m, t)
                 z == x.shadowstack
                 r == Ref(o, object.place)
      <3>1. s \in Seq(Refs) /\ r \in Refs /\ z = Append(s, r) /\ Stack(n, t) = z
        <4>1. r \in Refs
          BY <1>2 DEF Ref, Refs
        <4> QED BY <1>2, <1>3, <1>4, <4>1 DEF Types, IsThread, Stack
      <3>2. Sees(n, t, r)
        BY <1>1, <1>2 DEF Sees, Ref
      <3>3. k \in DOMAIN z
        BY <2>3, <3>1
      <3>4. z[k] = r \/ (k \in DOMAIN s /\ z[k] = s[k])
        <4> HIDE DEF s, r, z
        <4>1. Len(s) \in Nat /\ DOMAIN s = 1..Len(s)
          BY <3>1, LenProperties
        <4>2. z \in Seq(Refs) /\ Len(z) = Len(s) + 1 /\ z[Len(s) + 1] = r
              /\ \A i \in 1..Len(s) : z[i] = s[i]
          BY <3>1, <4>1, AppendProperties
        <4>3. DOMAIN z = 1..(Len(s) + 1)
          BY <4>2, LenProperties
        <4>4. k \in 1..Len(s) \/ k = Len(s) + 1
          BY <3>3, <4>1, <4>3
        <4> QED BY <4>1, <4>2, <4>4
      <3>5. k \in DOMAIN s => Sees(n, t, s[k])
        BY <1>3, <1>11 DEF Running
      <3> HIDE DEF s, r, z
      <3> QED BY <3>1, <3>2, <3>4, <3>5
    <2> QED BY <2>1, <2>2, <2>3 DEF Running
  <1>13. ReadsHold(n, t)
    <2>1. ReadsHold(m, t)
      BY <1>3 DEF ThreadInv
    <2>2. ASSUME NEW y \in DOMAIN n.seen[t]
          PROVE  /\ Settled(n, y)
                 /\ \A u \in Threads \ {t} : y \notin DOMAIN n.undo[u]
                 /\ n.seen[t][y] = IF y \in DOMAIN n.undo[t] THEN n.undo[t][y].ref ELSE n.heap[y].ref
      <3>1. /\ y \in DOMAIN m.seen[t] /\ Settled(m, y) /\ y \in DOMAIN m.heap
            /\ m.seen[t][y] = IF y \in DOMAIN m.undo[t] THEN m.undo[t][y].ref ELSE m.heap[y].ref
        BY <1>2, <2>1, <2>2 DEF ReadsHold, Settled
      <3>2. n.seen[t][y] = m.seen[t][y] /\ y # o
        BY <1>1, <1>2, <3>1
      <3>3. \A u \in Threads \ {t} : y \notin DOMAIN n.undo[u]
        BY <1>1, <2>1, <3>1 DEF ReadsHold
      <3> QED BY <1>1, <1>5, <3>1, <3>2, <3>3
    <2> QED BY <2>2 DEF ReadsHold
  <1>14. ThreadInv(n, t)
    <2>1. \A y : Resting(m, y) => Resting(n, y)
      BY <1>5 DEF Resting, SettledRef
    <2> QED BY <1>2, <1>3, <1>4, <1>12, <1>13, <2>1 DEF ThreadInv, Runs, Elides
  <1> QED BY <1>6, <1>7, <1>9, <1>10, <1>14, OthersGoOn DEF Inv

\* The thread goes on with h and own, from the state m: its own one, or that
\* after a collection.
From(m, t, h, own) ==
  /\ Inv(m) /\ m.heap = h /\ m.undo = undo /\ m.seen = seen /\ m.saved = saved /\ m.gil = _stm_gil
  /\ m.th = [th EXCEPT ![t] = own] /\ m.th[t] = own /\ own.pc = "run"
  /\ \A o : o \notin DOMAIN undo[t] => /\ o \in DOMAIN h <=> o \in DOMAIN heap
                                       /\ o \in DOMAIN heap => h[o] = heap[o]

\* The object is new, also beside what a collection has just freed.
LEMMA Allocates ==
  ASSUME ElisionAssumption, ElisionInv, NEW t \in Threads, NEW m, NEW h, NEW own,
         From(m, t, h, own), NEW object \in Objects, object.place \in {"old", t},
         ~object.barrier, object.ref # NULL => Sees(m, t, object.ref),
         Allocated(t, h, own, object)
  PROVE  Inv(Now')
  <1> DEFINE all == DOMAIN h \cup UNION {DOMAIN undo[u] : u \in Threads}
             o == CHOOSE y \in Ids \ (DOMAIN h \cup UNION {DOMAIN undo[u] : u \in Threads}) : TRUE
             n == Now'
             x == [Called(own) EXCEPT
                     !.shadowstack = Append(@, Ref(o, object.place)),
                     !.pointing = IF object.place = t THEN @ ELSE @ \cup {o},
                     !.weakrefs = IF object.weak THEN @ \cup {o} ELSE @]
             S == {o} \cup (DOMAIN heap \ DOMAIN h)
                      \cup {y \in DOMAIN h \cap DOMAIN heap : h[y] # heap[y]}
             F == [y \in S |-> IF y \in DOMAIN heap THEN heap[y] ELSE NULL]
  <1>1. /\ Ids \ all # {} /\ heap' = Over(h, Only(o, object)) /\ th' = [th EXCEPT ![t] = x]
        /\ undo' = Writes(t, S)
        /\ seen' = seen /\ saved' = saved /\ _stm_gil' = _stm_gil
    BY DEF Allocated
  <1>2. undo' = [undo EXCEPT ![t] = Over(F, @)]
    BY <1>1 DEF Writes
  <1>3. o \in Ids /\ o \notin DOMAIN h /\ \A u \in Threads : o \notin DOMAIN undo[u]
    <2>1. o \in Ids \ all
      BY <1>1
    <2> QED BY <2>1
  <1>4. Inv(m) /\ m.heap = h /\ m.undo = undo /\ m.seen = seen /\ m.saved = saved /\ m.gil = _stm_gil
        /\ m.th = [th EXCEPT ![t] = own] /\ m.th[t] = own /\ own.pc = "run"
    BY DEF From
  <1>5. \A y : y \notin DOMAIN undo[t] => /\ y \in DOMAIN h <=> y \in DOMAIN heap
                                          /\ y \in DOMAIN heap => h[y] = heap[y]
    BY DEF From
  <1> HIDE DEF o, x
  <1>6. o \notin DOMAIN heap /\ S \ {o} \subseteq DOMAIN undo[t]
    BY <1>3, <1>5
  <1>7. Over(F, undo[t]) = Over(Only(o, NULL), undo[t])
    <2>1. DOMAIN F = S /\ F[o] = NULL
      BY <1>6
    <2>2. DOMAIN Only(o, NULL) = {o} /\ Only(o, NULL)[o] = NULL
      BY DEF Only
    <2>3. PICK f, e, g : f = F /\ e = Only(o, NULL) /\ g = undo[t]
      OBVIOUS
    <2>4. DOMAIN f \cup DOMAIN g = DOMAIN e \cup DOMAIN g
      BY <1>6, <2>1, <2>2, <2>3
    <2>5. \A y \in (DOMAIN f \cup DOMAIN g) \ DOMAIN g : f[y] = e[y]
      BY <1>6, <2>1, <2>2, <2>3
    <2>6. Over(f, g) = Over(e, g)
      BY <2>4, <2>5 DEF Over
    <2> QED BY <2>3, <2>6
  <1>8. n.undo = [m.undo EXCEPT ![t] = Over(Only(o, NULL), @)]
    <2> HIDE DEF F
    <2> QED BY <1>2, <1>4, <1>7 DEF Now
  <1>9. IsThread(own) /\ Runs(m, t)
    BY <1>4 DEF Inv, Types, Runs
  <1>10. o \in Objs \ DOMAIN m.heap /\ \A u \in Threads : o \notin DOMAIN m.undo[u]
    BY <1>3, <1>4 DEF Objs
  <1>11. /\ IsThread(x) /\ x.pc = "run" /\ x.use_gil = m.th[t].use_gil
         /\ x.shadowstack = Append(Stack(m, t), Ref(o, object.place))
         /\ x.pointing = m.th[t].pointing \cup (IF object.place = t THEN {} ELSE {o})
    <2>1. Append(own.shadowstack, Ref(o, object.place)) \in Seq(Refs)
      <3>1. Ref(o, object.place) \in Refs
        BY <1>10 DEF Ref, Refs
      <3>2. own.shadowstack \in Seq(Refs)
        BY <1>9 DEF IsThread
      <3> HIDE DEF n
      <3> QED BY <3>1, <3>2, AppendProperties
    <2>2. own.pointing \subseteq Objs /\ o \in Objs
      BY <1>9, <1>10 DEF IsThread
    <2> DEFINE y == Called(own)
               a == Append(own.shadowstack, Ref(o, object.place))
               p == IF object.place = t THEN own.pointing ELSE own.pointing \cup {o}
    <2>3. /\ DOMAIN y = DOMAIN own /\ y.pc = own.pc /\ y.use_gil = own.use_gil
          /\ y.shadowstack = own.shadowstack /\ y.pointing = own.pointing
      BY <1>9 DEF Called, IsThread
    <2>4. /\ DOMAIN x = DOMAIN own /\ x.pc = own.pc /\ x.use_gil = own.use_gil
          /\ x.shadowstack = a /\ x.pointing = p
      <3> HIDE DEF y
      <3> QED BY <1>9, <2>3 DEF x, y, IsThread
    <2>5. IsThread(x)
      BY <1>9, <2>1, <2>2, <2>4 DEF IsThread
    <2> QED BY <1>4, <2>4, <2>5 DEF Stack
  <1>12. n.th = [m.th EXCEPT ![t] = x] /\ n.heap = Over(m.heap, Only(o, object))
         /\ n.seen = m.seen /\ n.saved = m.saved /\ n.gil = m.gil
    BY <1>1, <1>4 DEF Now
  <1> HIDE DEF n, F, S
  <1>13. NewStep(m, n, t, o, object, x)
    BY <1>8, <1>9, <1>10, <1>11, <1>12 DEF NewStep
  <1>14. Inv(n)
    BY <1>4, <1>13, MakesObject
  <1> QED BY <1>14 DEF n

\* An object is made at once, or after a collection.
LEMMA Allocations ==
  ASSUME ElisionAssumption, ElisionInv, NEW t \in Threads,
         stm_allocate(t) \/ _stm_allocate_external(t) \/ stm_allocate_weakref(t)
  PROVE  Inv(Now')
  <1> DEFINE full == stm_collect(t, th[t], heap)
  <1>1. th[t].pc = "run"
    BY DEF stm_allocate, _stm_allocate_external, stm_allocate_weakref, Calls
  <1>2. IsThread(th[t]) /\ Running(Now, t) /\ Stack(Now, t) = th[t].shadowstack
    BY <1>1 DEF ElisionInv, Inv, Types, ThreadInv, Runs, Stack, Now
  <1>3. From(Now, t, heap, th[t])
    BY <1>1 DEF From, ElisionInv, Inv, Types, Now
  <1>4. /\ From(Mid(t), t, full.heap, full.own) /\ Running(Mid(t), t)
        /\ Stack(Mid(t), t) = full.own.shadowstack
    <2> DEFINE m == Now
               n == Mid(t)
    <2>1. /\ Inv(n) /\ CollectStep(m, n, t, full.own) /\ n.th[t] = full.own /\ n.heap = full.heap
      BY <1>1, CollectsNow
    <2>2. \A o : o \notin DOMAIN m.undo[t] =>
            /\ o \in DOMAIN n.heap <=> o \in DOMAIN m.heap
            /\ o \in DOMAIN m.heap => n.heap[o] = m.heap[o]
      <3>1. Inv(m)
        BY DEF ElisionInv
      <3> HIDE DEF m, n, full
      <3>2. OnlyOwn(m, n, t)
        BY <2>1, <3>1, Collects
      <3> QED BY <3>2 DEF OnlyOwn
    <2>3. /\ n.undo = undo /\ n.seen = seen /\ n.saved = saved /\ n.gil = _stm_gil
          /\ n.th = [th EXCEPT ![t] = full.own] /\ m.undo = undo /\ m.heap = heap
      BY DEF Mid, Now
    <2>4. full.own.pc = "run"
      <3> HIDE DEF m, n, full
      <3> QED BY <2>1 DEF CollectStep
    <2> HIDE DEF m, n, full
    <2>5. Runs(n, t) /\ Stack(n, t) = full.own.shadowstack /\ Running(n, t)
      BY <2>1, <2>4 DEF Runs, Stack, Inv, ThreadInv
    <2>6. From(n, t, full.heap, full.own)
      BY <2>1, <2>2, <2>3, <2>4 DEF From
    <2> QED BY <2>5, <2>6 DEF n
  <1>5. \A p \in {"old", t} : \A r \in Refs \cup {NULL} : \A w \in BOOLEAN :
          /\ Object(p, r, FALSE, w) \in Objects /\ Object(p, r, FALSE, w).place = p
          /\ ~Object(p, r, FALSE, w).barrier /\ Object(p, r, FALSE, w).ref = r
    BY DEF Object, Objects
  <1> HIDE DEF full
  <1>6. ASSUME NEW m, NEW h, NEW own, From(m, t, h, own), NEW p \in {"old", t},
               NEW r \in Refs \cup {NULL}, NEW w \in BOOLEAN, r # NULL => Sees(m, t, r),
               Allocated(t, h, own, Object(p, r, FALSE, w))
        PROVE  Inv(Now')
    <2> DEFINE object == Object(p, r, FALSE, w)
    <2>1. /\ object \in Objects /\ object.place \in {"old", t} /\ ~object.barrier
          /\ object.ref # NULL => Sees(m, t, object.ref)
      BY <1>5, <1>6
    <2>2. Allocated(t, h, own, object)
      BY <1>6
    <2> HIDE DEF object
    <2> QED BY <1>6, <2>1, <2>2, Allocates
  <1>7. CASE stm_allocate(t)
    <2>1. CASE Allocated(t, heap, th[t], Object(t, NULL, FALSE, FALSE))
      BY <1>3, <1>6, <2>1
    <2>2. CASE Allocated(t, full.heap, full.own, Object(t, NULL, FALSE, FALSE))
      BY <1>4, <1>6, <2>2
    <2> QED BY <1>7, <2>1, <2>2 DEF stm_allocate, full
  <1>8. CASE _stm_allocate_external(t)
    BY <1>3, <1>6, <1>8 DEF _stm_allocate_external
  <1>9. CASE stm_allocate_weakref(t)
    <2>1. /\ Len(th[t].shadowstack) >= 1
          /\ \/ Allocated(t, heap, th[t], Object(t, Top(t), FALSE, TRUE))
             \/ Allocated(t, full.heap, full.own, Object(t, Last(full.own.shadowstack), FALSE, TRUE))
      BY <1>9 DEF stm_allocate_weakref, Pushed, full
    <2>2. ASSUME NEW m, Running(m, t), Stack(m, t) \in Seq(Refs), Len(Stack(m, t)) >= 1
          PROVE  Last(Stack(m, t)) \in Refs /\ Sees(m, t, Last(Stack(m, t)))
      BY <2>2, FrontOfStack DEF Running
    <2>3. CASE Allocated(t, heap, th[t], Object(t, Top(t), FALSE, TRUE))
      <3>1. Top(t) \in Refs /\ Sees(Now, t, Top(t))
        BY <1>2, <2>1, <2>2 DEF Top, IsThread
      <3> QED BY <1>3, <1>6, <2>3, <3>1
    <2>4. CASE Allocated(t, full.heap, full.own, Object(t, Last(full.own.shadowstack), FALSE, TRUE))
      <3>1. IsThread(full.own) /\ Len(full.own.shadowstack) = Len(th[t].shadowstack)
        <4>1. LET x == stm_collect(t, th[t], heap).own
              IN /\ IsThread(x) /\ x.pc = th[t].pc /\ x.use_gil = th[t].use_gil /\ x.pointing = {}
                 /\ x.shadowstack = [k \in DOMAIN th[t].shadowstack |-> Moved(th[t].shadowstack[k], t)]
                 /\ Len(x.shadowstack) = Len(th[t].shadowstack)
          BY <1>2, CollectedThread
        <4> QED BY <4>1 DEF full
      <3>2. Last(full.own.shadowstack) \in Refs /\ Sees(Mid(t), t, Last(full.own.shadowstack))
        BY <1>4, <2>1, <2>2, <3>1 DEF IsThread
      <3> QED BY <1>4, <1>6, <2>4, <3>2
    <2> QED BY <2>1, <2>3, <2>4
  <1> QED BY <1>7, <1>8, <1>9

-----------------------------------------------------------------------------
(* Together.                                                               *)

\* It is so from the start.
LEMMA StartsWell ==
  ASSUME ElisionAssumption, Init
  PROVE  ElisionInv
  <1> DEFINE m == Now
             object == Object("old", NULL, TRUE, FALSE)
  <1>1. PICK program : th = [t \in Threads |->
               [pc |-> "out", use_gil |-> FALSE, transient |-> 0, gil |-> 0,
                code |-> program[t], left |-> <<>>,
                shadowstack |-> <<>>, pointing |-> {}, weakrefs |-> {}]]
    BY DEF Init
  <1>2. /\ m.heap = [o \in Prebuilt |-> object] /\ m.gil = NULL
        /\ m.undo = [t \in Threads |-> None] /\ m.seen = [t \in Threads |-> None]
        /\ m.saved = [t \in Threads |-> NULL] /\ m.th = th
    BY DEF Init, Now
  <1>3. \A t \in Threads : /\ m.th[t].pc = "out" /\ m.th[t].use_gil = FALSE
                           /\ m.th[t].shadowstack = <<>> /\ m.th[t].pointing = {}
                           /\ IsThread(m.th[t])
    <2> TAKE t \in Threads
    <2>1. m.th[t] = [pc |-> "out", use_gil |-> FALSE, transient |-> 0, gil |-> 0,
                     code |-> program[t], left |-> <<>>,
                     shadowstack |-> <<>>, pointing |-> {}, weakrefs |-> {}]
      BY <1>1, <1>2
    <2>2. <<>> \in Seq(Refs)
      OBVIOUS
    <2> QED BY <2>1, <2>2 DEF IsThread
  <1>4. \A t \in Threads : DOMAIN m.undo[t] = {} /\ DOMAIN m.seen[t] = {}
    BY <1>2 DEF None
  <1>5. /\ object \in Objects /\ object.place = "old" /\ object.barrier /\ object.ref = NULL
    BY DEF Object, Objects
  <1> HIDE DEF object
  <1>6. DOMAIN m.heap = Prebuilt /\ \A o \in Prebuilt : m.heap[o] = object
    BY <1>2
  <1>7. m.th = [t \in Threads |-> m.th[t]]
    BY <1>1, <1>2
  <1> HIDE DEF m
  <1>8. Types(m)
    <2>1. m.heap = [o \in DOMAIN m.heap |-> m.heap[o]] /\ DOMAIN m.heap \subseteq Objs
          /\ \A o \in DOMAIN m.heap : m.heap[o] \in Objects
      BY <1>2, <1>5, <1>6 DEF Objs
    <2> QED BY <1>2, <1>3, <1>4, <1>7, <2>1 DEF Types
  <1>9. Locking(m)
    BY <1>2, <1>3 DEF Locking, Runs, Elides, ElisionAssumption
  <1>10. Committed(m)
    BY <1>4, <1>5, <1>6 DEF Committed, Clean, Settled
  <1>11. \A t \in Threads : ThreadInv(m, t)
    BY <1>3, <1>4 DEF ThreadInv, Runs, Elides, Resting, ReadsHold
  <1>12. Inv(m)
    BY <1>8, <1>9, <1>10, <1>11 DEF Inv
  <1> QED BY <1>12 DEF ElisionInv, m

\* Every step keeps the invariant.
LEMMA StaysWell ==
  ASSUME ElisionAssumption, ElisionInv, [Next]_evars
  PROVE  ElisionInv'
  <1>1. SUFFICES Inv(Now')
    BY DEF ElisionInv
  <1>2. CASE UNCHANGED evars
    <2>1. Now' = Now
      BY <1>2 DEF evars, Now
    <2> QED BY <2>1 DEF ElisionInv
  <1>3. CASE Next /\ ~UNCHANGED evars
    <2>1. PICK t \in Threads : Steps(t) \/ stm_start_inevitable_transaction(t)
                               \/ acquire_gil(t) \/ Interrupted(t)
      BY <1>3 DEF Next, Finished
    <2>2. CASE \/ stm_start_inevitable_transaction(t) \/ GilLocked(t)
               \/ spin_and_acquire_gil(t) \/ Transient(t)
      BY <2>2, WaitingSteps
    <2>3. CASE xbegin(t)
      BY <2>3, Begins
    <2>4. CASE acquire_gil(t)
      BY <2>4, TakesLock
    <2>5. CASE Interrupted(t)
      BY <2>5, Interruptions
    <2>6. CASE stm_allocate(t) \/ _stm_allocate_external(t) \/ stm_allocate_weakref(t)
      BY <2>6, Allocations
    <2>7. CASE Pop(t)
      BY <2>7, Pops
    <2>8. CASE stm_read(t)
      BY <2>8, Reads
    <2>9. CASE stm_write(t)
      BY <2>9, WritesSteps
    <2>10. CASE stm_commit_transaction(t)
      BY <2>10, Commits
    <2> QED BY <2>1, <2>2, <2>3, <2>4, <2>5, <2>6, <2>7, <2>8, <2>9, <2>10 DEF Steps
  <1> QED BY <1>2, <1>3

\* What transactions that have ended gave an object is what is remembered of
\* it, or what is there.
LEMMA EndedIs ==
  ASSUME ElisionInv, NEW o
  PROVE  /\ \A u \in Threads : o \in DOMAIN undo[u] => Ended(o) = undo[u][o]
         /\ (\A u \in Threads : o \notin DOMAIN undo[u]) => Ended(o) = heap[o]
  <1>1. ASSUME NEW u \in Threads, o \in DOMAIN undo[u]
        PROVE  Ended(o) = undo[u][o]
    <2>1. \A v \in Threads : o \in DOMAIN undo[v] => v = u
      BY <1>1 DEF ElisionInv, Inv, Now, Committed
    <2>2. (CHOOSE v \in Threads : o \in DOMAIN undo[v]) = u
      BY <1>1, <2>1
    <2> QED BY <1>1, <2>2 DEF Ended
  <1> QED BY <1>1 DEF Ended

\* In a state of the invariant the properties hold.
LEMMA AtomicNow ==
  ASSUME ElisionInv
  PROVE  ReadsAreAtomic
  <1>1. SUFFICES ASSUME NEW t \in Threads, NEW o \in DOMAIN seen[t]
                 PROVE  seen[t][o] = Ended(o).ref
    BY DEF ReadsAreAtomic
  <1>2. /\ \A u \in Threads \ {t} : o \notin DOMAIN undo[u]
        /\ seen[t][o] = IF o \in DOMAIN undo[t] THEN undo[t][o].ref ELSE heap[o].ref
    <2>1. ReadsHold(Now, t) /\ Now.seen = seen /\ Now.undo = undo /\ Now.heap = heap
      BY DEF ElisionInv, Inv, ThreadInv, Now
    <2> HIDE DEF Now
    <2>2. /\ \A u \in Threads \ {t} : o \notin DOMAIN Now.undo[u]
          /\ Now.seen[t][o] = IF o \in DOMAIN Now.undo[t] THEN Now.undo[t][o].ref
                                                          ELSE Now.heap[o].ref
      BY <2>1 DEF ReadsHold
    <2> QED BY <2>1, <2>2
  <1>3. CASE o \in DOMAIN undo[t]
    BY <1>2, <1>3, EndedIs
  <1>4. CASE o \notin DOMAIN undo[t]
    BY <1>2, <1>4, EndedIs
  <1> QED BY <1>3, <1>4

\* What is seen is there, and only a running transaction has a nursery.
LEMMA NothingDanglesNow ==
  ASSUME ElisionInv
  PROVE  NothingDangles
  <1> DEFINE valid(ref, places) ==
               ref # NULL => /\ ref.obj \in DOMAIN heap /\ heap[ref.obj].place = ref.place
                             /\ ref.place \in places
             mine(t) == IF th[t].pc = "run" THEN {"old", t} ELSE {"old"}
             its(o) == {"old"} \cup {u \in Threads : th[u].pc = "run" /\ o \in DOMAIN undo[u]}
             m == Now
  <1>1. /\ m.heap = heap /\ m.undo = undo /\ m.th = th
        /\ Committed(m) /\ \A t \in Threads : ThreadInv(m, t)
    BY DEF ElisionInv, Inv, Now
  <1> HIDE DEF m
  <1>2. ASSUME NEW r, SettledRef(m, r)
        PROVE  r.obj \in DOMAIN heap /\ heap[r.obj].place = r.place /\ r.place = "old"
    BY <1>1, <1>2, SettledIsOld DEF SettledRef
  <1>3. ASSUME NEW t \in Threads, NEW k \in DOMAIN th[t].shadowstack
        PROVE  valid(th[t].shadowstack[k], mine(t))
    <2>1. CASE th[t].pc = "run"
      <3>1. Sees(m, t, th[t].shadowstack[k])
        BY <1>1, <1>3, <2>1 DEF ThreadInv, Runs, Running, Stack
      <3> QED BY <1>1, <2>1, <3>1 DEF Sees
    <2>2. CASE th[t].pc # "run"
      <3>1. SettledRef(m, th[t].shadowstack[k])
        BY <1>1, <1>3, <2>2 DEF ThreadInv, Runs, Resting
      <3> QED BY <1>2, <2>2, <3>1
    <2> QED BY <2>1, <2>2
  <1>4. ASSUME NEW o \in DOMAIN heap
        PROVE  valid(heap[o].ref, its(o))
    <2>1. CASE \E u \in Threads : o \in DOMAIN undo[u]
      <3>1. PICK u \in Threads : o \in DOMAIN undo[u]
        BY <2>1
      <3>2. th[u].pc = "run" /\ Running(m, u)
        BY <1>1, <3>1 DEF ThreadInv, Runs
      <3>3. heap[o].ref # NULL => Sees(m, u, heap[o].ref)
        BY <1>1, <1>4, <3>1, <3>2 DEF Running
      <3> QED BY <1>1, <3>1, <3>2, <3>3 DEF Sees
    <2>2. CASE \A u \in Threads : o \notin DOMAIN undo[u]
      <3>1. heap[o].ref # NULL => SettledRef(m, heap[o].ref)
        BY <1>1, <1>4, <2>2 DEF Committed, Clean
      <3> QED BY <1>2, <3>1
    <2> QED BY <2>1, <2>2
  <1> QED BY <1>3, <1>4 DEF NothingDangles

\* gil-c7/stmgc.c and htm-c7/htm.c: what a transaction has read is what was
\* committed, whoever elides the lock and whoever has it, and no collection
\* or abort leaves a reference to where no object is.
THEOREM ElisionSafe ==
  ASSUME ElisionAssumption
  PROVE  Spec => [](ReadsAreAtomic /\ NothingDangles)
  <1>1. Init => ElisionInv
    BY StartsWell
  <1>2. ElisionInv /\ [Next]_evars => ElisionInv'
    BY StaysWell
  <1>3. ElisionInv => ReadsAreAtomic /\ NothingDangles
    BY AtomicNow, NothingDanglesNow
  <1> QED BY <1>1, <1>2, <1>3, PTL DEF Spec

=============================================================================
