----------------------------- MODULE AtomicStm -----------------------------
(***************************************************************************)
(* What the library promises to the programs that use it (stmgc.h): every  *)
(* transaction runs as if it were alone.  It reads the committed store, or *)
(* what it wrote itself, its writes stay private until it commits, and a   *)
(* commit is one atomic step after which no other transaction that goes on *)
(* has read anything that changed.  A transaction may have to start over,  *)
(* except once it is inevitable.                                           *)
(***************************************************************************)
CONSTANTS Slots,     \* where transactions run
          Objects, Values,
          None       \* not read, not written

VARIABLES store, status, reads, writes
vars == <<store, status, reads, writes>>

Nothing == [o \in Objects |-> None]
Live(s) == status[s] \in {"active", "inevitable"}

Init == /\ store \in [Objects -> Values]
        /\ status = [s \in Slots |-> "idle"]
        /\ reads = [s \in Slots |-> Nothing]
        /\ writes = [s \in Slots |-> Nothing]

Begin(s) ==
  /\ status[s] = "idle"
  /\ status' = [status EXCEPT ![s] = "active"]
  /\ UNCHANGED <<store, reads, writes>>

\* A first read returns the committed contents.
Read(s, o) ==
  /\ Live(s) /\ writes[s][o] = None
  /\ reads' = [reads EXCEPT ![s][o] = store[o]]
  /\ UNCHANGED <<store, status, writes>>

\* A transaction writes only what it has read.
Write(s, o, v) ==
  /\ Live(s) /\ reads[s][o] # None
  /\ writes' = [writes EXCEPT ![s][o] = v]
  /\ UNCHANGED <<store, status, reads>>

BecomeInevitable(s) ==
  /\ status[s] = "active"
  /\ \A r \in Slots : status[r] # "inevitable"
  /\ status' = [status EXCEPT ![s] = "inevitable"]
  /\ UNCHANGED <<store, reads, writes>>

Forget(s) == /\ reads' = [reads EXCEPT ![s] = Nothing]
             /\ writes' = [writes EXCEPT ![s] = Nothing]

\* The transaction will start over; all it did is void.
Doom(s) ==
  /\ status[s] = "active"
  /\ status' = [status EXCEPT ![s] = "doomed"]
  /\ Forget(s)
  /\ UNCHANGED store

Abort(s) ==
  /\ status[s] \in {"active", "doomed"}
  /\ status' = [status EXCEPT ![s] = "idle"]
  /\ Forget(s)
  /\ UNCHANGED store

\* A commit is one step, and dooms whoever has read what it changes.
Outdated(s) == {r \in Slots \ {s} : Live(r) /\ \E o \in Objects :
                  writes[s][o] # None /\ reads[r][o] # None}
Commit(s) ==
  /\ Live(s)
  /\ \A r \in Outdated(s) : status[r] = "active"
  /\ store' = [o \in Objects |-> IF writes[s][o] # None THEN writes[s][o]
                                                        ELSE store[o]]
  /\ status' = [r \in Slots |-> IF r = s THEN "idle"
                                ELSE IF r \in Outdated(s) THEN "doomed"
                                ELSE status[r]]
  /\ reads' = [r \in Slots |-> IF r \in Outdated(s) \cup {s} THEN Nothing
                                                          ELSE reads[r]]
  /\ writes' = [r \in Slots |-> IF r \in Outdated(s) \cup {s} THEN Nothing
                                                           ELSE writes[r]]

Next == \E s \in Slots :
  \/ Begin(s) \/ BecomeInevitable(s) \/ Doom(s) \/ Abort(s) \/ Commit(s)
  \/ \E o \in Objects : Read(s, o) \/ \E v \in Values : Write(s, o, v)

Spec == Init /\ [][Next]_vars
=============================================================================
