------------------------------ MODULE MCC4Stm ------------------------------
(* Small instances of C4Stm for the model checker.                         *)
EXTENDS C4Collect

CONSTANTS a, b, new, u, w, t1, t2, t3
OnlyA == <<a>>
AandB == <<a, b>>

\* The transactions that t1, t2 and t3 run.
Three(p, q, r) == [t \in Threads |-> CASE t = t1 -> p [] t = t2 -> q
                                       [] t = t3 -> r]
Pair(p, q) == Three(p, q, <<>>)

Read(o) == <<"read", o>>
Set(o, v) == <<"write", o, v>>
Make(o) == <<"allocate", o, u>>
Store(o, p) == <<"store", o, p>>
Abort == <<"abort">>
Begin == <<"begin_inevitable">>
Inevitable == <<"inevitable">>
Alone == <<"single_thread">>
Collect == <<"collect">>
Leave == <<"leave">>

Scenarios == {
  \* write skew, lost update, inconsistent reads
  Pair(<<<<Read(a), Set(b, u)>>>>, <<<<Read(b), Set(a, u)>>>>),
  Pair(<<<<Read(a), Set(a, u)>>>>, <<<<Read(a), Set(a, w)>>>>),
  Pair(<<<<Set(a, u), Set(b, u)>>>>, <<<<Read(a), Read(b), Set(a, w)>>>>),
  \* an object that its owner protects is written, stolen, given up
  Pair(<<<<Set(a, u)>>, <<Set(a, w), Abort, Read(b)>>>>,
       <<<<Read(b), Read(a)>>>>),
  Pair(<<<<Set(a, u)>>, <<Set(a, w), Read(a)>>>>, <<<<Read(a), Set(a, u)>>>>),
  Three(<<<<Set(a, u)>>>>, <<<<Read(a)>>>>, <<<<Read(a)>>>>),
  \* inevitable transactions, and the others are stopped
  Pair(<<<<Read(a), Inevitable, Set(b, u)>>>>,
       <<<<Read(a), Set(a, u)>>, <<Read(b), Set(a, w)>>>>),
  Pair(<<<<Begin, Set(a, u), Alone, Set(b, u)>>, <<Set(a, w)>>>>,
       <<<<Read(a), Set(b, w), Read(a)>>>>),
  \* a new object is reached through another, and collections
  Pair(<<<<Make(new), Store(a, new)>>, <<Set(a, w)>>>>, <<<<Read(a), Read(new)>>>>),
  Pair(<<<<Make(new), Store(a, new), Store(b, new)>>, <<Set(new, w)>>>>,
       <<<<Read(a), Read(new), Read(b), Read(new)>>>>),
  Pair(<<<<Set(a, u), Make(new), Store(a, new)>>, <<Set(new, w)>>>>,
       <<<<Read(a), Read(new), Collect, Read(new)>>>>),
  Pair(<<<<Set(a, u)>>, <<Set(a, w), Read(b)>>>>,
       <<<<Read(a), Collect, Read(b), Read(a)>>>>),
  Pair(<<<<Begin, Alone, Set(a, u), Collect>>, <<Set(a, w)>>>>,
       <<<<Read(a), Read(a)>>>>),
  Pair(<<<<Set(a, u)>>, <<Read(b), Collect>>>>, <<<<Read(a), Collect>>>>),
  \* a thread ends, and another takes its place
  Pair(<<<<Read(a), Set(b, u)>>>>,
       <<<<Begin, Set(a, u), Make(new), Store(a, new), Leave>>, <<Read(a)>>>>)}

\* t1 has read what t2 overwrites, and t3 comes to see the new one.
OutdatedRead ==
  {Three(<<<<Read(a), Read(a)>>>>, <<<<Set(a, u)>>>>, <<<<Read(a), Collect>>>>)}
=============================================================================
