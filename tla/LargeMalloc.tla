---------------------------- MODULE LargeMalloc ----------------------------
(***************************************************************************)
(* The allocator of large objects of c7 (c7/stm/largemalloc.c): one arena  *)
(* of chunks with tags at their boundaries, and bins of free chunks that   *)
(* are sorted when somebody looks into them.  Every operation holds        *)
(* lm.lock and is one action.                                              *)
(*                                                                         *)
(* Addresses and sizes count 16 bytes.  What total_allocated is told is in *)
(* the module Pages.  Definitions marked "faulty" are used nowhere: each   *)
(* is the one below it with a plausible bug.                               *)
(***************************************************************************)
EXTENDS Naturals, Sequences, FiniteSets, SequencesExt, TLC

CONSTANTS
  Arenas,       \* the sizes that the arena may have
  Requests      \* the sizes that are asked for

VARIABLES
  chunks,       \* the headers, by address: [prev_size, size]; 0 is the first
  last_chunk,   \* the address of the end marker
  largebins,    \* per bin: sorted columns of chunks, unsorted chunks
  live          \* the chunks that the callers have

lvars == <<chunks, last_chunk, largebins, live>>

CHUNK_HEADER_SIZE == 1
MIN_ALLOC_SIZE == 2
SizeofChunk == CHUNK_HEADER_SIZE + MIN_ALLOC_SIZE
BOTH_CHUNKS_USED == 0
THIS_CHUNK_FREE == 1
END_MARKER == 0

Larger(x, y) == IF x >= y THEN x ELSE y
Header(prev_size, size) == [prev_size |-> prev_size, size |-> size]
\* Headers at given addresses are written, others are gone.
With(cs, new) == [a \in DOMAIN cs \cup DOMAIN new |->
                    IF a \in DOMAIN new THEN new[a] ELSE cs[a]]
Without(cs, gone) == [a \in DOMAIN cs \ gone |-> cs[a]]
next_chunk(cs, c) == c + CHUNK_HEADER_SIZE + cs[c].size

N_BINS == 84
largebin_index(sz) ==
  CASE sz < 48 * 4       -> sz \div 4
    [] sz >= 48 * 4 /\ sz < 24 * 32 -> 42 + sz \div 32
    [] sz >= 24 * 32 /\ sz < 12 * 256 -> 63 + sz \div 256
    [] sz >= 12 * 256 /\ sz < 6 * 2048 -> 74 + sz \div 2048
    [] sz >= 6 * 2048 /\ sz < 3 * 16384 -> 80 + sz \div 16384
    [] OTHER -> 83
\* The model keeps the bins that its arenas can fill.
Bins == 0..largebin_index(CHOOSE n \in Arenas : \A m \in Arenas : m <= n)
Empty == [sorted |-> <<>>, unsorted |-> <<>>]

insert_unsorted(bins, cs, c) ==
  [bins EXCEPT ![largebin_index(cs[c].size)].unsorted = Append(@, c)]

-----------------------------------------------------------------------------
(* Bins.                                                                   *)

\* A column holds the chunks of one size, from the one in the list upwards.
Column(cs, columns, size) ==
  {k \in 1..Len(columns) : cs[columns[k][1]].size = size}

Inserted(cs, columns, c) ==
  LET same == Column(cs, columns, cs[c].size)
      before == SelectSeq(columns, LAMBDA col : cs[col[1]].size > cs[c].size)
  IN IF same # {}
     THEN [k \in 1..Len(columns) |->
             IF k \in same THEN InsertAt(columns[k], 2, c) ELSE columns[k]]
     ELSE InsertAt(columns, Len(before) + 1, <<c>>)

\* The largest go first; those of a size in the order in which they came (the
\* C library's qsort() keeps it).
sort_bin(cs, bin) ==
  LET u == bin.unsorted
      order == SetToSortSeq(1..Len(u), LAMBDA i, j :
                 \/ cs[u[i]].size > cs[u[j]].size
                 \/ cs[u[i]].size = cs[u[j]].size /\ i < j)
  IN [sorted |-> FoldLeft(LAMBDA columns, i : Inserted(cs, columns, u[i]),
                          bin.sorted, order),
      unsorted |-> <<>>]

Dropped(s, c) == SelectSeq(s, LAMBDA x : x # c)
unlink_chunk(bins, cs, c) ==
  [bins EXCEPT ![largebin_index(cs[c].size)] =
     [sorted |-> SelectSeq([k \in 1..Len(@.sorted) |-> Dropped(@.sorted[k], c)],
                           LAMBDA col : col # <<>>),
      unsorted |-> Dropped(@.unsorted, c)]]

-----------------------------------------------------------------------------
(* Allocation.                                                             *)

\* The first bin to look into, and the one where the search ends: a higher
\* one if it is not empty, and the first if one of its chunks is large enough.
Sorted(bins, cs, i) == [bins EXCEPT ![i] = sort_bin(cs, @)]
Fitting(bin, cs, size) ==
  {k \in 1..Len(bin.sorted) : cs[bin.sorted[k][1]].size >= size}
Higher(bins, i) == {j \in Bins : j > i /\ bins[j] # Empty}

LastFitting(S) == CHOOSE k \in S : \A m \in S : m <= k

\* The bins as the search leaves them, and the column that it finds in them.
Search(bins, cs, size) ==
  LET i == largebin_index(size)
      first == Sorted(bins, cs, i)
      fitting == Fitting(first[i], cs, size)
      j == CHOOSE j \in Higher(first, i) : \A m \in Higher(first, i) : j <= m
      next == Sorted(first, cs, j)
  IN IF fitting # {}
     THEN [bins |-> first, column |-> first[i].sorted[LastFitting(fitting)]]
     ELSE IF Higher(first, i) # {}
     THEN [bins |-> next, column |-> Last(next[j].sorted)]
     ELSE [bins |-> first, column |-> <<>>]

\* The chunk taken is the one just above the bottom of its column, if any.
Taken(column) == IF Len(column) > 1 THEN column[2] ELSE column[1]

\* Faulty: a rest that cannot hold the links of a free chunk is split off.
SplitOff(remaining) == remaining >= CHUNK_HEADER_SIZE
Split(remaining) == remaining >= SizeofChunk

_stm_large_malloc(request) ==
  LET size == Larger(request, MIN_ALLOC_SIZE)
      found == Search(largebins, chunks, size)
      c == Taken(found.column)
      rest == chunks[c].size - size
      bins == unlink_chunk(found.bins, chunks, c)
      new == c + CHUNK_HEADER_SIZE + size
      after == next_chunk(chunks, c)
      whole == With(chunks,
        (c :> Header(BOTH_CHUNKS_USED, chunks[c].size)) @@
        (after :> Header(BOTH_CHUNKS_USED, chunks[after].size)))
      parts == With(chunks,
        (c :> Header(BOTH_CHUNKS_USED, size)) @@
        (new :> Header(THIS_CHUNK_FREE, rest - CHUNK_HEADER_SIZE)) @@
        (after :> Header(rest - CHUNK_HEADER_SIZE, chunks[after].size)))
  IN /\ IF found.column = <<>>
        THEN largebins' = found.bins /\ UNCHANGED <<chunks, live>>
        ELSE /\ live' = live \cup {c}
             /\ IF Split(rest)
                THEN chunks' = parts /\ largebins' = insert_unsorted(bins, parts, new)
                ELSE chunks' = whole /\ largebins' = bins
     /\ UNCHANGED last_chunk

-----------------------------------------------------------------------------
(* Freeing.                                                                *)

FreeBefore(cs, c) == cs[c].prev_size # BOTH_CHUNKS_USED

Heap == [chunks |-> chunks, bins |-> largebins]
_large_free(h, c) ==
  LET cs == h.chunks
      next == next_chunk(cs, c)
      \* the chunk with a free one that follows it
      fwd == IF cs[next].prev_size = BOTH_CHUNKS_USED
             THEN [chunks |-> [cs EXCEPT ![next].prev_size = cs[c].size],
                   bins |-> h.bins]
             ELSE LET size == cs[c].size + CHUNK_HEADER_SIZE + cs[next].size
                      far == next_chunk(cs, next)
                  IN [chunks |-> Without([cs EXCEPT ![c].size = size,
                                                    ![far].prev_size = size], {next}),
                      bins |-> unlink_chunk(h.bins, cs, next)]
      \* and with one before it
      prev == c - (cs[c].prev_size + CHUNK_HEADER_SIZE)
      size == fwd.chunks[prev].size + CHUNK_HEADER_SIZE + fwd.chunks[c].size
      far == next_chunk(fwd.chunks, c)
      merged == Without([fwd.chunks EXCEPT ![prev].size = size,
                                           ![far].prev_size = size], {c})
      alone == [fwd.chunks EXCEPT ![c].prev_size = THIS_CHUNK_FREE]
  IN IF FreeBefore(cs, c)
     THEN [chunks |-> merged,
           bins |-> insert_unsorted(unlink_chunk(fwd.bins, fwd.chunks, prev),
                                    merged, prev)]
     ELSE [chunks |-> alone, bins |-> insert_unsorted(fwd.bins, alone, c)]

Becomes(h) == chunks' = h.chunks /\ largebins' = h.bins
_stm_large_free(c) ==
  /\ c \in live
  /\ Becomes(_large_free(Heap, c))
  /\ live' = live \ {c}
  /\ UNCHANGED last_chunk

\* The chunks that are not kept are freed from the first to the last; where
\* the walk goes on is read before a chunk is freed.
_stm_largemalloc_sweep(keep) ==
  LET dead == SetToSortSeq(live \ keep, LAMBDA x, y : x < y)
  IN /\ keep # live
     /\ Becomes(FoldLeft(_large_free, Heap, dead))
     /\ live' = keep
     /\ UNCHANGED last_chunk

-----------------------------------------------------------------------------
(* The arena.                                                              *)

ArenaInit(size) ==
  LET rest == size - 2 * CHUNK_HEADER_SIZE
      end == size - CHUNK_HEADER_SIZE
  IN /\ chunks = (0 :> Header(THIS_CHUNK_FREE, rest)) @@ (end :> Header(rest, END_MARKER))
     /\ last_chunk = end
     /\ largebins = insert_unsorted([i \in Bins |-> Empty], chunks, 0)
     /\ live = {}
Init == \E size \in Arenas : ArenaInit(size)

\* The arena gets shorter if a free chunk at its end can.
Shrink(size) ==
  LET end == size - CHUNK_HEADER_SIZE
      free == chunks[last_chunk].prev_size
      prev == last_chunk - (free + CHUNK_HEADER_SIZE)
      less == end - prev - CHUNK_HEADER_SIZE
      cs == With(Without(chunks, {last_chunk}),
                 (prev :> Header(THIS_CHUNK_FREE, less)) @@ (end :> Header(less, END_MARKER)))
  IN /\ end < last_chunk
     /\ free # BOTH_CHUNKS_USED /\ end >= prev + SizeofChunk
     /\ chunks' = cs
     /\ largebins' = insert_unsorted(unlink_chunk(largebins, chunks, prev), cs, prev)
     /\ last_chunk' = end
     /\ UNCHANGED live

\* The end marker becomes a chunk of the extra size, which is then freed.  32
\* bytes more do not make a chunk: the links would overwrite the marker.
Grow(size) ==
  LET end == size - CHUNK_HEADER_SIZE
      extra == end - last_chunk
      h == [chunks |-> With(chunks,
              (last_chunk :> Header(chunks[last_chunk].prev_size,
                                    extra - CHUNK_HEADER_SIZE)) @@
              (end :> Header(BOTH_CHUNKS_USED, END_MARKER))),
            bins |-> largebins]
  IN /\ end > last_chunk /\ extra >= SizeofChunk
     /\ Becomes(_large_free(h, last_chunk))
     /\ last_chunk' = end
     /\ UNCHANGED live

_stm_largemalloc_resize_arena(size) == Shrink(size) \/ Grow(size)

Next ==
  \/ \E request \in Requests : _stm_large_malloc(request)
  \/ \E c \in live : _stm_large_free(c)
  \/ \E keep \in SUBSET live : _stm_largemalloc_sweep(keep)
  \/ \E size \in Arenas : _stm_largemalloc_resize_arena(size)
Spec == Init /\ [][Next]_lvars

-----------------------------------------------------------------------------
(* Properties.                                                             *)

InBin(i) == UNION ({{largebins[i].unsorted[k] : k \in DOMAIN largebins[i].unsorted}}
                   \cup {{col[k] : k \in DOMAIN col} :
                         col \in {largebins[i].sorted[j] : j \in DOMAIN largebins[i].sorted}})
Free == UNION {InBin(i) : i \in Bins}
Chunks == DOMAIN chunks \ {last_chunk}
Following(c) == next_chunk(chunks, c)

\* The chunks and what the callers have agree with the tags: chunks follow on
\* each other up to the end marker, all are either free or somebody's, no
\* two free ones are neighbours, and both tags of a boundary are right.
BoundariesAgree ==
  /\ {0, last_chunk} \subseteq DOMAIN chunks
  /\ {Following(c) : c \in Chunks} = DOMAIN chunks \ {0}
  /\ Free \cup live = Chunks /\ Free \cap live = {}
  /\ chunks[0].prev_size = (IF 0 \in Free THEN THIS_CHUNK_FREE ELSE BOTH_CHUNKS_USED)
  /\ \A c \in Chunks :
       /\ chunks[c].size >= MIN_ALLOC_SIZE
       /\ ~({c, Following(c)} \subseteq Free)
       /\ chunks[Following(c)].prev_size =
            (IF c \in Free THEN chunks[c].size
             ELSE IF Following(c) \in Free THEN THIS_CHUNK_FREE ELSE BOTH_CHUNKS_USED)

\* The search, which looks at a bin at a time and sorts as few of them as it
\* can, finds a smallest free chunk that is large enough, if there is one.
FindsBestFit ==
  \A request \in Requests :
    LET size == Larger(request, MIN_ALLOC_SIZE)
        found == Search(largebins, chunks, size).column
        enough == {c \in Free : chunks[c].size >= size}
    IN IF found = <<>> THEN enough = {}
       ELSE /\ Taken(found) \in enough
            /\ \A c \in enough : chunks[Taken(found)].size <= chunks[c].size
=============================================================================
