---------------------------- MODULE PriorityQueue ---------------------------
(***************************************************************************)
(* priorityQueue_t (queue.h): entries are kept in buckets, one for every   *)
(* index, and a heap of the indices tells the first bucket that is in use. *)
(* The index of an entry is asked for anew whenever it is pushed, looked   *)
(* for or removed; ix says what it is at the time.                         *)
(***************************************************************************)
EXTENDS Integers, Sequences, SequencesExt, FiniteSetsExt

CONSTANT MaxIndex   \* the table is large enough for the indices up to this one

EmptyQueue == [buckets |-> [b \in 0..MaxIndex |-> <<>>], heap |-> <<>>]
IsEmpty(q) == q.heap = <<>>
Top(q)     == Head(q.buckets[Head(q.heap)])

\* Mutant: a bucket that is in use is put into the heap again.
PushAlways(q, e, ix) ==
  [buckets |-> [q.buckets EXCEPT ![ix[e]] = <<e>> \o @],
   heap    |-> SortSeq(Append(q.heap, ix[e]), <)]

Push(q, e, ix) ==
  [buckets |-> [q.buckets EXCEPT ![ix[e]] = <<e>> \o @],
   heap    |-> IF q.buckets[ix[e]] = <<>> THEN SortSeq(Append(q.heap, ix[e]), <) ELSE q.heap]

\* An entry that is not in the bucket of its index stays where it is.
RemoveEntry(q, e, ix) ==
  LET b    == ix[e]
      left == SelectSeq(q.buckets[b], LAMBDA x : x # e)
  IN  IF e \notin ToSet(q.buckets[b]) THEN q
      ELSE [buckets |-> [q.buckets EXCEPT ![b] = left],
            heap    |-> IF left # <<>> THEN q.heap
                        ELSE SetToSortSeq(ToSet(q.heap) \ {b}, <)]

\* Mutant: the entry on top is looked for in another bucket, and not found.
PopMisses(q, ix) == q

Pop(q, ix) == RemoveEntry(q, Top(q), ix)
=============================================================================
