---------------------------- MODULE PriorityQueue ----------------------------
(***************************************************************************)
(* One queue of PriorityQueue (src/src/services/PriorityQueue.ts) in its   *)
(* binary heap (src/src/structures/BinaryHeap.ts), from 1 where the code   *)
(* counts from 0.  No snapshot holds the queues: a restart replays the     *)
(* append-only file, in which a rewrite (aofWriters.ts) puts the heap from *)
(* its first place to its last.  ENQUEUE, DEQUEUE and QCLEAR are all       *)
(* logged, so that they do to the queue of a replay what they do to this   *)
(* one; what becomes of the file itself is in AofRecovery.                 *)
(*                                                                         *)
(* The heap is also what JobQueueV2 and HeapTTLManager take their maximum  *)
(* from.                                                                   *)
(***************************************************************************)
EXTENDS Integers, Sequences, SequencesExt

CONSTANTS
    Priorities,
    MaxQueued,  \* bound: entries at once
    MaxSeq      \* bound: entries ever

ASSUME PriorityAssumption ==
    Priorities \subseteq Int /\ MaxQueued \in Nat /\ MaxSeq \in Nat

VARIABLES
    heap,       \* of entries [value, priority, seq]
    nextSeq,
    kept,       \* the heap that a replay of the file would build,
    keptSeq,    \* and the counter it would end with
    waiting,    \* history: the entries [value, priority] as they arrived
    reordered,  \* history: the heap is from a rewritten file
    rewritten,  \* history: the file was rewritten
    strayed     \* history: a DEQUEUE in the file takes another entry than was served

queueVars == <<heap, nextSeq, kept, keptSeq, waiting, reordered, rewritten, strayed>>

InitQueued ==
    /\ heap = <<>> /\ nextSeq = 0 /\ kept = <<>> /\ keptSeq = 0
    /\ waiting = <<>> /\ reordered = FALSE /\ rewritten = FALSE /\ strayed = FALSE

-----------------------------------------------------------------------------
(* The heap.                                                               *)

\* compare() > 0: a is served before b.
Above(a, b) == a.priority > b.priority \/ (a.priority = b.priority /\ a.seq < b.seq)

Swapped(h, i, j) == [h EXCEPT ![i] = h[j], ![j] = h[i]]

\* Moves from place to place until one stays, which takes no more steps than places.
Settling(Moved(_, _), h, start) ==
    LET at[n \in 0..Len(h)] ==
          IF n = 0 THEN [heap |-> h, place |-> start]
          ELSE LET from == at[n - 1]
                   to == Moved(from.heap, from.place)
               IN  [heap |-> Swapped(from.heap, from.place, to), place |-> to]
    IN  at[Len(h)].heap

\* bubbleUp()
Parent(h, i) == IF i > 1 /\ Above(h[i], h[i \div 2]) THEN i \div 2 ELSE i
BubbleUp(h, i) == Settling(Parent, h, i)

\* sinkDown(): the larger child, if it is larger; the mutant takes the first that is.
FirstLarger(h, i) ==
    LET larger == {c \in {2 * i, 2 * i + 1} \cap DOMAIN h : Above(h[c], h[i])} IN
    IF larger = {} THEN i ELSE Min(larger)
Largest(h, i) ==
    CHOOSE c \in {i, 2 * i, 2 * i + 1} \cap DOMAIN h :
        \A d \in {i, 2 * i, 2 * i + 1} \cap DOMAIN h : d = c \/ Above(h[c], h[d])
SinkDown(h, i) == Settling(Largest, h, i)

Pushed(h, item) == BubbleUp(Append(h, item), Len(h) + 1)

\* pop(), which returns h[1].
Popped(h) ==
    IF Len(h) = 1 THEN <<>> ELSE SinkDown([Front(h) EXCEPT ![1] = Last(h)], 1)

-----------------------------------------------------------------------------
(* The queue.                                                              *)

Values(entries) == {entries[i].value : i \in DOMAIN entries}

Unnamed == CHOOSE v \in 1..2 * MaxQueued :
               /\ v \notin Values(heap) \cup Values(kept)
               /\ 1..(v - 1) \subseteq Values(heap) \cup Values(kept)

\* When the entry with this value arrived.
Turn(value) == CHOOSE n \in DOMAIN waiting : waiting[n].value = value

\* enqueue()
Enqueue(priority) ==
    /\ Len(heap) < MaxQueued /\ nextSeq < MaxSeq   \* the bounds
    /\ LET item == [value |-> Unnamed, priority |-> priority] IN
         /\ heap' = Pushed(heap, [value |-> item.value, priority |-> priority, seq |-> nextSeq])
         /\ kept' = Pushed(kept, [value |-> item.value, priority |-> priority, seq |-> keptSeq])
         /\ waiting' = Append(waiting, item)
    /\ nextSeq' = nextSeq + 1 /\ keptSeq' = keptSeq + 1
    /\ UNCHANGED <<reordered, rewritten, strayed>>

\* dequeue()
Dequeue ==
    /\ heap # <<>>
    /\ heap' = Popped(heap)
    /\ kept' = Popped(kept)
    /\ waiting' = RemoveAt(waiting, Turn(heap[1].value))
    /\ strayed' = (strayed \/ kept[1].value # heap[1].value)
    /\ UNCHANGED <<nextSeq, keptSeq, reordered, rewritten>>

\* clear()
ClearQueue ==
    /\ heap # <<>>
    /\ heap' = <<>> /\ kept' = <<>> /\ waiting' = <<>> /\ strayed' = FALSE
    /\ UNCHANGED <<nextSeq, keptSeq, reordered, rewritten>>

\* An ENQUEUE for each entry, replayed in a new queue; the mutant leaves out the
\* priorities, as if all were the default.
EnqueuedPlain(listed) ==
    LET h[n \in 0..Len(listed)] ==
          IF n = 0 THEN <<>> ELSE Pushed(h[n - 1], [listed[n] EXCEPT !.seq = n - 1, !.priority = 0])
    IN  h[Len(listed)]
Enqueued(listed) ==
    LET h[n \in 0..Len(listed)] ==
          IF n = 0 THEN <<>> ELSE Pushed(h[n - 1], [listed[n] EXCEPT !.seq = n - 1])
    IN  h[Len(listed)]

\* BGREWRITEAOF: the entries as export() lists them, with the priorities they have.
Rewrite ==
    /\ kept' = Enqueued(heap)
    /\ keptSeq' = Len(heap)
    /\ rewritten' = (heap # <<>>)
    /\ strayed' = FALSE
    /\ UNCHANGED <<heap, nextSeq, waiting, reordered>>

\* The end of the process and the replay.  What waits then is what the log has.
Restart ==
    /\ heap' = kept
    /\ nextSeq' = keptSeq
    /\ reordered' = rewritten
    /\ waiting' = IF strayed THEN [n \in 1..Len(kept) |-> [value |-> kept[n].value, priority |-> kept[n].priority]]
                             ELSE waiting
    /\ strayed' = FALSE
    /\ UNCHANGED <<kept, keptSeq, rewritten>>

NextQueued ==
    \/ \E priority \in Priorities : Enqueue(priority)
    \/ Dequeue \/ ClearQueue \/ Rewrite \/ Restart

PrioritySpec == InitQueued /\ [][NextQueued]_queueVars

-----------------------------------------------------------------------------
(* What dequeue() returns from a heap, again and again.                    *)
Served(entries) ==
    LET at[n \in 0..Len(entries)] ==
          IF n = 0 THEN [heap |-> entries, out |-> <<>>]
          ELSE LET from == at[n - 1]
               IN  [heap |-> Popped(from.heap), out |-> Append(from.out, from.heap[1])]
    IN  at[Len(entries)].out

\* Who waits comes before another by priority, and then by arrival.
Precedes(m, n) == \/ waiting[m].priority > waiting[n].priority
                  \/ waiting[m].priority = waiting[n].priority /\ m < n

InTurn(served) ==
    \A i, j \in DOMAIN served : i < j => Precedes(Turn(served[i].value), Turn(served[j].value))

\* What the heap serves is what waits, each entry once, in its turn.
HeapServesInTurn ==
    LET served == Served(heap) IN
    /\ IsInjective(served)
    /\ Values(served) = Values(waiting)
    /\ \A n \in 2..Len(served) : served[n].priority <= served[n - 1].priority
    /\ ~reordered => InTurn(served)

\* And what the heap of a replay would serve.
ReplayServesAlike ==
    LET served == Served(heap)
        replayed == Served(kept)
    IN  /\ Len(replayed) = Len(served)
        /\ \A n \in DOMAIN served : replayed[n].priority = served[n].priority
        /\ ~strayed => Values(replayed) = Values(waiting)
        /\ ~rewritten => InTurn(replayed)

(* Whatever was pushed, popped, cleared, rewritten and replayed before,    *)
(* what the queue serves from here on is what waits, each entry once,      *)
(* higher priorities first; and in the order of arrival among equals,      *)
(* unless it comes from a rewritten file.  A restart now would serve as    *)
(* many entries, with the same priorities in the same order; the same      *)
(* entries, unless a DEQUEUE in the file takes another one than was        *)
(* served, which the rewrite brings about; and in the order of arrival, if *)
(* the file was never rewritten.                                           *)
ServedInOrder == HeapServesInTurn /\ ReplayServesAlike

(* "Re-enqueueing in index order recovers the same dequeue ordering": false *)
(* in the code, where the index order is that of the heap.                 *)
RewriteKeepsOrder ==
    \A n \in DOMAIN heap : Served(kept)[n].value = Served(heap)[n].value

(* "Replaying the AOF reconstructs the in-memory state exactly": false in  *)
(* the code for the entries themselves, of which a restart brings one back *)
(* and loses another when DEQUEUE has been called since a rewrite.         *)
RestartKeepsEntries == [][Restart => Values(heap') = Values(waiting)]_queueVars
=============================================================================
