------------------------------ MODULE SortedSet ------------------------------
(***************************************************************************)
(* One sorted set of SortedSetStore (src/src/structures/SortedSet.ts): the *)
(* scores of its members, and the same members in a skip list              *)
(* (SkipList.ts), whose towers have random heights.                        *)
(*                                                                         *)
(* Members are numbered in the order of their strings, and scores are the  *)
(* finite numbers that commands.ts lets through.  A node is named by its   *)
(* key, score and member, of which the list can hold one: set() looks for  *)
(* it first.  A node that no pointer refers to any more is collected.      *)
(***************************************************************************)
EXTENDS Integers, Sequences, FiniteSets, SequencesExt

CONSTANTS
    Members,    \* numbered in the lexicographic order of their strings
    Scores,
    Deltas,     \* of ZINCRBY
    MaxLevel    \* maxLevel: towers have up to this many levels

ASSUME SortedSetAssumption ==
    /\ Members \subseteq Nat /\ IsFiniteSet(Members)
    /\ Scores \subseteq Int /\ IsFiniteSet(Scores)
    /\ Deltas \subseteq Int
    /\ MaxLevel \in Nat \ {0}

VARIABLES
    scoreMap,   \* [the members of the set -> score]
    forward,    \* [sentinel and nodes -> the forward pointers of the levels 0, 1, ...]
    level,      \* of the list: the highest in use
    size        \* of the list

zsetVars == <<scoreMap, forward, level, size>>

Sentinel == <<"sentinel">>
Null == <<"null">>
Nodes == Scores \X Members

Heights == 0..(MaxLevel - 1)

InitZset ==
    /\ scoreMap = <<>>
    /\ forward = [n \in Nodes \cup {Sentinel} |->
                    IF n = Sentinel THEN [i \in 0..MaxLevel |-> Null] ELSE <<>>]
    /\ level = 0
    /\ size = 0

List == [forward |-> forward, level |-> level, size |-> size]

-----------------------------------------------------------------------------
(* The skip list, as operators on a list.                                  *)

\* compareCompositeKeys(): by score, then by member.
Before(a, b) == a[1] < b[1] \/ (a[1] = b[1] /\ a[2] < b[2])

\* The walk along one level, from a node to the last one before the key.  The loop
\* gets a round for each node: it has no more to pass (ServicesProofs!WalkIs), and
\* the rounds that are left stay where it ended.
Walk(l, i, from, key) ==
    LET at[n \in 0..l.size] ==
          IF n = 0 THEN from
          ELSE LET here == at[n - 1]
                   next == l.forward[here][i]
               IN  IF next # Null /\ Before(next, key) THEN next ELSE here
    IN  at[l.size]

\* The descent of set(), get() and delete(): where it leaves each level.
Descent(l, key) ==
    LET left[n \in 0..l.level] ==
          Walk(l, l.level - n, IF n = 0 THEN Sentinel ELSE left[n - 1], key)
    IN  [i \in 0..l.level |-> left[l.level - i]]

Candidate(l, key) == l.forward[Descent(l, key)[0]][0]

Found(l, key) == Candidate(l, key) = key

\* set() of a new key with the height that randomLevel() gave.
Inserted(l, key, height) ==
    LET path == Descent(l, key)
        update == [i \in 0..height |-> IF i <= l.level THEN path[i] ELSE Sentinel]
    IN  [forward |-> [n \in DOMAIN l.forward |->
                        IF n = key THEN [i \in 0..height |-> l.forward[update[i]][i]]
                        ELSE [i \in DOMAIN l.forward[n] |->
                                IF i <= height /\ update[i] = n THEN key
                                                                ELSE l.forward[n][i]]],
         level |-> IF height > l.level THEN height ELSE l.level,
         size |-> l.size + 1]

ListSet(l, key, height) == IF Found(l, key) THEN l ELSE Inserted(l, key, height)

\* Variant: the topmost level of the list is left out.
UnlinkedBelowTop(l, path, key) == {i \in 0..(l.level - 1) : l.forward[path[i]][i] = key}

\* The levels at which delete() takes the node out, up to the first where it is
\* not the next one.
Unlinked(l, path, key) ==
    {i \in 0..l.level : \A j \in 0..i : l.forward[path[j]][j] = key}

Collected(fwd, key) ==
    IF \E n \in DOMAIN fwd \ {key} : \E i \in DOMAIN fwd[n] : fwd[n][i] = key
    THEN fwd
    ELSE [fwd EXCEPT ![key] = <<>>]

\* delete(): the level falls below the levels that are empty.
ListDelete(l, key) ==
    LET path == Descent(l, key)
        levels == Unlinked(l, path, key)
        fwd == [n \in DOMAIN l.forward |->
                  [i \in DOMAIN l.forward[n] |->
                     IF i \in levels /\ path[i] = n THEN l.forward[key][i] ELSE l.forward[n][i]]]
        used == {0} \cup {i \in 0..l.level : fwd[Sentinel][i] # Null}
    IN  IF ~Found(l, key) THEN l
        ELSE [forward |-> Collected(fwd, key),
              level |-> CHOOSE i \in used : \A j \in used : j <= i,
              size |-> l.size - 1]

\* toArray(), with a round for each node as well (ToArrayIs).
ToArray(l) ==
    LET at[n \in 0..l.size] ==
          IF n = 0 THEN [next |-> l.forward[Sentinel][0], result |-> <<>>]
          ELSE LET from == at[n - 1] IN
               IF from.next = Null THEN from
               ELSE [next |-> l.forward[from.next][0], result |-> Append(from.result, from.next)]
    IN  at[l.size].result

-----------------------------------------------------------------------------
(* The sorted set.                                                         *)

Becomes(l) == forward' = l.forward /\ level' = l.level /\ size' = l.size

\* zadd(): a member that is there is taken out and put in again, also with the
\* score it has.
ZAdd(m, score) ==
    LET without == IF m \in DOMAIN scoreMap THEN ListDelete(List, <<scoreMap[m], m>>) ELSE List
    IN  /\ \E height \in Heights : Becomes(ListSet(without, <<score, m>>, height))
        /\ scoreMap' = [n \in DOMAIN scoreMap \cup {m} |-> IF n = m THEN score ELSE scoreMap[n]]

\* zincrby(): a member that is not there starts from zero.
ZIncrBy(m, delta) ==
    LET score == IF m \in DOMAIN scoreMap THEN scoreMap[m] + delta ELSE delta
    IN  /\ score \in Scores   \* the bound
        /\ ZAdd(m, score)

\* zrem(): with its last member the set is dropped, list and all, and an empty
\* list is as good as a new one.
ZRem(m) ==
    /\ m \in DOMAIN scoreMap
    /\ Becomes(ListDelete(List, <<scoreMap[m], m>>))
    /\ scoreMap' = Restrict(scoreMap, DOMAIN scoreMap \ {m})

EmptyList == [forward |-> [n \in DOMAIN forward |->
                         IF n = Sentinel THEN [i \in 0..MaxLevel |-> Null] ELSE <<>>],
          level |-> 0, size |-> 0]

\* export() and import(): the members are inserted in the order of the list.
Imported(exported, heights) ==
    LET l[n \in 0..Len(exported)] ==
          IF n = 0 THEN EmptyList ELSE ListSet(l[n - 1], exported[n], heights[n])
    IN  l[Len(exported)]

Reload ==
    LET exported == ToArray(List) IN
    /\ \E heights \in [1..Len(exported) -> Heights] : Becomes(Imported(exported, heights))
    /\ scoreMap' = [m \in {exported[i][2] : i \in DOMAIN exported} |->
                      exported[Max({i \in DOMAIN exported : exported[i][2] = m})][1]]

NextZset ==
    \/ \E m \in Members : ZRem(m)
    \/ \E m \in Members, score \in Scores : ZAdd(m, score)
    \/ \E m \in Members, delta \in Deltas : ZIncrBy(m, delta)
    \/ Reload

ZsetSpec == InitZset /\ [][NextZset]_zsetVars

-----------------------------------------------------------------------------
(* The answers.                                                            *)

\* ZRANGE: the range() of the list.
ZRange(start, stop) ==
    LET s == IF start >= 0 THEN start ELSE IF size + start < 0 THEN 0 ELSE size + start
        e == IF stop < 0 THEN size + stop ELSE stop
    IN  IF size = 0 \/ s > e \/ s >= size THEN <<>>
        ELSE SubSeq(ToArray(List), s + 1, (IF e < size - 1 THEN e ELSE size - 1) + 1)

\* ZREVRANGE, which reverses the array before it cuts.
ZRevRange(start, stop) ==
    LET all == Reverse(ToArray(List))
        len == Len(all)
        s == IF start >= 0 THEN (IF start < len THEN start ELSE len)
             ELSE IF len + start < 0 THEN 0 ELSE len + start
        e == IF stop < 0 THEN len + stop ELSE IF stop < len - 1 THEN stop ELSE len - 1
    IN  IF s > e \/ len = 0 THEN <<>> ELSE SubSeq(all, s + 1, e + 1)

\* ZRANK of a member: the place of its node in the list, -1 for none.
ZRank(m) ==
    LET all == ToArray(List)
        places == {i \in DOMAIN all : all[i] = <<scoreMap[m], m>>}
    IN  IF places = {} THEN -1 ELSE Min(places) - 1

\* The nodes of seq in P, in their order.
Chosen(seq, P) ==
    LET chosen[n \in 0..Len(seq)] ==
          IF n = 0 THEN <<>>
          ELSE IF seq[n] \in P THEN Append(chosen[n - 1], seq[n]) ELSE chosen[n - 1]
    IN  chosen[Len(seq)]

\* ZRANGEBYSCORE, which stops at the first score beyond the range, and ZCOUNT,
\* which asks the map of scores.
ZRangeByScore(min, max) ==
    LET all == ToArray(List)
        beyond == {i \in DOMAIN all : all[i][1] > max} \cup {Len(all) + 1}
    IN  Chosen(SubSeq(all, 1, Min(beyond) - 1), {n \in Nodes : n[1] >= min})

ZCount(min, max) ==
    Cardinality({m \in DOMAIN scoreMap : scoreMap[m] \in min..max})

\* The members by score and name: the reference.
Present == {<<scoreMap[m], m>> : m \in DOMAIN scoreMap}

Ranked ==
    LET places == 1..Cardinality(Present) IN
    CHOOSE r \in [places -> Present] : \A i, j \in places : i < j => Before(r[i], r[j])

\* The elements of seq from rank start to rank stop; below zero, ranks count from
\* the end.
Slice(seq, start, stop) ==
    LET Rank(i) == IF i < 0 THEN Len(seq) + i ELSE i
        first == Max({0, Rank(start)})
        last == Min({Len(seq) - 1, Rank(stop)})
    IN  SubSeq(seq, first + 1, last + 1)

\* Ranks up to just beyond either end.
Bounds == -(size + 1)..(size + 1)

(* After any changes, with towers of any heights, a range by rank answers  *)
(* the members by score and name, from either end and for any bounds; so   *)
(* do a range by score and a rank, and the count of a range of scores is   *)
(* its length.  A pointer left behind in an upper level, or a size or a    *)
(* level out of step, would lose, repeat or misplace a member.             *)
RangesExact ==
    LET ranked == Ranked
        reversed == Reverse(ranked)
    IN
    /\ \A start, stop \in Bounds :
         /\ ZRange(start, stop) = Slice(ranked, start, stop)
         /\ ZRevRange(start, stop) = Slice(reversed, start, stop)
    /\ \A m \in DOMAIN scoreMap :
         ZRank(m) \in 0..(Len(ranked) - 1) /\ ranked[ZRank(m) + 1][2] = m
    /\ \A min, max \in Scores :
         /\ ZRangeByScore(min, max) = Chosen(ranked, {n \in Nodes : n[1] \in min..max})
         /\ ZCount(min, max) = Len(ZRangeByScore(min, max))
=============================================================================
