------------------------- MODULE DurableQueueProofs -------------------------
(***************************************************************************)
(* Theorems about DurableQueue, for every set of jobs, every limit of the  *)
(* log and any number of restarts: the log is caught up with the queue, a  *)
(* crash keeps what is unfinished and resurrects nothing, and an attempt   *)
(* at most is gained by it.                                                *)
(*                                                                         *)
(* Whole is the log from the oldest row of the table to the newest entry   *)
(* of the buffer.  Its three parts are read only by what they say of a     *)
(* job: whether it is in there, with which last entry.  The inductive      *)
(* invariant LogInv relates that to the queue.  A queue step appends       *)
(* entries that tell what it did (Tells, LogStep); a step of the log moves *)
(* entries or deletes the oldest of a job (KeepsLog, LogOnly); a restart   *)
(* leaves the table alone and rebuilds the queue from it (RebuiltSays).    *)
(***************************************************************************)
EXTENDS DurableQueue, JobQueueProofs, WellFoundedInduction

-----------------------------------------------------------------------------
(***************************************************************************)
(* What a sequence of log entries says of a job, by its positions.         *)
(***************************************************************************)
Holds(s, e) == \E i \in DOMAIN s : s[i] = e
LoggedIn(s, j) == \E i \in DOMAIN s : s[i].job = j
CompletedIn(s, j) == \E i \in DOMAIN s : s[i].job = j /\ s[i].event = "completed"

\* e is the last entry of j in s.
LatestIn(s, j, e) ==
    \E i \in DOMAIN s : s[i] = e /\ e.job = j /\ \A k \in DOMAIN s : k > i => s[k].job # j

\* What u says of the jobs when it is s and then t.
Joins(u, s, t) ==
    /\ \A e : Holds(u, e) <=> Holds(s, e) \/ Holds(t, e)
    /\ \A j : LoggedIn(u, j) <=> LoggedIn(s, j) \/ LoggedIn(t, j)
    /\ \A j : CompletedIn(u, j) <=> CompletedIn(s, j) \/ CompletedIn(t, j)
    /\ \A j : HasTerminal(u, j) <=> HasTerminal(s, j) \/ HasTerminal(t, j)
    /\ \A j, e : LatestIn(u, j, e) <=>
                   LatestIn(t, j, e) \/ (~LoggedIn(t, j) /\ LatestIn(s, j, e))

LEMMA FirstNumber ==
    ASSUME NEW T, T \subseteq Nat, T # {}
    PROVE  \E x \in T : \A y \in T : x <= y
<1>1. PICK x \in T : \A y \in T : ~(<<y, x>> \in OpToRel(<, Nat))
  BY NatLessThanWellFounded, WFMin
<1>2. ASSUME NEW y \in T, y < x PROVE FALSE
  <2>1. <<y, x>> \in OpToRel(<, Nat)
    BY <1>2, Zenon DEF OpToRel
  <2> QED BY <2>1, <1>1
<1> QED BY <1>2

\* A set of numbers with 0 that is closed under the step up to n has n.
LEMMA UpTo ==
    ASSUME NEW n \in Nat, NEW S, 0 \in S, \A i \in 0..n : i # 0 /\ (i - 1) \in S => i \in S
    PROVE  n \in S
<1> DEFINE T == {i \in 0..n : i \notin S}
<1> SUFFICES ASSUME T # {} PROVE FALSE
  OBVIOUS
<1>1. PICK x \in T : \A y \in T : x <= y
  <2>1. T \subseteq Nat
    OBVIOUS
  <2> HIDE DEF T
  <2> QED BY <2>1, FirstNumber
<1>2. x # 0 /\ x \in 0..n /\ (x - 1) \notin T /\ (x - 1) \in 0..n
  BY <1>1
<1> QED BY <1>1, <1>2

\* Concatenation.
LEMMA Concatenated ==
    ASSUME NEW s \in Seq(Entries), NEW t \in Seq(Entries)
    PROVE  s \o t \in Seq(Entries) /\ Joins(s \o t, s, t)
<1> DEFINE u == s \o t
           m == Len(s)
           n == Len(t)
<1>1. /\ u \in Seq(Entries) /\ Len(u) = m + n /\ m \in Nat /\ n \in Nat
      /\ \A i \in 1..(m + n) : u[i] = IF i <= m THEN s[i] ELSE t[i - m]
  BY ConcatProperties, LenProperties
<1>2. DOMAIN u = 1..(m + n) /\ DOMAIN s = 1..m /\ DOMAIN t = 1..n
  BY <1>1, LenProperties
<1> HIDE DEF u, m, n
<1>3. \A i \in DOMAIN s : i \in DOMAIN u /\ u[i] = s[i]
  BY <1>1, <1>2
<1>4. \A i \in DOMAIN t : m + i \in DOMAIN u /\ u[m + i] = t[i]
  BY <1>1, <1>2
<1>5. \A i \in DOMAIN u : \/ i \in DOMAIN s /\ u[i] = s[i]
                          \/ i > m /\ i - m \in DOMAIN t /\ u[i] = t[i - m]
  BY <1>1, <1>2
<1>6. \A e : Holds(u, e) <=> Holds(s, e) \/ Holds(t, e)
  BY <1>3, <1>4, <1>5 DEF Holds
<1>7. \A j : LoggedIn(u, j) <=> LoggedIn(s, j) \/ LoggedIn(t, j)
  BY <1>3, <1>4, <1>5 DEF LoggedIn
<1>8. \A j : CompletedIn(u, j) <=> CompletedIn(s, j) \/ CompletedIn(t, j)
  BY <1>3, <1>4, <1>5 DEF CompletedIn
<1>9. \A j : HasTerminal(u, j) <=> HasTerminal(s, j) \/ HasTerminal(t, j)
  BY <1>3, <1>4, <1>5 DEF HasTerminal
<1>10. ASSUME NEW j, NEW e, LatestIn(u, j, e)
       PROVE  LatestIn(t, j, e) \/ (~LoggedIn(t, j) /\ LatestIn(s, j, e))
  <2>1. PICK i \in DOMAIN u : u[i] = e /\ e.job = j /\ \A k \in DOMAIN u : k > i => u[k].job # j
    BY <1>10 DEF LatestIn
  <2>2. CASE i \in DOMAIN s /\ u[i] = s[i]
    <3>1. \A k \in DOMAIN t : m + k > i
      BY <1>1, <1>2, <2>2
    <3>2. ~LoggedIn(t, j)
      BY <1>4, <2>1, <3>1 DEF LoggedIn
    <3>3. LatestIn(s, j, e)
      BY <1>3, <2>1, <2>2 DEF LatestIn
    <3> QED BY <3>2, <3>3
  <2>3. CASE i > m /\ i - m \in DOMAIN t /\ u[i] = t[i - m]
    <3>1. \A k \in DOMAIN t : k > i - m => m + k > i
      BY <1>1, <1>2, <2>3
    <3>2. \A k \in DOMAIN t : k > i - m => t[k].job # j
      BY <1>4, <2>1, <3>1
    <3> QED BY <2>1, <2>3, <3>2 DEF LatestIn
  <2> QED BY <1>5, <2>2, <2>3
<1>11. ASSUME NEW j, NEW e, LatestIn(t, j, e) PROVE LatestIn(u, j, e)
  <2>1. PICK i \in DOMAIN t : t[i] = e /\ e.job = j /\ \A k \in DOMAIN t : k > i => t[k].job # j
    BY <1>11 DEF LatestIn
  <2>2. \A k \in DOMAIN u : k > m + i => k > m /\ k - m > i /\ k - m \in DOMAIN t /\ u[k] = t[k - m]
    BY <1>1, <1>2
  <2>3. \A k \in DOMAIN u : k > m + i => u[k].job # j
    BY <2>1, <2>2
  <2> QED BY <1>4, <2>1, <2>3 DEF LatestIn
<1>12. ASSUME NEW j, NEW e, ~LoggedIn(t, j), LatestIn(s, j, e) PROVE LatestIn(u, j, e)
  <2>1. PICK i \in DOMAIN s : s[i] = e /\ e.job = j /\ \A k \in DOMAIN s : k > i => s[k].job # j
    BY <1>12 DEF LatestIn
  <2>2. \A k \in DOMAIN u : k > i => u[k].job # j
    BY <1>5, <1>12, <2>1 DEF LoggedIn
  <2> QED BY <1>3, <2>1, <2>2 DEF LatestIn
<1> QED BY <1>1, <1>6, <1>7, <1>8, <1>9, <1>10, <1>11, <1>12 DEF Joins, u

\* The empty sequence and that of one entry.
LEMMA Singles ==
    ASSUME NEW e \in Entries
    PROVE  /\ <<e>> \in Seq(Entries)
           /\ \A f : Holds(<<e>>, f) <=> f = e
           /\ \A j : LoggedIn(<<e>>, j) <=> e.job = j
           /\ \A j : CompletedIn(<<e>>, j) <=> e.job = j /\ e.event = "completed"
           /\ \A j : HasTerminal(<<e>>, j) <=> e.job = j /\ e.event \in Terminal
           /\ \A j, f : LatestIn(<<e>>, j, f) <=> f = e /\ e.job = j
<1>1. DOMAIN <<e>> = {1} /\ <<e>>[1] = e /\ <<e>> \in Seq(Entries)
  OBVIOUS
<1> QED BY <1>1 DEF Holds, LoggedIn, CompletedIn, HasTerminal, LatestIn

LEMMA Nothing ==
    /\ <<>> \in Seq(Entries)
    /\ \A f : ~Holds(<<>>, f)
    /\ \A j : ~LoggedIn(<<>>, j) /\ ~CompletedIn(<<>>, j) /\ ~HasTerminal(<<>>, j)
    /\ \A j, f : ~LatestIn(<<>>, j, f)
<1>1. DOMAIN <<>> = {}
  OBVIOUS
<1> QED BY <1>1 DEF Holds, LoggedIn, CompletedIn, HasTerminal, LatestIn

LEMMA Appended ==
    ASSUME NEW s \in Seq(Entries), NEW e \in Entries
    PROVE  Append(s, e) \in Seq(Entries) /\ Joins(Append(s, e), s, <<e>>)
<1>1. Append(s, e) = s \o <<e>> /\ <<e>> \in Seq(Entries)
  BY AppendIsConcat
<1> QED BY <1>1, Concatenated

\* A job in s has a latest entry there, and only one.
LEMMA LatestExists ==
    ASSUME NEW s \in Seq(Entries), NEW j, LoggedIn(s, j)
    PROVE  \E e \in Entries : LatestIn(s, j, e)
<1> DEFINE n == Len(s)
           T == {d \in 0..n : n - d \in DOMAIN s /\ s[n - d].job = j}
<1>1. n \in Nat /\ DOMAIN s = 1..n /\ \A i \in 1..n : s[i] \in Entries
  BY LenProperties
<1> HIDE DEF n
<1>2. PICK i \in DOMAIN s : s[i].job = j
  BY DEF LoggedIn
<1>3. n - i \in 0..n /\ n - (n - i) = i
  BY <1>1, <1>2
<1>4. n - i \in T
  BY <1>2, <1>3
<1>5. PICK d \in T : \A y \in T : d <= y
  <2>1. T \subseteq Nat
    OBVIOUS
  <2> HIDE DEF T
  <2> QED BY <1>4, <2>1, FirstNumber
<1>6. ASSUME NEW k \in DOMAIN s, k > n - d, s[k].job = j PROVE FALSE
  <2>1. n - k \in 0..n /\ n - (n - k) = k /\ n - k < d /\ d \in 0..n
    BY <1>1, <1>5, <1>6
  <2>2. n - k \in T
    BY <1>6, <2>1
  <2> QED BY <1>5, <2>1, <2>2
<1>7. n - d \in DOMAIN s /\ s[n - d].job = j /\ s[n - d] \in Entries
  BY <1>1, <1>5
<1> QED BY <1>6, <1>7 DEF LatestIn

LEMMA LatestFacts ==
    ASSUME NEW s \in Seq(Entries), NEW j, NEW e, LatestIn(s, j, e)
    PROVE  /\ e \in Entries /\ e.job = j /\ Holds(s, e) /\ LoggedIn(s, j)
           /\ \A f : LatestIn(s, j, f) => f = e
<1>1. Len(s) \in Nat /\ DOMAIN s = 1..Len(s) /\ \A i \in 1..Len(s) : s[i] \in Entries
  BY LenProperties
<1>2. e \in Entries /\ e.job = j /\ Holds(s, e) /\ LoggedIn(s, j)
  BY <1>1 DEF LatestIn, Holds, LoggedIn
<1>3. ASSUME NEW f, LatestIn(s, j, f) PROVE f = e
  <2>1. PICK i \in 1..Len(s) : s[i] = e /\ e.job = j /\ \A k \in 1..Len(s) : k > i => s[k].job # j
    BY <1>1 DEF LatestIn
  <2>2. PICK h \in 1..Len(s) : s[h] = f /\ f.job = j /\ \A k \in 1..Len(s) : k > h => s[k].job # j
    BY <1>1, <1>3 DEF LatestIn
  <2>3. ~(h > i) /\ ~(i > h)
    BY <2>1, <2>2
  <2>4. h = i
    BY <1>1, <2>3
  <2> QED BY <2>1, <2>2, <2>4
<1> QED BY <1>2, <1>3

-----------------------------------------------------------------------------
\* The rows of s at the positions P among the first n, as RowsAt collects them.
RowsTo(f, s, P, n) ==
    f = [m \in 0..n |-> IF m = 0 THEN <<>>
                        ELSE IF m \in P THEN Append(f[m - 1], s[m]) ELSE f[m - 1]]

LEMMA RowsToExists ==
    ASSUME NEW s, NEW P, NEW n \in Nat
    PROVE  \E f : RowsTo(f, s, P, n)
<1> DEFINE S == {k \in Nat : \E f : RowsTo(f, s, P, k)}
<1>1. 0 \in S
  <2> DEFINE f == [m \in 0..0 |-> <<>>]
  <2>1. f = [m \in 0..0 |-> IF m = 0 THEN <<>>
                            ELSE IF m \in P THEN Append(f[m - 1], s[m]) ELSE f[m - 1]]
    OBVIOUS
  <2> QED BY <2>1 DEF RowsTo
<1>2. ASSUME NEW k \in 0..n, k # 0, (k - 1) \in S PROVE k \in S
  <2>1. PICK f : RowsTo(f, s, P, k - 1)
    BY <1>2
  <2> DEFINE g == [m \in 0..k |-> IF m < k THEN f[m]
                                  ELSE IF k \in P THEN Append(f[k - 1], s[k]) ELSE f[k - 1]]
  <2>2. \A m \in 0..k : g[m] = IF m = 0 THEN <<>>
                               ELSE IF m \in P THEN Append(g[m - 1], s[m]) ELSE g[m - 1]
    <3>1. \A m \in 0..(k - 1) : f[m] = IF m = 0 THEN <<>>
                               ELSE IF m \in P THEN Append(f[m - 1], s[m]) ELSE f[m - 1]
      BY <2>1 DEF RowsTo
    <3>a. k \in Nat /\ k # 0
      BY <1>2
    <3>2. ASSUME NEW m \in 0..k, m # k
          PROVE  m \in 0..(k - 1) /\ m < k /\ (m # 0 => m - 1 < k /\ m - 1 \in 0..k)
      BY ONLY <3>a, <3>2
    <3>3. k \in 0..k /\ k - 1 \in 0..k /\ k - 1 < k /\ ~(k < k)
      BY <1>2
    <3> QED BY <1>2, <3>1, <3>2, <3>3
  <2>3. RowsTo(g, s, P, k)
    BY <2>2 DEF RowsTo
  <2> QED BY <1>2, <2>3
<1>3. n \in S
  <2> HIDE DEF S
  <2> QED BY <1>1, <1>2, UpTo
<1> QED BY <1>3

LEMMA RowsAtIs ==
    ASSUME NEW s, NEW P, Len(s) \in Nat
    PROVE  \E f : RowsTo(f, s, P, Len(s)) /\ RowsAt(s, P) = f[Len(s)]
<1> DEFINE f == CHOOSE f : RowsTo(f, s, P, Len(s))
<1>1. RowsTo(f, s, P, Len(s))
  BY RowsToExists
<1>2. RowsAt(s, P) = f[Len(s)]
  BY DEF RowsAt, RowsTo
<1> QED BY <1>1, <1>2

LEMMA RowsToSteps ==
    ASSUME NEW f, NEW s, NEW P, NEW n \in Nat, RowsTo(f, s, P, n)
    PROVE  /\ f[0] = <<>>
           /\ \A m \in 1..n : f[m] = IF m \in P THEN Append(f[m - 1], s[m]) ELSE f[m - 1]
<1>1. \A m \in 0..n : f[m] = IF m = 0 THEN <<>>
                             ELSE IF m \in P THEN Append(f[m - 1], s[m]) ELSE f[m - 1]
  BY DEF RowsTo
<1>2. \A m \in 1..n : m \in 0..n /\ m # 0
  OBVIOUS
<1> QED BY <1>1, <1>2

\* What is in the rows of s at the positions P.
LatestAt(s, P, n, j, e) ==
    \E i \in 1..n : /\ i \in P /\ s[i] = e /\ e.job = j
                    /\ \A k \in 1..n : k \in P /\ k > i => s[k].job # j

PickedFrom(r, s, P, n) ==
    /\ r \in Seq(Entries)
    /\ \A e : Holds(r, e) <=> \E i \in 1..n : i \in P /\ s[i] = e
    /\ \A j, e : LatestIn(r, j, e) <=> LatestAt(s, P, n, j, e)

LEMMA PickedEmpty ==
    ASSUME NEW s, NEW P
    PROVE  PickedFrom(<<>>, s, P, 0)
BY Nothing DEF PickedFrom, LatestAt

LEMMA PickedMore ==
    ASSUME NEW s, NEW P, NEW n \in Nat, n # 0, NEW r, PickedFrom(r, s, P, n - 1), s[n] \in Entries
    PROVE  PickedFrom(IF n \in P THEN Append(r, s[n]) ELSE r, s, P, n)
<1> DEFINE N == 1..n
           M == 1..(n - 1)
<1>1. \A i : i \in N <=> i \in M \/ i = n
  OBVIOUS
<1>2. \A i \in M : n > i /\ ~(i > n)
  OBVIOUS
<1>3. n \notin M /\ ~(n > n)
  OBVIOUS
<1>a. /\ \A e : Holds(r, e) <=> \E i \in M : i \in P /\ s[i] = e
      /\ \A j, e : LatestIn(r, j, e) <=>
            \E i \in M : /\ i \in P /\ s[i] = e /\ e.job = j
                         /\ \A k \in M : k \in P /\ k > i => s[k].job # j
      /\ r \in Seq(Entries)
  BY DEF PickedFrom, LatestAt
<1>b. ASSUME NEW q, q \in Seq(Entries),
             \A e : Holds(q, e) <=> \E i \in N : i \in P /\ s[i] = e,
             \A j, e : LatestIn(q, j, e) <=>
               \E i \in N : /\ i \in P /\ s[i] = e /\ e.job = j
                            /\ \A k \in N : k \in P /\ k > i => s[k].job # j
      PROVE  PickedFrom(q, s, P, n)
  BY <1>b DEF PickedFrom, LatestAt
<1> HIDE DEF N, M
<1>4. CASE n \notin P
  <2>1. \A i \in P : i \in N <=> i \in M
    BY <1>1, <1>4
  <2>2. \A e : Holds(r, e) <=> \E i \in N : i \in P /\ s[i] = e
    BY <1>a, <2>1
  <2>3. \A j, e : LatestIn(r, j, e) <=>
               \E i \in N : /\ i \in P /\ s[i] = e /\ e.job = j
                            /\ \A k \in N : k \in P /\ k > i => s[k].job # j
    BY <1>a, <2>1
  <2> QED BY <1>4, <1>a, <1>b, <2>2, <2>3
<1>5. CASE n \in P
  <2> DEFINE q == Append(r, s[n])
             x == s[n]
  <2>1. q \in Seq(Entries) /\ Joins(q, r, <<x>>)
    BY <1>a, Appended
  <2>2. /\ \A f : Holds(<<x>>, f) <=> f = x
        /\ \A j : LoggedIn(<<x>>, j) <=> x.job = j
        /\ \A j, f : LatestIn(<<x>>, j, f) <=> f = x /\ x.job = j
    BY Singles
  <2> HIDE DEF q
  <2>3. ASSUME NEW e
        PROVE  Holds(q, e) <=> \E i \in N : i \in P /\ s[i] = e
    BY <1>1, <1>5, <1>a, <2>1, <2>2 DEF Joins
  <2>4. ASSUME NEW j, NEW e
        PROVE  LatestIn(q, j, e) <=>
               \E i \in N : /\ i \in P /\ s[i] = e /\ e.job = j
                            /\ \A k \in N : k \in P /\ k > i => s[k].job # j
    <3>1. LatestIn(q, j, e) <=> \/ e = x /\ x.job = j
                                \/ x.job # j /\ LatestIn(r, j, e)
      BY <2>1, <2>2 DEF Joins
    <3>2. CASE x.job = j
      <4>1. \A i \in N : \A k \in N : i # n => n \in N /\ n > i
        BY <1>1, <1>2
      <4>2. \A k \in N : ~(k > n)
        BY <1>1, <1>2, <1>3
      <4> QED BY <1>1, <1>5, <3>1, <3>2, <4>1, <4>2
    <3>3. CASE x.job # j
      <4>1. ASSUME NEW i \in M
            PROVE (\A k \in N : k \in P /\ k > i => s[k].job # j) <=>
                  (\A k \in M : k \in P /\ k > i => s[k].job # j)
        BY <1>1, <3>3
      <4>2. (\E i \in N : /\ i \in P /\ s[i] = e /\ e.job = j
                          /\ \A k \in N : k \in P /\ k > i => s[k].job # j)
            <=> (\E i \in M : /\ i \in P /\ s[i] = e /\ e.job = j
                          /\ \A k \in M : k \in P /\ k > i => s[k].job # j)
        BY <1>1, <3>3, <4>1
      <4> QED BY <1>a, <3>1, <3>3, <4>2
    <3> QED BY <3>2, <3>3
  <2>5. PickedFrom(q, s, P, n)
    BY <1>b, <2>1, <2>3, <2>4
  <2> QED BY <1>5, <2>5 DEF q
<1> QED BY <1>4, <1>5

LEMMA RowsAtPicked ==
    ASSUME NEW s \in Seq(Entries), NEW P
    PROVE  PickedFrom(RowsAt(s, P), s, P, Len(s))
<1> DEFINE n == Len(s)
<1>1. n \in Nat /\ \A i \in 1..n : s[i] \in Entries
  BY LenProperties
<1>2. PICK f : RowsTo(f, s, P, n) /\ RowsAt(s, P) = f[n]
  BY <1>1, RowsAtIs
<1> DEFINE S == {i \in 0..n : PickedFrom(f[i], s, P, i)}
<1> HIDE DEF n
<1>3. 0 \in S
  BY <1>1, <1>2, RowsToSteps, PickedEmpty
<1>4. ASSUME NEW i \in 0..n, i # 0, (i - 1) \in S PROVE i \in S
  <2>1. f[i] = IF i \in P THEN Append(f[i - 1], s[i]) ELSE f[i - 1]
    <3>1. \A m \in 1..n : f[m] = IF m \in P THEN Append(f[m - 1], s[m]) ELSE f[m - 1]
      BY <1>1, <1>2, RowsToSteps
    <3>2. i \in 1..n
      BY <1>4
    <3> QED BY <3>1, <3>2
  <2>2. PickedFrom(f[i - 1], s, P, i - 1) /\ s[i] \in Entries /\ i \in Nat
    BY <1>1, <1>4
  <2>3. PickedFrom(IF i \in P THEN Append(f[i - 1], s[i]) ELSE f[i - 1], s, P, i)
    BY <1>4, <2>2, PickedMore
  <2> QED BY <2>1, <2>3
<1>5. n \in S
  <2> HIDE DEF S
  <2> QED BY <1>1, <1>3, <1>4, UpTo
<1> QED BY <1>2, <1>5 DEF n

(***************************************************************************)
(* Deleting rows: of every job the oldest ones, or all.                    *)
(***************************************************************************)
\* u is s without some of its rows: of a job that still has some, the last
\* one is that of s.
Trimmed(u, s) ==
    /\ u \in Seq(Entries)
    /\ \A e : Holds(u, e) => Holds(s, e)
    /\ \A j, e : LoggedIn(u, j) => (LatestIn(u, j, e) <=> LatestIn(s, j, e))

OldestOut(s, P) ==
    \A i, k \in DOMAIN s : i \notin P /\ k \in P /\ s[i].job = s[k].job => i < k

LEMMA HoldsSays ==
    ASSUME NEW s, NEW j
    PROVE  /\ LoggedIn(s, j) <=> \E e : Holds(s, e) /\ e.job = j
           /\ CompletedIn(s, j) <=> \E e : Holds(s, e) /\ e.job = j /\ e.event = "completed"
           /\ HasTerminal(s, j) <=> \E e : Holds(s, e) /\ e.job = j /\ e.event \in Terminal
BY DEF Holds, LoggedIn, CompletedIn, HasTerminal

LEMMA TrimmedRows ==
    ASSUME NEW s \in Seq(Entries), NEW P, OldestOut(s, P)
    PROVE  /\ Trimmed(RowsAt(s, P), s)
           /\ \A j : LoggedIn(s, j) /\ ~LoggedIn(RowsAt(s, P), j) =>
                \E i \in DOMAIN s : i \notin P /\ s[i].job = j
<1> DEFINE u == RowsAt(s, P)
<1>1. DOMAIN s = 1..Len(s) /\ Len(s) \in Nat
  BY LenProperties
<1>2. PickedFrom(u, s, P, Len(s))
  BY RowsAtPicked
<1>3. /\ u \in Seq(Entries)
      /\ \A e : Holds(u, e) <=> \E i \in DOMAIN s : i \in P /\ s[i] = e
      /\ \A j, e : LatestIn(u, j, e) <=>
            \E i \in DOMAIN s : /\ i \in P /\ s[i] = e /\ e.job = j
                                /\ \A k \in DOMAIN s : k \in P /\ k > i => s[k].job # j
  BY <1>1, <1>2 DEF PickedFrom, LatestAt
<1> HIDE DEF u
<1>4. \A e : Holds(u, e) => Holds(s, e)
  BY <1>3 DEF Holds
<1>5. ASSUME NEW j
      PROVE  LoggedIn(u, j) <=> \E i \in DOMAIN s : i \in P /\ s[i].job = j
  <2>1. LoggedIn(u, j) <=> \E e : Holds(u, e) /\ e.job = j
    BY HoldsSays
  <2> QED BY <1>3, <2>1
<1>6. ASSUME NEW j, NEW e, LoggedIn(u, j)
      PROVE  LatestIn(u, j, e) <=> LatestIn(s, j, e)
  <2>1. PICK h \in DOMAIN s : h \in P /\ s[h].job = j
    BY <1>5, <1>6
  <2>2. \A i \in DOMAIN s : i \notin P /\ s[i].job = j => h > i
    BY <1>1, <2>1 DEF OldestOut
  <2>3. LatestIn(u, j, e) <=>
            \E i \in DOMAIN s : /\ i \in P /\ s[i] = e /\ e.job = j
                                /\ \A k \in DOMAIN s : k \in P /\ k > i => s[k].job # j
    BY <1>3
  <2>4. ASSUME NEW i \in DOMAIN s, i \in P, s[i].job = j, NEW k \in DOMAIN s, k > i, s[k].job = j
        PROVE  k \in P
    BY <1>1, <2>4 DEF OldestOut
  <2>5. ASSUME NEW i \in DOMAIN s, i \in P, s[i].job = j
        PROVE  (\A k \in DOMAIN s : k \in P /\ k > i => s[k].job # j)
               <=> (\A k \in DOMAIN s : k > i => s[k].job # j)
    BY <2>4, <2>5
  <2>6. ASSUME NEW i \in DOMAIN s, s[i].job = j, \A k \in DOMAIN s : k > i => s[k].job # j
        PROVE  i \in P
    BY <2>1, <2>2, <2>6
  <2>7. LatestIn(u, j, e) => LatestIn(s, j, e)
    BY <2>3, <2>5 DEF LatestIn
  <2>8. LatestIn(s, j, e) => LatestIn(u, j, e)
    BY <2>3, <2>6 DEF LatestIn
  <2> QED BY <2>7, <2>8
<1> QED BY <1>3, <1>4, <1>5, <1>6 DEF Trimmed, LoggedIn, u

(***************************************************************************)
(* The rows of one job: RowsOf finds the latest entry.                     *)
(***************************************************************************)
LEMMA RowsOfJob ==
    ASSUME NEW s \in Seq(Entries), NEW j
    PROVE  /\ RowsOf(s, j) = <<>> <=> ~LoggedIn(s, j)
           /\ \A e : LatestIn(s, j, e) => RowsOf(s, j) # <<>> /\ Last(RowsOf(s, j)) = e
<1> DEFINE P == {i \in DOMAIN s : s[i].job = j}
           u == RowsAt(s, P)
<1>1. DOMAIN s = 1..Len(s) /\ RowsOf(s, j) = u
  BY LenProperties DEF RowsOf
<1>2. PickedFrom(u, s, P, Len(s))
  BY RowsAtPicked
<1>3. /\ u \in Seq(Entries)
      /\ \A e : Holds(u, e) <=> \E i \in DOMAIN s : s[i].job = j /\ s[i] = e
      /\ \A e : LatestIn(u, j, e) <=>
            \E i \in DOMAIN s : /\ s[i].job = j /\ s[i] = e /\ e.job = j
                                /\ \A k \in DOMAIN s : s[k].job = j /\ k > i => s[k].job # j
  BY <1>1, <1>2 DEF PickedFrom, LatestAt
<1> HIDE DEF P, u
<1>4. Len(u) \in Nat /\ DOMAIN u = 1..Len(u)
  BY <1>3, LenProperties
<1>5. u = <<>> <=> Len(u) = 0
  BY <1>3, EmptySeq, LenProperties
<1>6. LoggedIn(s, j) <=> \E e : Holds(u, e)
  BY <1>3 DEF LoggedIn
<1>7. (\E e : Holds(u, e)) <=> Len(u) # 0
  <2>1. Len(u) # 0 => 1 \in DOMAIN u
    BY <1>4
  <2>2. Len(u) = 0 => DOMAIN u = {}
    BY <1>4
  <2> QED BY <2>1, <2>2 DEF Holds
<1>8. ASSUME NEW e, LatestIn(s, j, e) PROVE u # <<>> /\ u[Len(u)] = e
  <2>1. LatestIn(u, j, e)
    BY <1>3, <1>8 DEF LatestIn
  <2>2. PICK i \in DOMAIN u : u[i] = e /\ e.job = j /\ \A k \in DOMAIN u : k > i => u[k].job # j
    BY <2>1 DEF LatestIn
  <2>3. \A k \in DOMAIN u : u[k].job = j
    BY <1>3 DEF Holds
  <2>4. Len(u) \in DOMAIN u /\ i \in Nat /\ i <= Len(u)
    BY <1>4, <2>2
  <2>5. ~(Len(u) > i)
    BY <2>2, <2>3, <2>4
  <2>6. i = Len(u)
    BY <1>4, <2>4, <2>5
  <2> QED BY <1>5, <2>2, <2>4, <2>6
<1> QED BY <1>1, <1>5, <1>6, <1>7, <1>8 DEF Last

-----------------------------------------------------------------------------
(***************************************************************************)
(* The log as a whole, oldest entry first, and what its steps do to it.    *)
(***************************************************************************)
WalShape(w) ==
    /\ w \in [buffer : Seq(Entries), inflight : Seq(Entries), flushing : BOOLEAN,
              timer : BOOLEAN, attempt : Nat]
    /\ ~w.flushing => w.inflight = <<>>

Whole(t, w) == t \o w.inflight \o w.buffer

\* The buffer stays, or becomes the batch when there is none.
Moves(w, v) ==
    \/ v.buffer = w.buffer /\ v.inflight = w.inflight
    \/ v.buffer = <<>> /\ v.inflight = w.buffer /\ w.inflight = <<>>

\* So it does when it has taken the entry e.
Takes(w, e, v) ==
    \/ v.buffer = Append(w.buffer, e) /\ v.inflight = w.inflight
    \/ v.buffer = <<>> /\ v.inflight = Append(w.buffer, e) /\ w.inflight = <<>>

LEMMA FlushedSays ==
    ASSUME NEW w, WalShape(w)
    PROVE  WalShape(Flushed(w)) /\ Moves(w, Flushed(w))
<1>1. CASE w.buffer = <<>> \/ w.flushing
  <2>1. Flushed(w) = [w EXCEPT !.timer = FALSE]
    BY <1>1 DEF Flushed
  <2> QED BY <2>1 DEF WalShape, Moves
<1>2. CASE ~(w.buffer = <<>> \/ w.flushing)
  <2>1. Flushed(w) = [buffer |-> <<>>, inflight |-> w.buffer, flushing |-> TRUE,
                      timer |-> FALSE, attempt |-> 1]
    BY <1>2 DEF Flushed
  <2> QED BY <1>2, <2>1 DEF WalShape, Moves
<1> QED BY <1>1, <1>2

LEMMA LoggedSays ==
    ASSUME NEW w, WalShape(w), NEW e \in Entries
    PROVE  /\ WalShape(Logged(w, e))
           /\ Rejects(w) => Logged(w, e) = w
           /\ ~Rejects(w) => Takes(w, e, Logged(w, e))
<1>1. CASE Rejects(w)
  BY <1>1 DEF Rejects, Logged
<1>2. CASE ~Rejects(w)
  <2> DEFINE p == Pushed(w, e)
  <2>1. Append(w.buffer, e) \in Seq(Entries)
    BY DEF WalShape
  <2>2. WalShape(p) /\ p.buffer = Append(w.buffer, e) /\ p.inflight = w.inflight
    BY <2>1 DEF WalShape, Pushed
  <2> HIDE DEF p
  <2>3. Logged(w, e) = IF Len(p.buffer) >= MaxBufferSize THEN Flushed(p) ELSE p
    BY <1>2 DEF Logged, Rejects, p
  <2>4. WalShape(Flushed(p)) /\ Moves(p, Flushed(p))
    BY <2>2, FlushedSays
  <2>5. CASE Logged(w, e) = p
    BY <1>2, <2>2, <2>5 DEF Takes
  <2>6. CASE Logged(w, e) = Flushed(p)
    BY <1>2, <2>2, <2>4, <2>6 DEF Takes, Moves
  <2> QED BY <2>3, <2>5, <2>6
<1> QED BY <1>1, <1>2

\* The whole log, by its three parts.
LEMMA WholeSays ==
    ASSUME NEW t \in Seq(Entries), NEW w, WalShape(w)
    PROVE  /\ w.inflight \in Seq(Entries) /\ w.buffer \in Seq(Entries)
           /\ t \o w.inflight \in Seq(Entries) /\ Whole(t, w) \in Seq(Entries)
           /\ Joins(t \o w.inflight, t, w.inflight)
           /\ Joins(Whole(t, w), t \o w.inflight, w.buffer)
<1>1. w.inflight \in Seq(Entries) /\ w.buffer \in Seq(Entries)
  BY DEF WalShape
<1> QED BY <1>1, Concatenated DEF Whole

LEMMA MovesWhole ==
    ASSUME NEW t \in Seq(Entries), NEW w, NEW v, WalShape(w), Moves(w, v)
    PROVE  Whole(t, v) = Whole(t, w)
<1>1. w.inflight \in Seq(Entries) /\ w.buffer \in Seq(Entries) /\ t \o w.buffer \in Seq(Entries)
  BY ConcatProperties DEF WalShape
<1>2. t \o <<>> = t /\ (t \o w.buffer) \o <<>> = t \o w.buffer
  BY <1>1, ConcatEmptySeq
<1> QED BY <1>2 DEF Whole, Moves

LEMMA TakesWhole ==
    ASSUME NEW t \in Seq(Entries), NEW w, NEW e \in Entries, NEW v, WalShape(w), Takes(w, e, v)
    PROVE  Whole(t, v) = Append(Whole(t, w), e)
<1> DEFINE p == w.inflight
           q == w.buffer
           x == <<e>>
<1>1. p \in Seq(Entries) /\ q \in Seq(Entries) /\ x \in Seq(Entries)
  BY DEF WalShape
<1>2. t \o p \in Seq(Entries) /\ t \o q \in Seq(Entries) /\ (t \o p) \o q \in Seq(Entries)
  BY <1>1, ConcatProperties
<1>3. Append(q, e) = q \o x /\ Append((t \o p) \o q, e) = ((t \o p) \o q) \o x
  BY <1>1, <1>2, AppendIsConcat
<1>4. ((t \o p) \o q) \o x = (t \o p) \o (q \o x)
  <2>1. \A a, b, c \in Seq(Entries) : (a \o b) \o c = a \o (b \o c)
    BY ConcatAssociative
  <2> DEFINE a == t \o p
  <2>2. a \in Seq(Entries)
    BY <1>2
  <2>3. (a \o q) \o x = a \o (q \o x)
    <3> HIDE DEF a, p, q, x
    <3> QED BY ONLY <1>1, <2>1, <2>2
  <2> QED BY <2>3
<1>5. q \o x \in Seq(Entries) /\ t \o (q \o x) \in Seq(Entries)
  BY <1>1, ConcatProperties
<1>6. t \o <<>> = t /\ (t \o (q \o x)) \o <<>> = t \o (q \o x)
  BY <1>5, ConcatEmptySeq
<1>7. CASE v.buffer = Append(q, e) /\ v.inflight = p
  BY <1>3, <1>4, <1>7 DEF Whole
<1>8. CASE v.buffer = <<>> /\ v.inflight = Append(q, e) /\ p = <<>>
  BY <1>3, <1>4, <1>6, <1>8 DEF Whole
<1> QED BY <1>7, <1>8 DEF Takes

-----------------------------------------------------------------------------
(***************************************************************************)
(* Completions.  F are the jobs with a completion in the table at some     *)
(* time.  Once one is logged, an end is the last word on the job: of the   *)
(* buffer; of the batch, when it has left the buffer; and of the table,    *)
(* when it has reached that.                                               *)
(***************************************************************************)
Ended(s, j) == \A e : LatestIn(s, j, e) => e.event \in Terminal

OutOfBuffer(w, F, j) == j \in F \/ CompletedIn(w.inflight, j)

WroteDone(w, F, j) == OutOfBuffer(w, F, j) \/ CompletedIn(w.buffer, j)

SealedAt(t, w, F, j) ==
    /\ CompletedIn(t, j) => j \in F
    /\ j \in F => Ended(t, j)
    /\ OutOfBuffer(w, F, j) => Ended(w.inflight, j)
    /\ WroteDone(w, F, j) => Ended(w.buffer, j)

\* A completion is an end.
LEMMA NotLogged ==
    ASSUME NEW s, NEW j, ~LoggedIn(s, j)
    PROVE  ~CompletedIn(s, j) /\ ~HasTerminal(s, j) /\ \A e : ~LatestIn(s, j, e)
BY DEF LoggedIn, CompletedIn, HasTerminal, LatestIn

LEMMA JoinedEnds ==
    ASSUME NEW u, NEW s, NEW t, NEW j, Joins(u, s, t), Ended(t, j),
           LoggedIn(t, j) \/ Ended(s, j)
    PROVE  Ended(u, j)
BY DEF Joins, Ended

LEMMA MovesSealed ==
    ASSUME NEW t, NEW w, NEW v, NEW F, NEW j, WalShape(w), Moves(w, v), SealedAt(t, w, F, j)
    PROVE  SealedAt(t, v, F, j) /\ (WroteDone(v, F, j) => WroteDone(w, F, j))
<1>1. ~CompletedIn(<<>>, j) /\ Ended(<<>>, j)
  BY Nothing DEF Ended
<1> QED BY <1>1 DEF Moves, SealedAt, OutOfBuffer, WroteDone

LEMMA TakesDone ==
    ASSUME NEW w, NEW e \in Entries, NEW v, NEW F, NEW j, WalShape(w), Takes(w, e, v),
           WroteDone(v, F, j)
    PROVE  WroteDone(w, F, j) \/ (e.job = j /\ e.event = "completed")
<1>1. ~CompletedIn(<<>>, j)
  BY Nothing
<1>2. Joins(Append(w.buffer, e), w.buffer, <<e>>)
  BY Appended DEF WalShape
<1>3. CompletedIn(<<e>>, j) <=> e.job = j /\ e.event = "completed"
  BY Singles
<1>4. CompletedIn(Append(w.buffer, e), j) <=>
        CompletedIn(w.buffer, j) \/ (e.job = j /\ e.event = "completed")
  BY <1>2, <1>3 DEF Joins
<1> QED BY <1>1, <1>4 DEF Takes, WroteDone, OutOfBuffer

LEMMA TakesSealed ==
    ASSUME NEW t, NEW w, NEW e \in Entries, NEW v, NEW F, NEW j, WalShape(w), Takes(w, e, v),
           SealedAt(t, w, F, j), e.job = j => e.event \in Terminal
    PROVE  SealedAt(t, v, F, j)
<1> DEFINE a == Append(w.buffer, e)
<1>1. ~CompletedIn(<<>>, j) /\ Ended(<<>>, j)
  BY Nothing DEF Ended
<1>2. Joins(a, w.buffer, <<e>>)
  BY Appended DEF WalShape
<1>3. /\ CompletedIn(<<e>>, j) <=> e.job = j /\ e.event = "completed"
      /\ LoggedIn(<<e>>, j) <=> e.job = j
      /\ \A f : LatestIn(<<e>>, j, f) <=> f = e /\ e.job = j
  BY Singles
<1>4. ASSUME e.job = j PROVE Ended(a, j)
  <2>1. Ended(<<e>>, j) /\ LoggedIn(<<e>>, j)
    BY <1>3, <1>4 DEF Ended
  <2> QED BY <1>2, <2>1, JoinedEnds
<1>5. ASSUME e.job # j, Ended(w.buffer, j) PROVE Ended(a, j)
  <2>1. Ended(<<e>>, j)
    BY <1>3, <1>5 DEF Ended
  <2> QED BY <1>2, <1>5, <2>1, JoinedEnds
<1>6. e.job # j => (CompletedIn(a, j) <=> CompletedIn(w.buffer, j))
  BY <1>2, <1>3 DEF Joins
<1> HIDE DEF a
<1>7. CASE v.buffer = a /\ v.inflight = w.inflight
  BY <1>4, <1>5, <1>6, <1>7 DEF SealedAt, WroteDone, OutOfBuffer
<1>8. CASE v.buffer = <<>> /\ v.inflight = a /\ w.inflight = <<>>
  BY <1>1, <1>4, <1>5, <1>6, <1>8 DEF SealedAt, WroteDone, OutOfBuffer
<1> QED BY <1>7, <1>8 DEF Takes, a

-----------------------------------------------------------------------------
(***************************************************************************)
(* An INSERT ends or is repeated, or the process ends: u is the table      *)
(* afterwards, v the log's memory.                                         *)
(***************************************************************************)
InsertOver(t, w, u, v) ==
    /\ u = t \/ u = t \o w.inflight
    /\ \/ v.inflight = w.inflight /\ v.buffer = w.buffer
       \/ v.inflight = <<>> /\ v.buffer = w.inflight \o w.buffer
       \/ v.inflight = <<>> /\ v.buffer = w.buffer /\ u = t \o w.inflight

MemoryLost(t, w, u, v) ==
    /\ u = t \/ u = t \o w.inflight
    /\ v.inflight = <<>> /\ v.buffer = <<>>

Settles(t, w, u, v) == InsertOver(t, w, u, v) \/ MemoryLost(t, w, u, v)

\* The finished jobs when the table has become u.
Learns(F, u, G) == \A j \in Jobs : j \in G <=> j \in F \/ CompletedIn(u, j)

LEMMA SettlesSealed ==
    ASSUME NEW t \in Seq(Entries), NEW w, NEW u, NEW v, NEW F, NEW G, NEW j \in Jobs,
           WalShape(w), Settles(t, w, u, v), Learns(F, u, G), SealedAt(t, w, F, j)
    PROVE  SealedAt(u, v, G, j) /\ (WroteDone(v, G, j) => WroteDone(w, F, j))
<1> DEFINE p == w.inflight
           q == w.buffer
<1>1. ~CompletedIn(<<>>, j) /\ Ended(<<>>, j)
  BY Nothing DEF Ended
<1>2. p \in Seq(Entries) /\ q \in Seq(Entries)
  BY DEF WalShape
<1>3. Joins(t \o p, t, p) /\ Joins(p \o q, p, q)
  BY <1>2, Concatenated
<1>4. /\ CompletedIn(t, j) => j \in F
      /\ j \in F => Ended(t, j)
      /\ j \in F \/ CompletedIn(p, j) => Ended(p, j)
      /\ j \in F \/ CompletedIn(p, j) \/ CompletedIn(q, j) => Ended(q, j)
  BY DEF SealedAt, OutOfBuffer, WroteDone
<1>5. ~LoggedIn(p, j) => ~CompletedIn(p, j)
  BY NotLogged
<1>6. ~LoggedIn(q, j) => ~CompletedIn(q, j)
  BY NotLogged
<1> HIDE DEF p, q
<1>7. /\ CompletedIn(t \o p, j) <=> CompletedIn(t, j) \/ CompletedIn(p, j)
      /\ CompletedIn(p \o q, j) <=> CompletedIn(p, j) \/ CompletedIn(q, j)
  BY <1>3 DEF Joins
<1>8. j \in F \/ CompletedIn(p, j) => Ended(t \o p, j)
  <2> SUFFICES ASSUME j \in F \/ CompletedIn(p, j) PROVE Ended(t \o p, j)
    OBVIOUS
  <2>1. Ended(p, j) /\ (LoggedIn(p, j) \/ Ended(t, j))
    BY <1>4, <1>5
  <2> QED BY <1>3, <2>1, JoinedEnds
<1>9. j \in F \/ CompletedIn(p, j) \/ CompletedIn(q, j) => Ended(p \o q, j)
  <2> SUFFICES ASSUME j \in F \/ CompletedIn(p, j) \/ CompletedIn(q, j) PROVE Ended(p \o q, j)
    OBVIOUS
  <2>1. Ended(q, j) /\ (LoggedIn(q, j) \/ Ended(p, j))
    BY <1>4, <1>6
  <2> QED BY <1>3, <2>1, JoinedEnds
<1>10. /\ j \in G <=> j \in F \/ CompletedIn(u, j)
       /\ u = t \/ u = t \o p
       /\ \/ v.inflight = p /\ v.buffer = q
          \/ v.inflight = <<>> /\ v.buffer = p \o q
          \/ v.inflight = <<>> /\ v.buffer = q /\ u = t \o p
          \/ v.inflight = <<>> /\ v.buffer = <<>>
  BY DEF Learns, Settles, InsertOver, MemoryLost, p, q
<1>11. /\ j \in F => j \in G
       /\ CompletedIn(u, j) => j \in G
       /\ j \in G => j \in F \/ CompletedIn(p, j)
       /\ j \in G => Ended(u, j)
  BY <1>4, <1>7, <1>8, <1>10
<1>12. /\ (j \in G \/ CompletedIn(v.inflight, j)) => Ended(v.inflight, j)
       /\ (j \in G \/ CompletedIn(v.inflight, j) \/ CompletedIn(v.buffer, j)) =>
             /\ Ended(v.buffer, j)
             /\ j \in F \/ CompletedIn(p, j) \/ CompletedIn(q, j)
  BY <1>1, <1>4, <1>7, <1>9, <1>10, <1>11
<1> QED BY <1>11, <1>12 DEF SealedAt, OutOfBuffer, WroteDone, p, q

\* Such a step adds no entry, and while the memory is kept none is lost.
LEMMA SettlesKeeps ==
    ASSUME NEW t \in Seq(Entries), NEW w, NEW u, NEW v,
           WalShape(w), WalShape(v), Settles(t, w, u, v)
    PROVE  /\ u \in Seq(Entries)
           /\ \A e : Holds(Whole(u, v), e) => Holds(Whole(t, w), e)
           /\ \A j : LoggedIn(Whole(u, v), j) => LoggedIn(Whole(t, w), j)
           /\ \A j : HasTerminal(Whole(u, v), j) => HasTerminal(Whole(t, w), j)
           /\ InsertOver(t, w, u, v) =>
                /\ \A j : LoggedIn(Whole(u, v), j) <=> LoggedIn(Whole(t, w), j)
                /\ \A j, e : LatestIn(Whole(u, v), j, e) <=> LatestIn(Whole(t, w), j, e)
<1> DEFINE p == w.inflight
           q == w.buffer
           a == v.inflight
           b == v.buffer
           x == Whole(t, w)
           y == Whole(u, v)
           tp == t \o p
           pq == p \o q
           ua == u \o a
<1>1. /\ p \in Seq(Entries) /\ q \in Seq(Entries) /\ tp \in Seq(Entries)
      /\ Joins(tp, t, p) /\ Joins(x, tp, q)
  BY WholeSays
<1>2. u \in Seq(Entries)
  BY <1>1 DEF Settles, InsertOver, MemoryLost
<1>3. Joins(ua, u, a) /\ Joins(y, ua, b)
  BY <1>2, WholeSays
<1>4. Joins(pq, p, q)
  BY <1>1, Concatenated
<1>5. /\ u = t \/ u = tp
      /\ \/ a = p /\ b = q
         \/ a = <<>> /\ b = pq
         \/ a = <<>> /\ b = q /\ u = tp
         \/ a = <<>> /\ b = <<>>
  BY DEF Settles, InsertOver, MemoryLost
<1>6. InsertOver(t, w, u, v) =>
         \/ a = p /\ b = q
         \/ a = <<>> /\ b = pq
         \/ a = <<>> /\ b = q /\ u = tp
  BY DEF InsertOver
<1> HIDE DEF p, q, a, b, x, y, tp, pq, ua
<1>7. ASSUME NEW e PROVE Holds(y, e) => Holds(x, e)
  BY <1>1, <1>3, <1>4, <1>5, Nothing DEF Joins
<1>8. ASSUME NEW j PROVE LoggedIn(y, j) => LoggedIn(x, j)
  BY <1>1, <1>3, <1>4, <1>5, Nothing DEF Joins
<1>9. ASSUME NEW j PROVE HasTerminal(y, j) => HasTerminal(x, j)
  BY <1>1, <1>3, <1>4, <1>5, Nothing DEF Joins
<1>10. ASSUME NEW j, InsertOver(t, w, u, v) PROVE LoggedIn(y, j) <=> LoggedIn(x, j)
  BY <1>1, <1>3, <1>4, <1>5, <1>6, <1>10, Nothing DEF Joins
<1>11. ASSUME NEW j, NEW e, InsertOver(t, w, u, v) PROVE LatestIn(y, j, e) <=> LatestIn(x, j, e)
  <2>1. /\ LatestIn(tp, j, e) <=> LatestIn(p, j, e) \/ (~LoggedIn(p, j) /\ LatestIn(t, j, e))
        /\ LatestIn(x, j, e) <=> LatestIn(q, j, e) \/ (~LoggedIn(q, j) /\ LatestIn(tp, j, e))
        /\ LatestIn(pq, j, e) <=> LatestIn(q, j, e) \/ (~LoggedIn(q, j) /\ LatestIn(p, j, e))
        /\ LatestIn(ua, j, e) <=> LatestIn(a, j, e) \/ (~LoggedIn(a, j) /\ LatestIn(u, j, e))
        /\ LatestIn(y, j, e) <=> LatestIn(b, j, e) \/ (~LoggedIn(b, j) /\ LatestIn(ua, j, e))
        /\ LoggedIn(pq, j) <=> LoggedIn(p, j) \/ LoggedIn(q, j)
    BY <1>1, <1>3, <1>4 DEF Joins
  <2>2. ~LoggedIn(<<>>, j) /\ ~LatestIn(<<>>, j, e)
    BY Nothing
  <2> QED BY <1>5, <1>6, <1>11, <2>1, <2>2
<1> QED BY <1>2, <1>7, <1>8, <1>9, <1>10, <1>11 DEF x, y

-----------------------------------------------------------------------------
(***************************************************************************)
(* A request handler logs the entries es: f[i] is the log after i of them. *)
(***************************************************************************)
LoggingOf(f, w, es, n) ==
    f = [i \in 0..n |-> IF i = 0 THEN w ELSE Logged(f[i - 1], es[i])]

LEMMA LoggingExists ==
    ASSUME NEW w, NEW es, NEW n \in Nat
    PROVE  \E f : LoggingOf(f, w, es, n)
<1> DEFINE S == {k \in Nat : \E f : LoggingOf(f, w, es, k)}
<1>1. 0 \in S
  <2> DEFINE f == [i \in 0..0 |-> w]
  <2>1. f = [i \in 0..0 |-> IF i = 0 THEN w ELSE Logged(f[i - 1], es[i])]
    OBVIOUS
  <2> QED BY <2>1 DEF LoggingOf
<1>2. ASSUME NEW k \in 0..n, k # 0, (k - 1) \in S PROVE k \in S
  <2>1. PICK f : LoggingOf(f, w, es, k - 1)
    BY <1>2
  <2> DEFINE g == [i \in 0..k |-> IF i < k THEN f[i] ELSE Logged(f[k - 1], es[k])]
  <2>2. \A i \in 0..k : g[i] = IF i = 0 THEN w ELSE Logged(g[i - 1], es[i])
    <3>1. \A i \in 0..(k - 1) : f[i] = IF i = 0 THEN w ELSE Logged(f[i - 1], es[i])
      BY <2>1 DEF LoggingOf
    <3>2. k \in Nat /\ k # 0
      BY <1>2
    <3>3. ASSUME NEW i \in 0..k, i # k
          PROVE  i \in 0..(k - 1) /\ i < k /\ (i # 0 => i - 1 < k /\ i - 1 \in 0..k)
      BY ONLY <3>2, <3>3
    <3>4. k \in 0..k /\ k - 1 \in 0..k /\ k - 1 < k /\ ~(k < k)
      BY <3>2
    <3> QED BY <3>1, <3>2, <3>3, <3>4
  <2>3. LoggingOf(g, w, es, k)
    BY <2>2 DEF LoggingOf
  <2> QED BY <1>2, <2>3
<1>3. n \in S
  <2> HIDE DEF S
  <2> QED BY <1>1, <1>2, UpTo
<1> QED BY <1>3

\* LogAll logs one entry after the other.
LEMMA LogAllSteps ==
    ASSUME NEW es, Len(es) \in Nat, DOMAIN es = 1..Len(es), LogAll(es)
    PROVE  \E f : /\ f[0] = wal
                  /\ wal' = f[Len(es)]
                  /\ \A i \in 1..Len(es) : f[i] = Logged(f[i - 1], es[i])
                  /\ \A i \in 1..Len(es) : i \in AcceptedOf(es) <=> ~Rejects(f[i - 1])
<1> DEFINE n == Len(es)
           f == CHOOSE f : LoggingOf(f, wal, es, n)
<1>1. LoggingOf(f, wal, es, n)
  BY LoggingExists
<1>2. Logging(es) = f
  BY DEF Logging, LoggingOf
<1> HIDE DEF f, n
<1>3. \A i \in 0..n : f[i] = IF i = 0 THEN wal ELSE Logged(f[i - 1], es[i])
  BY <1>1 DEF LoggingOf
<1>4. n \in Nat /\ DOMAIN es = 1..n /\ Len(es) = n
  BY DEF n
<1>5. f[0] = wal /\ \A i \in 1..n : f[i] = Logged(f[i - 1], es[i])
  <2>1. 0 \in 0..n /\ \A i \in 1..n : i \in 0..n /\ i # 0
    BY <1>4
  <2> QED BY <1>3, <2>1
<1>6. wal' = f[n]
  BY <1>2, <1>4 DEF LogAll
<1>7. \A i \in 1..n : i \in AcceptedOf(es) <=> ~Rejects(f[i - 1])
  BY <1>2, <1>4 DEF AcceptedOf
<1> QED BY <1>4, <1>5, <1>6, <1>7

\* What the log v has of the job j when the first i entries of es have been
\* logged, from w.
Grows(t, w, v, F, es, i, j) ==
    /\ WalShape(v)
    /\ \A e : Holds(Whole(t, v), e) => Holds(Whole(t, w), e) \/ \E m \in 1..i : es[m] = e
    /\ (\A m \in 1..i : es[m].job # j) =>
         /\ LoggedIn(Whole(t, v), j) <=> LoggedIn(Whole(t, w), j)
         /\ \A e : LatestIn(Whole(t, v), j, e) <=> LatestIn(Whole(t, w), j, e)
    /\ WroteDone(v, F, j) =>
         WroteDone(w, F, j) \/ \E m \in 1..i : es[m].job = j /\ es[m].event = "completed"
    /\ SealedAt(t, w, F, j) /\ (\A m \in 1..i : es[m].job = j => es[m].event \in Terminal) =>
         SealedAt(t, v, F, j)

LEMMA GrowsMore ==
    ASSUME NEW t \in Seq(Entries), NEW w, NEW v, NEW F, NEW es, NEW n \in Nat, n # 0, NEW j,
           Grows(t, w, v, F, es, n - 1, j), es[n] \in Entries
    PROVE  Grows(t, w, Logged(v, es[n]), F, es, n, j)
<1> DEFINE e == es[n]
           x == Logged(v, e)
           M == 1..(n - 1)
           N == 1..n
<1>a. \A i : i \in N <=> i \in M \/ i = n
  OBVIOUS
<1> HIDE DEF M, N
<1>b. /\ WalShape(v)
      /\ \A f : Holds(Whole(t, v), f) => Holds(Whole(t, w), f) \/ \E m \in M : es[m] = f
      /\ (\A m \in M : es[m].job # j) =>
           /\ LoggedIn(Whole(t, v), j) <=> LoggedIn(Whole(t, w), j)
           /\ \A f : LatestIn(Whole(t, v), j, f) <=> LatestIn(Whole(t, w), j, f)
      /\ WroteDone(v, F, j) =>
           WroteDone(w, F, j) \/ \E m \in M : es[m].job = j /\ es[m].event = "completed"
      /\ SealedAt(t, w, F, j) /\ (\A m \in M : es[m].job = j => es[m].event \in Terminal) =>
           SealedAt(t, v, F, j)
  BY DEF Grows, M
<1>1. WalShape(x) /\ (Rejects(v) => x = v) /\ (~Rejects(v) => Takes(v, e, x))
  BY <1>b, LoggedSays
<1> HIDE DEF x
<1>2. CASE x = v
  <2>1. \A m \in M : m \in N
    BY <1>a
  <2>2. Grows(t, w, v, F, es, n, j)
    BY <1>b, <2>1 DEF Grows, N
  <2> QED BY <1>2, <2>2 DEF x
<1>3. CASE Takes(v, e, x)
  <2>1. Whole(t, x) = Append(Whole(t, v), e) /\ Whole(t, v) \in Seq(Entries)
    BY <1>b, <1>3, TakesWhole, WholeSays
  <2>2. Joins(Whole(t, x), Whole(t, v), <<e>>)
    BY <2>1, Appended
  <2>3. /\ \A f : Holds(<<e>>, f) <=> f = e
        /\ LoggedIn(<<e>>, j) <=> e.job = j
        /\ \A f : LatestIn(<<e>>, j, f) <=> f = e /\ e.job = j
    BY Singles
  <2>4. ASSUME NEW f, Holds(Whole(t, x), f)
        PROVE  Holds(Whole(t, w), f) \/ \E m \in N : es[m] = f
    <3>1. Holds(Whole(t, v), f) \/ f = e
      BY <2>2, <2>3, <2>4 DEF Joins
    <3> QED BY <1>a, <1>b, <3>1
  <2>5. ASSUME \A m \in N : es[m].job # j
        PROVE  /\ LoggedIn(Whole(t, x), j) <=> LoggedIn(Whole(t, w), j)
               /\ \A f : LatestIn(Whole(t, x), j, f) <=> LatestIn(Whole(t, w), j, f)
    <3>1. e.job # j /\ \A m \in M : es[m].job # j
      BY <1>a, <2>5
    <3>2. /\ LoggedIn(Whole(t, x), j) <=> LoggedIn(Whole(t, v), j)
          /\ \A f : LatestIn(Whole(t, x), j, f) <=> LatestIn(Whole(t, v), j, f)
      BY <2>2, <2>3, <3>1 DEF Joins
    <3> QED BY <1>b, <3>1, <3>2
  <2>6. ASSUME WroteDone(x, F, j)
        PROVE  WroteDone(w, F, j) \/ \E m \in N : es[m].job = j /\ es[m].event = "completed"
    <3>1. WroteDone(v, F, j) \/ (e.job = j /\ e.event = "completed")
      BY <1>b, <1>3, <2>6, TakesDone
    <3> QED BY <1>a, <1>b, <3>1
  <2>7. ASSUME SealedAt(t, w, F, j), \A m \in N : es[m].job = j => es[m].event \in Terminal
        PROVE  SealedAt(t, x, F, j)
    <3>1. SealedAt(t, v, F, j) /\ (e.job = j => e.event \in Terminal)
      BY <1>a, <1>b, <2>7
    <3> QED BY <1>b, <1>3, <3>1, TakesSealed
  <2>8. Grows(t, w, x, F, es, n, j)
    BY <1>1, <2>4, <2>5, <2>6, <2>7 DEF Grows, N
  <2> QED BY <2>8 DEF x
<1> QED BY <1>1, <1>2, <1>3

\* The latest entry of a job all of whose entries are accepted is one of them.
NewestOf(t, v, es, i, j) ==
    (\E m \in 1..i : es[m].job = j) =>
        \E m \in 1..i : es[m].job = j /\ LatestIn(Whole(t, v), j, es[m])

LEMMA NewestMore ==
    ASSUME NEW t \in Seq(Entries), NEW v, WalShape(v), NEW es, NEW n \in Nat, n # 0, NEW j,
           NewestOf(t, v, es, n - 1, j), es[n] \in Entries,
           es[n].job = j => ~Rejects(v)
    PROVE  NewestOf(t, Logged(v, es[n]), es, n, j)
<1> DEFINE e == es[n]
           x == Logged(v, e)
           M == 1..(n - 1)
           N == 1..n
<1>a. \A i : i \in N <=> i \in M \/ i = n
  OBVIOUS
<1> HIDE DEF M, N
<1>b. (\E m \in M : es[m].job = j) =>
        \E m \in M : es[m].job = j /\ LatestIn(Whole(t, v), j, es[m])
  BY DEF NewestOf, M
<1>1. WalShape(x) /\ (Rejects(v) => x = v) /\ (~Rejects(v) => Takes(v, e, x))
  BY LoggedSays
<1> HIDE DEF x
<1>2. CASE x = v /\ e.job # j
  <2>1. NewestOf(t, v, es, n, j)
    BY <1>a, <1>b, <1>2 DEF NewestOf, N
  <2> QED BY <1>2, <2>1 DEF x
<1>3. CASE Takes(v, e, x)
  <2>1. Whole(t, x) = Append(Whole(t, v), e) /\ Whole(t, v) \in Seq(Entries)
    BY <1>3, TakesWhole, WholeSays
  <2>2. Joins(Whole(t, x), Whole(t, v), <<e>>)
    BY <2>1, Appended
  <2>3. /\ LoggedIn(<<e>>, j) <=> e.job = j
        /\ \A f : LatestIn(<<e>>, j, f) <=> f = e /\ e.job = j
    BY Singles
  <2>4. CASE e.job = j
    <3>1. LatestIn(Whole(t, x), j, e)
      BY <2>2, <2>3, <2>4 DEF Joins
    <3>2. NewestOf(t, x, es, n, j)
      BY <1>a, <2>4, <3>1 DEF NewestOf, N
    <3> QED BY <3>2 DEF x
  <2>5. CASE e.job # j
    <3>1. \A f : LatestIn(Whole(t, x), j, f) <=> LatestIn(Whole(t, v), j, f)
      BY <2>2, <2>3, <2>5 DEF Joins
    <3>2. NewestOf(t, x, es, n, j)
      BY <1>a, <1>b, <2>5, <3>1 DEF NewestOf, N
    <3> QED BY <3>2 DEF x
  <2> QED BY <2>4, <2>5
<1> QED BY <1>1, <1>2, <1>3

\* What LogAll(es) does to the log, for each job.
LEMMA LogAllSays ==
    ASSUME NEW es \in Seq(Entries), LogAll(es), WalShape(wal), table \in Seq(Entries),
           NEW F, NEW j
    PROVE  /\ Grows(table, wal, wal', F, es, Len(es), j)
           /\ (\A i \in DOMAIN es : es[i].job = j => i \in AcceptedOf(es)) =>
                NewestOf(table, wal', es, Len(es), j)
<1> DEFINE n == Len(es)
<1>1. n \in Nat /\ DOMAIN es = 1..n /\ \A i \in 1..n : es[i] \in Entries
  BY LenProperties
<1>2. PICK f : /\ f[0] = wal
               /\ wal' = f[n]
               /\ \A i \in 1..n : f[i] = Logged(f[i - 1], es[i])
               /\ \A i \in 1..n : i \in AcceptedOf(es) <=> ~Rejects(f[i - 1])
  BY <1>1, LogAllSteps
<1> HIDE DEF n
<1> DEFINE S == {i \in 0..n : Grows(table, wal, f[i], F, es, i, j)}
<1>3. 0 \in S
  <2>1. Grows(table, wal, wal, F, es, 0, j)
    BY DEF Grows
  <2> QED BY <1>1, <1>2, <2>1
<1>4. ASSUME NEW i \in 0..n, i # 0, (i - 1) \in S PROVE i \in S
  <2>1. i \in Nat /\ i \in 1..n /\ es[i] \in Entries /\ f[i] = Logged(f[i - 1], es[i])
    BY <1>1, <1>2, <1>4
  <2>2. Grows(table, wal, Logged(f[i - 1], es[i]), F, es, i, j)
    BY <1>4, <2>1, GrowsMore
  <2> QED BY <2>1, <2>2
<1>5. n \in S
  <2> HIDE DEF S
  <2> QED BY <1>1, <1>3, <1>4, UpTo
<1>6. ASSUME \A i \in DOMAIN es : es[i].job = j => i \in AcceptedOf(es)
      PROVE  NewestOf(table, f[n], es, n, j)
  <2> DEFINE R == {i \in 0..n : NewestOf(table, f[i], es, i, j) /\ WalShape(f[i])}
  <2>1. 0 \in R
    BY <1>1, <1>2 DEF NewestOf
  <2>2. ASSUME NEW i \in 0..n, i # 0, (i - 1) \in R PROVE i \in R
    <3>1. i \in Nat /\ i \in 1..n /\ es[i] \in Entries /\ f[i] = Logged(f[i - 1], es[i])
      BY <1>1, <1>2, <2>2
    <3>2. es[i].job = j => ~Rejects(f[i - 1])
      BY <1>1, <1>2, <1>6, <3>1
    <3>3. NewestOf(table, Logged(f[i - 1], es[i]), es, i, j)
      BY <2>2, <3>1, <3>2, NewestMore
    <3>4. WalShape(Logged(f[i - 1], es[i]))
      BY <2>2, <3>1, LoggedSays
    <3> QED BY <3>1, <3>3, <3>4
  <2>3. n \in R
    <3> HIDE DEF R
    <3> QED BY <1>1, <2>1, <2>2, UpTo
  <2> QED BY <2>3
<1> QED BY <1>2, <1>5, <1>6 DEF n

-----------------------------------------------------------------------------
(***************************************************************************)
(* The inductive invariant.                                                *)
(***************************************************************************)
LogShape ==
    /\ WalShape(wal) /\ table \in Seq(Entries)
    /\ added \subseteq Jobs
    /\ restarts \in Nat
    /\ \A j \in Jobs :
         /\ OneRoute(j)
         /\ Created(j) \/ LoggedIn(Whole(table, wal), j) \/ j \in finished
         => j \in added

(* What an entry says of its job: its event fits the status, and the job   *)
(* can go on from there after n restarts.                                  *)
Sound(e, n) ==
    /\ e.data.status # "none"
    /\ e.event = "completed" <=> e.data.status = "completed"
    /\ e.event \in Terminal <=> e.data.status \in Terminal
    /\ e.data.due = (e.data.status # "delayed")
    /\ OneRoute(e.job) =>
         /\ e.data.attempts <= MostAttempts(e.job) + n
         /\ e.data.status \in {"waiting", "delayed"} => e.data.attempts < MostAttempts(e.job) + n

EntriesSound == \A e : Holds(Whole(table, wal), e) => Sound(e, restarts)

\* A job that one route at most has re-queued lives as in JobQueue, but for
\* the attempts that the restarts are worth.
LivesOn == \A j \in Jobs : OneRoute(j) => OneLife(j, restarts)

\* Once a completion is logged the job is completed, or forgotten.
Over(j) == job[j].status \in {"none", "completed"}

Sealed(j) ==
    /\ SealedAt(table, wal, finished, j)
    /\ WroteDone(wal, finished, j) => Over(j)

CompletionsSealed == \A j \in Jobs : OneRoute(j) => Sealed(j)

NeverRequeued(j) == \A r \in Routes : requeues[j][r] = 0

\* A job that was never re-queued has no end in the log while it is unfinished.
EndsAreEnds ==
    \A j \in Jobs : NeverRequeued(j) /\ HasTerminal(Whole(table, wal), j) =>
        job[j].status \in {"none", "completed", "failed"}

\* The job's state agrees with the snapshot in the entry e.
Agrees(j, e) ==
    /\ e.data.attempts = job[j].attempts
    /\ \/ e.data.status = job[j].status
       \/ e.data.status \in {"delayed", "active"} /\ job[j].status = "waiting"

CaughtUp ==
    \A j \in Jobs \ behind : Created(j) /\ OneRoute(j) =>
        \/ ~LoggedIn(Whole(table, wal), j) /\ job[j].status \in Terminal
        \/ \E e : LatestIn(Whole(table, wal), j, e) /\ Agrees(j, e)

LogInv ==
    /\ Shape /\ LogShape
    /\ EntriesSound /\ LivesOn /\ CompletionsSealed /\ EndsAreEnds /\ CaughtUp

-----------------------------------------------------------------------------
LEMMA NeverIsOne ==
    ASSUME NEW j
    PROVE  NeverRequeued(j) => OneRoute(j)
BY DEF NeverRequeued, OneRoute, Routes

\* No queue step takes a re-queue back.
LEMMA NeverStays ==
    ASSUME Shape, [NextQueue]_queueVars, NEW k \in Jobs, NeverRequeued(k)'
    PROVE  NeverRequeued(k)
<1>a. Facts
  BY ShapeFacts
<1>1. ASSUME NEW j \in Jobs, RetryJob(j) PROVE NeverRequeued(k)
  BY <1>a, <1>1 DEF RetryJob, Facts, Routes, NeverRequeued
<1>2. ASSUME NEW q \in Queues, RetryDLQ(q) PROVE NeverRequeued(k)
  BY <1>a, <1>2 DEF RetryDLQ, Facts, Routes, NeverRequeued
<1>3. ASSUME requeues' = requeues PROVE NeverRequeued(k)
  BY <1>3 DEF NeverRequeued
<1> QED
  BY <1>1, <1>2, <1>3
  DEF NextQueue, Add, Claim, Complete, Fail, FailBody, Heartbeat, HeartbeatAges,
      RunAtPasses, ClearCompleted, PromoteDelayed, ReaperFires, ReaperVisits, queueVars

\* The queue's own steps keep its part of the invariant.
LEMMA QueuePart ==
    ASSUME Shape, LivesOn, restarts \in Nat, [NextQueue]_queueVars, restarts' = restarts
    PROVE  Shape' /\ LivesOn'
<1>1. Shape'
  BY ShapeStep
<1>2. ASSUME NEW j \in Jobs, OneRoute(j)' PROVE OneLife(j, restarts)'
  <2>1. OneRoute(j)
    BY <1>2, RoutesStay
  <2>2. \A n \in Nat : OneLife(j, n) => OneLife(j, n)'
    <3> SUFFICES ASSUME NEW n \in Nat, OneLife(j, n) PROVE OneLife(j, n)'
      OBVIOUS
    <3> QED BY <1>2, LifeStep
  <2>3. \A n \in Nat : n = restarts => (OneLife(j, n) <=> OneLife(j, restarts))
    BY DEF OneLife, Paced
  <2>4. \A n \in Nat : n = restarts' => (OneLife(j, n)' <=> OneLife(j, restarts)')
    BY DEF OneLife, Paced
  <2> QED BY <2>1, <2>2, <2>3, <2>4 DEF LivesOn
<1> QED BY <1>1, <1>2 DEF LivesOn

-----------------------------------------------------------------------------
(***************************************************************************)
(* A queue step that logs.                                                 *)
(***************************************************************************)
(* The entries es tell what the step does: each is of a job that it puts   *)
(* in the status of the snapshot and that was not over; the others stay.   *)
Tells(es) ==
    /\ es \in Seq(Entries)
    /\ \A i \in DOMAIN es :
         /\ es[i].data.attempts = job'[es[i].job].attempts
         /\ es[i].data.status = job'[es[i].job].status
         /\ es[i].data.due = (es[i].data.status # "delayed")
         /\ es[i].data.status # "none"
         /\ es[i].event = "completed" <=> es[i].data.status = "completed"
         /\ es[i].event \in Terminal <=> es[i].data.status \in Terminal
    /\ \A j \in Jobs :
         IF \E i \in DOMAIN es : es[i].job = j
         THEN /\ OneRoute(j)' => j \in added' /\ (j \notin added \/ ~Over(j))
              /\ NeverRequeued(j)' =>
                   j \notin added \/ job[j].status \notin {"none", "completed", "failed"}
         ELSE job'[j] = job[j]
    /\ added \subseteq added' /\ added' \subseteq Jobs

LEMMA LogStep ==
    ASSUME LogInv, [NextQueue]_queueVars, NEW es, Logs(es), Tells(es)
    PROVE  LogInv'
<1>a. /\ Shape /\ LogShape
      /\ EntriesSound /\ LivesOn /\ CompletionsSealed /\ EndsAreEnds /\ CaughtUp
  BY DEF LogInv
<1>b. WalShape(wal) /\ table \in Seq(Entries) /\ restarts \in Nat
  BY <1>a DEF LogShape
<1>c. /\ LogAll(es) /\ table' = table /\ finished' = finished /\ restarts' = restarts
      /\ behind' = (behind \ {es[i].job : i \in AcceptedOf(es)})
                     \cup {es[i].job : i \in DOMAIN es \ AcceptedOf(es)}
  BY DEF Logs
<1>d. es \in Seq(Entries) /\ added \subseteq added' /\ added' \subseteq Jobs
  BY DEF Tells
<1>e. \A j \in Jobs : job'[j] = job[j] \/ \E i \in DOMAIN es : es[i].job = j
  BY DEF Tells
<1>f. DOMAIN es = 1..Len(es)
  BY <1>d, LenProperties
<1>1. Shape' /\ LivesOn'
  BY <1>a, <1>b, <1>c, QueuePart
<1>2. \A j : Grows(table, wal, wal', finished, es, Len(es), j)
  BY <1>b, <1>c, <1>d, LogAllSays
<1>3. WalShape(wal')
  BY <1>2 DEF Grows
<1>4. Whole(table, wal) \in Seq(Entries)
  BY <1>b, WholeSays
<1> DEFINE x == Whole(table, wal)
           y == Whole(table, wal')
<1>5. \A e : Holds(y, e) => Holds(x, e) \/ \E i \in DOMAIN es : es[i] = e
  BY <1>2, <1>f DEF Grows
<1>6. Whole(table, wal)' = y
  BY <1>c DEF Whole
<1> HIDE DEF x, y
<1>7. LogShape'
  <2>1. ASSUME NEW j \in Jobs, OneRoute(j)', Created(j)' \/ LoggedIn(y, j) \/ j \in finished
        PROVE  j \in added'
    <3>1. CASE \E i \in DOMAIN es : es[i].job = j
      BY <2>1, <3>1 DEF Tells
    <3>2. CASE ~\E i \in DOMAIN es : es[i].job = j
      <4>1. Created(j)' => Created(j)
        BY <1>e, <3>2 DEF Created
      <4>2. LoggedIn(y, j) => LoggedIn(x, j)
        BY <1>5, <3>2, HoldsSays
      <4>3. OneRoute(j)
        BY <1>a, <2>1, RoutesStay
      <4> QED BY <1>a, <1>d, <2>1, <4>1, <4>2, <4>3 DEF LogShape, x
    <3> QED BY <3>1, <3>2
  <2>2. table' \in Seq(Entries) /\ restarts' \in Nat /\ finished' = finished /\ added' \subseteq Jobs
    BY <1>b, <1>c, <1>d
  <2> QED BY <1>3, <1>6, <2>1, <2>2 DEF LogShape
<1>8. EntriesSound'
  <2> SUFFICES ASSUME NEW e, Holds(y, e) PROVE Sound(e, restarts)'
    BY <1>6 DEF EntriesSound
  <2>1. CASE Holds(x, e)
    <3>1. Sound(e, restarts)
      BY <1>a, <2>1 DEF EntriesSound, x
    <3>2. e.job \in Jobs
      <4>1. e \in Entries
        BY <1>4, <2>1, LenProperties DEF Holds, x
      <4> QED BY <4>1 DEF Entries
    <3>3. OneRoute(e.job)' => OneRoute(e.job)
      BY <1>a, <3>2, RoutesStay
    <3> QED BY <1>c, <3>1, <3>3 DEF Sound
  <2>2. CASE \E i \in DOMAIN es : es[i] = e
    <3>1. PICK i \in DOMAIN es : es[i] = e
      BY <2>2
    <3>2. e.job \in Jobs
      <4>1. e \in Entries
        BY <1>d, <3>1, LenProperties
      <4> QED BY <4>1 DEF Entries
    <3>3. OneRoute(e.job)' => Paced(e.job, restarts)'
      BY <1>1, <3>2 DEF LivesOn, OneLife
    <3> QED BY <3>1, <3>3 DEF Tells, Sound, Paced
  <2> QED BY <1>5, <2>1, <2>2
<1>9. CompletionsSealed'
  <2> SUFFICES ASSUME NEW j \in Jobs, OneRoute(j)'
               PROVE  /\ SealedAt(table, wal', finished, j)
                      /\ WroteDone(wal', finished, j) => Over(j)'
    BY <1>c DEF CompletionsSealed, Sealed
  <2>1. /\ SealedAt(table, wal, finished, j)
        /\ WroteDone(wal, finished, j) => Over(j)
    BY <1>a, RoutesStay DEF CompletionsSealed, Sealed
  <2>2. /\ WroteDone(wal', finished, j) => \/ WroteDone(wal, finished, j)
                                           \/ \E i \in DOMAIN es : es[i].job = j /\ es[i].event = "completed"
        /\ (\A i \in DOMAIN es : es[i].job = j => es[i].event \in Terminal) =>
              SealedAt(table, wal', finished, j)
    BY <1>2, <1>f, <2>1 DEF Grows
  <2>3. CASE ~\E i \in DOMAIN es : es[i].job = j
    <3>1. job'[j] = job[j]
      BY <1>e, <2>3
    <3> QED BY <2>1, <2>2, <2>3, <3>1 DEF Over
  <2>4. CASE \E i \in DOMAIN es : es[i].job = j
    <3>1. ~WroteDone(wal, finished, j)
      <4>1. j \notin added \/ ~Over(j)
        BY <2>4 DEF Tells
      <4>2. ASSUME j \notin added PROVE ~WroteDone(wal, finished, j)
        <5>a. OneRoute(j)
          BY <1>a, RoutesStay
        <5>1. ~LoggedIn(x, j) /\ j \notin finished
          BY <1>a, <4>2, <5>a DEF LogShape, x
        <5>2. ~LoggedIn(wal.inflight, j) /\ ~LoggedIn(wal.buffer, j)
          BY <1>b, <5>1, WholeSays DEF Joins, x
        <5> QED BY <5>1, <5>2, NotLogged DEF WroteDone, OutOfBuffer
      <4> QED BY <2>1, <4>1, <4>2
    <3>2. CASE job'[j].status = "completed"
      <4>1. \A i \in DOMAIN es : es[i].job = j => es[i].event \in Terminal
        BY <3>2 DEF Tells, Terminal
      <4> QED BY <2>2, <3>2, <4>1 DEF Over
    <3>3. CASE job'[j].status # "completed"
      <4>1. \A i \in DOMAIN es : es[i].job = j => es[i].event # "completed"
        BY <3>3 DEF Tells
      <4>2. ~WroteDone(wal', finished, j)
        BY <2>2, <3>1, <4>1
      <4> QED BY <2>1, <3>1, <4>2 DEF SealedAt, WroteDone, OutOfBuffer
    <3> QED BY <3>2, <3>3
  <2> QED BY <2>3, <2>4
<1>10. EndsAreEnds'
  <2> SUFFICES ASSUME NEW j \in Jobs, NeverRequeued(j)', HasTerminal(y, j)
               PROVE  job'[j].status \in {"none", "completed", "failed"}
    BY <1>6 DEF EndsAreEnds
  <2>1. NeverRequeued(j)
    BY <1>a, NeverStays
  <2>2. PICK e : Holds(y, e) /\ e.job = j /\ e.event \in Terminal
    BY HoldsSays
  <2>3. CASE Holds(x, e)
    <3>1. HasTerminal(x, j) /\ LoggedIn(x, j)
      BY <2>2, <2>3, HoldsSays
    <3>2. job[j].status \in {"none", "completed", "failed"} /\ j \in added
      BY <1>a, <2>1, <3>1, NeverIsOne DEF EndsAreEnds, LogShape, x
    <3>3. ~\E i \in DOMAIN es : es[i].job = j
      BY <3>2 DEF Tells
    <3> QED BY <1>e, <3>2, <3>3
  <2>4. CASE \E i \in DOMAIN es : es[i] = e
    BY <2>2, <2>4 DEF Tells, Terminal
  <2> QED BY <1>5, <2>2, <2>3, <2>4
<1>11. CaughtUp'
  <2> SUFFICES ASSUME NEW j \in Jobs, j \notin behind', Created(j)', OneRoute(j)'
               PROVE  \/ ~LoggedIn(y, j) /\ job'[j].status \in Terminal
                      \/ \E e : LatestIn(y, j, e) /\ Agrees(j, e)'
    BY <1>6 DEF CaughtUp
  <2>1. CASE \E i \in DOMAIN es : es[i].job = j
    <3>1. \A i \in DOMAIN es : es[i].job = j => i \in AcceptedOf(es)
      BY <1>c
    <3>2. NewestOf(table, wal', es, Len(es), j)
      BY <1>b, <1>c, <1>d, <3>1, LogAllSays
    <3>3. PICK m \in DOMAIN es : es[m].job = j /\ LatestIn(y, j, es[m])
      BY <1>f, <2>1, <3>2 DEF NewestOf, y
    <3>4. Agrees(j, es[m])'
      BY <3>3 DEF Tells, Agrees
    <3> QED BY <3>3, <3>4
  <2>2. CASE ~\E i \in DOMAIN es : es[i].job = j
    <3>a. AcceptedOf(es) \subseteq DOMAIN es
      BY DEF AcceptedOf
    <3>b. job'[j] = job[j]
      BY <1>e, <2>2
    <3>1. job'[j] = job[j] /\ j \notin behind
      BY <1>c, <2>2, <3>a, <3>b
    <3>2. /\ LoggedIn(y, j) <=> LoggedIn(x, j)
          /\ \A e : LatestIn(y, j, e) <=> LatestIn(x, j, e)
      BY <1>2, <1>f, <2>2 DEF Grows, x, y
    <3>3. Created(j) /\ OneRoute(j)
      BY <1>a, <3>1, RoutesStay DEF Created
    <3> QED BY <1>a, <3>1, <3>2, <3>3 DEF CaughtUp, Agrees, x
  <2> QED BY <2>1, <2>2
<1> QED BY <1>1, <1>7, <1>8, <1>9, <1>10, <1>11 DEF LogInv

-----------------------------------------------------------------------------
(***************************************************************************)
(* The queue's logged actions.                                             *)
(***************************************************************************)
LEMMA SnapshotSays ==
    ASSUME NEW j \in Jobs, job'[j] \in JobFields
    PROVE  /\ Snapshot(j) \in JobFields
           /\ Snapshot(j).attempts = job'[j].attempts
           /\ Snapshot(j).status = job'[j].status
           /\ Snapshot(j).due = (Snapshot(j).status # "delayed")
<1>1. (job'[j].status # "delayed") \in BOOLEAN
  OBVIOUS
<1> QED BY <1>1 DEF Snapshot, JobFields, Heartbeats

\* A step that changes one job and logs its event.
LEMMA TellsOne ==
    ASSUME NEW j \in Jobs, NEW event \in Events,
           job' \in [Jobs -> JobFields],
           \A k \in Jobs : k # j => job'[k] = job[k],
           job'[j].status # "none",
           event = "completed" <=> job'[j].status = "completed",
           event \in Terminal <=> job'[j].status \in Terminal,
           OneRoute(j)' => j \in added' /\ (j \notin added \/ ~Over(j)),
           NeverRequeued(j)' =>
             j \notin added \/ job[j].status \notin {"none", "completed", "failed"},
           added \subseteq added', added' \subseteq Jobs
    PROVE  Tells(<<Entry(j, event, Snapshot(j))>>)
<1> DEFINE e == Entry(j, event, Snapshot(j))
           es == <<e>>
<1>1. /\ Snapshot(j) \in JobFields
      /\ Snapshot(j).attempts = job'[j].attempts
      /\ Snapshot(j).status = job'[j].status
      /\ Snapshot(j).due = (Snapshot(j).status # "delayed")
  BY SnapshotSays
<1>2. e.job = j /\ e.event = event /\ e.data = Snapshot(j) /\ e \in Entries
  BY <1>1 DEF Entry, Entries
<1> HIDE DEF e
<1>3. es \in Seq(Entries) /\ DOMAIN es = {1} /\ es[1] = e
  BY <1>2
<1> HIDE DEF es
<1>4. Tells(es)
  BY <1>1, <1>2, <1>3 DEF Tells
<1> QED BY <1>4 DEF es, e

LEMMA LoggedEvent ==
    ASSUME LogInv, [NextQueue]_queueVars, NEW j \in Jobs, NEW event, LogsEvent(j, event),
           Tells(<<Entry(j, event, Snapshot(j))>>)
    PROVE  LogInv'
<1> DEFINE es == <<Entry(j, event, Snapshot(j))>>
<1>1. Logs(es) /\ Tells(es)
  BY DEF LogsEvent
<1> HIDE DEF es
<1> QED BY <1>1, LogStep

\* Where a job is that a step finds in one of the collections.
LEMMA FoundSays ==
    ASSUME LogInv, NEW j \in Jobs, OneRoute(j)
    PROVE  /\ heap[j] > 0 => job[j].status = "waiting"
           /\ ActiveSlots(j) # {} => job[j].status = "active"
           /\ requeues[j]["failed"] = 0 /\ dlq[j] > 0 => job[j].status = "failed"
           /\ requeues[j]["dlq"] = 0 /\ ~Absent(failed[QueueOf[j]], j) => job[j].status = "failed"
           /\ job[j].status # "none" => j \in added
<1>1. OneLife(j, restarts)
  BY DEF LogInv, LivesOn
<1>2. Placed(j) /\ Retryable(j)
  BY <1>1 DEF OneLife
<1>3. dlq[j] \in Nat /\ heap[j] \in Nat
  BY DEF LogInv, Shape, QueueTypeOK
<1> QED BY <1>2, <1>3 DEF Placed, Retryable, LogInv, LogShape, Created

LEMMA AddJobKeeps ==
    ASSUME LogInv, NEW j \in Jobs, AddJob(j)
    PROVE  LogInv'
<1>a. Facts /\ Shape /\ added \subseteq Jobs
  BY ShapeFacts DEF LogInv, LogShape
<1>1. PICK d \in BOOLEAN : Add(j, d)
  BY DEF AddJob
<1>2. [NextQueue]_queueVars
  BY <1>1 DEF NextQueue
<1>3. job' \in [Jobs -> JobFields]
  BY <1>a, <1>2, ShapeStep DEF Shape, QueueTypeOK
<1>4. (job'[j].status = "waiting" \/ job'[j].status = "delayed")
      /\ \A k \in Jobs : k # j => job'[k] = job[k]
  <2>1. PICK t : job' = [job EXCEPT ![j] =
                   [NewJob EXCEPT !.status = IF d THEN "delayed" ELSE "waiting",
                                  !.due = ~d, !.born = t]]
    BY <1>1 DEF Add
  <2>2. job'[j] = [NewJob EXCEPT !.status = IF d THEN "delayed" ELSE "waiting",
                                 !.due = ~d, !.born = t]
    BY <1>a, <2>1 DEF Facts
  <2>3. job'[j].status = IF d THEN "delayed" ELSE "waiting"
    BY <2>2 DEF NewJob
  <2> QED BY <1>a, <2>1, <2>3 DEF Facts
<1>5. added' = added \cup {j} /\ j \notin added /\ LogsEvent(j, "enqueued")
  BY DEF AddJob
<1>6. Tells(<<Entry(j, "enqueued", Snapshot(j))>>)
  <2>1. "enqueued" \in Events /\ "enqueued" # "completed" /\ "enqueued" \notin Terminal
    BY DEF Events, Terminal
  <2>2. job'[j].status \notin Terminal /\ job'[j].status # "none" /\ job'[j].status # "completed"
    BY <1>4 DEF Terminal
  <2> QED BY <1>a, <1>3, <1>4, <1>5, <2>1, <2>2, TellsOne
<1> QED BY <1>2, <1>5, <1>6, LoggedEvent

LEMMA ClaimJobKeeps ==
    ASSUME LogInv, NEW j \in Jobs, ClaimJob(j)
    PROVE  LogInv'
<1>a. Facts /\ Shape /\ added \subseteq Jobs
  BY ShapeFacts DEF LogInv, LogShape
<1>1. Claim(j) /\ LogsEvent(j, "claimed") /\ added' = added
  BY DEF ClaimJob
<1>2. [NextQueue]_queueVars
  BY <1>1 DEF NextQueue
<1>3. job' \in [Jobs -> JobFields]
  BY <1>a, <1>2, ShapeStep DEF Shape, QueueTypeOK
<1>4. job'[j].status = "active" /\ \A k \in Jobs : k # j => job'[k] = job[k]
  BY <1>a, <1>1 DEF Claim, Facts, JobFields
<1>5. OneRoute(j)' => job[j].status = "waiting" /\ j \in added
  BY <1>a, <1>1, <1>2, RoutesStay, FoundSays DEF Claim, Poppable
<1>6. NeverRequeued(j)' => OneRoute(j)'
  BY DEF NeverRequeued, OneRoute, Routes
<1>7. Tells(<<Entry(j, "claimed", Snapshot(j))>>)
  <2>1. "claimed" \in Events /\ "claimed" # "completed" /\ "claimed" \notin Terminal
    BY DEF Events, Terminal
  <2>2. job'[j].status \notin Terminal /\ job'[j].status # "none" /\ job'[j].status # "completed"
    BY <1>4 DEF Terminal
  <2> QED BY <1>a, <1>1, <1>3, <1>4, <1>5, <1>6, <2>1, <2>2, TellsOne DEF Over
<1> QED BY <1>1, <1>2, <1>7, LoggedEvent

LEMMA CompleteJobKeeps ==
    ASSUME LogInv, NEW j \in Jobs, CompleteJob(j)
    PROVE  LogInv'
<1>a. Facts /\ Shape /\ added \subseteq Jobs /\ NoJob \notin Jobs
  BY ShapeFacts DEF LogInv, LogShape
<1>1. Complete(j) /\ LogsEvent(j, "completed") /\ added' = added
  BY DEF CompleteJob
<1>2. [NextQueue]_queueVars
  BY <1>1 DEF NextQueue
<1>3. job' \in [Jobs -> JobFields]
  BY <1>a, <1>2, ShapeStep DEF Shape, QueueTypeOK
<1>4. job'[j].status = "completed" /\ \A k \in Jobs : k # j => job'[k] = job[k]
  BY <1>a, <1>1 DEF Complete, Facts, JobFields
<1>5. OneRoute(j)' => job[j].status = "active" /\ j \in added
  <2>1. ActiveSlots(j) # {}
    BY <1>a, <1>1, RemovalOf DEF Complete
  <2> QED BY <1>a, <1>2, <2>1, RoutesStay, FoundSays
<1>6. NeverRequeued(j)' => OneRoute(j)'
  BY DEF NeverRequeued, OneRoute, Routes
<1>7. Tells(<<Entry(j, "completed", Snapshot(j))>>)
  <2>1. "completed" \in Events /\ "completed" \in Terminal
    BY DEF Events, Terminal
  <2> QED BY <1>a, <1>1, <1>3, <1>4, <1>5, <1>6, <2>1, TellsOne DEF Over
<1> QED BY <1>1, <1>2, <1>7, LoggedEvent

LEMMA FailKeeps ==
    ASSUME LogInv, NEW j \in Jobs, FailBody(j), [NextQueue]_queueVars,
           LogsEvent(j, FailEvent(j)), added' = added
    PROVE  LogInv'
<1>a. Facts /\ Shape /\ added \subseteq Jobs /\ NoJob \notin Jobs
  BY ShapeFacts DEF LogInv, LogShape
<1>1. job' \in [Jobs -> JobFields]
  BY <1>a, ShapeStep DEF Shape, QueueTypeOK
<1>2. /\ job'[j].status = "delayed" \/ job'[j].status = "failed"
      /\ \A k \in Jobs : k # j => job'[k] = job[k]
  <2>1. CASE RetryLater(j)
    BY <1>a, <2>1 DEF RetryLater, Facts, JobFields
  <2>2. CASE Exhaust(j)
    BY <1>a, <2>2 DEF Exhaust, Facts, JobFields
  <2> QED BY <2>1, <2>2 DEF FailBody
<1>3. OneRoute(j)' => job[j].status = "active" /\ j \in added
  <2>1. ActiveSlots(j) # {}
    BY <1>a, RemovalOf DEF FailBody
  <2> QED BY <1>a, <2>1, RoutesStay, FoundSays
<1>4. NeverRequeued(j)' => OneRoute(j)'
  BY DEF NeverRequeued, OneRoute, Routes
<1>5. Tells(<<Entry(j, FailEvent(j), Snapshot(j))>>)
  <2>1. /\ FailEvent(j) \in Events /\ FailEvent(j) # "completed"
        /\ FailEvent(j) \in Terminal <=> job'[j].status \in Terminal
        /\ job'[j].status # "none" /\ job'[j].status # "completed"
    BY <1>2 DEF FailEvent, Events, Terminal
  <2> HIDE DEF FailEvent
  <2> QED BY <1>a, <1>1, <1>2, <1>3, <1>4, <2>1, TellsOne DEF Over
<1> QED BY <1>5, LoggedEvent

LEMMA RetryFailedKeeps ==
    ASSUME LogInv, NEW j \in Jobs, RetryFailed(j)
    PROVE  LogInv'
<1>a. Facts /\ Shape /\ added \subseteq Jobs /\ QueueOf \in [Jobs -> Queues]
  BY ShapeFacts DEF LogInv, LogShape
<1>1. RetryJob(j) /\ LogsEvent(j, "retry") /\ added' = added
  BY DEF RetryFailed
<1>2. [NextQueue]_queueVars
  BY <1>1 DEF NextQueue
<1>3. job' \in [Jobs -> JobFields]
  BY <1>a, <1>2, ShapeStep DEF Shape, QueueTypeOK
<1>4. job'[j].status = "waiting" /\ \A k \in Jobs : k # j => job'[k] = job[k]
  BY <1>a, <1>1 DEF RetryJob, Requeued, Facts, JobFields
<1>5. requeues'[j]["failed"] > 0 /\ requeues'[j]["dlq"] = requeues[j]["dlq"]
  BY <1>a, <1>1 DEF RetryJob, Facts, Routes
<1>6. ~Absent(failed[QueueOf[j]], j)
  <2>1. failed[QueueOf[j]] \in Seq(Jobs)
    BY <1>a DEF Facts
  <2> QED BY <1>1, <2>1, LenProperties DEF RetryJob, Absent
<1>7. OneRoute(j)' => job[j].status = "failed" /\ j \in added
  <2> SUFFICES ASSUME OneRoute(j)' PROVE job[j].status = "failed" /\ j \in added
    OBVIOUS
  <2>1. OneRoute(j) /\ requeues[j]["dlq"] = 0
    BY <1>a, <1>2, <1>5, RoutesStay DEF OneRoute
  <2> QED BY <1>6, <2>1, FoundSays
<1>8. ~NeverRequeued(j)'
  BY <1>5 DEF NeverRequeued, Routes
<1>9. Tells(<<Entry(j, "retry", Snapshot(j))>>)
  <2>1. "retry" \in Events /\ "retry" # "completed" /\ "retry" \notin Terminal
    BY DEF Events, Terminal
  <2>2. job'[j].status \notin Terminal /\ job'[j].status # "none" /\ job'[j].status # "completed"
    BY <1>4 DEF Terminal
  <2> QED BY <1>a, <1>1, <1>3, <1>4, <1>7, <1>8, <2>1, <2>2, TellsOne DEF Over
<1> QED BY <1>1, <1>2, <1>9, LoggedEvent

LEMMA FailJobKeeps ==
    ASSUME LogInv, NEW j \in Jobs, FailJob(j)
    PROVE  LogInv'
<1>1. Fail(j) /\ LogsEvent(j, FailEvent(j)) /\ added' = added
  BY DEF FailJob
<1>2. [NextQueue]_queueVars /\ FailBody(j)
  BY <1>1 DEF NextQueue, Fail
<1> QED BY <1>1, <1>2, FailKeeps

LEMMA ReapJobKeeps ==
    ASSUME LogInv, NEW j \in Jobs, ReapJob(j)
    PROVE  LogInv'
<1>1. ReaperVisits /\ LogsEvent(j, FailEvent(j)) /\ added' = added
  BY DEF ReapJob
<1>2. FailBody(j)
  <2>1. PICK s \in reaping : FailBody(active[s]) /\ reaping' = reaping \ {s}
    BY <1>1 DEF ReaperVisits
  <2>2. PICK r \in reaping \ reaping' : active[r] = j
    BY DEF ReapJob
  <2>3. r = s
    BY <2>1, <2>2
  <2> QED BY <2>1, <2>2, <2>3
<1>3. [NextQueue]_queueVars
  BY <1>1 DEF NextQueue
<1> QED BY <1>1, <1>2, <1>3, FailKeeps

\* retryDLQ() logs an entry of every job whose references it takes.
LEMMA ReferencesFinite ==
    ASSUME Shape, NEW q
    PROVE  IsFiniteSet(DeadReferences(q))
<1> DEFINE D == DeadLetters(q)
           f == [j \in D |-> {j} \X (1..dlq[j])]
           T == {{j} \X (1..dlq[j]) : j \in D}
<1>1. D \subseteq Jobs /\ IsFiniteSet(Jobs)
  BY JobQueueAssumption DEF DeadLetters
<1>2. IsFiniteSet(D)
  BY <1>1, FS_Subset
<1> HIDE DEF D
<1>3. f \in Surjection(D, T)
  BY DEF Surjection
<1>4. IsFiniteSet(T)
  <2> HIDE DEF f, T
  <2> QED BY <1>2, <1>3, FS_Surjection
<1>5. \A j \in D : IsFiniteSet({j} \X (1..dlq[j]))
  <2> SUFFICES ASSUME NEW j \in D PROVE IsFiniteSet({j} \X (1..dlq[j]))
    OBVIOUS
  <2>1. dlq[j] \in Nat
    BY <1>1 DEF Shape, QueueTypeOK
  <2>2. IsFiniteSet(1..dlq[j])
    BY <2>1, FS_Interval
  <2>3. IsFiniteSet({j})
    BY FS_Singleton
  <2> QED BY <2>2, <2>3, FS_Product
<1>6. \A t \in T : IsFiniteSet(t)
  BY <1>5
<1>7. IsFiniteSet(UNION T)
  <2> HIDE DEF T
  <2> QED BY <1>4, <1>6, FS_UNION
<1> QED BY <1>7 DEF DeadReferences, D

LEMMA RefsSay ==
    ASSUME Shape, NEW q, NEW refs, refs \in SetToSeqs(DeadReferences(q))
    PROVE  /\ DOMAIN refs = 1..Len(refs) /\ Len(refs) \in Nat
           /\ \A i \in DOMAIN refs : refs[i][1] \in DeadLetters(q)
           /\ \A j \in DeadLetters(q) : \E i \in DOMAIN refs : refs[i][1] = j
<1> DEFINE S == DeadReferences(q)
           n == Cardinality(S)
           D == 1..n
<1>1. IsFiniteSet(S) /\ n \in Nat
  BY ReferencesFinite, FS_CardinalityType
<1>2. refs \in [D -> S] /\ \A i, k \in D : i # k => refs[i] # refs[k]
  BY DEF SetToSeqs
<1>3. \A r \in S : r[1] \in DeadLetters(q)
  BY DEF DeadReferences
<1>4. \A j \in DeadLetters(q) : <<j, 1>> \in S
  <2> SUFFICES ASSUME NEW j \in DeadLetters(q) PROVE <<j, 1>> \in S
    OBVIOUS
  <2>1. dlq[j] \in Nat /\ dlq[j] > 0
    BY DEF DeadLetters, Shape, QueueTypeOK
  <2>2. <<j, 1>> \in {j} \X (1..dlq[j])
    BY <2>1
  <2> QED BY <2>2 DEF DeadReferences
<1> HIDE DEF S, n
<1>5. refs \in Surjection(D, S)
  <2>1. IsFiniteSet(D) /\ Cardinality(D) = n
    BY <1>1, FS_Interval
  <2>2. refs \in Injection(D, S)
    BY <1>2 DEF Injection, IsInjective
  <2>3. Cardinality(S) = n
    BY DEF n
  <2> HIDE DEF D
  <2> QED BY <1>1, <2>1, <2>2, <2>3, FS_Injection
<1>6. DOMAIN refs = 1..n
  BY <1>2
<1>7. Len(refs) = n
  <2>1. refs \in Seq(S)
    BY <1>1, <1>2
  <2> QED BY <1>1, <1>6, <2>1, LenProperties
<1>8. ASSUME NEW j \in DeadLetters(q) PROVE \E i \in D : refs[i][1] = j
  <2>1. PICK i \in D : refs[i] = <<j, 1>>
    BY <1>4, <1>5 DEF Surjection
  <2> QED BY <2>1
<1> QED BY <1>1, <1>2, <1>3, <1>6, <1>7, <1>8

LEMMA RetryDeadLettersKeeps ==
    ASSUME LogInv, NEW q \in Queues, RetryDeadLetters(q)
    PROVE  LogInv'
<1>a. Facts /\ Shape /\ added \subseteq Jobs
  BY ShapeFacts DEF LogInv, LogShape
<1>1. RetryDLQ(q) /\ added' = added
  BY DEF RetryDeadLetters
<1>2. PICK refs \in SetToSeqs(DeadReferences(q)) :
        Logs([i \in DOMAIN refs |-> Entry(refs[i][1], "retry", Snapshot(refs[i][1]))])
  BY DEF RetryDeadLetters
<1>3. [NextQueue]_queueVars
  BY <1>1 DEF NextQueue
<1>4. job' \in [Jobs -> JobFields]
  BY <1>a, <1>3, ShapeStep DEF Shape, QueueTypeOK
<1>5. /\ DOMAIN refs = 1..Len(refs) /\ Len(refs) \in Nat
      /\ \A i \in DOMAIN refs : refs[i][1] \in DeadLetters(q)
      /\ \A j \in DeadLetters(q) : \E i \in DOMAIN refs : refs[i][1] = j
  BY <1>a, RefsSay
<1>6. \A j \in DeadLetters(q) : j \in Jobs /\ dlq[j] > 0
  BY DEF DeadLetters
<1> DEFINE es == [i \in DOMAIN refs |-> Entry(refs[i][1], "retry", Snapshot(refs[i][1]))]
<1>7. ASSUME NEW j \in Jobs
      PROVE  IF j \in DeadLetters(q) THEN job'[j].status = "waiting" ELSE job'[j] = job[j]
  BY <1>a, <1>1, <1>7 DEF RetryDLQ, Requeued, Facts, JobFields
<1>8. ASSUME NEW i \in DOMAIN refs
      PROVE  /\ es[i] \in Entries
             /\ es[i].job = refs[i][1]
             /\ es[i].event = "retry"
             /\ es[i].data.status = "waiting"
             /\ es[i].data.status = job'[es[i].job].status
             /\ es[i].data.attempts = job'[es[i].job].attempts
             /\ es[i].data.due = (es[i].data.status # "delayed")
  <2> DEFINE j == refs[i][1]
  <2>1. j \in Jobs /\ j \in DeadLetters(q)
    BY <1>5, <1>6
  <2> HIDE DEF j
  <2>2. /\ Snapshot(j) \in JobFields
        /\ Snapshot(j).attempts = job'[j].attempts
        /\ Snapshot(j).status = job'[j].status
        /\ Snapshot(j).due = (Snapshot(j).status # "delayed")
    BY <1>4, <2>1, SnapshotSays
  <2>3. job'[j].status = "waiting"
    BY <1>7, <2>1
  <2>4. es[i] = Entry(j, "retry", Snapshot(j))
    BY DEF j
  <2>5. es[i] \in Entries
    BY <2>1, <2>2, <2>4 DEF Entry, Entries, Events
  <2>6. es[i].job = j /\ es[i].event = "retry" /\ es[i].data = Snapshot(j)
    BY <2>4 DEF Entry
  <2> HIDE DEF es
  <2> QED BY <2>2, <2>3, <2>5, <2>6 DEF j
<1>9. es \in Seq(Entries) /\ DOMAIN es = DOMAIN refs
  <2>1. DOMAIN es = DOMAIN refs
    OBVIOUS
  <2>2. es \in [1..Len(refs) -> Entries]
    <3>1. \A i \in 1..Len(refs) : Entry(refs[i][1], "retry", Snapshot(refs[i][1])) \in Entries
      BY <1>5, <1>8
    <3> QED BY <1>5, <3>1
  <2> HIDE DEF es
  <2> QED BY <1>5, <2>1, <2>2
<1>10. Logs(es)
  BY <1>2
<1> HIDE DEF es
<1>11. ASSUME NEW j \in Jobs, j \in DeadLetters(q)
       PROVE  /\ OneRoute(j)' => j \in added /\ ~Over(j)
              /\ ~NeverRequeued(j)'
  <2>1. requeues'[j]["dlq"] > 0 /\ requeues'[j]["failed"] = requeues[j]["failed"]
    BY <1>a, <1>1, <1>11 DEF RetryDLQ, Facts, Routes
  <2>2. ~NeverRequeued(j)'
    BY <2>1 DEF NeverRequeued, Routes
  <2>3. ASSUME OneRoute(j)' PROVE j \in added /\ ~Over(j)
    <3>1. OneRoute(j) /\ requeues[j]["failed"] = 0
      BY <1>a, <1>3, <2>1, <2>3, RoutesStay DEF OneRoute
    <3>2. job[j].status = "failed"
      BY <1>6, <1>11, <3>1, FoundSays
    <3> QED BY <3>1, <3>2, FoundSays DEF Over
  <2> QED BY <2>2, <2>3
<1>12. Tells(es)
  <2>1. \A i \in DOMAIN es :
         /\ es[i].data.attempts = job'[es[i].job].attempts
         /\ es[i].data.status = job'[es[i].job].status
         /\ es[i].data.due = (es[i].data.status # "delayed")
         /\ es[i].data.status # "none"
         /\ es[i].event = "completed" <=> es[i].data.status = "completed"
         /\ es[i].event \in Terminal <=> es[i].data.status \in Terminal
    BY <1>8, <1>9 DEF Terminal
  <2>2. \A j \in Jobs : (\E i \in DOMAIN es : es[i].job = j) <=> j \in DeadLetters(q)
    BY <1>5, <1>8, <1>9
  <2> QED BY <1>a, <1>1, <1>7, <1>9, <1>11, <2>1, <2>2 DEF Tells
<1> QED BY <1>3, <1>10, <1>12, LogStep

-----------------------------------------------------------------------------
(***************************************************************************)
(* What the queue does without logging: at most a delayed job is waiting.  *)
(***************************************************************************)
Quiet ==
    \A j \in Jobs : OneRoute(j)' =>
        /\ job'[j].attempts = job[j].attempts
        /\ \/ job'[j].status = job[j].status
           \/ job[j].status = "delayed" /\ job'[j].status = "waiting"

LEMMA QuietStep ==
    ASSUME LogInv, [NextQueue]_queueVars, NoLog, Quiet
    PROVE  LogInv'
<1>a. /\ Shape /\ LogShape
      /\ EntriesSound /\ LivesOn /\ CompletionsSealed /\ EndsAreEnds /\ CaughtUp
  BY DEF LogInv
<1>b. UNCHANGED <<wal, table, added, behind, finished, restarts>> /\ restarts \in Nat
  BY <1>a DEF NoLog, LogShape
<1>1. Shape' /\ LivesOn'
  BY <1>a, <1>b, QueuePart
<1>2. Whole(table, wal)' = Whole(table, wal) /\ Whole(table, wal) \in Seq(Entries)
  BY <1>a, <1>b, WholeSays DEF Whole, LogShape
<1> DEFINE x == Whole(table, wal)
<1> HIDE DEF x
<1>3. \A j \in Jobs : /\ OneRoute(j)' => OneRoute(j)
                      /\ NeverRequeued(j)' => NeverRequeued(j) /\ OneRoute(j)'
  <2>1. \A j : NeverRequeued(j)' => OneRoute(j)'
    BY DEF NeverRequeued, OneRoute, Routes
  <2> QED BY <1>a, <2>1, RoutesStay, NeverStays
<1>4. LogShape'
  BY <1>a, <1>b, <1>2, <1>3 DEF LogShape, Quiet, Created
<1>5. EntriesSound'
  <2> SUFFICES ASSUME NEW e, Holds(x, e) PROVE Sound(e, restarts)'
    BY <1>2 DEF EntriesSound, x
  <2>1. Sound(e, restarts)
    BY <1>a DEF EntriesSound, x
  <2>2. e.job \in Jobs
    <3>1. e \in Entries
      BY <1>2, LenProperties DEF Holds, x
    <3> QED BY <3>1 DEF Entries
  <2> QED BY <1>b, <1>3, <2>1, <2>2 DEF Sound
<1>6. CompletionsSealed'
  BY <1>a, <1>b, <1>3 DEF CompletionsSealed, Sealed, Over, Quiet
<1>7. EndsAreEnds'
  BY <1>a, <1>2, <1>3 DEF EndsAreEnds, Quiet
<1>8. CaughtUp'
  <2> SUFFICES ASSUME NEW j \in Jobs \ behind, Created(j)', OneRoute(j)'
               PROVE  \/ ~LoggedIn(x, j) /\ job'[j].status \in Terminal
                      \/ \E e : LatestIn(x, j, e) /\ Agrees(j, e)'
    BY <1>b, <1>2 DEF CaughtUp, x
  <2>1. /\ job'[j].attempts = job[j].attempts
        /\ \/ job'[j].status = job[j].status
           \/ job[j].status = "delayed" /\ job'[j].status = "waiting"
    BY DEF Quiet
  <2>2. Created(j) /\ OneRoute(j)
    BY <1>3, <2>1 DEF Created
  <2>3. \A e : Agrees(j, e) => Agrees(j, e)'
    BY <2>1 DEF Agrees
  <2>4. job[j].status \in Terminal => job'[j].status \in Terminal
    BY <2>1 DEF Terminal
  <2> QED BY <1>a, <2>2, <2>3, <2>4 DEF CaughtUp, x
<1> QED BY <1>1, <1>4, <1>5, <1>6, <1>7, <1>8 DEF LogInv

LEMMA UnloggedKeeps ==
    ASSUME LogInv, Unlogged
    PROVE  LogInv'
<1>a. Facts /\ Shape
  BY ShapeFacts DEF LogInv
<1>b. NoLog
  BY DEF Unlogged
<1>1. ASSUME NEW j \in Jobs, Heartbeat(j) \/ HeartbeatAges(j) \/ RunAtPasses(j) PROVE LogInv'
  <2>1. [NextQueue]_queueVars
    BY <1>1 DEF NextQueue
  <2>2. CASE job' = [job EXCEPT ![j].due = TRUE]
    <3>1. Quiet
      BY <1>a, <2>2 DEF Quiet, Facts, JobFields
    <3> QED BY <1>b, <2>1, <3>1, QuietStep
  <2>3. CASE \E h \in Heartbeats : job' = [job EXCEPT ![j].hb = h]
    <3>1. Quiet
      BY <1>a, <2>3 DEF Quiet, Facts, JobFields
    <3> QED BY <1>b, <2>1, <3>1, QuietStep
  <2> QED BY <1>1, <2>2, <2>3 DEF Heartbeat, HeartbeatAges, RunAtPasses, Heartbeats
<1>2. ASSUME NEW q \in Queues, ClearCompleted(q) PROVE LogInv'
  <2>1. [NextQueue]_queueVars /\ Quiet
    BY <1>2 DEF NextQueue, ClearCompleted, Quiet
  <2> QED BY <1>b, <2>1, QuietStep
<1>3. ASSUME ReaperFires PROVE LogInv'
  <2>1. [NextQueue]_queueVars /\ Quiet
    BY <1>3 DEF NextQueue, ReaperFires, Quiet
  <2> QED BY <1>b, <2>1, QuietStep
<1>4. ASSUME PromoteDelayed PROVE LogInv'
  <2>1. [NextQueue]_queueVars
    BY <1>4 DEF NextQueue
  <2>2. ASSUME NEW j \in Jobs, OneRoute(j)'
        PROVE  /\ job'[j].attempts = job[j].attempts
               /\ \/ job'[j].status = job[j].status
                  \/ job[j].status = "delayed" /\ job'[j].status = "waiting"
    <3>1. CASE j \in Ready
      <4>1. delayed[j] > 0
        BY <3>1 DEF Ready
      <4>2. OneLife(j, restarts)
        BY <1>a, <2>1, <2>2, RoutesStay DEF LogInv, LivesOn
      <4>3. job[j].status = "delayed"
        BY <4>1, <4>2 DEF OneLife, Placed
      <4>4. job'[j] = [job[j] EXCEPT !.status = "waiting"]
        BY <1>4, <3>1 DEF PromoteDelayed
      <4> QED BY <1>a, <4>3, <4>4 DEF Facts, JobFields
    <3>2. CASE j \notin Ready
      BY <1>4, <3>2 DEF PromoteDelayed
    <3> QED BY <3>1, <3>2
  <2> QED BY <1>b, <2>1, <2>2, QuietStep DEF Quiet
<1> QED BY <1>1, <1>2, <1>3, <1>4 DEF Unlogged

-----------------------------------------------------------------------------
(***************************************************************************)
(* The log's own steps.                                                    *)
(***************************************************************************)
(* What the invariant asks of a step that leaves the queue alone: it adds  *)
(* no entry, keeps the seals, and takes the latest entry only of a job     *)
(* that is finished or falls behind.                                       *)
KeepsLog ==
    /\ WalShape(wal') /\ table' \in Seq(Entries)
    /\ \A e : Holds(Whole(table', wal'), e) => Holds(Whole(table, wal), e)
    /\ \A j \in Jobs : OneRoute(j) /\ SealedAt(table, wal, finished, j) =>
         /\ SealedAt(table', wal', finished', j)
         /\ WroteDone(wal', finished', j) => WroteDone(wal, finished, j)
    /\ \A j \in Jobs : OneRoute(j) /\ j \in finished' =>
         j \in finished \/ LoggedIn(Whole(table, wal), j)
    /\ \A j \in Jobs \ behind' : Created(j) /\ OneRoute(j) =>
         /\ j \notin behind
         /\ \/ /\ LoggedIn(Whole(table', wal'), j) <=> LoggedIn(Whole(table, wal), j)
               /\ \A e : LatestIn(Whole(table, wal), j, e) => LatestIn(Whole(table', wal'), j, e)
            \/ /\ ~LoggedIn(Whole(table', wal'), j)
               /\ \A e : LatestIn(Whole(table, wal), j, e) => e.event \in Terminal
    /\ added' = added /\ restarts' = restarts
    /\ UNCHANGED queueVars

LEMMA LogOnly ==
    ASSUME LogInv, KeepsLog
    PROVE  LogInv'
<1>a. /\ Shape /\ LogShape
      /\ EntriesSound /\ LivesOn /\ CompletionsSealed /\ EndsAreEnds /\ CaughtUp
  BY DEF LogInv
<1>b. /\ WalShape(wal) /\ table \in Seq(Entries) /\ restarts \in Nat
      /\ added' = added /\ restarts' = restarts /\ UNCHANGED queueVars
      /\ WalShape(wal') /\ table' \in Seq(Entries)
  BY <1>a DEF LogShape, KeepsLog
<1>c. job' = job /\ requeues' = requeues
  BY <1>b DEF queueVars
<1> DEFINE x == Whole(table, wal)
           y == Whole(table', wal')
<1>1. Whole(table, wal)' = y
  BY DEF Whole
<1>2. \A e : Holds(y, e) => Holds(x, e)
  BY DEF KeepsLog
<1>d. x \in Seq(Entries)
  BY <1>b, WholeSays
<1> HIDE DEF x, y
<1>3. \A j : LoggedIn(y, j) => LoggedIn(x, j)
  BY <1>2, HoldsSays
<1>4. \A j : HasTerminal(y, j) => HasTerminal(x, j)
  BY <1>2, HoldsSays
<1>5. Shape' /\ LivesOn'
  BY <1>a, <1>b, QueuePart
<1>6. LogShape'
  <2>1. ASSUME NEW j \in Jobs, OneRoute(j)', Created(j)' \/ LoggedIn(y, j) \/ j \in finished'
        PROVE  j \in added
    <3>1. OneRoute(j) /\ (Created(j)' => Created(j))
      BY <1>c, <2>1 DEF OneRoute, Created
    <3>2. j \in finished' => j \in finished \/ LoggedIn(x, j)
      BY <3>1 DEF KeepsLog, x
    <3> QED BY <1>a, <1>3, <2>1, <3>1, <3>2 DEF LogShape, x
  <2> QED BY <1>a, <1>b, <1>1, <2>1 DEF LogShape
<1>7. EntriesSound'
  <2> SUFFICES ASSUME NEW e, Holds(x, e) PROVE Sound(e, restarts)'
    BY <1>1, <1>2 DEF EntriesSound
  <2>1. Sound(e, restarts)
    BY <1>a DEF EntriesSound, x
  <2> QED BY <1>b, <1>c, <2>1 DEF Sound, OneRoute
<1>8. CompletionsSealed'
  <2> SUFFICES ASSUME NEW j \in Jobs, OneRoute(j) PROVE Sealed(j)'
    BY <1>c DEF CompletionsSealed, OneRoute
  <2>1. Sealed(j)
    BY <1>a DEF CompletionsSealed
  <2>2. /\ SealedAt(table', wal', finished', j)
        /\ WroteDone(wal', finished', j) => WroteDone(wal, finished, j)
    BY <2>1 DEF KeepsLog, Sealed
  <2>3. /\ SealedAt(table, wal, finished, j)' <=> SealedAt(table', wal', finished', j)
        /\ WroteDone(wal, finished, j)' <=> WroteDone(wal', finished', j)
    BY DEF SealedAt, WroteDone, OutOfBuffer, CompletedIn, Ended, LatestIn
  <2> QED BY <1>c, <2>1, <2>2, <2>3 DEF Sealed, Over
<1>9. EndsAreEnds'
  BY <1>a, <1>c, <1>1, <1>4 DEF EndsAreEnds, NeverRequeued, x
<1>10. CaughtUp'
  <2> SUFFICES ASSUME NEW j \in Jobs \ behind', Created(j), OneRoute(j)
               PROVE  \/ ~LoggedIn(y, j) /\ job[j].status \in Terminal
                      \/ \E e : LatestIn(y, j, e) /\ Agrees(j, e)
    <3>1. \A j : /\ OneRoute(j)' <=> OneRoute(j)
                 /\ Created(j)' <=> Created(j)
                 /\ \A e : Agrees(j, e)' <=> Agrees(j, e)
      BY <1>c DEF OneRoute, Created, Agrees
    <3> QED BY <1>c, <1>1, <3>1 DEF CaughtUp
  <2>1. j \notin behind
    BY DEF KeepsLog
  <2>2. CASE ~LoggedIn(x, j)
    <3>1. job[j].status \in Terminal
      <4>1. \A e : ~LatestIn(x, j, e)
        BY <2>2, NotLogged
      <4> QED BY <1>a, <2>1, <4>1 DEF CaughtUp, x
    <3> QED BY <1>3, <2>2, <3>1
  <2>3. CASE LoggedIn(x, j)
    <3>1. PICK e : LatestIn(x, j, e) /\ Agrees(j, e)
      BY <1>a, <2>1, <2>3 DEF CaughtUp, x
    <3>2. CASE LatestIn(y, j, e)
      BY <3>1, <3>2
    <3>3. CASE ~LoggedIn(y, j) /\ e.event \in Terminal
      <4>1. Sound(e, restarts)
        BY <1>a, <1>d, <3>1, LatestFacts DEF EntriesSound, x
      <4>2. e.data.status \in Terminal
        BY <3>3, <4>1 DEF Sound
      <4> QED BY <3>1, <3>3, <4>2 DEF Agrees, Terminal
    <3>4. LatestIn(y, j, e) \/ (~LoggedIn(y, j) /\ e.event \in Terminal)
      BY <2>3, <3>1 DEF KeepsLog, x, y
    <3> QED BY <3>2, <3>3, <3>4
  <2> QED BY <2>2, <2>3
<1> QED BY <1>5, <1>6, <1>7, <1>8, <1>9, <1>10 DEF LogInv

\* Two sets of finished jobs that agree on a job.
LEMMA SameFinished ==
    ASSUME NEW t, NEW w, NEW F, NEW G, NEW j, j \in F <=> j \in G
    PROVE  /\ SealedAt(t, w, F, j) <=> SealedAt(t, w, G, j)
           /\ WroteDone(w, F, j) <=> WroteDone(w, G, j)
BY DEF SealedAt, WroteDone, OutOfBuffer

\* Learned, in terms of CompletedIn.
LEMMA LearnedSays == Learned => Learns(finished, table', finished')
BY DEF Learned, Learns, CompletedIn

\* Steps that only move the buffer to the batch.
LEMMA MovesKeeps ==
    ASSUME LogInv, WalShape(wal'), Moves(wal, wal'), table' = table,
           Learned \/ finished' = finished,
           behind' = behind, added' = added, restarts' = restarts, UNCHANGED queueVars
    PROVE  LogInv'
<1>a. WalShape(wal) /\ table \in Seq(Entries)
  BY DEF LogInv, LogShape
<1>1. Whole(table', wal') = Whole(table, wal)
  BY <1>a, MovesWhole
<1>2. ASSUME NEW j \in Jobs, SealedAt(table, wal, finished, j)
      PROVE  /\ j \in finished <=> j \in finished'
             /\ SealedAt(table', wal', finished', j)
             /\ WroteDone(wal', finished', j) => WroteDone(wal, finished, j)
  <2>1. j \in finished <=> j \in finished'
    BY <1>2, LearnedSays DEF Learns, SealedAt
  <2>2. SealedAt(table, wal', finished, j) /\ (WroteDone(wal', finished, j) => WroteDone(wal, finished, j))
    BY <1>a, <1>2, MovesSealed
  <2> QED BY <2>1, <2>2, SameFinished
<1>3. \A j \in Jobs : OneRoute(j) => SealedAt(table, wal, finished, j)
  BY DEF LogInv, CompletionsSealed, Sealed
<1>4. KeepsLog
  BY <1>a, <1>1, <1>2, <1>3 DEF KeepsLog
<1> QED BY <1>4, LogOnly

\* An INSERT succeeds, fails or is given up.
LEMMA InsertKeeps ==
    ASSUME LogInv, WalShape(wal'), InsertOver(table, wal, table', wal'), Learned,
           behind' = behind, added' = added, restarts' = restarts, UNCHANGED queueVars
    PROVE  LogInv'
<1>a. WalShape(wal) /\ table \in Seq(Entries)
  BY DEF LogInv, LogShape
<1>b. Settles(table, wal, table', wal')
  BY DEF Settles
<1> DEFINE x == Whole(table, wal)
           y == Whole(table', wal')
<1>1. /\ table' \in Seq(Entries)
      /\ \A e : Holds(y, e) => Holds(x, e)
      /\ \A j : LoggedIn(y, j) <=> LoggedIn(x, j)
      /\ \A j, e : LatestIn(y, j, e) <=> LatestIn(x, j, e)
  BY <1>a, <1>b, SettlesKeeps
<1>2. \A j \in Jobs : SealedAt(table, wal, finished, j) =>
         /\ SealedAt(table', wal', finished', j)
         /\ WroteDone(wal', finished', j) => WroteDone(wal, finished, j)
  BY <1>a, <1>b, LearnedSays, SettlesSealed
<1>3. \A j \in Jobs : j \in finished' => j \in finished \/ LoggedIn(x, j)
  <2> SUFFICES ASSUME NEW j \in Jobs, j \in finished', j \notin finished
               PROVE  LoggedIn(x, j)
    OBVIOUS
  <2>1. CompletedIn(table', j)
    BY LearnedSays DEF Learns
  <2>2. LoggedIn(table', j)
    BY <2>1, NotLogged
  <2>3. LoggedIn(y, j)
    BY <1>1, <2>2, WholeSays DEF Joins
  <2> QED BY <1>1, <2>3
<1> HIDE DEF x, y
<1>4. KeepsLog
  BY <1>1, <1>2, <1>3 DEF KeepsLog, x, y
<1> QED BY <1>4, LogOnly

-----------------------------------------------------------------------------
(***************************************************************************)
(* Rows are deleted.                                                       *)
(***************************************************************************)
LEMMA TrimmedSealed ==
    ASSUME NEW t, NEW u, Trimmed(u, t), NEW w, NEW F, NEW j, SealedAt(t, w, F, j)
    PROVE  SealedAt(u, w, F, j)
<1>1. CompletedIn(u, j) => CompletedIn(t, j)
  BY HoldsSays DEF Trimmed
<1>2. Ended(t, j) => Ended(u, j)
  <2>1. \A e : LatestIn(u, j, e) => LoggedIn(u, j)
    BY DEF LatestIn, LoggedIn
  <2> QED BY <2>1 DEF Trimmed, Ended
<1> QED BY <1>1, <1>2 DEF SealedAt

LEMMA TrimmedWhole ==
    ASSUME NEW t \in Seq(Entries), NEW u, Trimmed(u, t), NEW w, WalShape(w)
    PROVE  /\ u \in Seq(Entries)
           /\ \A e : Holds(Whole(u, w), e) => Holds(Whole(t, w), e)
           /\ \A j : \/ /\ LoggedIn(Whole(u, w), j) <=> LoggedIn(Whole(t, w), j)
                        /\ \A e : LatestIn(Whole(u, w), j, e) <=> LatestIn(Whole(t, w), j, e)
                     \/ /\ ~LoggedIn(Whole(u, w), j) /\ ~LoggedIn(w.inflight \o w.buffer, j)
                        /\ LoggedIn(t, j) /\ ~LoggedIn(u, j)
                        /\ \A e : LatestIn(t, j, e) <=> LatestIn(Whole(t, w), j, e)
<1> DEFINE p == w.inflight
           q == w.buffer
           x == Whole(t, w)
           y == Whole(u, w)
           tp == t \o p
           up == u \o p
           pq == p \o q
<1>1. u \in Seq(Entries)
  BY DEF Trimmed
<1>2. /\ p \in Seq(Entries) /\ q \in Seq(Entries)
      /\ Joins(tp, t, p) /\ Joins(x, tp, q)
  BY WholeSays
<1>3. Joins(up, u, p) /\ Joins(y, up, q)
  BY <1>1, WholeSays
<1>4. Joins(pq, p, q)
  BY <1>2, Concatenated
<1>5. /\ \A e : Holds(u, e) => Holds(t, e)
      /\ \A j, e : LoggedIn(u, j) => (LatestIn(u, j, e) <=> LatestIn(t, j, e))
      /\ \A j : LoggedIn(u, j) => LoggedIn(t, j)
  BY HoldsSays DEF Trimmed
<1>6. \A s, j, e : ~LoggedIn(s, j) => ~LatestIn(s, j, e)
  BY NotLogged
<1> HIDE DEF p, q, x, y, tp, up, pq
<1>7. \A e : Holds(y, e) => Holds(x, e)
  BY <1>2, <1>3, <1>5 DEF Joins
<1>8. ASSUME NEW j
      PROVE  \/ /\ LoggedIn(y, j) <=> LoggedIn(x, j)
                /\ \A e : LatestIn(y, j, e) <=> LatestIn(x, j, e)
             \/ /\ ~LoggedIn(y, j) /\ ~LoggedIn(pq, j)
                /\ LoggedIn(t, j) /\ ~LoggedIn(u, j)
                /\ \A e : LatestIn(t, j, e) <=> LatestIn(x, j, e)
  <2>1. /\ LoggedIn(x, j) <=> LoggedIn(t, j) \/ LoggedIn(p, j) \/ LoggedIn(q, j)
        /\ LoggedIn(y, j) <=> LoggedIn(u, j) \/ LoggedIn(p, j) \/ LoggedIn(q, j)
        /\ LoggedIn(pq, j) <=> LoggedIn(p, j) \/ LoggedIn(q, j)
    BY <1>2, <1>3, <1>4 DEF Joins
  <2>2. \A e : /\ LatestIn(x, j, e) <=> LatestIn(q, j, e) \/ (~LoggedIn(q, j) /\ LatestIn(tp, j, e))
               /\ LatestIn(tp, j, e) <=> LatestIn(p, j, e) \/ (~LoggedIn(p, j) /\ LatestIn(t, j, e))
               /\ LatestIn(y, j, e) <=> LatestIn(q, j, e) \/ (~LoggedIn(q, j) /\ LatestIn(up, j, e))
               /\ LatestIn(up, j, e) <=> LatestIn(p, j, e) \/ (~LoggedIn(p, j) /\ LatestIn(u, j, e))
    BY <1>2, <1>3 DEF Joins
  <2>3. CASE LoggedIn(p, j) \/ LoggedIn(q, j)
    <3>1. \A e : LatestIn(y, j, e) <=> LatestIn(x, j, e)
      BY <2>2, <2>3, <1>6
    <3> QED BY <2>1, <2>3, <3>1
  <2>4. CASE ~LoggedIn(p, j) /\ ~LoggedIn(q, j)
    <3>1. \A e : /\ LatestIn(x, j, e) <=> LatestIn(t, j, e)
                 /\ LatestIn(y, j, e) <=> LatestIn(u, j, e)
      BY <2>2, <2>4, <1>6
    <3>2. CASE LoggedIn(u, j)
      BY <1>5, <2>1, <3>1, <3>2
    <3>3. CASE ~LoggedIn(u, j) /\ ~LoggedIn(t, j)
      BY <1>6, <2>1, <2>4, <3>1, <3>3
    <3>4. CASE ~LoggedIn(u, j) /\ LoggedIn(t, j)
      BY <2>1, <2>4, <3>1, <3>4
    <3> QED BY <3>2, <3>3, <3>4
  <2> QED BY <2>3, <2>4
<1> QED BY <1>1, <1>7, <1>8 DEF x, y, pq, p, q

\* Of a job all of whose rows go, the latest entry was an end.
LEMMA TrimKeeps ==
    ASSUME LogInv, Trimmed(table', table), wal' = wal, behind \subseteq behind',
           Learned \/ finished' = finished,
           added' = added, restarts' = restarts, UNCHANGED queueVars,
           \A j \in Jobs \ behind' :
             /\ OneRoute(j) /\ LoggedIn(table, j) /\ ~LoggedIn(table', j)
             /\ ~LoggedIn(wal.inflight \o wal.buffer, j)
             => \A e : LatestIn(table, j, e) => e.event \in Terminal
    PROVE  LogInv'
<1>a. WalShape(wal) /\ table \in Seq(Entries)
  BY DEF LogInv, LogShape
<1>1. /\ table' \in Seq(Entries)
      /\ \A e : Holds(Whole(table', wal), e) => Holds(Whole(table, wal), e)
      /\ \A j : \/ /\ LoggedIn(Whole(table', wal), j) <=> LoggedIn(Whole(table, wal), j)
                   /\ \A e : LatestIn(Whole(table', wal), j, e) <=> LatestIn(Whole(table, wal), j, e)
                \/ /\ ~LoggedIn(Whole(table', wal), j) /\ ~LoggedIn(wal.inflight \o wal.buffer, j)
                   /\ LoggedIn(table, j) /\ ~LoggedIn(table', j)
                   /\ \A e : LatestIn(table, j, e) <=> LatestIn(Whole(table, wal), j, e)
  BY <1>a, TrimmedWhole
<1>2. ASSUME NEW j \in Jobs, SealedAt(table, wal, finished, j)
      PROVE  /\ j \in finished <=> j \in finished'
             /\ SealedAt(table', wal', finished', j)
             /\ WroteDone(wal', finished', j) => WroteDone(wal, finished, j)
  <2>1. j \in finished <=> j \in finished'
    <3>1. CompletedIn(table', j) => CompletedIn(table, j)
      BY HoldsSays DEF Trimmed
    <3> QED BY <1>2, <3>1, LearnedSays DEF Learns, SealedAt
  <2>2. SealedAt(table', wal, finished, j)
    BY <1>2, TrimmedSealed
  <2> QED BY <2>1, <2>2, SameFinished
<1>3. \A j \in Jobs : OneRoute(j) => SealedAt(table, wal, finished, j)
  BY DEF LogInv, CompletionsSealed, Sealed
<1>4. ASSUME NEW j \in Jobs \ behind', OneRoute(j)
      PROVE  /\ j \notin behind
             /\ \/ /\ LoggedIn(Whole(table', wal), j) <=> LoggedIn(Whole(table, wal), j)
                   /\ \A e : LatestIn(Whole(table, wal), j, e) => LatestIn(Whole(table', wal), j, e)
                \/ /\ ~LoggedIn(Whole(table', wal), j)
                   /\ \A e : LatestIn(Whole(table, wal), j, e) => e.event \in Terminal
  BY <1>1, <1>4
<1>5. KeepsLog
  BY <1>a, <1>1, <1>2, <1>3, <1>4 DEF KeepsLog
<1> QED BY <1>5, LogOnly

LEMMA SettledSays ==
    ASSUME NEW w, WalShape(w), NEW back \in Seq(Entries)
    PROVE  /\ WalShape(Settled(w, back))
           /\ Settled(w, back).inflight = <<>>
           /\ Settled(w, back).buffer = back \o w.buffer
<1> DEFINE b == back \o w.buffer
           t == w.timer \/ b # <<>>
<1>1. b \in Seq(Entries)
  BY ConcatProperties DEF WalShape
<1>2. t \in BOOLEAN
  BY Zenon
<1>3. Settled(w, back) = [w EXCEPT !.buffer = b, !.inflight = <<>>, !.flushing = FALSE, !.timer = t]
  BY DEF Settled
<1> HIDE DEF b, t
<1>4. <<>> \in Seq(Entries)
  OBVIOUS
<1> QED BY <1>1, <1>2, <1>3, <1>4 DEF WalShape, b

LEMMA CommittedSays ==
    ASSUME NEW w, NEW t \in Seq(Entries), WalShape(w), w = wal, t = table,
           NEW rows \in Committed
    PROVE  t \o rows = t \/ t \o rows = t \o w.inflight
<1>1. rows = <<>> \/ rows = wal.inflight
  BY DEF Committed
<1>2. t \o <<>> = t
  BY ConcatEmptySeq
<1> QED BY <1>1, <1>2

LEMMA InsertsKeep ==
    ASSUME LogInv, InsertSucceeds \/ InsertFails \/ InsertGivesUp, Learned,
           behind' = behind, added' = added, restarts' = restarts, UNCHANGED queueVars
    PROVE  LogInv'
<1>a. WalShape(wal) /\ table \in Seq(Entries)
  BY DEF LogInv, LogShape
<1>b. wal.inflight \in Seq(Entries) /\ wal.buffer \in Seq(Entries)
  BY <1>a DEF WalShape
<1>1. CASE InsertSucceeds
  <2>1. <<>> \in Seq(Entries) /\ <<>> \o wal.buffer = wal.buffer
    BY <1>b, ConcatEmptySeq
  <2>2. /\ WalShape(wal') /\ wal'.inflight = <<>> /\ wal'.buffer = wal.buffer
        /\ table' = table \o wal.inflight
    BY <1>1, <1>a, <2>1, SettledSays DEF InsertSucceeds
  <2> QED BY <2>2, InsertKeeps DEF InsertOver
<1>2. CASE InsertFails
  <2>1. table' = table \/ table' = table \o wal.inflight
    <3>1. PICK rows \in Committed : table' = table \o rows
      BY <1>2 DEF InsertFails
    <3> QED BY <1>a, <3>1, CommittedSays
  <2>2. wal' = [wal EXCEPT !.attempt = wal.attempt + 1]
    BY <1>2 DEF InsertFails
  <2>3. WalShape(wal') /\ wal'.inflight = wal.inflight /\ wal'.buffer = wal.buffer
    BY <1>a, <2>2 DEF WalShape
  <2> QED BY <2>1, <2>3, InsertKeeps DEF InsertOver
<1>3. CASE InsertGivesUp
  <2>1. table' = table \/ table' = table \o wal.inflight
    <3>1. PICK rows \in Committed : table' = table \o rows
      BY <1>3 DEF InsertGivesUp
    <3> QED BY <1>a, <3>1, CommittedSays
  <2>2. /\ WalShape(wal') /\ wal'.inflight = <<>>
        /\ wal'.buffer = wal.inflight \o wal.buffer
    BY <1>3, <1>a, <1>b, SettledSays DEF InsertGivesUp, ReturnBatch
  <2> QED BY <2>1, <2>2, InsertKeeps DEF InsertOver
<1> QED BY <1>1, <1>2, <1>3

\* prune() deletes all rows of jobs whose latest row is an end.
LEMMA PruneKeeps ==
    ASSUME LogInv, Prune, Learned,
           behind' = behind, added' = added, restarts' = restarts, UNCHANGED queueVars
    PROVE  LogInv'
<1>a. WalShape(wal) /\ table \in Seq(Entries)
  BY DEF LogInv, LogShape
<1>1. PICK S \in SUBSET FinishedJobs :
        /\ table' = RowsAt(table, {i \in DOMAIN table : table[i].job \notin S})
        /\ wal' = wal
  BY DEF Prune
<1> DEFINE P == {i \in DOMAIN table : table[i].job \notin S}
<1>2. OldestOut(table, P)
  BY DEF OldestOut
<1>3. \A i \in DOMAIN table : i \notin P => table[i].job \in S
  OBVIOUS
<1>4. table' = RowsAt(table, P)
  BY <1>1
<1> HIDE DEF P
<1>5. /\ Trimmed(table', table)
      /\ \A j : LoggedIn(table, j) /\ ~LoggedIn(table', j) => j \in S
  BY <1>a, <1>2, <1>3, <1>4, TrimmedRows
<1>6. ASSUME NEW j \in S, NEW e, LatestIn(table, j, e) PROVE e.event \in Terminal
  <2>1. Last(RowsOf(table, j)).event \in Terminal
    BY DEF FinishedJobs
  <2> QED BY <1>a, <1>6, <2>1, RowsOfJob
<1> QED BY <1>1, <1>5, <1>6, TrimKeeps

LEMMA WalStepKeeps ==
    ASSUME LogInv, WalStep
    PROVE  LogInv'
<1>1. /\ Learned /\ UNCHANGED queueVars
      /\ behind' = behind /\ added' = added /\ restarts' = restarts
  BY DEF WalStep, WalOnly
<1>2. CASE TimerFires
  <2>1. wal' = Flushed(wal) /\ table' = table
    BY <1>2 DEF TimerFires
  <2>2. WalShape(wal') /\ Moves(wal, wal')
    BY <2>1, FlushedSays DEF LogInv, LogShape
  <2> QED BY <1>1, <2>1, <2>2, MovesKeeps
<1>3. CASE Prune
  BY <1>1, <1>3, PruneKeeps
<1>4. CASE InsertSucceeds \/ InsertFails \/ InsertGivesUp
  BY <1>1, <1>4, InsertsKeep
<1> QED BY <1>2, <1>3, <1>4 DEF WalStep

\* A job whose last row goes by its age is either finished or behind.
LEMMA RetentionKeeps ==
    ASSUME LogInv, RetentionDeletes
    PROVE  LogInv'
<1>a. /\ WalShape(wal) /\ table \in Seq(Entries)
      /\ wal' = wal /\ finished' = finished /\ added' = added /\ restarts' = restarts
      /\ UNCHANGED queueVars
      /\ behind' = behind \cup {j \in added \ FutureJobs : Forgotten(j)}
  BY DEF LogInv, LogShape, RetentionDeletes
<1>b. wal.inflight \in Seq(Entries) /\ wal.buffer \in Seq(Entries)
  BY <1>a DEF WalShape
<1>c. Len(table) \in Nat /\ DOMAIN table = 1..Len(table)
  BY <1>a, LenProperties
<1>1. PICK n \in DOMAIN table, U \in SUBSET Unknown :
        \E gone \in {OldRows(n, FutureJobs \cup U), OrphanRows(n, FutureJobs \cup U)} :
            table' = RemoveIndices(gone)
  BY DEF RetentionDeletes
<1> DEFINE future == FutureJobs \cup U
<1>2. PICK gone : /\ gone = OldRows(n, future) \/ gone = OrphanRows(n, future)
                  /\ table' = RemoveIndices(gone)
  BY <1>1
<1> HIDE DEF future
<1>3. /\ \A i \in gone : i \in 1..n /\ table[i].job \notin future
      /\ OldestOut(table, DOMAIN table \ gone)
  <2>1. n \in Nat
    BY <1>c
  <2>2. CASE gone = OldRows(n, future)
    BY <1>c, <2>1, <2>2 DEF OldRows, OldestOut
  <2>3. CASE gone = OrphanRows(n, future)
    BY <1>c, <2>1, <2>3 DEF OldRows, OrphanRows, OldestOut
  <2> QED BY <1>2, <2>2, <2>3
<1>4. /\ Trimmed(table', table)
      /\ \A j : LoggedIn(table, j) /\ ~LoggedIn(table', j) =>
           \E i \in DOMAIN table : i \in gone /\ table[i].job = j
  <2> DEFINE P == DOMAIN table \ gone
  <2>1. table' = RowsAt(table, P)
    BY <1>2 DEF RemoveIndices
  <2>2. OldestOut(table, P)
    BY <1>3
  <2>3. \A i \in DOMAIN table : i \notin P => i \in gone
    OBVIOUS
  <2> HIDE DEF P
  <2> QED BY <1>a, <2>1, <2>2, <2>3, TrimmedRows
<1>5. ASSUME NEW j \in Jobs \ behind', OneRoute(j), LoggedIn(table, j), ~LoggedIn(table', j),
             ~LoggedIn(wal.inflight \o wal.buffer, j), NEW e, LatestIn(table, j, e)
      PROVE  e.event \in Terminal
  <2>1. j \notin FutureJobs
    BY <1>3, <1>4, <1>5 DEF future
  <2>2. j \in added
    <3>1. LoggedIn(Whole(table, wal), j)
      BY <1>a, <1>5, WholeSays DEF Joins
    <3> QED BY <1>5, <3>1 DEF LogInv, LogShape
  <2>3. ~Forgotten(j)
    BY <1>a, <1>5, <2>1, <2>2
  <2>4. wal.inflight \o wal.buffer \in Seq(Entries) /\ table' \in Seq(Entries)
    BY <1>b, <1>4, ConcatProperties DEF Trimmed
  <2>5. RowsOf(table', j) = <<>> /\ RowsOf(wal.inflight \o wal.buffer, j) = <<>>
    BY <1>5, <2>4, RowsOfJob
  <2>6. RowsOf(table, j) # <<>> /\ Last(RowsOf(table, j)) = e
    BY <1>a, <1>5, RowsOfJob
  <2> QED BY <2>3, <2>5, <2>6 DEF Forgotten
<1> QED BY <1>a, <1>4, <1>5, TrimKeeps

-----------------------------------------------------------------------------
(***************************************************************************)
(* The process ends and starts again.                                      *)
(***************************************************************************)
LEMMA RebuiltSays ==
    ASSUME LogInv, table' \in Seq(Entries),
           \A e : Holds(table', e) => Sound(e, restarts),
           NEW S, \A j \in S : SurvivesIn(table', j), RebuiltFrom(S, table'),
           restarts' = restarts + 1
    PROVE  /\ Shape' /\ LivesOn' /\ requeues' = requeues
           /\ \A j \in Jobs \ S : job'[j].status = "none"
           /\ \A j \in Jobs \cap S : \E e : LatestIn(table', j, e) /\ job'[j] = Replayed(e.data)
<1>a. Shape /\ restarts \in Nat /\ Facts /\ NoJob \notin Jobs /\ MaxAttempts \in [Jobs -> Nat]
      /\ QueueOf \in [Jobs -> Queues] /\ requeues' = requeues
  BY ShapeFacts DEF LogInv, LogShape, RebuiltFrom
<1>1. \A j \in Jobs : job'[j] = IF j \in S THEN Replayed(Last(RowsOf(table', j)).data) ELSE NewJob
  BY DEF RebuiltFrom
<1>2. ASSUME NEW j \in Jobs \cap S
      PROVE  \E e \in Entries : /\ LatestIn(table', j, e) /\ job'[j] = Replayed(e.data)
                                /\ Sound(e, restarts) /\ e.event \notin Terminal /\ e.job = j
  <2>1. LoggedIn(table', j) /\ ~HasTerminal(table', j)
    BY RowsOfJob DEF SurvivesIn
  <2>2. PICK e \in Entries : LatestIn(table', j, e)
    BY <2>1, LatestExists
  <2>3. e.job = j /\ Holds(table', e)
    BY <2>2, LatestFacts
  <2>4. Last(RowsOf(table', j)) = e
    BY <2>2, RowsOfJob
  <2>5. e.event \notin Terminal
    BY <2>1, <2>3, HoldsSays
  <2> QED BY <1>1, <2>2, <2>3, <2>4, <2>5
<1>3. ASSUME NEW d \in JobFields
      PROVE  /\ Replayed(d) \in JobFields /\ Replayed(d).attempts = d.attempts /\ Replayed(d).due = d.due
             /\ Replayed(d).status = IF d.status = "active" THEN "waiting" ELSE d.status
  BY DEF Replayed, JobFields, Statuses
<1>4. ASSUME NEW j \in Jobs \cap S
      PROVE  /\ job'[j] \in JobFields
             /\ job'[j].status \in {"waiting", "delayed"}
             /\ job'[j].status = "waiting" => job'[j].due
             /\ OneRoute(j) => job'[j].attempts < MostAttempts(j) + restarts + 1
  <2>1. PICK e \in Entries :
          /\ job'[j] = Replayed(e.data) /\ Sound(e, restarts) /\ e.event \notin Terminal /\ e.job = j
    BY <1>2
  <2>2. e.data \in JobFields
    BY DEF Entries
  <2>3. e.data.status \in {"waiting", "active", "delayed"}
    BY <2>1, <2>2 DEF Sound, JobFields, Statuses, Terminal
  <2>4. MostAttempts(j) \in Nat /\ e.data.attempts \in Nat
    BY <1>a, <2>2 DEF MostAttempts, JobFields
  <2>5. OneRoute(j) => e.data.attempts <= MostAttempts(j) + restarts
    BY <2>1 DEF Sound
  <2>6. e.data.due = (e.data.status # "delayed")
    BY <2>1 DEF Sound
  <2>7. /\ job'[j] \in JobFields /\ job'[j].attempts = e.data.attempts /\ job'[j].due = e.data.due
        /\ job'[j].status = IF e.data.status = "active" THEN "waiting" ELSE e.data.status
    BY <1>3, <2>1, <2>2
  <2>8. OneRoute(j) => job'[j].attempts < MostAttempts(j) + restarts + 1
    BY <1>a, <2>4, <2>5, <2>7
  <2>9. job'[j].status \in {"waiting", "delayed"}
    BY <2>3, <2>7
  <2>10. job'[j].status = "waiting" => e.data.status # "delayed"
    BY <2>3, <2>7
  <2>11. job'[j].status = "waiting" => job'[j].due
    BY <2>6, <2>7, <2>10, Zenon
  <2> QED BY <2>7, <2>8, <2>9, <2>11
<1>5. NewJob \in JobFields
  BY DEF NewJob, JobFields, Statuses, Heartbeats
<1>6. \A j \in Jobs \ S : job'[j].status = "none" /\ job'[j] = NewJob
  BY <1>1 DEF NewJob
<1>7. job' \in [Jobs -> JobFields]
  <2>1. \A j \in Jobs : job'[j] \in JobFields
    BY <1>4, <1>5, <1>6
  <2> QED BY <2>1 DEF RebuiltFrom
<1>8. /\ heap' = [j \in Jobs |-> IF j \in S /\ job'[j].status = "waiting" THEN 1 ELSE 0]
      /\ delayed' = [j \in Jobs |-> IF j \in S /\ job'[j].status = "delayed" THEN 1 ELSE 0]
      /\ active' = [s \in Slots |-> NoJob]
      /\ completed' = [q \in Queues |-> <<>>]
      /\ failed' = [q \in Queues |-> <<>>]
      /\ dlq' = [j \in Jobs |-> 0]
      /\ tenantActive' = [t \in Tenants |-> 0]
      /\ clock' = clock
      /\ reaping' = {}
  BY DEF RebuiltFrom
<1>9. Shape'
  <2>1. clock \in Nat /\ requeues \in [Jobs -> [Routes -> Nat]]
    BY <1>a DEF Shape, QueueTypeOK
  <2> QED BY <1>a, <1>7, <1>8, <2>1 DEF Shape, QueueTypeOK, ReapingOccupied
<1>10. ASSUME NEW j \in Jobs, OneRoute(j)' PROVE OneLife(j, restarts)'
  <2>1. OneRoute(j)
    BY <1>a, <1>10 DEF OneRoute
  <2>2. ActiveSlots(j)' = {}
    BY <1>a, <1>8 DEF ActiveSlots
  <2>3. CASE j \in S
    <3>1. Placed(j)'
      BY <1>4, <1>8, <2>2, <2>3 DEF Placed
    <3>2. Paced(j, restarts)'
      <4>1. MostAttempts(j) \in Nat /\ job'[j].attempts \in Nat
        BY <1>a, <1>4, <2>3 DEF MostAttempts, JobFields
      <4> QED BY <1>a, <1>4, <2>1, <2>3, <4>1 DEF Paced
    <3>3. Retryable(j)'
      BY <1>a, <1>8 DEF Retryable, HeldOnce, Absent
    <3> QED BY <3>1, <3>2, <3>3 DEF OneLife
  <2>4. CASE j \notin S
    <3>1. Placed(j)'
      BY <1>6, <1>8, <2>2, <2>4 DEF Placed
    <3>2. Paced(j, restarts)'
      <4>1. MostAttempts(j) \in Nat /\ MostAttempts(j) > 0
        BY <1>a DEF MostAttempts
      <4>2. job'[j].attempts = 0 /\ job'[j].status = "none"
        BY <1>6, <2>4 DEF NewJob
      <4> QED BY <1>a, <4>1, <4>2 DEF Paced
    <3>3. Retryable(j)'
      BY <1>a, <1>8 DEF Retryable, HeldOnce, Absent
    <3> QED BY <3>1, <3>2, <3>3 DEF OneLife
  <2> QED BY <2>3, <2>4
<1>11. LivesOn'
  BY <1>10 DEF LivesOn
<1>12. \A j \in Jobs \cap S : \E e : LatestIn(table', j, e) /\ job'[j] = Replayed(e.data)
  BY <1>2
<1> QED BY <1>a, <1>6, <1>9, <1>11, <1>12

\* The table after a restart is all there is of the log.
LEMMA EmptyAgain ==
    ASSUME NEW t \in Seq(Entries)
    PROVE  /\ WalShape(EmptyWal) /\ EmptyWal.inflight = <<>> /\ EmptyWal.buffer = <<>>
           /\ Whole(t, EmptyWal) = t
<1>1. WalShape(EmptyWal) /\ EmptyWal.inflight = <<>> /\ EmptyWal.buffer = <<>>
  BY Nothing DEF WalShape, EmptyWal
<1>2. t \o <<>> = t
  BY ConcatEmptySeq
<1> QED BY <1>1, <1>2 DEF Whole

LEMMA RestartSettles ==
    ASSUME LogInv, Restart
    PROVE  /\ table' \in Seq(Entries) /\ Whole(table', wal') = table'
           /\ WalShape(wal') /\ wal'.inflight = <<>> /\ wal'.buffer = <<>>
           /\ Settles(table, wal, table', wal')
           /\ \A e : Holds(table', e) => Holds(Whole(table, wal), e)
           /\ \A j : LoggedIn(table', j) => LoggedIn(Whole(table, wal), j)
           /\ \A j : HasTerminal(table', j) => HasTerminal(Whole(table, wal), j)
<1>1. WalShape(wal) /\ table \in Seq(Entries)
  BY DEF LogInv, LogShape
<1>2. table' = table \/ table' = table \o wal.inflight
  BY DEF Restart
<1>3. wal' = EmptyWal
  BY DEF Restart
<1>4. table' \in Seq(Entries)
  BY <1>1, <1>2, WholeSays
<1>5. /\ WalShape(wal') /\ wal'.inflight = <<>> /\ wal'.buffer = <<>>
      /\ Whole(table', wal') = table'
  BY <1>3, <1>4, EmptyAgain
<1>6. Settles(table, wal, table', wal')
  BY <1>2, <1>5 DEF Settles, MemoryLost
<1>7. /\ \A e : Holds(Whole(table', wal'), e) => Holds(Whole(table, wal), e)
      /\ \A j : LoggedIn(Whole(table', wal'), j) => LoggedIn(Whole(table, wal), j)
      /\ \A j : HasTerminal(Whole(table', wal'), j) => HasTerminal(Whole(table, wal), j)
  BY <1>1, <1>5, <1>6, SettlesKeeps
<1> QED BY <1>4, <1>5, <1>6, <1>7

LEMMA RestartRebuilds ==
    ASSUME LogInv, Restart
    PROVE  \E S : /\ \A j \in S : SurvivesIn(table', j)
                  /\ RebuiltFrom(S, table')
                  /\ \/ behind' = added
                     \/ \A j \in Jobs : SurvivesIn(table', j) => j \in S
<1> DEFINE all == {j \in Jobs : SurvivesIn(table', j)}
<1>1. CASE RebuiltFrom(all, table')
  <2>1. \A j \in all : SurvivesIn(table', j)
    OBVIOUS
  <2>2. \A j \in Jobs : SurvivesIn(table', j) => j \in all
    OBVIOUS
  <2> HIDE DEF all
  <2> QED BY <1>1, <2>1, <2>2
<1>2. CASE RebuiltFrom({}, table') /\ behind' = added
  BY <1>2
<1> QED BY <1>1, <1>2 DEF Restart

LEMMA RestartKeeps ==
    ASSUME LogInv, Restart
    PROVE  LogInv'
<1>a. /\ WalShape(wal) /\ table \in Seq(Entries) /\ added' = added /\ restarts' = restarts + 1
      /\ restarts \in Nat /\ added \subseteq Jobs
  BY DEF LogInv, LogShape, Restart
<1> DEFINE x == Whole(table, wal)
<1>b. /\ table' \in Seq(Entries) /\ Whole(table', wal') = table'
      /\ WalShape(wal') /\ wal'.inflight = <<>> /\ wal'.buffer = <<>>
      /\ Settles(table, wal, table', wal')
      /\ \A e : Holds(table', e) => Holds(x, e)
      /\ \A j : LoggedIn(table', j) => LoggedIn(x, j)
  BY RestartSettles
<1>c. \A e : Holds(table', e) => Sound(e, restarts) /\ e \in Entries
  <2>1. \A e : Holds(table', e) => e \in Entries
    BY <1>b, LenProperties DEF Holds
  <2> QED BY <1>b, <2>1 DEF LogInv, EntriesSound
<1>d. PICK S : (\A j \in S : SurvivesIn(table', j)) /\ RebuiltFrom(S, table')
  BY RestartRebuilds
<1>1. /\ Shape' /\ LivesOn' /\ requeues' = requeues
      /\ \A j \in Jobs \ S : job'[j].status = "none"
      /\ \A j \in Jobs \cap S : \E e : LatestIn(table', j, e) /\ job'[j] = Replayed(e.data)
  BY <1>a, <1>b, <1>c, <1>d, RebuiltSays
<1>2. \A j \in S : LoggedIn(table', j) /\ ~HasTerminal(table', j)
  BY <1>b, <1>d, RowsOfJob DEF SurvivesIn
<1>3. Whole(table, wal)' = table'
  BY <1>b DEF Whole
<1>4. \A j : OneRoute(j)' <=> OneRoute(j)
  BY <1>1 DEF OneRoute
<1>5. Learned
  BY DEF Restart
<1>6. LogShape'
  <2>1. ASSUME NEW j \in Jobs, OneRoute(j), Created(j)' \/ LoggedIn(table', j) \/ j \in finished'
        PROVE  j \in added
    <3>1. Created(j)' => LoggedIn(table', j)
      BY <1>1, <1>2 DEF Created
    <3>2. j \in finished' => j \in finished \/ LoggedIn(table', j)
      BY <1>5, LearnedSays, NotLogged DEF Learns
    <3> QED BY <1>b, <2>1, <3>1, <3>2 DEF LogInv, LogShape
  <2> QED BY <1>a, <1>b, <1>3, <1>4, <2>1 DEF LogShape
<1>7. EntriesSound'
  <2> SUFFICES ASSUME NEW e, Holds(table', e) PROVE Sound(e, restarts)'
    BY <1>3 DEF EntriesSound
  <2>1. Sound(e, restarts) /\ e.data \in JobFields /\ e.job \in Jobs
    BY <1>c DEF Entries
  <2>2. MostAttempts(e.job) \in Nat /\ e.data.attempts \in Nat
    BY <2>1, ShapeFacts DEF MostAttempts, JobFields, LogInv
  <2> QED BY <1>a, <1>4, <2>1, <2>2 DEF Sound
<1>8. CompletionsSealed'
  <2> SUFFICES ASSUME NEW j \in Jobs, OneRoute(j) PROVE Sealed(j)'
    BY <1>4 DEF CompletionsSealed
  <2>1. SealedAt(table, wal, finished, j)
    BY DEF LogInv, CompletionsSealed, Sealed
  <2>2. SealedAt(table', wal', finished', j)
    BY <1>a, <1>b, <1>5, <2>1, LearnedSays, SettlesSealed
  <2>3. WroteDone(wal', finished', j) => j \in finished'
    BY <1>b, Nothing DEF WroteDone, OutOfBuffer
  <2>4. ASSUME j \in finished' PROVE j \notin S
    <3> SUFFICES ASSUME j \in S PROVE FALSE
      OBVIOUS
    <3>1. PICK e \in Entries : LatestIn(table', j, e)
      BY <1>b, <1>2, LatestExists
    <3>2. e.event \in Terminal
      BY <2>2, <2>4, <3>1 DEF SealedAt, Ended
    <3>3. Holds(table', e) /\ e.job = j
      BY <1>b, <3>1, LatestFacts
    <3> QED BY <1>2, <3>2, <3>3, HoldsSays
  <2>5. WroteDone(wal', finished', j) => Over(j)'
    BY <1>1, <2>3, <2>4 DEF Over
  <2>6. /\ SealedAt(table, wal, finished, j)' <=> SealedAt(table', wal', finished', j)
        /\ WroteDone(wal, finished, j)' <=> WroteDone(wal', finished', j)
    BY DEF SealedAt, WroteDone, OutOfBuffer, CompletedIn, Ended, LatestIn
  <2> QED BY <2>2, <2>5, <2>6 DEF Sealed
<1>9. EndsAreEnds'
  <2> SUFFICES ASSUME NEW j \in Jobs, HasTerminal(table', j) PROVE job'[j].status = "none"
    <3>1. \A j : HasTerminal(Whole(table, wal), j)' <=> HasTerminal(table', j)
      BY <1>3 DEF HasTerminal
    <3> QED BY <3>1 DEF EndsAreEnds
  <2> QED BY <1>1, <1>2
<1>10. CaughtUp'
  <2> SUFFICES ASSUME NEW j \in Jobs, job'[j].status # "none"
               PROVE  \E e : LatestIn(table', j, e) /\ Agrees(j, e)'
    <3>1. \A j, e : LatestIn(Whole(table, wal), j, e)' <=> LatestIn(table', j, e)
      BY <1>3 DEF LatestIn
    <3> QED BY <3>1 DEF CaughtUp, Created
  <2>1. PICK e : LatestIn(table', j, e) /\ job'[j] = Replayed(e.data)
    BY <1>1
  <2>2. e.data \in JobFields
    BY <1>b, <2>1, LatestFacts DEF Entries
  <2>3. /\ Replayed(e.data).attempts = e.data.attempts
        /\ Replayed(e.data).status = IF e.data.status = "active" THEN "waiting" ELSE e.data.status
    BY <2>2 DEF Replayed, JobFields
  <2> QED BY <2>1, <2>3 DEF Agrees
<1> QED BY <1>1, <1>6, <1>7, <1>8, <1>9, <1>10 DEF LogInv

-----------------------------------------------------------------------------
(***************************************************************************)
(* The invariant holds, and with it the properties of DurableQueue.        *)
(***************************************************************************)
LEMMA LogInit == Init => LogInv
<1> SUFFICES ASSUME Init PROVE LogInv
  OBVIOUS
<1>1. /\ InitQueue /\ wal = EmptyWal /\ table = <<>>
      /\ added = {} /\ behind = {} /\ finished = {} /\ restarts = 0
  BY DEF Init, InitWal
<1>2. table \in Seq(Entries) /\ WalShape(wal) /\ Whole(table, wal) = <<>>
      /\ wal.inflight = <<>> /\ wal.buffer = <<>>
  BY <1>1, Nothing, EmptyAgain
<1>3. Shape
  BY <1>1, ShapeInit
<1>4. \A j \in Jobs : job[j].status = "none"
  BY <1>1 DEF InitQueue, NewJob
<1>5. LogShape
  BY <1>1, <1>2, <1>4, Nothing DEF LogShape, Created
<1>6. EntriesSound /\ EndsAreEnds
  BY <1>2, Nothing DEF EntriesSound, EndsAreEnds
<1>7. LivesOn
  BY <1>1, LifeInit DEF LivesOn, LifeInv
<1>8. CompletionsSealed
  BY <1>1, <1>2, Nothing
  DEF CompletionsSealed, Sealed, SealedAt, WroteDone, OutOfBuffer, Ended
<1>9. CaughtUp
  BY <1>4 DEF CaughtUp, Created
<1> QED BY <1>3, <1>5, <1>6, <1>7, <1>8, <1>9 DEF LogInv

\* The end of a graceful shutdown.
LEMMA ShutdownKeeps ==
    ASSUME LogInv, CloseServer \/ Destroy \/ FlushAwaited \/ UNCHANGED vars
    PROVE  LogInv'
<1>1. /\ table' = table /\ finished' = finished /\ behind' = behind
      /\ added' = added /\ restarts' = restarts /\ UNCHANGED queueVars
  BY DEF CloseServer, Destroy, FlushAwaited, vars
<1>2. WalShape(wal)
  BY DEF LogInv, LogShape
<1>3. WalShape(wal') /\ Moves(wal, wal')
  <2>1. CASE wal' = wal
    BY <1>2, <2>1 DEF Moves
  <2>2. CASE wal' = Flushed(wal)
    BY <1>2, <2>2, FlushedSays
  <2>3. CASE wal' = [wal EXCEPT !.timer = FALSE]
    BY <1>2, <2>3 DEF WalShape, Moves
  <2> QED BY <2>1, <2>2, <2>3 DEF CloseServer, Destroy, FlushAwaited, vars
<1> QED BY <1>1, <1>3, MovesKeeps

LEMMA LogNext == LogInv /\ [Next]_vars => LogInv'
<1> SUFFICES ASSUME LogInv, [Next]_vars PROVE LogInv'
  OBVIOUS
<1>1. ASSUME NEW j \in Jobs, AddJob(j) PROVE LogInv'
  BY <1>1, AddJobKeeps
<1>2. ASSUME NEW j \in Jobs, ClaimJob(j) PROVE LogInv'
  BY <1>2, ClaimJobKeeps
<1>3. ASSUME NEW j \in Jobs, CompleteJob(j) PROVE LogInv'
  BY <1>3, CompleteJobKeeps
<1>4. ASSUME NEW j \in Jobs, FailJob(j) PROVE LogInv'
  BY <1>4, FailJobKeeps
<1>5. ASSUME NEW j \in Jobs, ReapJob(j) PROVE LogInv'
  BY <1>5, ReapJobKeeps
<1>6. ASSUME NEW j \in Jobs, RetryFailed(j) PROVE LogInv'
  BY <1>6, RetryFailedKeeps
<1>7. ASSUME NEW q \in Queues, RetryDeadLetters(q) PROVE LogInv'
  BY <1>7, RetryDeadLettersKeeps
<1>8. CASE Unlogged
  BY <1>8, UnloggedKeeps
<1>9. CASE WalStep
  BY <1>9, WalStepKeeps
<1>10. CASE RetentionDeletes
  BY <1>10, RetentionKeeps
<1>11. CASE CloseServer \/ Destroy \/ FlushAwaited \/ UNCHANGED vars
  BY <1>11, ShutdownKeeps
<1>12. CASE Restart
  BY <1>12, RestartKeeps
<1> QED BY <1>1, <1>2, <1>3, <1>4, <1>5, <1>6, <1>7, <1>8, <1>9, <1>10, <1>11, <1>12 DEF Next

LEMMA LogHolds == Spec => []LogInv
BY LogInit, LogNext, PTL DEF Spec

(* However often the process ends, with or without a batch under way, and  *)
(* whatever is pruned or deleted by age: a job re-queued by at most one of *)
(* the two routes has been tried at most maxAttempts times, and once more  *)
(* for each restart.                                                       *)
THEOREM AttemptsAcrossRestartsHolds == Spec => []AttemptsAcrossRestarts
<1>1. LogInv => AttemptsAcrossRestarts
  <2> SUFFICES ASSUME LogInv, NEW j \in Jobs, OneRoute(j)
               PROVE  job[j].attempts <= MostAttempts(j) + restarts
    BY DEF AttemptsAcrossRestarts, MostAttempts
  <2>1. Paced(j, restarts)
    BY DEF LogInv, LivesOn, OneLife
  <2> QED BY <2>1 DEF Paced
<1> QED BY <1>1, LogHolds, PTL

\* The jobs with a completion in the table are jobs.
LEMMA FinishedAreJobs == Spec => [](finished \subseteq Jobs)
<1>1. Init => finished \subseteq Jobs
  BY DEF Init
<1>2. finished \subseteq Jobs /\ [Next]_vars => (finished \subseteq Jobs)'
  <2> SUFFICES ASSUME finished \subseteq Jobs, [Next]_vars PROVE finished' \subseteq Jobs
    OBVIOUS
  <2>1. CASE Learned
    BY <2>1 DEF Learned
  <2>2. CASE finished' = finished
    BY <2>2
  <2> QED
    BY <2>1, <2>2
    DEF Next, vars, AddJob, ClaimJob, CompleteJob, FailJob, ReapJob, RetryFailed,
        RetryDeadLetters, LogsEvent, Logs, Unlogged, NoLog, WalStep, RetentionDeletes,
        CloseServer, Destroy, FlushAwaited, Restart
<1> QED BY <1>1, <1>2, PTL DEF Spec

(* A job whose completion was ever in the table is in no live place again: *)
(* a replay finds its end or nothing of it.                                *)
THEOREM NoResurrectionHolds == Spec => []NoResurrection
<1>1. LogInv /\ finished \subseteq Jobs => NoResurrection
  <2> SUFFICES ASSUME LogInv, NEW j \in Jobs, j \in finished, OneRoute(j) PROVE ~Live(j)
    BY DEF NoResurrection
  <2>1. Over(j)
    BY DEF LogInv, CompletionsSealed, Sealed, WroteDone, OutOfBuffer
  <2>2. Placed(j)
    BY DEF LogInv, LivesOn, OneLife
  <2> QED BY <2>1, <2>2 DEF Over, Placed, Live
<1> QED BY <1>1, LogHolds, FinishedAreJobs, PTL

(* The latest entry of a job that is not behind is its present state, up   *)
(* to the two changes that are not logged; one without an entry is over.   *)
THEOREM LogCaughtUpHolds == Spec => []LogCaughtUp
<1>1. LogInv => LogCaughtUp
  <2> SUFFICES ASSUME LogInv, NEW j \in Jobs \ behind, Created(j), OneRoute(j)
               PROVE  IF LogOf(j) = <<>>
                      THEN job[j].status \in Terminal
                      ELSE Agrees(j, Last(LogOf(j)))
    BY DEF LogCaughtUp, Agrees
  <2> DEFINE x == Whole(table, wal)
  <2>1. x \in Seq(Entries) /\ LogOf(j) = RowsOf(x, j)
    BY WholeSays DEF LogInv, LogShape, LogOf, Whole
  <2>2. \/ ~LoggedIn(x, j) /\ job[j].status \in Terminal
        \/ \E e : LatestIn(x, j, e) /\ Agrees(j, e)
    BY DEF LogInv, CaughtUp
  <2> HIDE DEF x
  <2> QED BY <2>1, <2>2, RowsOfJob
<1> QED BY <1>1, LogHolds, PTL

\* What a restart finds of a live job whose entries have left the buffer.
LEMMA RestartFinds ==
    ASSUME LogInv, Restart, NEW j \in added \ (behind \cup behind'), Live(j),
           RowsOf(wal.inflight \o wal.buffer, j) = <<>>, NeverRequeued(j)
    PROVE  \E e : /\ LatestIn(table', j, e) /\ Agrees(j, e)
                  /\ SurvivesIn(table', j)
<1>a. WalShape(wal) /\ table \in Seq(Entries) /\ j \in Jobs
  BY DEF LogInv, LogShape
<1> DEFINE p == wal.inflight
           q == wal.buffer
           x == Whole(table, wal)
           tp == table \o p
           pq == p \o q
<1>1. /\ p \in Seq(Entries) /\ q \in Seq(Entries)
      /\ Joins(tp, table, p) /\ Joins(x, tp, q)
  BY <1>a, WholeSays
<1>2. pq \in Seq(Entries) /\ Joins(pq, p, q)
  BY <1>1, Concatenated
<1>3. ~LoggedIn(pq, j)
  BY <1>2, RowsOfJob
<1>4. OneRoute(j) /\ job[j].status \in {"waiting", "delayed", "active"}
  <2>1. OneRoute(j)
    BY NeverIsOne
  <2>2. Placed(j) /\ job[j].status \in Statuses
    BY <1>a, <2>1, ShapeFacts DEF LogInv, LivesOn, OneLife, Facts, JobFields
  <2> QED BY <2>1, <2>2 DEF Placed, Live, Statuses
<1>5. PICK e : LatestIn(x, j, e) /\ Agrees(j, e)
  BY <1>a, <1>4 DEF LogInv, CaughtUp, Created, Terminal
<1>6. table' = table \/ table' = tp
  BY DEF Restart
<1>7. /\ table' \in Seq(Entries)
      /\ HasTerminal(table', j) => HasTerminal(x, j)
  BY RestartSettles
<1>8. ~HasTerminal(x, j)
  BY <1>a, <1>4 DEF LogInv, EndsAreEnds
<1> HIDE DEF p, q, x, tp, pq
<1>9. LatestIn(table', j, e)
  <2>1. ~LoggedIn(p, j) /\ ~LoggedIn(q, j)
    BY <1>2, <1>3 DEF Joins
  <2>2. ~LatestIn(p, j, e) /\ ~LatestIn(q, j, e)
    BY <2>1, NotLogged
  <2> QED BY <1>1, <1>5, <1>6, <2>1, <2>2 DEF Joins
<1>10. RowsOf(table', j) # <<>>
  BY <1>7, <1>9, RowsOfJob
<1> QED BY <1>5, <1>7, <1>8, <1>9, <1>10 DEF SurvivesIn

(* "Zero job loss on crash": a live job that was never re-queued by hand,  *)
(* whose entries have left the buffer, is live after a restart that can    *)
(* read the table, with the attempts it had.                               *)
THEOREM CrashKeepsUnfinishedHolds == Spec => CrashKeepsUnfinished
<1>1. ASSUME LogInv, LogInv', [Next]_vars, restarts' # restarts,
             NEW j \in added \ (behind \cup behind'),
             Live(j), RowsOf(wal.inflight \o wal.buffer, j) = <<>>, NeverRequeued(j)
      PROVE  Live(j)' /\ job'[j].attempts = job[j].attempts
  <2>1. Restart
    BY <1>1
    DEF Next, vars, AddJob, ClaimJob, CompleteJob, FailJob, ReapJob, RetryFailed,
        RetryDeadLetters, LogsEvent, Logs, Unlogged, NoLog, WalStep, WalOnly,
        RetentionDeletes, CloseServer, Destroy, FlushAwaited
  <2>2. /\ j \in Jobs /\ table' \in Seq(Entries) /\ restarts' = restarts + 1
        /\ \A e : Holds(table', e) => Sound(e, restarts)
    BY <1>1, <2>1, RestartSettles DEF LogInv, LogShape, EntriesSound, Restart
  <2>3. PICK e : LatestIn(table', j, e) /\ Agrees(j, e) /\ SurvivesIn(table', j)
    BY <1>1, <2>1, RestartFinds
  <2>4. PICK S : /\ \A k \in S : SurvivesIn(table', k)
                 /\ RebuiltFrom(S, table')
                 /\ behind' = added \/ \A k \in Jobs : SurvivesIn(table', k) => k \in S
    BY <1>1, <2>1, RestartRebuilds
  <2>5. j \in S
    BY <1>1, <2>2, <2>3, <2>4
  <2>6. requeues' = requeues
        /\ \E f : LatestIn(table', j, f) /\ job'[j] = Replayed(f.data)
    BY <1>1, <2>2, <2>4, <2>5, RebuiltSays
  <2>7. job'[j] = Replayed(e.data)
    BY <2>2, <2>3, <2>6, LatestFacts
  <2>8. e.data \in JobFields /\ e.event \notin Terminal /\ Sound(e, restarts)
    <3>1. e \in Entries /\ Holds(table', e) /\ e.job = j
      BY <2>2, <2>3, LatestFacts
    <3>2. ~HasTerminal(table', j)
      BY <2>3 DEF SurvivesIn
    <3> QED BY <2>2, <3>1, <3>2, HoldsSays DEF Entries
  <2>9. e.data.status \in {"waiting", "active", "delayed"}
    BY <2>8 DEF Sound, JobFields, Statuses, Terminal
  <2>10. job'[j].attempts = e.data.attempts /\ job'[j].status \in {"waiting", "delayed"}
    BY <2>7, <2>8, <2>9 DEF Replayed, JobFields
  <2>11. Placed(j)'
    <3>1. OneRoute(j)'
      BY <1>1, <2>6, NeverIsOne DEF OneRoute
    <3> QED BY <1>1, <2>2, <3>1 DEF LogInv, LivesOn, OneLife
  <2> QED BY <2>3, <2>10, <2>11 DEF Agrees, Placed, Live
<1>2. LogInv /\ LogInv' /\ [Next]_vars =>
        [restarts' # restarts =>
           \A j \in added \ (behind \cup behind') :
              /\ Live(j)
              /\ RowsOf(wal.inflight \o wal.buffer, j) = <<>>
              /\ \A r \in Routes : requeues[j][r] = 0
              => Live(j)' /\ job'[j].attempts = job[j].attempts]_vars
  BY <1>1 DEF NeverRequeued
<1> QED BY <1>2, LogHolds, PTL DEF Spec, CrashKeepsUnfinished
=============================================================================
