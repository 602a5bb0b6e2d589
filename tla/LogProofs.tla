------------------------------- MODULE LogProofs -------------------------------
(***************************************************************************)
(* Theorems about the two logs that a restart reads.                       *)
(*                                                                         *)
(* WalClients, the table of the job queue's log: for every set of jobs and *)
(* every limit, its latest row of a job is the newest one.  Entries are    *)
(* compared by their serial numbers (data).  The memory of the log is in   *)
(* the order of logging; a batch may reach the table several times, but    *)
(* each time as a whole and behind what is there, so that its last entry   *)
(* of a job is again behind all the job's rows (Covers).                   *)
(*                                                                         *)
(* AofRecovery, the append-only file, for any transactions, policies and   *)
(* bounds: what the log says of the stores while the process runs, what    *)
(* fsync under "always" is worth, and what a restart brings back.  They    *)
(* rest on lemmas about replaying a log, whose inductions over its length  *)
(* are arguments on the first line where the claim would fail.             *)
(***************************************************************************)
EXTENDS WalClients, AofRecovery,
        SequenceTheorems, FiniteSetTheorems, WellFoundedInduction, TLAPS

-----------------------------------------------------------------------------
(***************************************************************************)
(* Entries by their positions.                                             *)
(***************************************************************************)
Rec == [job : Jobs, event : Events, data : Nat]

\* Each entry is newer than those before it.
Increasing(s) == \A i \in DOMAIN s : \A k \in DOMAIN s : k < i => s[k].data < s[i].data

\* No entry behind the k-th one is of its job.
LastOne(s, k) == \A m \in DOMAIN s : m > k => s[m].job # s[k].job

\* What is in s is no newer than lg tells of its job.
Below(s, lg) == \A i \in DOMAIN s : s[i].data <= lg[s[i].job]

\* The last entry of each job in s is the one lg tells of.
UpToDate(s, lg) == \A k \in DOMAIN s : LastOne(s, k) => s[k].data = lg[s[k].job]

\* The last row of each job in t is its newest.
Tops(t) == \A k \in DOMAIN t : LastOne(t, k) =>
              \A i \in DOMAIN t : t[i].job = t[k].job => t[i].data <= t[k].data

\* The last entry of each job in the batch b is as new as its rows in t.
Covers(b, t) == \A k \in DOMAIN b : LastOne(b, k) =>
                   \A i \in DOMAIN t : t[i].job = b[k].job => t[i].data <= b[k].data

WalShape(w) ==
    /\ w \in [buffer : Seq(Rec), inflight : Seq(Rec), flushing : BOOLEAN,
              timer : BOOLEAN, attempt : Nat]
    /\ ~w.flushing => w.inflight = <<>>

\* What is accepted and not yet known to be in the table.
Pending(w) == w.inflight \o w.buffer

(* The inductive invariant: the memory is in the order of logging and ends *)
(* with the latest entry of each of its jobs; and while a batch, which may *)
(* already be in the table, is inserted again, it covers its jobs' rows.   *)
WalInv ==
    /\ WalShape(wal)
    /\ table \in Seq(Rec)
    /\ logged \in [Jobs -> 0..MaxLogged]
    /\ Increasing(Pending(wal))
    /\ Below(Pending(wal), logged)
    /\ UpToDate(Pending(wal), logged)
    /\ Below(table, logged)
    /\ Tops(table)
    /\ Covers(wal.inflight, table)

-----------------------------------------------------------------------------
LEMMA FirstNumber ==
    ASSUME NEW T, T \subseteq Nat, T # {}
    PROVE  \E x \in T : \A y \in T : x <= y
<1>1. PICK x \in T : \A y \in T : ~(<<y, x>> \in OpToRel(<, Nat))
  BY NatLessThanWellFounded, WFMin
<1>2. ASSUME NEW y \in T, y < x PROVE FALSE
  <2>1. <<y, x>> \in OpToRel(<, Nat)
    BY <1>2, Zenon DEF OpToRel
  <2> QED BY <2>1, <1>1
<1> QED BY <1>2

\* A set of numbers with 0 that is closed under the step up to n has n.
LEMMA UpTo ==
    ASSUME NEW n \in Nat, NEW S, 0 \in S, \A i \in 0..n : i # 0 /\ (i - 1) \in S => i \in S
    PROVE  n \in S
<1> DEFINE T == {i \in 0..n : i \notin S}
<1> SUFFICES ASSUME T # {} PROVE FALSE
  OBVIOUS
<1>1. PICK x \in T : \A y \in T : x <= y
  <2>1. T \subseteq Nat
    OBVIOUS
  <2> HIDE DEF T
  <2> QED BY <2>1, FirstNumber
<1>2. x # 0 /\ x \in 0..n /\ (x - 1) \notin T /\ (x - 1) \in 0..n
  BY <1>1
<1> QED BY <1>1, <1>2

\* The rows of s at the positions P among the first n, as RowsAt collects them.
RowsTo(f, s, P, n) ==
    f = [m \in 0..n |-> IF m = 0 THEN <<>>
                        ELSE IF m \in P THEN Append(f[m - 1], s[m]) ELSE f[m - 1]]

LEMMA RowsToExists ==
    ASSUME NEW s, NEW P, NEW n \in Nat
    PROVE  \E f : RowsTo(f, s, P, n)
<1> DEFINE S == {k \in Nat : \E f : RowsTo(f, s, P, k)}
<1>1. 0 \in S
  <2> DEFINE f == [m \in 0..0 |-> <<>>]
  <2>1. f = [m \in 0..0 |-> IF m = 0 THEN <<>>
                            ELSE IF m \in P THEN Append(f[m - 1], s[m]) ELSE f[m - 1]]
    OBVIOUS
  <2> QED BY <2>1 DEF RowsTo
<1>2. ASSUME NEW k \in 0..n, k # 0, (k - 1) \in S PROVE k \in S
  <2>1. PICK f : RowsTo(f, s, P, k - 1)
    BY <1>2
  <2> DEFINE g == [m \in 0..k |-> IF m < k THEN f[m]
                                  ELSE IF k \in P THEN Append(f[k - 1], s[k]) ELSE f[k - 1]]
  <2>2. \A m \in 0..k : g[m] = IF m = 0 THEN <<>>
                               ELSE IF m \in P THEN Append(g[m - 1], s[m]) ELSE g[m - 1]
    <3>1. \A m \in 0..(k - 1) : f[m] = IF m = 0 THEN <<>>
                               ELSE IF m \in P THEN Append(f[m - 1], s[m]) ELSE f[m - 1]
      BY <2>1 DEF RowsTo
    <3>a. k \in Nat /\ k # 0
      BY <1>2
    <3>2. ASSUME NEW m \in 0..k, m # k
          PROVE  m \in 0..(k - 1) /\ m < k /\ (m # 0 => m - 1 < k /\ m - 1 \in 0..k)
      BY ONLY <3>a, <3>2
    <3>3. k \in 0..k /\ k - 1 \in 0..k /\ k - 1 < k /\ ~(k < k)
      BY <1>2
    <3> QED BY <1>2, <3>1, <3>2, <3>3
  <2>3. RowsTo(g, s, P, k)
    BY <2>2 DEF RowsTo
  <2> QED BY <1>2, <2>3
<1>3. n \in S
  <2> HIDE DEF S
  <2> QED BY <1>1, <1>2, UpTo
<1> QED BY <1>3

LEMMA RowsAtIs ==
    ASSUME NEW s, NEW P, Len(s) \in Nat
    PROVE  \E f : RowsTo(f, s, P, Len(s)) /\ RowsAt(s, P) = f[Len(s)]
<1> DEFINE f == CHOOSE f : RowsTo(f, s, P, Len(s))
<1>1. RowsTo(f, s, P, Len(s))
  BY RowsToExists
<1>2. RowsAt(s, P) = f[Len(s)]
  BY DEF RowsAt, RowsTo
<1> QED BY <1>1, <1>2

LEMMA RowsToSteps ==
    ASSUME NEW f, NEW s, NEW P, NEW n \in Nat, RowsTo(f, s, P, n)
    PROVE  /\ f[0] = <<>>
           /\ \A m \in 1..n : f[m] = IF m \in P THEN Append(f[m - 1], s[m]) ELSE f[m - 1]
<1>1. \A m \in 0..n : f[m] = IF m = 0 THEN <<>>
                             ELSE IF m \in P THEN Append(f[m - 1], s[m]) ELSE f[m - 1]
  BY DEF RowsTo
<1>2. \A m \in 1..n : m \in 0..n /\ m # 0
  OBVIOUS
<1> QED BY <1>1, <1>2

(* r consists of entries of s at the positions in P, among the first n, in *)
(* their order: g says which.                                              *)
PickedBy(g, r, s, P, n) ==
    /\ r \in Seq(Rec)
    /\ \A i \in DOMAIN r : g[i] \in 1..n /\ g[i] \in P /\ r[i] = s[g[i]]
    /\ \A i \in DOMAIN r : \A k \in DOMAIN r : k < i => g[k] < g[i]
    /\ \A m \in 1..n : m \in P => \E i \in DOMAIN r : g[i] = m

LEMMA PickedEmpty ==
    ASSUME NEW s, NEW P
    PROVE  PickedBy(<<>>, <<>>, s, P, 0)
<1>1. <<>> \in Seq(Rec) /\ DOMAIN <<>> = {} /\ 1..0 = {}
  OBVIOUS
<1> QED BY <1>1 DEF PickedBy

LEMMA PickedMore ==
    ASSUME NEW s, NEW P, NEW n \in Nat, n # 0, s[n] \in Rec, NEW r, NEW g,
           PickedBy(g, r, s, P, n - 1)
    PROVE  \E h : PickedBy(h, IF n \in P THEN Append(r, s[n]) ELSE r, s, P, n)
<1>1. /\ r \in Seq(Rec)
      /\ \A i \in DOMAIN r : g[i] \in 1..(n - 1) /\ g[i] \in P /\ r[i] = s[g[i]]
      /\ \A i \in DOMAIN r : \A k \in DOMAIN r : k < i => g[k] < g[i]
      /\ \A m \in 1..(n - 1) : m \in P => \E i \in DOMAIN r : g[i] = m
  BY DEF PickedBy
<1>2. \A m \in 1..n : m = n \/ m \in 1..(n - 1)
  OBVIOUS
<1>3. \A m \in 1..(n - 1) : m \in 1..n /\ m < n
  OBVIOUS
<1>4. CASE n \notin P
  <2>1. PickedBy(g, r, s, P, n)
    BY <1>1, <1>2, <1>3, <1>4 DEF PickedBy
  <2> QED BY <1>4, <2>1
<1>5. CASE n \in P
  <2> DEFINE q == Append(r, s[n])
             l == Len(r) + 1
             h == [i \in 1..l |-> IF i = l THEN n ELSE g[i]]
  <2>1. /\ Len(r) \in Nat /\ DOMAIN r = 1..Len(r)
        /\ q \in Seq(Rec) /\ DOMAIN q = 1..l /\ q[l] = s[n]
        /\ \A i \in DOMAIN r : q[i] = r[i]
    BY <1>1, AppendProperties, LenProperties
  <2>2. l \in 1..l /\ n \in 1..n
    BY <2>1
  <2>3. \A i \in 1..l : i = l \/ (i \in DOMAIN r /\ i < l /\ i # l)
    BY <2>1
  <2>4. \A i \in DOMAIN r : i \in 1..l /\ i # l /\ ~(l < i)
    BY <2>1
  <2>5. h[l] = n /\ \A i \in DOMAIN r : h[i] = g[i]
    BY <2>2, <2>4
  <2> HIDE DEF q, h, l
  <2>6. \A i \in DOMAIN q : h[i] \in 1..n /\ h[i] \in P /\ q[i] = s[h[i]]
    BY <1>1, <1>3, <1>5, <2>1, <2>2, <2>3, <2>5
  <2>7. ASSUME NEW i \in DOMAIN q, NEW k \in DOMAIN q, k < i PROVE h[k] < h[i]
    <3>1. CASE i \in DOMAIN r /\ k \in DOMAIN r
      BY <1>1, <2>5, <2>7, <3>1
    <3>2. CASE i = l /\ k \in DOMAIN r
      BY <1>1, <1>3, <2>5, <3>2
    <3>3. k # l
      <4>1. l \in Int /\ i \in Int /\ i <= l
        BY <2>1 DEF l
      <4> QED BY <2>7, <4>1
    <3> QED BY <2>1, <2>3, <3>1, <3>2, <3>3
  <2>8. ASSUME NEW m \in 1..n, m \in P PROVE \E i \in DOMAIN q : h[i] = m
    <3>1. CASE m = n
      BY <2>1, <2>2, <2>5, <3>1
    <3>2. CASE m \in 1..(n - 1)
      BY <1>1, <2>1, <2>4, <2>5, <2>8, <3>2
    <3> QED BY <1>2, <3>1, <3>2
  <2>9. PickedBy(h, q, s, P, n)
    BY <2>1, <2>6, <2>7, <2>8 DEF PickedBy
  <2> QED BY <1>5, <2>9 DEF q
<1> QED BY <1>4, <1>5

\* What RowsAt collects.
LEMMA RowsAtPicks ==
    ASSUME NEW s \in Seq(Rec), NEW P
    PROVE  \E g : PickedBy(g, RowsAt(s, P), s, P, Len(s))
<1> DEFINE n == Len(s)
<1>1. n \in Nat /\ DOMAIN s = 1..n /\ \A i \in 1..n : s[i] \in Rec
  BY LenProperties
<1>2. PICK f : RowsTo(f, s, P, n) /\ RowsAt(s, P) = f[n]
  BY <1>1, RowsAtIs
<1> HIDE DEF n
<1>3. /\ f[0] = <<>>
      /\ \A m \in 1..n : f[m] = IF m \in P THEN Append(f[m - 1], s[m]) ELSE f[m - 1]
  BY <1>1, <1>2, RowsToSteps
<1> DEFINE S == {k \in 0..n : \E g : PickedBy(g, f[k], s, P, k)}
<1>4. 0 \in S
  BY <1>1, <1>3, PickedEmpty
<1>5. ASSUME NEW k \in 0..n, k # 0, (k - 1) \in S PROVE k \in S
  <2>1. PICK g : PickedBy(g, f[k - 1], s, P, k - 1)
    BY <1>5
  <2>2. k \in Nat /\ k \in 1..n /\ s[k] \in Rec
    BY <1>1, <1>5
  <2>3. \E h : PickedBy(h, IF k \in P THEN Append(f[k - 1], s[k]) ELSE f[k - 1], s, P, k)
    BY <1>5, <2>1, <2>2, PickedMore
  <2> QED BY <1>3, <2>2, <2>3
<1>6. n \in S
  <2> HIDE DEF S
  <2> QED BY <1>1, <1>4, <1>5, UpTo
<1> QED BY <1>2, <1>6 DEF n

(* The rows r of s at positions P that hold all or none of a job: the last *)
(* of a job among them is the last of it in s.                             *)
LEMMA LastPicked ==
    ASSUME NEW s \in Seq(Rec), NEW P, NEW r, NEW g, PickedBy(g, r, s, P, Len(s)),
           \A i \in DOMAIN s : \A k \in DOMAIN s : s[i].job = s[k].job /\ i \in P => k \in P,
           NEW k \in DOMAIN r, LastOne(r, k)
    PROVE  g[k] \in DOMAIN s /\ r[k] = s[g[k]] /\ LastOne(s, g[k])
<1>1. Len(s) \in Nat /\ DOMAIN s = 1..Len(s)
  BY LenProperties
<1>2. r \in Seq(Rec) /\ Len(r) \in Nat /\ DOMAIN r = 1..Len(r)
  BY LenProperties DEF PickedBy
<1>3. g[k] \in DOMAIN s /\ g[k] \in P /\ r[k] = s[g[k]]
  BY <1>1 DEF PickedBy
<1>4. ASSUME NEW m \in DOMAIN s, m > g[k], s[m].job = s[g[k]].job PROVE FALSE
  <2>1. m \in P
    BY <1>3, <1>4
  <2>2. PICK i \in DOMAIN r : g[i] = m
    BY <1>1, <2>1 DEF PickedBy
  <2>3. r[i] = s[m]
    BY <2>2 DEF PickedBy
  <2>4. ~(i > k)
    BY <1>3, <1>4, <2>3 DEF LastOne
  <2>5. i = k \/ i < k
    BY <1>2, <2>4
  <2>6. CASE i < k
    <3>1. m < g[k]
      BY <2>2, <2>6 DEF PickedBy
    <3> QED BY <1>1, <1>3, <1>4, <3>1
  <2>7. CASE i = k
    BY <1>1, <1>3, <1>4, <2>2, <2>7
  <2> QED BY <2>5, <2>6, <2>7
<1> QED BY <1>3, <1>4 DEF LastOne

-----------------------------------------------------------------------------
(***************************************************************************)
(* Concatenation, and an entry behind.                                     *)
(***************************************************************************)
LEMMA Joined ==
    ASSUME NEW s \in Seq(Rec), NEW t \in Seq(Rec)
    PROVE  /\ s \o t \in Seq(Rec) /\ Len(s) \in Nat
           /\ \A i \in DOMAIN s : i \in DOMAIN (s \o t) /\ (s \o t)[i] = s[i] /\ i <= Len(s) /\ i \in Nat
           /\ \A i \in DOMAIN t : /\ Len(s) + i \in DOMAIN (s \o t)
                                  /\ (s \o t)[Len(s) + i] = t[i] /\ i > 0 /\ i \in Nat
           /\ \A i \in DOMAIN (s \o t) : \/ i \in DOMAIN s
                                         \/ \E k \in DOMAIN t : i = Len(s) + k
<1> DEFINE u == s \o t
           m == Len(s)
           n == Len(t)
<1>1. /\ u \in Seq(Rec) /\ Len(u) = m + n /\ m \in Nat /\ n \in Nat
      /\ \A i \in 1..(m + n) : u[i] = IF i <= m THEN s[i] ELSE t[i - m]
  BY ConcatProperties, LenProperties
<1>2. DOMAIN u = 1..(m + n) /\ DOMAIN s = 1..m /\ DOMAIN t = 1..n
  BY <1>1, LenProperties
<1> HIDE DEF u, m, n
<1>3. \A i \in DOMAIN s : i \in DOMAIN u /\ u[i] = s[i] /\ i <= m /\ i \in Nat
  BY <1>1, <1>2
<1>4. ASSUME NEW i \in DOMAIN t
      PROVE  m + i \in DOMAIN u /\ u[m + i] = t[i] /\ i > 0 /\ i \in Nat
  BY <1>1, <1>2
<1>5. ASSUME NEW i \in DOMAIN u PROVE i \in DOMAIN s \/ \E k \in DOMAIN t : i = m + k
  <2>1. CASE i <= m
    BY <1>1, <1>2, <2>1
  <2>2. CASE ~(i <= m)
    <3>1. i - m \in DOMAIN t /\ i = m + (i - m)
      BY <1>1, <1>2, <2>2
    <3> QED BY <3>1
  <2> QED BY <2>1, <2>2
<1> QED BY <1>1, <1>3, <1>4, <1>5 DEF u, m

LEMMA RecFacts ==
    ASSUME NEW s \in Seq(Rec)
    PROVE  /\ \A i \in DOMAIN s : /\ s[i] \in Rec /\ i \in Nat
                                  /\ s[i].job \in Jobs /\ s[i].data \in Nat
           /\ Len(s) \in Nat /\ DOMAIN s = 1..Len(s)
<1>1. Len(s) \in Nat /\ DOMAIN s = 1..Len(s) /\ \A i \in 1..Len(s) : s[i] \in Rec
  BY LenProperties
<1>2. \A e \in Rec : e.job \in Jobs /\ e.data \in Nat
  BY DEF Rec
<1> QED BY <1>1, <1>2

\* In an increasing sequence the last entry of a job is its newest.
LEMMA LastIsNewest ==
    ASSUME NEW s \in Seq(Rec), Increasing(s), NEW k \in DOMAIN s, LastOne(s, k),
           NEW i \in DOMAIN s, s[i].job = s[k].job
    PROVE  s[i].data <= s[k].data
<1>1. s[i].data \in Nat /\ s[k].data \in Nat /\ i \in Nat /\ k \in Nat
  BY RecFacts
<1>2. ~(i > k)
  BY DEF LastOne
<1>3. CASE i = k
  BY <1>1, <1>3
<1>4. CASE i < k
  BY <1>1, <1>4 DEF Increasing
<1> QED BY <1>1, <1>2, <1>3, <1>4

\* The end of an up-to-date memory is one.
LEMMA EndOf ==
    ASSUME NEW s \in Seq(Rec), NEW t \in Seq(Rec), NEW lg,
           Increasing(s \o t), Below(s \o t, lg), UpToDate(s \o t, lg)
    PROVE  /\ Increasing(t) /\ Below(t, lg) /\ UpToDate(t, lg)
           /\ Increasing(s) /\ Below(s, lg)
<1> DEFINE u == s \o t
           m == Len(s)
<1>1. /\ m \in Nat
      /\ \A i \in DOMAIN s : i \in DOMAIN u /\ u[i] = s[i] /\ i <= m /\ i \in Nat
      /\ \A i \in DOMAIN t : m + i \in DOMAIN u /\ u[m + i] = t[i] /\ i > 0 /\ i \in Nat
      /\ \A i \in DOMAIN u : i \in DOMAIN s \/ \E k \in DOMAIN t : i = m + k
  BY Joined
<1>2. /\ \A i \in DOMAIN u : \A k \in DOMAIN u : k < i => u[k].data < u[i].data
      /\ \A i \in DOMAIN u : u[i].data <= lg[u[i].job]
      /\ \A k \in DOMAIN u : LastOne(u, k) => u[k].data = lg[u[k].job]
  BY DEF Increasing, Below, UpToDate
<1> HIDE DEF u, m
<1>3. Increasing(s) /\ Below(s, lg)
  BY <1>1, <1>2 DEF Increasing, Below
<1>4. Below(t, lg)
  <2> SUFFICES ASSUME NEW i \in DOMAIN t PROVE t[i].data <= lg[t[i].job]
    BY DEF Below
  <2> QED BY <1>1, <1>2
<1>5. Increasing(t)
  <2> SUFFICES ASSUME NEW i \in DOMAIN t, NEW k \in DOMAIN t, k < i PROVE t[k].data < t[i].data
    BY DEF Increasing
  <2>1. m + k < m + i
    BY <1>1
  <2> QED BY <1>1, <1>2, <2>1
<1>6. UpToDate(t, lg)
  <2> SUFFICES ASSUME NEW k \in DOMAIN t, LastOne(t, k) PROVE t[k].data = lg[t[k].job]
    BY DEF UpToDate
  <2>1. ASSUME NEW x \in DOMAIN u, x > m + k PROVE u[x].job # u[m + k].job
    <3>1. x \notin DOMAIN s
      BY <1>1, <2>1
    <3>2. PICK i \in DOMAIN t : x = m + i
      BY <1>1, <2>1, <3>1
    <3>3. i > k
      BY <1>1, <2>1, <3>2
    <3> QED BY <1>1, <3>2, <3>3 DEF LastOne
  <2>2. LastOne(u, m + k)
    BY <2>1 DEF LastOne
  <2> QED BY <1>1, <1>2, <2>2
<1> QED BY <1>3, <1>4, <1>5, <1>6

\* The batch b reaches the table t.
LEMMA TableGrows ==
    ASSUME NEW t \in Seq(Rec), NEW b \in Seq(Rec), NEW lg \in [Jobs -> Nat],
           Tops(t), Increasing(b), Covers(b, t), Below(t, lg), Below(b, lg)
    PROVE  t \o b \in Seq(Rec) /\ Tops(t \o b) /\ Covers(b, t \o b) /\ Below(t \o b, lg)
<1> DEFINE u == t \o b
           m == Len(t)
<1>1. /\ m \in Nat /\ u \in Seq(Rec)
      /\ \A i \in DOMAIN t : i \in DOMAIN u /\ u[i] = t[i] /\ i <= m /\ i \in Nat
      /\ \A i \in DOMAIN b : m + i \in DOMAIN u /\ u[m + i] = b[i] /\ i > 0 /\ i \in Nat
      /\ \A i \in DOMAIN u : i \in DOMAIN t \/ \E k \in DOMAIN b : i = m + k
  BY Joined
<1> HIDE DEF u, m
<1>2. Below(u, lg)
  <2> SUFFICES ASSUME NEW i \in DOMAIN u PROVE u[i].data <= lg[u[i].job]
    BY DEF Below
  <2>1. CASE i \in DOMAIN t
    BY <1>1, <2>1 DEF Below
  <2>2. ASSUME NEW k \in DOMAIN b, i = m + k PROVE u[i].data <= lg[u[i].job]
    BY <1>1, <2>2 DEF Below
  <2> QED BY <1>1, <2>1, <2>2
<1>3. ASSUME NEW k \in DOMAIN b, LastOne(b, k), NEW i \in DOMAIN u, u[i].job = b[k].job
      PROVE  u[i].data <= b[k].data
  <2>1. CASE i \in DOMAIN t
    BY <1>1, <1>3, <2>1 DEF Covers
  <2>2. ASSUME NEW x \in DOMAIN b, i = m + x PROVE u[i].data <= b[k].data
    <3>1. u[i] = b[x]
      BY <1>1, <2>2
    <3> QED BY <1>3, <3>1, LastIsNewest
  <2> QED BY <1>1, <2>1, <2>2
<1>4. Covers(b, u)
  BY <1>3 DEF Covers
<1>5. ASSUME NEW k \in DOMAIN u, LastOne(u, k), NEW i \in DOMAIN u, u[i].job = u[k].job
      PROVE  u[i].data <= u[k].data
  <2>1. ASSUME NEW x \in DOMAIN b, k = m + x PROVE u[i].data <= u[k].data
    <3>1. ASSUME NEW y \in DOMAIN b, y > x PROVE b[y].job # b[x].job
      <4>1. m + y > m + x
        BY <1>1, <3>1
      <4> QED BY <1>1, <1>5, <2>1, <4>1 DEF LastOne
    <3>2. LastOne(b, x) /\ u[k] = b[x]
      BY <1>1, <2>1, <3>1 DEF LastOne
    <3> QED BY <1>3, <1>5, <3>2
  <2>2. CASE k \in DOMAIN t
    <3>1. \A y \in DOMAIN b : m + y > k
      BY <1>1, <2>2
    <3>2. \A y \in DOMAIN b : b[y].job # u[k].job
      BY <1>1, <1>5, <3>1 DEF LastOne
    <3>3. i \in DOMAIN t
      BY <1>1, <1>5, <3>2
    <3>4. LastOne(t, k)
      BY <1>1, <1>5, <2>2 DEF LastOne
    <3> QED BY <1>1, <1>5, <2>2, <3>3, <3>4 DEF Tops
  <2> QED BY <1>1, <2>1, <2>2
<1>6. Tops(u)
  BY <1>5 DEF Tops
<1> QED BY <1>1, <1>2, <1>4, <1>6 DEF u

\* An up-to-date memory covers the table.
LEMMA UpToDateCovers ==
    ASSUME NEW b, NEW t, NEW lg, UpToDate(b, lg), Below(t, lg)
    PROVE  Covers(b, t)
BY DEF UpToDate, Below, Covers

LEMMA NothingPending ==
    ASSUME NEW lg, NEW t
    PROVE  /\ <<>> \in Seq(Rec) /\ Increasing(<<>>) /\ Below(<<>>, lg) /\ UpToDate(<<>>, lg)
           /\ Tops(<<>>) /\ Covers(<<>>, t)
<1>1. DOMAIN <<>> = {} /\ <<>> \in Seq(Rec)
  OBVIOUS
<1> QED BY <1>1 DEF Increasing, Below, UpToDate, Tops, Covers

-----------------------------------------------------------------------------
(***************************************************************************)
(* An entry is logged.                                                     *)
(***************************************************************************)
LEMMA SerialSays ==
    ASSUME NEW lg \in [Jobs -> 0..MaxLogged], NEW n,
           n = Cardinality({x \in 1..MaxLogged : \E j \in Jobs : lg[j] >= x})
    PROVE  n \in Nat /\ \A j \in Jobs : lg[j] <= n
<1> DEFINE S == {x \in 1..MaxLogged : \E j \in Jobs : lg[j] >= x}
<1>1. MaxLogged \in Nat
  BY ClientsAssumption
<1>2. IsFiniteSet(1..MaxLogged) /\ S \in SUBSET (1..MaxLogged)
  BY <1>1, FS_Interval
<1>3. IsFiniteSet(S)
  BY <1>2, FS_Subset
<1>4. n \in Nat
  BY <1>3, FS_CardinalityType
<1>5. ASSUME NEW j \in Jobs PROVE lg[j] <= n
  <2>1. lg[j] \in Nat /\ lg[j] <= MaxLogged
    BY <1>1
  <2>2. 1..lg[j] \in SUBSET S
    BY <1>1, <2>1
  <2>3. Cardinality(1..lg[j]) <= Cardinality(S)
    <3> HIDE DEF S
    <3> QED BY <1>3, <2>2, FS_Subset
  <2>4. Cardinality(1..lg[j]) = IF 1 > lg[j] THEN 0 ELSE lg[j] - 1 + 1
    BY <2>1, FS_Interval
  <2> QED BY <1>4, <2>1, <2>3, <2>4
<1> QED BY <1>4, <1>5

LEMMA MoreLogged ==
    ASSUME NEW p \in Seq(Rec), NEW t \in Seq(Rec), NEW lg \in [Jobs -> Nat], NEW e \in Rec,
           Increasing(p), Below(p, lg), UpToDate(p, lg), Below(t, lg),
           \A j \in Jobs : lg[j] < e.data
    PROVE  LET q == Append(p, e)
               lh == [lg EXCEPT ![e.job] = e.data]
           IN  q \in Seq(Rec) /\ Increasing(q) /\ Below(q, lh) /\ UpToDate(q, lh) /\ Below(t, lh)
<1> DEFINE q == Append(p, e)
           lh == [lg EXCEPT ![e.job] = e.data]
           n == Len(p)
<1>1. e.job \in Jobs /\ e.data \in Nat
  BY DEF Rec
<1>2. /\ \A j \in Jobs : lh[j] \in Nat /\ lg[j] \in Nat /\ lg[j] <= lh[j] /\ lg[j] < e.data
      /\ lh[e.job] = e.data
      /\ \A j \in Jobs : j # e.job => lh[j] = lg[j]
  BY <1>1
<1>3. /\ q \in Seq(Rec) /\ n \in Nat /\ DOMAIN p = 1..n /\ DOMAIN q = 1..(n + 1)
      /\ q[n + 1] = e /\ \A i \in 1..n : q[i] = p[i]
  BY AppendProperties, LenProperties
<1>4. \A i \in DOMAIN p : p[i].job \in Jobs /\ p[i].data \in Nat
  BY RecFacts
<1>5. \A i \in DOMAIN t : t[i].job \in Jobs /\ t[i].data \in Nat
  BY RecFacts
<1>6. \A i \in DOMAIN q : i = n + 1 \/ (i \in DOMAIN p /\ i < n + 1)
  BY <1>3
<1> HIDE DEF q, lh, n
<1>7. ASSUME NEW i \in DOMAIN p PROVE p[i].data <= lg[p[i].job] /\ p[i].data < e.data
  <2>1. p[i].data <= lg[p[i].job]
    BY DEF Below
  <2>2. lg[p[i].job] \in Nat /\ lg[p[i].job] < e.data /\ p[i].data \in Nat
    BY <1>2, <1>4
  <2> QED BY <1>1, <2>1, <2>2
<1>8. ASSUME NEW i \in DOMAIN q, NEW k \in DOMAIN q, k < i PROVE q[k].data < q[i].data
  <2>1. k # n + 1
    <3>1. k \in Int /\ i \in Int /\ n \in Nat /\ i <= n + 1
      BY <1>3
    <3> QED BY <1>8, <3>1
  <2>2. k \in DOMAIN p /\ q[k] = p[k]
    BY <1>3, <1>6, <2>1
  <2>3. CASE i = n + 1
    BY <1>3, <1>7, <2>2, <2>3
  <2>4. CASE i \in DOMAIN p
    <3>1. q[i] = p[i]
      BY <1>3, <2>4
    <3> QED BY <1>8, <2>2, <2>4, <3>1 DEF Increasing
  <2> QED BY <1>6, <2>3, <2>4
<1>9. ASSUME NEW i \in DOMAIN q PROVE q[i].data <= lh[q[i].job]
  <2>1. CASE i = n + 1
    BY <1>1, <1>2, <1>3, <2>1
  <2>2. CASE i \in DOMAIN p
    <3>1. q[i] = p[i]
      BY <1>3, <2>2
    <3>2. p[i].job \in Jobs /\ p[i].data \in Nat /\ p[i].data <= lg[p[i].job]
      BY <1>4, <1>7, <2>2
    <3>3. lg[p[i].job] \in Nat /\ lh[p[i].job] \in Nat /\ lg[p[i].job] <= lh[p[i].job]
      BY <1>2, <3>2
    <3> QED BY <3>1, <3>2, <3>3
  <2> QED BY <1>6, <2>1, <2>2
<1>10. ASSUME NEW k \in DOMAIN q, LastOne(q, k) PROVE q[k].data = lh[q[k].job]
  <2>1. CASE k = n + 1
    BY <1>2, <1>3, <2>1
  <2>2. CASE k \in DOMAIN p
    <3>1. q[k] = p[k]
      BY <1>3, <2>2
    <3>2. n + 1 \in DOMAIN q /\ n + 1 > k
      BY <1>3, <2>2
    <3>3. p[k].job # e.job /\ p[k].job \in Jobs
      BY <1>3, <1>4, <1>10, <2>2, <3>1, <3>2 DEF LastOne
    <3>4. ASSUME NEW m \in DOMAIN p, m > k PROVE p[m].job # p[k].job
      <4>1. m \in DOMAIN q /\ q[m] = p[m]
        BY <1>3
      <4> QED BY <1>10, <3>1, <3>4, <4>1 DEF LastOne
    <3>5. LastOne(p, k)
      BY <3>4 DEF LastOne
    <3> QED BY <1>2, <2>2, <3>1, <3>3, <3>5 DEF UpToDate
  <2> QED BY <1>6, <2>1, <2>2
<1>11. ASSUME NEW i \in DOMAIN t PROVE t[i].data <= lh[t[i].job]
  <2>1. t[i].job \in Jobs /\ t[i].data \in Nat /\ t[i].data <= lg[t[i].job]
    BY <1>5 DEF Below
  <2>2. lg[t[i].job] \in Nat /\ lh[t[i].job] \in Nat /\ lg[t[i].job] <= lh[t[i].job]
    BY <1>2, <2>1
  <2> QED BY <2>1, <2>2
<1> QED BY <1>3, <1>8, <1>9, <1>10, <1>11 DEF Increasing, Below, UpToDate, q, lh

\* The buffer stays, or becomes the batch when there is none.
Moves(w, v) ==
    \/ v.buffer = w.buffer /\ v.inflight = w.inflight
    \/ v.buffer = <<>> /\ v.inflight = w.buffer /\ w.inflight = <<>>

\* So it does when it has taken the entry e.
Takes(w, e, v) ==
    \/ v.buffer = Append(w.buffer, e) /\ v.inflight = w.inflight
    \/ v.buffer = <<>> /\ v.inflight = Append(w.buffer, e) /\ w.inflight = <<>>

LEMMA FlushedSays ==
    ASSUME NEW w, WalShape(w)
    PROVE  WalShape(Flushed(w)) /\ Moves(w, Flushed(w))
<1>1. CASE w.buffer = <<>> \/ w.flushing
  <2>1. Flushed(w) = [w EXCEPT !.timer = FALSE]
    BY <1>1 DEF Flushed
  <2> QED BY <2>1 DEF WalShape, Moves
<1>2. CASE ~(w.buffer = <<>> \/ w.flushing)
  <2>1. Flushed(w) = [buffer |-> <<>>, inflight |-> w.buffer, flushing |-> TRUE,
                      timer |-> FALSE, attempt |-> 1]
    BY <1>2 DEF Flushed
  <2> QED BY <1>2, <2>1 DEF WalShape, Moves
<1> QED BY <1>1, <1>2

LEMMA LoggedSays ==
    ASSUME NEW w, WalShape(w), NEW e \in Rec, ~Rejects(w)
    PROVE  WalShape(Logged(w, e)) /\ Takes(w, e, Logged(w, e))
<1> DEFINE p == Pushed(w, e)
<1>1. Append(w.buffer, e) \in Seq(Rec)
  BY DEF WalShape
<1>2. WalShape(p) /\ p.buffer = Append(w.buffer, e) /\ p.inflight = w.inflight
  BY <1>1 DEF WalShape, Pushed
<1> HIDE DEF p
<1>3. Logged(w, e) = IF Len(p.buffer) >= MaxBufferSize THEN Flushed(p) ELSE p
  BY DEF Logged, Rejects, p
<1>4. WalShape(Flushed(p)) /\ Moves(p, Flushed(p))
  BY <1>2, FlushedSays
<1>5. CASE Logged(w, e) = p
  BY <1>2, <1>5 DEF Takes
<1>6. CASE Logged(w, e) = Flushed(p)
  BY <1>2, <1>4, <1>6 DEF Takes, Moves
<1> QED BY <1>3, <1>5, <1>6

LEMMA PendingSays ==
    ASSUME NEW w, WalShape(w)
    PROVE  /\ w.buffer \in Seq(Rec) /\ w.inflight \in Seq(Rec) /\ Pending(w) \in Seq(Rec)
           /\ \A v : Moves(w, v) => Pending(v) = Pending(w)
           /\ \A v : \A e \in Rec : Takes(w, e, v) => Pending(v) = Append(Pending(w), e)
<1>1. w.buffer \in Seq(Rec) /\ w.inflight \in Seq(Rec) /\ Pending(w) \in Seq(Rec)
  BY ConcatProperties DEF WalShape, Pending
<1>2. \A s \in Seq(Rec) : s \o <<>> = s /\ <<>> \o s = s
  BY ConcatEmptySeq
<1>3. ASSUME NEW v, Moves(w, v) PROVE Pending(v) = Pending(w)
  BY <1>1, <1>2, <1>3 DEF Moves, Pending
<1>4. ASSUME NEW v, NEW e \in Rec, Takes(w, e, v) PROVE Pending(v) = Append(Pending(w), e)
  <2> DEFINE p == w.inflight
             q == w.buffer
             x == <<e>>
  <2>1. x \in Seq(Rec) /\ Append(q, e) = q \o x /\ Append(p \o q, e) = (p \o q) \o x
    <3>1. \A s \in Seq(Rec) : Append(s, e) = s \o <<e>>
      BY AppendIsConcat
    <3>2. p \o q \in Seq(Rec) /\ q \in Seq(Rec)
      BY <1>1 DEF Pending
    <3>3. x \in Seq(Rec)
      OBVIOUS
    <3>4. Append(q, e) = q \o x
      BY <3>1, <3>2
    <3>5. Append(p \o q, e) = (p \o q) \o x
      <4> HIDE DEF p, q
      <4> QED BY <3>1, <3>2
    <3> QED BY <3>3, <3>4, <3>5
  <2>2. \A a, b, c \in Seq(Rec) : (a \o b) \o c = a \o (b \o c)
    BY ConcatAssociative
  <2>3. (p \o q) \o x = p \o (q \o x)
    <3> HIDE DEF p, q, x
    <3>1. p \in Seq(Rec) /\ q \in Seq(Rec)
      BY <1>1 DEF p, q
    <3> QED BY ONLY <3>1, <2>1, <2>2
  <2>4. q \o x \in Seq(Rec)
    BY <1>1, <2>1, ConcatProperties
  <2>5. CASE v.buffer = Append(q, e) /\ v.inflight = p
    BY <2>1, <2>3, <2>5 DEF Pending
  <2>6. CASE v.buffer = <<>> /\ v.inflight = Append(q, e) /\ p = <<>>
    BY <1>1, <1>2, <2>1, <2>4, <2>6 DEF Pending
  <2> QED BY <1>4, <2>5, <2>6 DEF Takes
<1> QED BY <1>1, <1>3, <1>4

LEMMA LoggingOne ==
    ASSUME NEW e, LogAll(<<e>>)
    PROVE  wal' = Logged(wal, e)
<1> DEFINE es == <<e>>
<1>1. Len(es) = 1 /\ es[1] = e
  OBVIOUS
<1>2. Logging(es) = [i \in 0..1 |-> IF i = 0 THEN wal ELSE Logged(Logging(es)[i - 1], es[i])]
  <2> DEFINE G(f) == [i \in 0..1 |-> IF i = 0 THEN wal ELSE Logged(f[i - 1], es[i])]
             a == [i \in 0..1 |-> IF i = 0 THEN wal ELSE Logged(wal, es[1])]
  <2>1. a = G(a)
    <3>1. ASSUME NEW i \in 0..1
          PROVE  a[i] = IF i = 0 THEN wal ELSE Logged(a[i - 1], es[i])
      <4>1. i = 0 \/ (i = 1 /\ i - 1 = 0)
        BY <3>1
      <4>2. a[0] = wal /\ a[1] = Logged(wal, es[1])
        OBVIOUS
      <4> QED BY <4>1, <4>2
    <3> QED BY <3>1
  <2>2. Logging(es) = CHOOSE f : f = G(f)
    BY <1>1 DEF Logging
  <2> HIDE DEF G, a
  <2>3. Logging(es) = G(Logging(es))
    BY <2>1, <2>2
  <2> QED BY <2>3 DEF G
<1>3. 0 \in 0..1 /\ 1 \in 0..1 /\ 1 - 1 = 0
  OBVIOUS
<1>4. Logging(es)[0] = wal
  BY <1>2, <1>3
<1>5. Logging(es)[1] = Logged(wal, e)
  BY <1>1, <1>2, <1>3, <1>4
<1> QED BY <1>1, <1>5 DEF LogAll

-----------------------------------------------------------------------------
(***************************************************************************)
(* The invariant is inductive.                                             *)
(***************************************************************************)
\* A step of the log's memory alone that leaves what is pending as it is.
LEMMA MoveKeepsInv ==
    ASSUME WalInv, WalShape(wal'), Moves(wal, wal'), table' = table, logged' = logged
    PROVE  WalInv'
<1>1. Pending(wal') = Pending(wal)
  BY PendingSays DEF WalInv
<1>2. Covers(wal'.inflight, table)
  <2>1. CASE wal'.inflight = wal.inflight
    BY <2>1 DEF WalInv
  <2>2. CASE wal'.inflight = wal.buffer /\ wal.inflight = <<>>
    <3>1. Pending(wal) = wal.buffer
      <4>1. \A s \in Seq(Rec) : <<>> \o s = s
        BY ConcatEmptySeq
      <4> QED BY <2>2, <4>1, PendingSays DEF WalInv, Pending
    <3>2. UpToDate(wal.buffer, logged) /\ Below(table, logged)
      BY <3>1 DEF WalInv
    <3> QED BY <2>2, <3>2, UpToDateCovers
  <2> QED BY <2>1, <2>2 DEF Moves
<1> QED BY <1>1, <1>2 DEF WalInv

\* log() accepts an entry.
LEMMA LogKeepsInv ==
    ASSUME WalInv, NEW j \in Jobs, NEW event \in Events, Log(j, event)
    PROVE  WalInv'
<1> DEFINE e == Entry(j, event, Serial + 1)
<1>1. /\ WalShape(wal) /\ table \in Seq(Rec) /\ logged \in [Jobs -> 0..MaxLogged]
      /\ Increasing(Pending(wal)) /\ Below(Pending(wal), logged) /\ UpToDate(Pending(wal), logged)
      /\ Below(table, logged) /\ Tops(table) /\ Covers(wal.inflight, table)
  BY DEF WalInv
<1>2. Serial \in Nat /\ \A i \in Jobs : logged[i] <= Serial
  BY <1>1, SerialSays DEF Serial
<1>3. /\ Serial < MaxLogged /\ LogAll(<<e>>) /\ ~Rejects(wal) /\ table' = table
      /\ logged' = [logged EXCEPT ![j] = Serial + 1]
  BY DEF Log
<1>4. e \in Rec /\ e.job = j /\ e.data = Serial + 1
  BY <1>2 DEF Entry, Rec
<1> HIDE DEF e
<1>5. wal' = Logged(wal, e)
  BY <1>3, LoggingOne
<1>6. WalShape(wal') /\ Takes(wal, e, wal')
  BY <1>1, <1>3, <1>4, <1>5, LoggedSays
<1>7. MaxLogged \in Nat
  BY ClientsAssumption
<1>8. logged \in [Jobs -> Nat] /\ logged' \in [Jobs -> 0..MaxLogged]
  <2>1. Serial + 1 \in 0..MaxLogged
    BY <1>2, <1>3, <1>7
  <2> QED BY <1>1, <1>3, <1>7, <2>1
<1>9. \A i \in Jobs : logged[i] < e.data
  BY <1>2, <1>4, <1>8
<1>10. Pending(wal) \in Seq(Rec) /\ Pending(wal') = Append(Pending(wal), e)
  BY <1>1, <1>4, <1>6, PendingSays
<1>11. /\ Increasing(Pending(wal')) /\ Below(Pending(wal'), logged')
       /\ UpToDate(Pending(wal'), logged') /\ Below(table, logged')
  <2>1. logged' = [logged EXCEPT ![e.job] = e.data]
    BY <1>3, <1>4
  <2> DEFINE q == Append(Pending(wal), e)
             lh == [logged EXCEPT ![e.job] = e.data]
  <2>2. q \in Seq(Rec) /\ Increasing(q) /\ Below(q, lh) /\ UpToDate(q, lh) /\ Below(table, lh)
    BY <1>1, <1>4, <1>8, <1>9, <1>10, MoreLogged
  <2> HIDE DEF q, lh
  <2>3. Pending(wal') = q /\ logged' = lh
    BY <1>10, <2>1 DEF q, lh
  <2> QED BY <2>2, <2>3
<1>12. Covers(wal'.inflight, table)
  <2>1. CASE wal'.inflight = wal.inflight
    BY <1>1, <2>1
  <2>2. CASE wal'.buffer = <<>>
    <3>1. Pending(wal') = wal'.inflight
      <4>1. \A s \in Seq(Rec) : s \o <<>> = s
        BY ConcatEmptySeq
      <4> QED BY <1>6, <2>2, <4>1, PendingSays DEF Pending
    <3> QED BY <1>11, <3>1, UpToDateCovers
  <2> QED BY <1>6, <2>1, <2>2 DEF Takes
<1> QED BY <1>1, <1>3, <1>6, <1>8, <1>11, <1>12 DEF WalInv

\* The table after an INSERT, whose batch is in it or not.
LEMMA InsertedTable ==
    ASSUME WalInv, table' = table \/ table' = table \o wal.inflight
    PROVE  /\ table' \in Seq(Rec) /\ Tops(table') /\ Below(table', logged)
           /\ Covers(wal.inflight, table')
<1>1. MaxLogged \in Nat
  BY ClientsAssumption
<1>2. /\ table \in Seq(Rec) /\ wal.inflight \in Seq(Rec) /\ wal.buffer \in Seq(Rec)
      /\ Tops(table) /\ Below(table, logged) /\ Covers(wal.inflight, table)
      /\ logged \in [Jobs -> Nat]
  BY <1>1, PendingSays DEF WalInv
<1>3. Increasing(wal.inflight) /\ Below(wal.inflight, logged)
  BY <1>2, EndOf DEF WalInv, Pending
<1> QED BY <1>2, <1>3, TableGrows

LEMMA CommittedSays ==
    ASSUME WalInv, NEW rows \in Committed, table' = table \o rows
    PROVE  table' = table \/ table' = table \o wal.inflight
<1>1. table \o <<>> = table
  BY ConcatEmptySeq DEF WalInv
<1> QED BY <1>1 DEF Committed

\* The end of flush().
LEMMA SettledSays ==
    ASSUME NEW w, WalShape(w), NEW back \in Seq(Rec)
    PROVE  /\ WalShape(Settled(w, back))
           /\ Settled(w, back).inflight = <<>>
           /\ Settled(w, back).buffer = back \o w.buffer
<1> DEFINE b == back \o w.buffer
           t == w.timer \/ b # <<>>
<1>1. b \in Seq(Rec)
  BY ConcatProperties DEF WalShape
<1>2. t \in BOOLEAN
  BY Zenon
<1>3. Settled(w, back) = [w EXCEPT !.buffer = b, !.inflight = <<>>, !.flushing = FALSE, !.timer = t]
  BY DEF Settled
<1> HIDE DEF b, t
<1>4. <<>> \in Seq(Rec)
  OBVIOUS
<1> QED BY <1>1, <1>2, <1>3, <1>4 DEF WalShape, b

\* The INSERT succeeds.
LEMMA SucceedsKeepsInv ==
    ASSUME WalInv, InsertSucceeds, logged' = logged
    PROVE  WalInv'
<1>1. WalShape(wal) /\ wal.inflight \in Seq(Rec) /\ wal.buffer \in Seq(Rec)
  BY PendingSays DEF WalInv
<1>2. /\ Increasing(wal.buffer) /\ Below(wal.buffer, logged) /\ UpToDate(wal.buffer, logged)
  BY <1>1, EndOf DEF WalInv, Pending
<1>3. /\ table' \in Seq(Rec) /\ Tops(table') /\ Below(table', logged)
  BY InsertedTable DEF InsertSucceeds
<1>4. \A s \in Seq(Rec) : <<>> \o s = s
  BY ConcatEmptySeq
<1>5. <<>> \in Seq(Rec) /\ <<>> \o wal.buffer = wal.buffer
  BY <1>1, <1>4, NothingPending
<1>6. WalShape(wal') /\ wal'.inflight = <<>> /\ wal'.buffer = wal.buffer
  BY <1>1, <1>5, SettledSays DEF InsertSucceeds
<1>7. Pending(wal') = wal.buffer
  BY <1>1, <1>4, <1>6 DEF Pending
<1>8. Covers(<<>>, table')
  BY NothingPending
<1> QED BY <1>2, <1>3, <1>6, <1>7, <1>8 DEF WalInv

\* The INSERT fails and is repeated.
LEMMA FailsKeepsInv ==
    ASSUME WalInv, InsertFails, logged' = logged
    PROVE  WalInv'
<1>1. /\ wal' = [wal EXCEPT !.attempt = @ + 1]
      /\ table' = table \/ table' = table \o wal.inflight
  BY CommittedSays DEF InsertFails
<1>2. /\ WalShape(wal') /\ wal'.inflight = wal.inflight /\ wal'.buffer = wal.buffer
  <2>1. PICK w, v : w = wal /\ v = wal'
    OBVIOUS
  <2>2. WalShape(w) /\ v = [w EXCEPT !.attempt = @ + 1]
    BY <1>1, <2>1 DEF WalInv
  <2>3. v.inflight = w.inflight /\ v.buffer = w.buffer /\ v.flushing = w.flushing
    BY <2>2 DEF WalShape
  <2>4. v \in [buffer : Seq(Rec), inflight : Seq(Rec), flushing : BOOLEAN,
               timer : BOOLEAN, attempt : Nat]
    BY <2>2 DEF WalShape
  <2>5. WalShape(v)
    BY <2>2, <2>3, <2>4 DEF WalShape
  <2> QED BY <2>1, <2>3, <2>5
<1>3. Pending(wal') = Pending(wal)
  BY <1>2 DEF Pending
<1>4. /\ table' \in Seq(Rec) /\ Tops(table') /\ Below(table', logged)
      /\ Covers(wal.inflight, table')
  BY <1>1, InsertedTable
<1> QED BY <1>2, <1>3, <1>4 DEF WalInv

\* The INSERT fails for the last time.
LEMMA GivesUpKeepsInv ==
    ASSUME WalInv, InsertGivesUp, logged' = logged
    PROVE  WalInv'
<1>1. WalShape(wal) /\ Pending(wal) \in Seq(Rec)
  BY PendingSays DEF WalInv
<1>2. table' = table \/ table' = table \o wal.inflight
  BY CommittedSays DEF InsertGivesUp
<1>3. /\ table' \in Seq(Rec) /\ Tops(table') /\ Below(table', logged)
  BY <1>2, InsertedTable
<1>4. wal.inflight \in Seq(Rec) /\ Pending(wal) = wal.inflight \o wal.buffer
  BY <1>1, PendingSays DEF Pending
<1>5. WalShape(wal') /\ wal'.inflight = <<>> /\ wal'.buffer = Pending(wal)
  BY <1>1, <1>4, SettledSays DEF InsertGivesUp, ReturnBatch
<1>6. Pending(wal') = Pending(wal)
  <2>1. \A s \in Seq(Rec) : <<>> \o s = s
    BY ConcatEmptySeq
  <2>2. Pending(wal') = <<>> \o Pending(wal)
    BY <1>5 DEF Pending
  <2> QED BY <1>1, <2>1, <2>2
<1>7. Covers(<<>>, table')
  BY NothingPending
<1> QED BY <1>3, <1>5, <1>6, <1>7 DEF WalInv

\* prune() deletes all or nothing of a job.
LEMMA PruneKeepsInv ==
    ASSUME WalInv, Prune, logged' = logged
    PROVE  WalInv'
<1>1. PICK S : table' = RowsAt(table, {i \in DOMAIN table : table[i].job \notin S}) /\ wal' = wal
  BY DEF Prune
<1> DEFINE P == {i \in DOMAIN table : table[i].job \notin S}
<1>2. /\ table \in Seq(Rec) /\ Tops(table) /\ Below(table, logged)
      /\ Covers(wal.inflight, table)
  BY DEF WalInv
<1>3. PICK g : PickedBy(g, table', table, P, Len(table))
  BY <1>1, <1>2, RowsAtPicks
<1>4. \A i \in DOMAIN table : \A k \in DOMAIN table :
         table[i].job = table[k].job /\ i \in P => k \in P
  OBVIOUS
<1>5. DOMAIN table = 1..Len(table)
  BY <1>2, RecFacts
<1> HIDE DEF P
<1>6. table' \in Seq(Rec) /\ \A i \in DOMAIN table' : g[i] \in DOMAIN table /\ table'[i] = table[g[i]]
  BY <1>3, <1>5 DEF PickedBy
<1>7. Below(table', logged)
  BY <1>2, <1>6 DEF Below
<1>8. Covers(wal.inflight, table')
  BY <1>2, <1>6 DEF Covers
<1>9. ASSUME NEW k \in DOMAIN table', LastOne(table', k), NEW i \in DOMAIN table',
             table'[i].job = table'[k].job
      PROVE  table'[i].data <= table'[k].data
  <2>1. LastOne(table, g[k])
    BY <1>2, <1>3, <1>4, <1>9, LastPicked
  <2>2. /\ g[k] \in DOMAIN table /\ table'[k] = table[g[k]]
        /\ g[i] \in DOMAIN table /\ table'[i] = table[g[i]]
    BY <1>6, <1>9
  <2>3. table[g[i]].job = table[g[k]].job
    BY <1>9, <2>2
  <2>4. table[g[i]].data <= table[g[k]].data
    BY <1>2, <2>1, <2>2, <2>3 DEF Tops
  <2> QED BY <2>2, <2>4
<1>10. Tops(table')
  BY <1>9 DEF Tops
<1> QED BY <1>1, <1>6, <1>7, <1>8, <1>10 DEF WalInv

LEMMA InitWalInv ==
    InitClients => WalInv
<1> SUFFICES ASSUME InitClients PROVE WalInv
  OBVIOUS
<1>1. MaxLogged \in Nat
  BY ClientsAssumption
<1>2. wal = EmptyWal /\ table = <<>> /\ logged \in [Jobs -> 0..MaxLogged]
  BY <1>1 DEF InitClients, InitWal
<1>3. <<>> \o <<>> = <<>>
  BY NothingPending, ConcatEmptySeq
<1>4. WalShape(wal) /\ wal.inflight = <<>> /\ Pending(wal) = <<>>
  BY <1>2, <1>3, NothingPending DEF EmptyWal, WalShape, Pending
<1> QED BY <1>2, <1>4, NothingPending DEF WalInv

LEMMA NextWalInv ==
    WalInv /\ [NextClients]_clientsVars => WalInv'
<1> SUFFICES ASSUME WalInv, [NextClients]_clientsVars PROVE WalInv'
  OBVIOUS
<1>1. CASE UNCHANGED clientsVars
  BY <1>1 DEF clientsVars, WalInv
<1>2. ASSUME NEW j \in Jobs, NEW event \in {"enqueued", "completed"}, Log(j, event)
      PROVE  WalInv'
  <2>1. event \in Events
    BY DEF Events
  <2> QED BY <1>2, <2>1, LogKeepsInv
<1>3. CASE TimerFires /\ logged' = logged
  <2>1. WalShape(wal') /\ Moves(wal, wal')
    BY <1>3, FlushedSays DEF TimerFires, WalInv
  <2> QED BY <1>3, <2>1, MoveKeepsInv DEF TimerFires
<1>4. CASE InsertSucceeds /\ logged' = logged
  BY <1>4, SucceedsKeepsInv
<1>5. CASE InsertFails /\ logged' = logged
  BY <1>5, FailsKeepsInv
<1>6. CASE InsertGivesUp /\ logged' = logged
  BY <1>6, GivesUpKeepsInv
<1>7. CASE Prune /\ logged' = logged
  BY <1>7, PruneKeepsInv
<1> QED BY <1>1, <1>2, <1>3, <1>4, <1>5, <1>6, <1>7 DEF NextClients, WalSteps

-----------------------------------------------------------------------------
(***************************************************************************)
(* What it says of the rows of one job.                                    *)
(***************************************************************************)
\* The last row of j among those of s is the last of j in s.
LEMMA RowsOfSays ==
    ASSUME NEW s \in Seq(Rec), NEW j
    PROVE  LET r == RowsOf(s, j)
           IN  /\ r \in Seq(Rec)
               /\ \E g : /\ \A i \in DOMAIN r : /\ g[i] \in DOMAIN s /\ r[i] = s[g[i]]
                                                /\ s[g[i]].job = j
                         /\ \A i \in DOMAIN r : \A k \in DOMAIN r : k < i => g[k] < g[i]
                         /\ r # <<>> => Len(r) \in DOMAIN r /\ LastOne(s, g[Len(r)])
<1> DEFINE P == {i \in DOMAIN s : s[i].job = j}
           r == RowsOf(s, j)
<1>1. PICK g : PickedBy(g, r, s, P, Len(s))
  BY RowsAtPicks DEF RowsOf
<1>2. DOMAIN s = 1..Len(s)
  BY RecFacts
<1>3. \A i \in DOMAIN s : \A k \in DOMAIN s : s[i].job = s[k].job /\ i \in P => k \in P
  OBVIOUS
<1>4. \A i \in P : s[i].job = j
  OBVIOUS
<1> HIDE DEF P, r
<1>5. r \in Seq(Rec)
  BY <1>1 DEF PickedBy
<1>6. \A i \in DOMAIN r : g[i] \in DOMAIN s /\ r[i] = s[g[i]] /\ s[g[i]].job = j
  BY <1>1, <1>2, <1>4 DEF PickedBy
<1>7. \A i \in DOMAIN r : \A k \in DOMAIN r : k < i => g[k] < g[i]
  BY <1>1 DEF PickedBy
<1>8. ASSUME r # <<>> PROVE Len(r) \in DOMAIN r /\ LastOne(s, g[Len(r)])
  <2>1. Len(r) \in DOMAIN r /\ \A m \in DOMAIN r : ~(m > Len(r))
    BY <1>5, <1>8, RecFacts, EmptySeq
  <2>2. LastOne(r, Len(r))
    BY <2>1 DEF LastOne
  <2> QED BY <1>1, <1>3, <2>1, <2>2, LastPicked
<1> QED BY <1>5, <1>6, <1>7, <1>8 DEF r

LEMMA InvImpliesNewest ==
    WalInv => LatestIsNewest
<1> SUFFICES ASSUME WalInv, NEW j \in Jobs
             PROVE  LET rows == RowsOf(table, j)
                        pending == RowsOf(Pending(wal), j)
                    IN  /\ \A i \in DOMAIN rows : rows[i].data <= Last(rows).data
                        /\ \A i \in DOMAIN pending : \A k \in 1..(i - 1) :
                             pending[k].data < pending[i].data
                        /\ pending # <<>> => Last(pending).data = logged[j]
  BY DEF LatestIsNewest, Pending
<1> DEFINE p == Pending(wal)
           rows == RowsOf(table, j)
           pending == RowsOf(p, j)
<1>1. /\ table \in Seq(Rec) /\ p \in Seq(Rec) /\ Tops(table)
      /\ Increasing(p) /\ UpToDate(p, logged)
  BY PendingSays DEF WalInv
<1>2. PICK g : /\ \A i \in DOMAIN rows : /\ g[i] \in DOMAIN table /\ rows[i] = table[g[i]]
                                         /\ table[g[i]].job = j
               /\ rows # <<>> => Len(rows) \in DOMAIN rows /\ LastOne(table, g[Len(rows)])
  BY <1>1, RowsOfSays
<1>3. PICK h : /\ \A i \in DOMAIN pending : /\ h[i] \in DOMAIN p /\ pending[i] = p[h[i]]
                                            /\ p[h[i]].job = j
               /\ \A i \in DOMAIN pending : \A k \in DOMAIN pending : k < i => h[k] < h[i]
               /\ pending # <<>> => Len(pending) \in DOMAIN pending /\ LastOne(p, h[Len(pending)])
  BY <1>1, RowsOfSays
<1>4. pending \in Seq(Rec)
  BY <1>1, RowsOfSays
<1> HIDE DEF p, rows, pending
<1>5. ASSUME NEW i \in DOMAIN rows PROVE rows[i].data <= Last(rows).data
  <2>1. rows # <<>>
    BY <1>5
  <2>2. Last(rows) = table[g[Len(rows)]]
    BY <1>2, <2>1 DEF Last
  <2> QED BY <1>1, <1>2, <1>5, <2>1, <2>2 DEF Tops
<1>6. ASSUME NEW i \in DOMAIN pending, NEW k \in 1..(i - 1)
      PROVE  pending[k].data < pending[i].data
  <2>1. k \in DOMAIN pending /\ k < i
    BY <1>4, <1>6, RecFacts
  <2> QED BY <1>1, <1>3, <1>6, <2>1 DEF Increasing
<1>7. ASSUME pending # <<>> PROVE Last(pending).data = logged[j]
  BY <1>1, <1>3, <1>7 DEF Last, UpToDate
<1> QED BY <1>5, <1>6, <1>7 DEF p, rows, pending

(* BatchedJobWAL.ts: whatever is retried, returned to the buffer or        *)
(* inserted twice, and whatever prune() deletes, the latest row of a job   *)
(* in the table is its newest, and what waits in memory is newer still.    *)
THEOREM LatestIsNewestHolds ==
    ClientsSpec => []LatestIsNewest
<1>1. ClientsSpec => []WalInv
  BY InitWalInv, NextWalInv, PTL DEF ClientsSpec
<1>2. WalInv => LatestIsNewest
  BY InvImpliesNewest
<1> QED BY <1>1, <1>2, PTL

-----------------------------------------------------------------------------
(***************************************************************************)
(* The append-only file.                                                   *)
(***************************************************************************)
StoreShape == [text : Nat, timed : BOOLEAN, list : Nat, queue : Nat]

\* Only a key that is there has a TTL, and a command sets no empty string.
Stores == {m \in StoreShape : m.timed => m.text > 0}

Verbs == MutatingVerbs \cup {"GET"}
LogLines == {e \in [verb : Verbs \cup {"junk"}, value : Nat] :
               e.verb \in {"SET", "SETEX"} => e.value > 0}

(***************************************************************************)
(* A replay, line by line: f[i] is what the first i lines make of m.       *)
(***************************************************************************)
ReplayOf(f, m, lines, n) ==
    f = [i \in 0..n |-> IF i = 0 THEN m ELSE Applied(f[i - 1], lines[i])]

\* Every log has a replay, so that Replayed is its last value.
LEMMA ReplayExists ==
    ASSUME NEW m, NEW lines, NEW n \in Nat
    PROVE  \E f : ReplayOf(f, m, lines, n)
<1> DEFINE T == {k \in Nat : ~\E f : ReplayOf(f, m, lines, k)}
<1> SUFFICES ASSUME T # {} PROVE FALSE
  OBVIOUS
<1>1. PICK k \in T : \A j \in T : k <= j
  <2>1. T \subseteq Nat
    OBVIOUS
  <2> HIDE DEF T
  <2> QED
    BY <2>1, FirstNumber
<1>2. CASE k = 0
  <2> DEFINE f == [i \in 0..0 |-> m]
  <2>1. f = [i \in 0..0 |-> IF i = 0 THEN m ELSE Applied(f[i - 1], lines[i])]
    OBVIOUS
  <2> QED
    BY <2>1, <1>1, <1>2 DEF ReplayOf
<1>3. CASE k # 0
  <2>1. k - 1 \in Nat /\ k - 1 \notin T
    BY <1>1, <1>3
  <2>2. PICK f : ReplayOf(f, m, lines, k - 1)
    BY <2>1
  <2> DEFINE g == [i \in 0..k |-> IF i = k THEN Applied(f[k - 1], lines[k]) ELSE f[i]]
  <2>3. \A i \in 0..k : g[i] = IF i = 0 THEN m ELSE Applied(g[i - 1], lines[i])
    BY <1>1, <1>3, <2>2 DEF ReplayOf
  <2>4. ReplayOf(g, m, lines, k)
    BY <2>3 DEF ReplayOf
  <2> QED
    BY <2>4, <1>1
<1> QED
  BY <1>2, <1>3

LEMMA ReplayedIs ==
    ASSUME NEW m, NEW lines, Len(lines) \in Nat
    PROVE  \E f : ReplayOf(f, m, lines, Len(lines)) /\ Replayed(m, lines) = f[Len(lines)]
<1> DEFINE f == CHOOSE f : ReplayOf(f, m, lines, Len(lines))
<1>1. ReplayOf(f, m, lines, Len(lines))
  BY ReplayExists
<1>2. Replayed(m, lines) = f[Len(lines)]
  BY DEF Replayed, ReplayOf
<1> QED
  BY <1>1, <1>2

LEMMA ReplaySteps ==
    ASSUME NEW f, NEW m, NEW lines, NEW n \in Nat, ReplayOf(f, m, lines, n)
    PROVE  /\ f[0] = m
           /\ \A i \in 1..n : f[i] = Applied(f[i - 1], lines[i])
BY DEF ReplayOf

\* Two replays of the same lines from the same stores agree.
LEMMA ReplaysAgree ==
    ASSUME NEW f, NEW g, NEW m, NEW s, NEW t, NEW k \in Nat, NEW l \in Nat, NEW n \in Nat,
           n <= k, n <= l,
           ReplayOf(f, m, s, k), ReplayOf(g, m, t, l),
           \A i \in 1..n : s[i] = t[i]
    PROVE  f[n] = g[n]
<1> DEFINE T == {i \in 0..n : f[i] # g[i]}
<1> SUFFICES ASSUME T # {} PROVE FALSE
  OBVIOUS
<1>1. PICK x \in T : \A y \in T : x <= y
  <2>1. T \subseteq Nat
    OBVIOUS
  <2> HIDE DEF T
  <2> QED
    BY <2>1, FirstNumber
<1>2. x # 0
  BY <1>1, ReplaySteps
<1>3. x - 1 \in 0..n /\ x - 1 \notin T
  BY <1>1, <1>2
<1>4. f[x - 1] = g[x - 1]
  BY <1>3
<1>5. x \in 1..k /\ x \in 1..l /\ x \in 1..n
  BY <1>1, <1>2
<1>6. f[x] = Applied(f[x - 1], s[x]) /\ g[x] = Applied(g[x - 1], t[x])
  <2>1. \A i \in 1..k : f[i] = Applied(f[i - 1], s[i])
    BY ReplaySteps
  <2>2. \A i \in 1..l : g[i] = Applied(g[i - 1], t[i])
    BY ReplaySteps
  <2> QED
    BY <2>1, <2>2, <1>5
<1> QED
  BY <1>4, <1>5, <1>6, <1>1

LEMMA ReplayedEmpty ==
    ASSUME NEW m
    PROVE  Replayed(m, <<>>) = m
<1>1. Len(<<>>) = 0
  OBVIOUS
<1>2. PICK f : ReplayOf(f, m, <<>>, 0) /\ Replayed(m, <<>>) = f[0]
  BY <1>1, ReplayedIs
<1> QED
  BY <1>2, ReplaySteps

\* One line more is one command more.
LEMMA ReplayedAppend ==
    ASSUME NEW m, NEW s \in Seq(LogLines), NEW e \in LogLines
    PROVE  Replayed(m, Append(s, e)) = Applied(Replayed(m, s), e)
<1> DEFINE t == Append(s, e)
           n == Len(s)
<1>1. /\ n \in Nat /\ Len(t) = n + 1 /\ t[n + 1] = e
      /\ \A i \in 1..n : s[i] = t[i]
  BY LenProperties
<1> HIDE DEF t
<1>2. PICK f : ReplayOf(f, m, s, n) /\ Replayed(m, s) = f[n]
  BY <1>1, ReplayedIs
<1>3. PICK g : ReplayOf(g, m, t, n + 1) /\ Replayed(m, t) = g[n + 1]
  BY <1>1, ReplayedIs
<1> HIDE DEF n
<1>4. f[n] = g[n]
  <2>1. n + 1 \in Nat /\ n <= n /\ n <= n + 1
    BY <1>1
  <2> QED
    BY <1>1, <1>2, <1>3, <2>1, ReplaysAgree
<1>5. g[n + 1] = Applied(g[n], t[n + 1])
  <2>1. n + 1 \in Nat /\ n + 1 \in 1..n + 1 /\ (n + 1) - 1 = n
    BY <1>1
  <2>2. \A i \in 1..n + 1 : g[i] = Applied(g[i - 1], t[i])
    BY <1>3, <2>1, ReplaySteps
  <2>3. g[n + 1] = Applied(g[(n + 1) - 1], t[n + 1])
    BY <2>1, <2>2
  <2>4. g[(n + 1) - 1] = g[n]
    BY <2>1, Zenon
  <2> QED
    BY <2>3, <2>4, Zenon
<1> QED
  BY <1>1, <1>2, <1>3, <1>4, <1>5 DEF t

-----------------------------------------------------------------------------
(* What one line does to the stores, and what the lines of a log do.       *)

LEMMA AppliedType ==
    ASSUME NEW m \in Stores, NEW e \in LogLines
    PROVE  Applied(m, e) \in Stores
<1>1. /\ m.text \in Nat /\ m.timed \in BOOLEAN /\ m.list \in Nat /\ m.queue \in Nat
      /\ m.timed => m.text > 0
  BY DEF Stores, StoreShape
<1>2. e.value \in Nat /\ (e.verb \in {"SET", "SETEX"} => e.value > 0)
  BY DEF LogLines
<1>3. TextAfter(m, e) \in Nat
  BY <1>1, <1>2 DEF TextAfter
<1>4. TimedAfter(m, e) \in BOOLEAN
  BY <1>1, <1>2 DEF TimedAfter
<1>5. TimedAfter(m, e) => TextAfter(m, e) > 0
  <2>1. CASE e.verb = "SETEX"
    BY <1>2, <2>1 DEF TextAfter
  <2>2. CASE e.verb \in {"SET", "PERSIST", "DEL", "FLUSHDB"}
    BY <2>2 DEF TimedAfter
  <2>3. CASE e.verb \notin {"SETEX", "SET", "PERSIST", "DEL", "FLUSHDB"}
    <3>1. TextAfter(m, e) = m.text /\ (TimedAfter(m, e) => m.text # 0 \/ m.timed)
      BY <2>3 DEF TextAfter, TimedAfter
    <3> QED BY <1>1, <3>1
  <2> QED BY <2>1, <2>2, <2>3
<1>6. ListAfter(m.list, e) \in Nat
  BY <1>1, <1>2 DEF ListAfter
<1>7. QueueAfter(m.queue, e) \in Nat
  BY <1>1, <1>2 DEF QueueAfter
<1> QED BY <1>3, <1>4, <1>5, <1>6, <1>7 DEF Applied, Stores, StoreShape

\* A line that mutates nothing.
LEMMA AppliedSame ==
    ASSUME NEW m \in Stores, NEW e, e.verb \notin MutatingVerbs
    PROVE  Applied(m, e) = m
<1>1. /\ TextAfter(m, e) = m.text /\ TimedAfter(m, e) = m.timed
      /\ ListAfter(m.list, e) = m.list /\ QueueAfter(m.queue, e) = m.queue
  BY DEF MutatingVerbs, TextAfter, TimedAfter, ListAfter, QueueAfter
<1> QED BY <1>1 DEF Applied, Stores, StoreShape

LEMMA JunkApplied ==
    /\ Junk \in LogLines
    /\ \A m \in Stores : Applied(m, Junk) = m
<1>1. Junk.verb \notin MutatingVerbs /\ Junk.verb \notin {"SET", "SETEX"}
  BY DEF Junk, MutatingVerbs
<1>2. Junk \in LogLines
  BY <1>1 DEF Junk, LogLines
<1> QED BY <1>1, <1>2, AppliedSame

LEMMA ReplayTypes ==
    ASSUME NEW f, NEW m \in Stores, NEW lines \in Seq(LogLines),
           ReplayOf(f, m, lines, Len(lines))
    PROVE  \A i \in 0..Len(lines) : f[i] \in Stores
<1> DEFINE T == {i \in 0..Len(lines) : f[i] \notin Stores}
<1> SUFFICES ASSUME T # {} PROVE FALSE
  OBVIOUS
<1>1. PICK x \in T : \A y \in T : x <= y
  <2>1. T \subseteq Nat
    OBVIOUS
  <2> HIDE DEF T
  <2> QED
    BY <2>1, FirstNumber
<1>2. Len(lines) \in Nat
  BY LenProperties
<1>3. x # 0
  BY <1>1, <1>2, ReplaySteps
<1>4. x - 1 \in 0..Len(lines) /\ x - 1 \notin T /\ x \in 1..Len(lines)
  BY <1>1, <1>2, <1>3
<1>5. f[x - 1] \in Stores /\ lines[x] \in LogLines
  BY <1>4, LenProperties
<1>6. f[x] = Applied(f[x - 1], lines[x])
  <2>1. \A i \in 1..Len(lines) : f[i] = Applied(f[i - 1], lines[i])
    BY <1>2, ReplaySteps
  <2> QED
    BY <2>1, <1>4
<1> QED
  BY <1>1, <1>5, <1>6, AppliedType

LEMMA ReplayedType ==
    ASSUME NEW m \in Stores, NEW lines \in Seq(LogLines)
    PROVE  Replayed(m, lines) \in Stores
<1>1. Len(lines) \in Nat
  BY LenProperties
<1>2. PICK f : ReplayOf(f, m, lines, Len(lines)) /\ Replayed(m, lines) = f[Len(lines)]
  BY <1>1, ReplayedIs
<1>3. f[Len(lines)] \in Stores
  BY <1>1, <1>2, ReplayTypes
<1> QED
  BY <1>2, <1>3

\* A log may lose lines that do not parse from its end, or gain some.
LEMMA ReplayedJunk ==
    ASSUME NEW m \in Stores, NEW s \in Seq(LogLines), NEW t \in Seq(LogLines), NEW n \in Nat,
           n <= Len(s), n <= Len(t),
           \A i \in 1..n : s[i] = t[i],
           \A i \in n+1..Len(s) : s[i] = Junk,
           \A i \in n+1..Len(t) : t[i] = Junk
    PROVE  Replayed(m, s) = Replayed(m, t)
<1>1. Len(s) \in Nat /\ Len(t) \in Nat
  BY LenProperties
<1>2. PICK f : ReplayOf(f, m, s, Len(s)) /\ Replayed(m, s) = f[Len(s)]
  BY <1>1, ReplayedIs
<1>3. PICK g : ReplayOf(g, m, t, Len(t)) /\ Replayed(m, t) = g[Len(t)]
  BY <1>1, ReplayedIs
<1>4. f[n] = g[n]
  BY <1>1, <1>2, <1>3, ReplaysAgree
<1>5. ASSUME NEW u, NEW h, NEW k \in Nat, n <= k, ReplayOf(h, m, u, k),
             \A i \in 0..k : h[i] \in Stores,
             \A i \in n+1..k : u[i] = Junk
      PROVE  h[k] = h[n]
  <2> DEFINE T == {i \in n..k : h[i] # h[n]}
  <2> SUFFICES ASSUME T # {} PROVE FALSE
    BY <1>5
  <2>1. PICK x \in T : \A y \in T : x <= y
    <3>1. T \subseteq Nat
      OBVIOUS
    <3> HIDE DEF T
    <3> QED
      BY <3>1, FirstNumber
  <2>2. x # n
    BY <2>1
  <2>3. x - 1 \in n..k /\ x - 1 \notin T /\ x \in 1..k /\ x \in n+1..k
    BY <2>1, <2>2
  <2>4. h[x - 1] = h[n] /\ u[x] = Junk
    BY <2>3, <1>5
  <2>5. h[x] = Applied(h[x - 1], u[x])
    <3>1. \A i \in 1..k : h[i] = Applied(h[i - 1], u[i])
      BY <1>5, ReplaySteps
    <3> QED
      BY <3>1, <2>3
  <2>6. h[x - 1] \in Stores
    BY <2>3, <1>5
  <2> QED
    BY <2>1, <2>4, <2>5, <2>6, JunkApplied
<1>6. f[Len(s)] = f[n]
  <2>1. \A i \in 0..Len(s) : f[i] \in Stores
    BY <1>2, ReplayTypes
  <2> QED
    BY <1>1, <1>2, <1>5, <2>1
<1>7. g[Len(t)] = g[n]
  <2>1. \A i \in 0..Len(t) : g[i] \in Stores
    BY <1>3, ReplayTypes
  <2> QED
    BY <1>1, <1>3, <1>5, <2>1
<1> QED
  BY <1>2, <1>3, <1>4, <1>6, <1>7

(***************************************************************************)
(* Two stores that differ only where the log is known to say less than the *)
(* stores do: a command keeps them so.                                     *)
(***************************************************************************)
Alike(m, n, gaps) ==
    /\ m.queue = n.queue
    /\ gaps \cap TextSlips = {} => m.text = n.text /\ m.timed = n.timed
    /\ gaps \cap ListSlips = {} => m.list = n.list

LEMMA AlikeApplied ==
    ASSUME NEW m, NEW n, NEW gaps, NEW e, Alike(m, n, gaps)
    PROVE  Alike(Applied(m, e), Applied(n, e), gaps)
<1>1. /\ Applied(m, e).queue = QueueAfter(m.queue, e) /\ Applied(n, e).queue = QueueAfter(n.queue, e)
      /\ Applied(m, e).list = ListAfter(m.list, e) /\ Applied(n, e).list = ListAfter(n.list, e)
      /\ Applied(m, e).text = TextAfter(m, e) /\ Applied(n, e).text = TextAfter(n, e)
      /\ Applied(m, e).timed = TimedAfter(m, e) /\ Applied(n, e).timed = TimedAfter(n, e)
  BY DEF Applied
<1>2. ASSUME m.text = n.text, m.timed = n.timed
      PROVE  TextAfter(m, e) = TextAfter(n, e) /\ TimedAfter(m, e) = TimedAfter(n, e)
  BY <1>2 DEF TextAfter, TimedAfter
<1> QED BY <1>1, <1>2, Zenon DEF Alike

LEMMA AlikeItself == ASSUME NEW m, NEW gaps PROVE Alike(m, m, gaps)
BY DEF Alike

\* More of the stores may be missing from the log.
LEMMA AlikeStill ==
    ASSUME NEW m, NEW n, NEW gaps, NEW more, Alike(m, n, gaps), gaps \subseteq more
    PROVE  Alike(m, n, more)
BY DEF Alike

(***************************************************************************)
(* The same log over two stores.                                           *)
(***************************************************************************)

LEMMA ListAfterType ==
    ASSUME NEW n \in Nat, NEW e \in LogLines
    PROVE  ListAfter(n, e) \in Nat
BY DEF ListAfter, LogLines

\* Two lengths x and y that started as b and o: their difference shrinks.
Closer(x, y, b, o) ==
    /\ b >= o => x >= y /\ x - y <= b - o
    /\ b <= o => x <= y /\ y - x <= o - b

LEMMA StillCloser ==
    ASSUME NEW b \in Nat, NEW o \in Nat, NEW x \in Nat, NEW y \in Nat, NEW u \in Nat, NEW v \in Nat,
           Closer(x, y, b, o),
           x >= y => u >= v /\ u - v <= x - y,
           x <= y => u <= v /\ v - u <= y - x
    PROVE  Closer(u, v, b, o)
BY DEF Closer

LEMMA ListCloser ==
    ASSUME NEW x \in Nat, NEW y \in Nat, NEW e \in LogLines, x >= y
    PROVE  /\ ListAfter(x, e) >= ListAfter(y, e)
           /\ ListAfter(x, e) - ListAfter(y, e) <= x - y
<1>1. e.value \in Nat
  BY DEF LogLines
<1>2. CASE e.verb = "RPUSH"
  BY <1>1, <1>2 DEF ListAfter
<1>3. CASE e.verb = "LPOP"
  <2>1. \A n \in Nat : ListAfter(n, e) = IF n > 0 THEN n - 1 ELSE n
    BY <1>3 DEF ListAfter
  <2> QED BY <2>1
<1>4. CASE e.verb = "LTRIM"
  <2>1. \A n \in Nat : ListAfter(n, e) = IF n > 1 THEN 1 ELSE n
    BY <1>4 DEF ListAfter
  <2> QED BY <2>1
<1>5. CASE e.verb = "FLUSHDB"
  <2>1. \A n \in Nat : ListAfter(n, e) = 0
    BY <1>5 DEF ListAfter
  <2> QED BY <2>1
<1>6. CASE e.verb \notin {"RPUSH", "LPOP", "LTRIM", "FLUSHDB"}
  <2>1. \A n \in Nat : ListAfter(n, e) = n
    BY <1>6 DEF ListAfter
  <2> QED BY <2>1
<1> QED BY <1>2, <1>3, <1>4, <1>5, <1>6

TextVerbs == {"SET", "SETEX", "DEL", "FLUSHDB"}

\* The queue a log gives does not depend on the stores it is applied to, if no
\* queue was in them; nor does the string, once a line replaces it; and the list
\* differs by no more than theirs.
LEMMA ReplayedOver ==
    ASSUME NEW b \in Stores, NEW o \in Stores, NEW lines \in Seq(LogLines), b.queue = o.queue
    PROVE  LET B == Replayed(b, lines)
               O == Replayed(o, lines)
           IN  /\ B.queue = O.queue
               /\ (\E i \in 1..Len(lines) : lines[i].verb \in TextVerbs)
                    => B.text = O.text /\ B.timed = O.timed
               /\ Closer(B.list, O.list, b.list, o.list)
<1> DEFINE n == Len(lines)
<1>1. n \in Nat
  BY LenProperties
<1>2. PICK f : ReplayOf(f, b, lines, n) /\ Replayed(b, lines) = f[n]
  BY <1>1, ReplayedIs
<1>3. PICK g : ReplayOf(g, o, lines, n) /\ Replayed(o, lines) = g[n]
  BY <1>1, ReplayedIs
<1> DEFINE Told(k) == \E i \in 1..k : lines[i].verb \in TextVerbs
           Near(k) == /\ f[k].queue = g[k].queue
                      /\ Told(k) => f[k].text = g[k].text /\ f[k].timed = g[k].timed
                      /\ Closer(f[k].list, g[k].list, b.list, o.list)
           T == {k \in 0..n : ~Near(k)}
<1>4. ASSUME T # {} PROVE FALSE
  <2>1. PICK x \in T : \A y \in T : x <= y
    <3>1. T \subseteq Nat
      OBVIOUS
    <3> HIDE DEF T
    <3> QED
      BY <1>4, <3>1, FirstNumber
  <2>2. x # 0
    <3>1. f[0] = b /\ g[0] = o
      BY <1>1, <1>2, <1>3, ReplaySteps
    <3>2. b.list \in Nat /\ o.list \in Nat
      BY DEF Stores, StoreShape
    <3>3. Closer(b.list, o.list, b.list, o.list)
      BY <3>2 DEF Closer
    <3>4. ~Told(0)
      OBVIOUS
    <3> HIDE DEF Told
    <3>5. Near(0)
      BY <3>1, <3>3, <3>4
    <3> QED
      BY <3>5, <2>1
  <2>3. x - 1 \in 0..n /\ x - 1 \notin T /\ x \in 1..n /\ x \in Nat
    BY <1>1, <2>1, <2>2
  <2>4. Near(x - 1)
    BY <2>3
  <2>5. /\ f[x - 1] \in Stores /\ g[x - 1] \in Stores
        /\ lines[x] \in LogLines
    BY <2>3, <1>2, <1>3, ReplayTypes, LenProperties
  <2>6. f[x] = Applied(f[x - 1], lines[x]) /\ g[x] = Applied(g[x - 1], lines[x])
    <3>1. \A i \in 1..n : f[i] = Applied(f[i - 1], lines[i])
      BY <1>1, <1>2, ReplaySteps
    <3>2. \A i \in 1..n : g[i] = Applied(g[i - 1], lines[i])
      BY <1>1, <1>3, ReplaySteps
    <3> QED
      BY <3>1, <3>2, <2>3
  <2> DEFINE e == lines[x]
             F == f[x - 1]
             G == g[x - 1]
  <2>7. /\ F.list \in Nat /\ G.list \in Nat /\ b.list \in Nat /\ o.list \in Nat /\ e \in LogLines
        /\ ListAfter(F.list, e) \in Nat /\ ListAfter(G.list, e) \in Nat
    <3>1. F \in Stores /\ G \in Stores /\ e \in LogLines
      BY <2>5
    <3> HIDE DEF F, G, e
    <3>2. F.list \in Nat /\ G.list \in Nat /\ b.list \in Nat /\ o.list \in Nat
      BY <3>1 DEF Stores, StoreShape
    <3> QED BY <3>1, <3>2, ListAfterType
  <2>8. /\ f[x].queue = QueueAfter(F.queue, e) /\ g[x].queue = QueueAfter(G.queue, e)
        /\ f[x].list = ListAfter(F.list, e) /\ g[x].list = ListAfter(G.list, e)
        /\ f[x].text = TextAfter(F, e) /\ g[x].text = TextAfter(G, e)
        /\ f[x].timed = TimedAfter(F, e) /\ g[x].timed = TimedAfter(G, e)
    BY <2>6 DEF Applied
  <2>9. /\ F.queue = G.queue
        /\ Told(x - 1) => F.text = G.text /\ F.timed = G.timed
        /\ Closer(F.list, G.list, b.list, o.list)
    BY <2>4
  <2>10. Told(x) => e.verb \in TextVerbs \/ Told(x - 1)
    BY <2>3
  <2> HIDE DEF e, F, G, Told
  <2>11. f[x].queue = g[x].queue
    BY <2>8, <2>9
  <2>12. ASSUME Told(x) PROVE f[x].text = g[x].text /\ f[x].timed = g[x].timed
    <3>1. CASE e.verb \in TextVerbs
      <4>1. TextAfter(F, e) = TextAfter(G, e) /\ TimedAfter(F, e) = TimedAfter(G, e)
        BY <3>1 DEF TextVerbs, TextAfter, TimedAfter
      <4> QED BY <2>8, <4>1
    <3>2. CASE Told(x - 1)
      <4>1. F.text = G.text /\ F.timed = G.timed
        BY <2>9, <3>2
      <4>2. TextAfter(F, e) = TextAfter(G, e) /\ TimedAfter(F, e) = TimedAfter(G, e)
        BY <4>1 DEF TextAfter, TimedAfter
      <4> QED BY <2>8, <4>2
    <3> QED BY <2>10, <2>12, <3>1, <3>2
  <2>13. Closer(f[x].list, g[x].list, b.list, o.list)
    <3>1. ASSUME F.list >= G.list
          PROVE  /\ ListAfter(F.list, e) >= ListAfter(G.list, e)
                 /\ ListAfter(F.list, e) - ListAfter(G.list, e) <= F.list - G.list
      BY <2>7, <3>1, ListCloser
    <3>2. ASSUME F.list <= G.list
          PROVE  /\ ListAfter(F.list, e) <= ListAfter(G.list, e)
                 /\ ListAfter(G.list, e) - ListAfter(F.list, e) <= G.list - F.list
      <4>1. G.list >= F.list
        BY <2>7, <3>2
      <4>2. ListAfter(G.list, e) >= ListAfter(F.list, e)
            /\ ListAfter(G.list, e) - ListAfter(F.list, e) <= G.list - F.list
        BY <2>7, <4>1, ListCloser
      <4> QED BY <2>7, <4>2
    <3>3. Closer(ListAfter(F.list, e), ListAfter(G.list, e), b.list, o.list)
      BY <2>7, <2>9, <3>1, <3>2, StillCloser
    <3> QED BY <2>8, <3>3
  <2>14. Near(x)
    BY <2>11, <2>12, <2>13
  <2> QED
    BY <2>14, <2>1
<1>5. Near(n)
  BY <1>1, <1>4
<1> QED
  BY <1>2, <1>3, <1>5

\* A rewritten log says what the stores are.
LEMMA RewrittenIs ==
    ASSUME NEW m \in Stores
    PROVE  Rewritten(m) \in Seq(LogLines) /\ Replayed(Empty, Rewritten(m)) = m
<1> DEFINE verb == IF m.timed THEN "SETEX" ELSE "SET"
           s == [verb |-> verb, value |-> m.text]
           r == [verb |-> "RPUSH", value |-> m.list]
           q == [verb |-> "ENQUEUE", value |-> m.queue]
           none == <<>>
           S == IF m.text > 0 THEN Append(none, s) ELSE none
           R == IF m.list > 0 THEN Append(S, r) ELSE S
           Q == IF m.queue > 0 THEN Append(R, q) ELSE R
<1>0. /\ m.text \in Nat /\ m.list \in Nat /\ m.queue \in Nat /\ m.timed \in BOOLEAN
      /\ m = [text |-> m.text, timed |-> m.timed, list |-> m.list, queue |-> m.queue]
      /\ m.timed => m.text > 0
  BY DEF Stores, StoreShape
<1>1. (m.text > 0 => s \in LogLines) /\ r \in LogLines /\ q \in LogLines
  BY <1>0 DEF LogLines, Verbs, MutatingVerbs
<1>2. none \in Seq(LogLines) /\ S \in Seq(LogLines) /\ R \in Seq(LogLines) /\ Q \in Seq(LogLines)
  BY <1>1
<1>3. Rewritten(m) = Q
  <2>1. ASSUME NEW u \in Seq(LogLines), NEW e \in LogLines
        PROVE  u \o <<e>> = Append(u, e) /\ u \o <<>> = u /\ <<>> \o u = u
    BY AppendIsConcat, ConcatEmptySeq
  <2>2. TextLine(m) = S
    <3>1. <<s>> = Append(none, s)
      OBVIOUS
    <3> QED
      BY <3>1 DEF TextLine, Line
  <2>3. S \o Line("RPUSH", m.list) = R
    BY <1>1, <1>2, <2>1 DEF Line
  <2>4. R \o Line("ENQUEUE", m.queue) = Q
    BY <1>1, <1>2, <2>1 DEF Line
  <2> HIDE DEF S, R, Q
  <2> QED
    BY <2>2, <2>3, <2>4 DEF Rewritten
<1> DEFINE E1 == Replayed(Empty, S)
           E2 == Replayed(Empty, R)
           E3 == Replayed(Empty, Q)
<1>4. Replayed(Empty, none) = Empty
  BY ReplayedEmpty
<1>5. E1 = IF m.text > 0 THEN Applied(Empty, s) ELSE Empty
  <2>1. CASE m.text > 0
    <3>1. s \in LogLines /\ S = Append(none, s)
      BY <1>1, <2>1
    <3>2. Replayed(Empty, Append(none, s)) = Applied(Replayed(Empty, none), s)
      BY <1>2, <3>1, ReplayedAppend
    <3> QED BY <1>4, <2>1, <3>1, <3>2, Zenon
  <2>2. CASE ~(m.text > 0)
    BY <1>4, <2>2
  <2> QED BY <2>1, <2>2
<1>6. E2 = IF m.list > 0 THEN Applied(E1, r) ELSE E1
  <2>1. r \in LogLines /\ S \in Seq(LogLines)
    BY <1>1, <1>2
  <2> HIDE DEF r, S
  <2>2. Replayed(Empty, Append(S, r)) = Applied(Replayed(Empty, S), r)
    BY <2>1, ReplayedAppend
  <2> QED BY <2>2
<1>7. E3 = IF m.queue > 0 THEN Applied(E2, q) ELSE E2
  <2>1. q \in LogLines /\ R \in Seq(LogLines)
    BY <1>1, <1>2
  <2> HIDE DEF q, R
  <2>2. Replayed(Empty, Append(R, q)) = Applied(Replayed(Empty, R), q)
    BY <2>1, ReplayedAppend
  <2> QED BY <2>2
<1> HIDE DEF E1, E2, E3
<1>8. E1 = [text |-> m.text, timed |-> m.timed, list |-> 0, queue |-> 0]
  <2>1. CASE m.text > 0
    <3>1. Applied(Empty, s) = [text |-> TextAfter(Empty, s), timed |-> TimedAfter(Empty, s),
                               list |-> ListAfter(0, s), queue |-> QueueAfter(0, s)]
      BY DEF Applied, Empty
    <3>2. TextAfter(Empty, s) = m.text /\ ListAfter(0, s) = 0 /\ QueueAfter(0, s) = 0
      BY DEF TextAfter, ListAfter, QueueAfter
    <3>3. TimedAfter(Empty, s) = m.timed
      BY <1>0 DEF TimedAfter
    <3> QED BY <1>5, <2>1, <3>1, <3>2, <3>3
  <2>2. CASE ~(m.text > 0)
    <3>1. m.text = 0 /\ m.timed = FALSE
      BY <1>0, <2>2
    <3> QED BY <1>5, <2>2, <3>1 DEF Empty
  <2> QED BY <2>1, <2>2
<1>9. E2 = [text |-> m.text, timed |-> m.timed, list |-> m.list, queue |-> 0]
  <2>1. ASSUME m.list = 0 PROVE E1 = [text |-> m.text, timed |-> m.timed, list |-> m.list, queue |-> 0]
    BY <1>8, <2>1
  <2>2. Applied(E1, r) = [text |-> m.text, timed |-> m.timed, list |-> m.list, queue |-> 0]
    <3>1. TextAfter(E1, r) = E1.text /\ TimedAfter(E1, r) = E1.timed
          /\ ListAfter(E1.list, r) = E1.list + m.list /\ QueueAfter(E1.queue, r) = E1.queue
      BY DEF TextAfter, TimedAfter, ListAfter, QueueAfter
    <3> QED BY <1>0, <1>8, <3>1 DEF Applied
  <2> QED BY <1>0, <1>6, <2>1, <2>2
<1>10. E3 = [text |-> m.text, timed |-> m.timed, list |-> m.list, queue |-> m.queue]
  <2>1. ASSUME m.queue = 0 PROVE E2 = [text |-> m.text, timed |-> m.timed, list |-> m.list, queue |-> m.queue]
    BY <1>9, <2>1
  <2>2. Applied(E2, q) = [text |-> m.text, timed |-> m.timed, list |-> m.list, queue |-> m.queue]
    <3>1. TextAfter(E2, q) = E2.text /\ TimedAfter(E2, q) = E2.timed
          /\ ListAfter(E2.list, q) = E2.list /\ QueueAfter(E2.queue, q) = E2.queue + m.queue
      BY DEF TextAfter, TimedAfter, ListAfter, QueueAfter
    <3> QED BY <1>0, <1>9, <3>1 DEF Applied
  <2> QED BY <1>0, <1>7, <2>1, <2>2
<1>11. E3 = m
  BY <1>0, <1>10
<1> QED
  BY <1>2, <1>3, <1>11 DEF E3

-----------------------------------------------------------------------------
(* The inductive invariant.                                                *)

SnapshotShape == [at : Nat, data : {m \in Stores : m.queue = 0}]
Slips == {"route", "refused", "partial", "swallowed", "lost", "unsynced"}
           \cup TextSlips \cup ListSlips

AofTypes ==
    /\ mem \in Stores
    /\ phase \in {"up", "rewriting", "down"}
    /\ todo \in Seq(Verbs)
    /\ unlogged = <<>> \/ \E e \in LogLines : unlogged = <<e>>
    /\ saves \subseteq SnapshotShape
    /\ file \in Seq(LogLines)
    /\ cut \in BOOLEAN
    /\ synced \in 0..Len(file)
    /\ snapshot \in SnapshotShape
    /\ policy \in Policies
    /\ count \in [commands : Nat, restarts : Nat, saves : Nat, faults : Nat]
    /\ origin \in Stores /\ origin.queue = 0
    /\ possible \subseteq Stores
    /\ slips \subseteq Slips

\* Only a process that serves requests has one under way.
Serving == phase # "up" => todo = <<>> /\ unlogged = <<>>

\* The part of a line that a short write leaves does not parse.
CutShort == cut => Len(file) > 0 /\ file[Len(file)] = Junk

\* Under "always" the lines that are not synced are parts of lines, as long as
\* syncs succeed.
Durable ==
    policy = "always" /\ "unsynced" \notin slips =>
      /\ "lost" \notin slips
      /\ \A i \in synced+1..Len(file) : file[i] = Junk

\* The stores the log gives, with the entry that is still to be appended.
LogGives == IF unlogged = <<>> THEN Replayed(origin, file)
                             ELSE Applied(Replayed(origin, file), unlogged[1])

\* With every command in the log, it gives the stores as they are.
InStep == phase # "down" /\ Complete => Alike(LogGives, mem, slips)

\* The log gives some stores that a crash may leave, and these include the
\* present ones.
LogPossible == \E p \in possible : Alike(Replayed(origin, file), p, slips)

Remembered ==
    /\ phase # "down" => mem \in possible
    /\ Complete => LogPossible

AofInv == AofTypes /\ Serving /\ CutShort /\ Durable /\ InStep /\ Remembered

-----------------------------------------------------------------------------
(* Each step preserves it.                                                 *)

LEMMA EntryType ==
    ASSUME NEW verb \in Verbs, NEW n \in Nat, n > 0
    PROVE  LogLine(verb, n) \in LogLines /\ LogLine(verb, n).verb = verb
<1>1. LogLine(verb, n).verb = verb
  BY DEF LogLine
<1>2. LogLine(verb, n).value \in Nat /\ LogLine(verb, n).value > 0
  BY DEF LogLine
<1>3. LogLine(verb, n) = [verb |-> verb, value |-> LogLine(verb, n).value]
  BY DEF LogLine
<1> QED BY <1>1, <1>2, <1>3 DEF LogLines

LEMMA EmptyType == Empty \in Stores /\ Empty.queue = 0
BY DEF Empty, Stores, StoreShape

Counts == [commands : Nat, restarts : Nat, saves : Nat, faults : Nat]

LEMMA OneMore ==
    ASSUME AofTypes
    PROVE  /\ [count EXCEPT !.commands = @ + 1] \in Counts
           /\ [count EXCEPT !.commands = @ + 1].commands = count.commands + 1
           /\ [count EXCEPT !.restarts = @ + 1] \in Counts
           /\ [count EXCEPT !.saves = @ + 1] \in Counts
           /\ [count EXCEPT !.faults = @ + 1] \in Counts
           /\ count.commands + 1 \in Nat /\ count.commands + 1 > 0 /\ count.saves + 1 \in Nat
<1>1. PICK c : c = count /\ c \in Counts
  BY DEF AofTypes, Counts
<1>2. /\ [c EXCEPT !.commands = @ + 1] \in Counts
      /\ [c EXCEPT !.commands = @ + 1].commands = c.commands + 1
  BY <1>1 DEF Counts
<1>3. [c EXCEPT !.restarts = @ + 1] \in Counts
  BY <1>1 DEF Counts
<1>4. [c EXCEPT !.saves = @ + 1] \in Counts
  BY <1>1 DEF Counts
<1>5. [c EXCEPT !.faults = @ + 1] \in Counts
  BY <1>1 DEF Counts
<1>6. c.commands + 1 \in Nat /\ c.commands + 1 > 0 /\ c.saves + 1 \in Nat
  BY <1>1 DEF Counts
<1> QED BY <1>1, <1>2, <1>3, <1>4, <1>5, <1>6

LEMMA InitInv == Init => AofInv
<1> SUFFICES ASSUME Init PROVE AofInv
  OBVIOUS
<1>1. Empty \in Stores /\ Empty.queue = 0
  BY EmptyType
<1>2. AofTypes
  <2>1. Empty \in {m \in Stores : m.queue = 0}
    BY <1>1
  <2>2. snapshot \in SnapshotShape /\ count \in Counts
    BY <2>1 DEF Init, SnapshotShape, Counts
  <2>3. file \in Seq(LogLines) /\ Len(file) = 0
    BY DEF Init
  <2>4. todo \in Seq(Verbs)
    BY DEF Init
  <2>5. synced \in 0..Len(file)
    BY <2>3 DEF Init
  <2>6. /\ mem \in Stores /\ origin \in Stores /\ origin.queue = 0 /\ possible \subseteq Stores
        /\ phase \in {"up", "rewriting", "down"} /\ unlogged = <<>> /\ saves \subseteq SnapshotShape
        /\ cut \in BOOLEAN /\ policy \in Policies /\ slips \subseteq Slips
    BY <1>1 DEF Init
  <2> QED
    BY <2>2, <2>3, <2>4, <2>5, <2>6 DEF AofTypes, Counts
<1>3. Replayed(origin, file) = Empty
  BY ReplayedEmpty DEF Init
<1>4. Serving /\ CutShort /\ Durable
  BY DEF Init, Serving, CutShort, Durable
<1>5. InStep /\ Remembered
  BY <1>3, AlikeItself DEF Init, InStep, LogGives, Remembered, LogPossible
<1> QED
  BY <1>2, <1>4, <1>5 DEF AofInv

\* What more is missing does not make a log complete.
LEMMA StillComplete == ASSUME slips \subseteq slips', Complete' PROVE Complete
BY DEF Complete, TextSlips, ListSlips

\* A step that leaves the file alone, and what it applies to.
LEMMA FileUntouched ==
    ASSUME AofInv, AofTypes', UNCHANGED <<disk, policy, origin>>,
           slips \subseteq slips', "lost" \in slips' => "lost" \in slips,
           Serving',
           Complete' => InStep',
           phase' # "down" => mem' \in possible',
           Complete' => LogPossible'
    PROVE  AofInv'
<1>1. CutShort' /\ Durable'
  BY DEF AofInv, CutShort, Durable, disk
<1>2. InStep'
  BY DEF InStep
<1>3. Remembered'
  BY DEF Remembered
<1> QED
  BY <1>1, <1>2, <1>3 DEF AofInv

\* A step that changes nothing but who waits for what.
LEMMA SameStores ==
    ASSUME AofInv, AofTypes', UNCHANGED <<mem, unlogged, disk, policy, history>>,
           Serving', phase # "down"
    PROVE  AofInv'
<1>1. UNCHANGED <<origin, possible, slips, file>>
  BY DEF history, disk
<1>2. Complete' = Complete
  BY <1>1 DEF Complete
<1>3. LogGives' = LogGives
  BY <1>1 DEF LogGives
<1>4. InStep'
  BY <1>1, <1>2, <1>3 DEF AofInv, InStep
<1>5. Complete' => LogPossible'
  BY <1>1, <1>2 DEF AofInv, Remembered, LogPossible
<1> QED
  BY <1>1, <1>4, <1>5, FileUntouched DEF AofInv, Remembered

LEMMA ReceiveInv == ASSUME AofInv, NEW request \in Requests, Receive(request) PROVE AofInv'
<1>1. request \in Seq(Verbs)
  BY AofAssumption DEF AofAssumption, Verbs
<1>2. AofTypes'
  BY <1>1 DEF Receive, AofInv, AofTypes, disk, history
<1>3. Serving' /\ phase # "down"
  BY DEF Receive, Serving, Idle
<1> QED
  BY <1>2, <1>3, SameStores DEF Receive

LEMMA ExecuteInv == ASSUME AofInv, Execute PROVE AofInv'
<1> DEFINE verb == Head(todo)
           entry == LogLine(verb, count.commands + 1)
           old == Replayed(origin, file)
<1>1. verb \in Verbs
      /\ Tail(todo) \in Seq(Verbs)
  BY HeadTailProperties DEF Execute, AofInv, AofTypes
<1>2. /\ count.commands + 1 \in Nat /\ count.commands + 1 > 0
      /\ count'.commands = count.commands + 1
      /\ count' \in Counts
  BY OneMore DEF Execute, AofInv
<1>3. entry \in LogLines /\ entry.verb = verb
  BY <1>1, <1>2, EntryType
<1>4. /\ mem' = Applied(mem, entry)
      /\ unlogged' = IF entry.verb \in MutatingVerbs THEN <<entry>> ELSE <<>>
      /\ todo' = Tail(todo)
      /\ Remember(mem', todo' = <<>> /\ unlogged' = <<>>)
  BY <1>2 DEF Execute
<1> HIDE DEF verb, entry
<1>5. mem' \in Stores
  BY <1>3, <1>4, AppliedType DEF AofInv, AofTypes
<1>6. possible' \subseteq Stores /\ mem' \in possible'
  BY <1>4, <1>5 DEF Remember, AofInv, AofTypes
<1>7. UNCHANGED <<phase, saves, disk, snapshot, policy, origin, slips>> /\ UNCHANGED <<file, cut, synced>>
  BY DEF Execute, disk
<1>8. AofTypes'
  <2>1. unlogged' = <<>> \/ \E e \in LogLines : unlogged' = <<e>>
    BY <1>3, <1>4
  <2> QED
    BY <1>1, <1>2, <1>4, <1>5, <1>6, <1>7, <2>1 DEF AofInv, AofTypes, Counts
<1>9. Serving'
  BY DEF Serving, Execute
<1>10. ASSUME Complete' PROVE InStep' /\ LogPossible'
  <2>1. unlogged = <<>> /\ Complete
    BY <1>7, <1>10, StillComplete DEF Execute
  <2>2. Alike(old, mem, slips)
    BY <2>1 DEF Execute, AofInv, InStep, LogGives
  <2>3. PICK p \in possible : Alike(old, p, slips)
    BY <2>1 DEF AofInv, Remembered, LogPossible
  <2>4. CASE entry.verb \in MutatingVerbs
    <3>1. unlogged' = <<entry>> /\ unlogged' # <<>> /\ unlogged'[1] = entry
      BY <1>4, <2>4
    <3>2. possible' = possible \cup {mem'}
      BY <1>4, <3>1 DEF Remember
    <3>3. LogGives' = Applied(old, entry)
      BY <1>7, <3>1 DEF LogGives
    <3>4. InStep'
      BY <1>4, <1>7, <2>2, <3>3, AlikeApplied DEF InStep
    <3>5. LogPossible'
      BY <1>7, <2>3, <3>2 DEF LogPossible
    <3> QED
      BY <3>4, <3>5
  <2>5. CASE entry.verb \notin MutatingVerbs
    <3>1. unlogged' = <<>>
      BY <1>4, <2>5
    <3>2. mem' = mem
      BY <1>3, <1>4, <2>5, AppliedSame DEF AofInv, AofTypes
    <3>3. LogGives' = old
      BY <1>7, <3>1 DEF LogGives
    <3> QED
      BY <1>6, <1>7, <2>2, <3>2, <3>3 DEF InStep, LogPossible
  <2> QED
    BY <2>4, <2>5
<1> QED
  BY <1>6, <1>7, <1>8, <1>9, <1>10, FileUntouched

LEMMA ExecuteFailsInv == ASSUME AofInv, ExecuteFails PROVE AofInv'
<1>1. Tail(todo) \in Seq(Verbs)
  BY HeadTailProperties DEF ExecuteFails, AofInv, AofTypes
<1>2. count' \in Counts
  BY OneMore DEF ExecuteFails, AofInv
<1>3. mem' \in Stores /\ slips' \subseteq Slips /\ slips \subseteq slips'
      /\ ("lost" \in slips' => "lost" \in slips) /\ (Complete' => mem' = mem /\ slips' = slips)
  <2>1. CASE UNCHANGED <<mem, slips>>
    BY <2>1 DEF AofInv, AofTypes
  <2>2. CASE mem' = [mem EXCEPT !.list = @ + 1] /\ slips' = slips \cup {"partial"}
    <3> mem \in Stores
      BY DEF AofInv, AofTypes
    <3>1. mem' \in Stores
      BY <2>2 DEF Stores, StoreShape
    <3>2. "partial" \in Slips /\ "partial" # "lost"
      BY DEF Slips
    <3>3. ~Complete'
      BY <2>2 DEF Complete, TextSlips, ListSlips
    <3> QED
      BY <2>2, <3>1, <3>2, <3>3 DEF AofInv, AofTypes
  <2> QED
    BY <2>1, <2>2 DEF ExecuteFails
<1>4. possible' \subseteq Stores /\ mem' \in possible'
  BY <1>3 DEF ExecuteFails, Remember, AofInv, AofTypes
<1>5. UNCHANGED <<phase, unlogged, saves, disk, snapshot, policy, origin>>
      /\ UNCHANGED <<file, cut, synced>> /\ todo' = Tail(todo)
  BY DEF ExecuteFails, disk
<1>6. AofTypes'
  BY <1>1, <1>2, <1>3, <1>4, <1>5 DEF AofInv, AofTypes, Counts
<1>7. Serving'
  BY DEF Serving, ExecuteFails
<1>8. ASSUME Complete' PROVE InStep' /\ LogPossible'
  <2>1. unlogged' = <<>> /\ unlogged = <<>> /\ mem' = mem /\ slips' = slips
    BY <1>3, <1>5, <1>8 DEF ExecuteFails
  <2>2. Alike(Replayed(origin, file), mem, slips)
    BY <1>8, <2>1 DEF ExecuteFails, AofInv, InStep, LogGives, Complete
  <2>3. LogGives' = Replayed(origin, file)
    BY <1>5, <2>1 DEF LogGives
  <2> QED
    BY <1>4, <1>5, <2>1, <2>2, <2>3 DEF InStep, LogPossible
<1> QED
  BY <1>3, <1>4, <1>5, <1>6, <1>7, <1>8, FileUntouched

LEMMA RouteWritesInv == ASSUME AofInv, NEW verb \in Routes, RouteWrites(verb) PROVE AofInv'
<1> DEFINE entry == LogLine(verb, count.commands + 1)
           told == [entry EXCEPT !.value = IF verb = "RPUSH" THEN 1 ELSE @]
<1>1. /\ count.commands + 1 \in Nat /\ count.commands + 1 > 0
      /\ count'.commands = count.commands + 1
      /\ count' \in Counts
  BY OneMore DEF RouteWrites, AofInv
<1>2. mem' = Applied(mem, told)
  BY <1>1 DEF RouteWrites
<1>3. entry \in LogLines
  <2>1. verb \in Verbs
    BY AofAssumption DEF AofAssumption, Verbs
  <2>2. count.commands + 1 \in Nat /\ count.commands + 1 > 0
    BY OneMore DEF AofInv
  <2> QED BY <2>1, <2>2, EntryType
<1> HIDE DEF entry
<1>4. told \in LogLines
  BY <1>3 DEF LogLines
<1> HIDE DEF told
<1>5. mem' \in Stores
  BY <1>2, <1>4, AppliedType DEF AofInv, AofTypes
<1>6. /\ UNCHANGED <<phase, todo, unlogged, saves, disk, snapshot, policy, origin, file, cut, synced>>
      /\ slips' = slips \cup {"route"} /\ possible' = {mem'}
  BY DEF RouteWrites, disk, Remember
<1>7. AofTypes'
  BY <1>1, <1>5, <1>6 DEF AofInv, AofTypes, Slips, Counts
<1>8. Serving'
  BY <1>6 DEF Serving, AofInv
<1>9. ~Complete'
  BY <1>6 DEF Complete, TextSlips, ListSlips
<1> QED
  BY <1>6, <1>7, <1>8, <1>9, FileUntouched

\* Keys that go without a command: the log still has them.
LEMMA LeavesInv ==
    ASSUME AofInv, phase = "up", unlogged = <<>>,
           UNCHANGED <<phase, todo, unlogged, saves, disk, snapshot, policy, origin>>,
           count' \in Counts, mem' \in Stores, mem'.queue = mem.queue,
           Remember(mem', todo = <<>>), slips \subseteq slips', slips' \subseteq Slips,
           "lost" \in slips' => "lost" \in slips,
           slips' \cap TextSlips = {} => mem'.text = mem.text /\ mem'.timed = mem.timed,
           slips' \cap ListSlips = {} => mem'.list = mem.list
    PROVE  AofInv'
<1>1. possible' \subseteq Stores /\ mem' \in possible'
  BY DEF Remember, AofInv, AofTypes
<1>2. UNCHANGED <<file, cut, synced>>
  BY DEF disk
<1>3. AofTypes'
  BY <1>1, <1>2 DEF AofInv, AofTypes, Counts
<1>4. Serving'
  BY DEF Serving
<1>5. ASSUME Complete' PROVE InStep' /\ LogPossible'
  <2>1. Complete
    BY <1>5, StillComplete
  <2>2. Alike(Replayed(origin, file), mem, slips)
    BY <2>1 DEF AofInv, InStep, LogGives
  <2>3. Alike(Replayed(origin, file), mem', slips')
    BY <2>2 DEF Alike
  <2>4. LogGives' = Replayed(origin, file)
    BY <1>2 DEF LogGives
  <2> QED BY <1>1, <1>2, <2>3, <2>4 DEF InStep, LogPossible
<1> QED BY <1>1, <1>3, <1>4, <1>5, FileUntouched

\* The string goes.
LEMMA TextGone ==
    ASSUME AofInv
    PROVE  LET m == [mem EXCEPT !.text = 0, !.timed = FALSE]
           IN  m \in Stores /\ m.queue = mem.queue /\ m.list = mem.list
BY DEF AofInv, AofTypes, Stores, StoreShape

LEMMA ExpiresInv == ASSUME AofInv, Expires PROVE AofInv'
<1>1. /\ phase = "up" /\ unlogged = <<>> /\ Remember(mem', todo = <<>>)
      /\ UNCHANGED <<phase, todo, unlogged, saves, disk, snapshot, policy, origin>> /\ count' = count
      /\ slips' = slips \cup {"expired"}
  BY DEF Expires
<1>2. mem' \in Stores /\ mem'.queue = mem.queue /\ mem'.list = mem.list
  BY TextGone DEF Expires
<1>3. count' \in Counts
  BY <1>1 DEF AofInv, AofTypes, Counts
<1>4. "expired" \in TextSlips /\ "expired" \in Slips /\ "expired" # "lost"
  BY DEF TextSlips, Slips
<1>5. slips \subseteq slips' /\ slips' \subseteq Slips /\ ("lost" \in slips' => "lost" \in slips)
      /\ slips' \cap TextSlips # {}
  BY <1>1, <1>4 DEF AofInv, AofTypes
<1> QED BY <1>1, <1>2, <1>3, <1>5, LeavesInv

LEMMA EvictsInv == ASSUME AofInv, Evicts PROVE AofInv'
<1>1. /\ phase = "up" /\ unlogged = <<>> /\ Remember(mem', todo = <<>>)
      /\ UNCHANGED <<phase, todo, unlogged, saves, disk, snapshot, policy, origin>>
      /\ count' \in Counts
  BY OneMore DEF Evicts, AofInv
<1>2. CASE mem' = [mem EXCEPT !.text = 0, !.timed = FALSE] /\ slips' = slips \cup {"text evicted"}
  <2>1. mem' \in Stores /\ mem'.queue = mem.queue /\ mem'.list = mem.list
    BY <1>2, TextGone
  <2>2. "text evicted" \in TextSlips /\ "text evicted" \in Slips /\ "text evicted" # "lost"
    BY DEF TextSlips, Slips
  <2>3. slips \subseteq slips' /\ slips' \subseteq Slips /\ ("lost" \in slips' => "lost" \in slips)
        /\ slips' \cap TextSlips # {}
    BY <1>2, <2>2 DEF AofInv, AofTypes
  <2> QED BY <1>1, <2>1, <2>3, LeavesInv
<1>3. CASE mem' = [mem EXCEPT !.list = 0] /\ slips' = slips \cup {"list evicted"}
  <2>1. mem' \in Stores /\ mem'.queue = mem.queue /\ mem'.text = mem.text /\ mem'.timed = mem.timed
    BY <1>3 DEF AofInv, AofTypes, Stores, StoreShape
  <2>2. "list evicted" \in ListSlips /\ "list evicted" \in Slips /\ "list evicted" # "lost"
    BY DEF ListSlips, Slips
  <2>3. slips \subseteq slips' /\ slips' \subseteq Slips /\ ("lost" \in slips' => "lost" \in slips)
        /\ slips' \cap ListSlips # {}
    BY <1>3, <2>2 DEF AofInv, AofTypes
  <2> QED BY <1>1, <2>1, <2>3, LeavesInv
<1> QED BY <1>2, <1>3 DEF Evicts

\* A line written after what the file holds, or into the line cut short.
LEMMA FileGrows ==
    ASSUME AofInv, NEW line \in LogLines
    PROVE  /\ FileWith(line) \in Seq(LogLines)
           /\ Len(FileWith(line)) \in Nat /\ Len(FileWith(line)) > 0
           /\ Len(FileWith(line)) >= Len(file)
           /\ FileWith(line)[Len(FileWith(line))] = IF cut THEN Junk ELSE line
           /\ \A i \in 1..Len(FileWith(line))-1 : i <= Len(file) /\ FileWith(line)[i] = file[i]
           /\ ~cut => FileWith(line) = Append(file, line)
<1>1. file \in Seq(LogLines) /\ Len(file) \in Nat
  BY LenProperties DEF AofInv, AofTypes
<1>2. CASE cut
  <2>1. FileWith(line) = [file EXCEPT ![Len(file)] = Junk] /\ Len(file) \in 1..Len(file)
    BY <1>1, <1>2 DEF FileWith, AofInv, CutShort
  <2>2. Junk \in LogLines
    BY JunkApplied
  <2>3. /\ FileWith(line) \in Seq(LogLines)
        /\ Len(FileWith(line)) = Len(file)
        /\ \A j \in 1..Len(file) : FileWith(line)[j] = IF j = Len(file) THEN Junk ELSE file[j]
    BY <1>1, <2>1, <2>2, ExceptSeq
  <2>4. FileWith(line)[Len(file)] = Junk
    BY <2>1, <2>3
  <2>5. \A i \in 1..Len(file)-1 : i <= Len(file) /\ FileWith(line)[i] = file[i]
    BY <1>1, <2>3
  <2>6. Len(FileWith(line)) \in Nat /\ Len(FileWith(line)) > 0 /\ Len(FileWith(line)) >= Len(file)
    BY <1>1, <2>1, <2>3
  <2> QED
    BY <1>2, <2>3, <2>4, <2>5, <2>6, Zenon
<1>3. CASE ~cut
  <2>1. FileWith(line) = Append(file, line)
    BY <1>3 DEF FileWith
  <2>2. /\ Append(file, line) \in Seq(LogLines)
        /\ Len(Append(file, line)) = Len(file) + 1
        /\ \A i \in 1..Len(file) : Append(file, line)[i] = file[i]
        /\ Append(file, line)[Len(file) + 1] = line
    BY <1>1, AppendProperties
  <2> QED
    BY <1>1, <1>3, <2>1, <2>2
<1> QED
  BY <1>2, <1>3

LEMMA LoggedTypes ==
    ASSUME AofInv, AppendReturns
    PROVE  /\ phase = "up" /\ unlogged' = <<>>
           /\ \E e \in LogLines : unlogged = <<e>> /\ unlogged[1] = e
           /\ UNCHANGED <<mem, phase, todo, saves, snapshot, policy, origin>>
           /\ possible' \subseteq Stores /\ mem' \in possible'
BY DEF AppendReturns, Remember, AofInv, AofTypes

\* append() has written the line, whatever comes of the sync.
LEMMA AppendedInv ==
    ASSUME AofInv, Appended, count' \in Counts, synced' \in Nat, synced' <= Len(file'),
           slips \subseteq slips', slips' \subseteq Slips,
           "swallowed" \notin slips' => ~cut,
           Durable'
    PROVE  AofInv'
<1>1. PICK e \in LogLines : unlogged = <<e>> /\ unlogged[1] = e
  BY LoggedTypes DEF Appended
<1>2. /\ phase = "up" /\ unlogged' = <<>>
      /\ UNCHANGED <<mem, phase, todo, saves, snapshot, policy, origin>>
      /\ possible' \subseteq Stores /\ mem' \in possible'
  BY LoggedTypes DEF Appended
<1>3. file' = FileWith(e) /\ cut' = FALSE
  BY <1>1 DEF Appended
<1>4. /\ file' \in Seq(LogLines) /\ Len(file') \in Nat
      /\ ~cut => file' = Append(file, e)
  BY <1>3, FileGrows
<1>5. synced' \in 0..Len(file')
  BY <1>4
<1>6. AofTypes'
  BY <1>2, <1>3, <1>4, <1>5 DEF AofInv, AofTypes, Counts
<1>7. Serving' /\ CutShort'
  BY <1>2, <1>3 DEF Serving, CutShort
<1>8. ASSUME Complete' PROVE Alike(Replayed(origin', file'), mem', slips')
  <2>1. Complete /\ "swallowed" \notin slips'
    BY <1>8, StillComplete DEF Complete, TextSlips, ListSlips
  <2>2. Alike(Applied(Replayed(origin, file), e), mem, slips)
    BY <1>1, <1>2, <2>1 DEF AofInv, InStep, LogGives
  <2>3. Replayed(origin, Append(file, e)) = Applied(Replayed(origin, file), e)
    BY ReplayedAppend DEF AofInv, AofTypes
  <2>4. Replayed(origin', file') = Applied(Replayed(origin, file), e)
    BY <1>2, <1>4, <2>1, <2>3
  <2> QED
    BY <1>2, <2>2, <2>4, AlikeStill
<1>9. LogGives' = Replayed(origin', file')
  BY <1>2 DEF LogGives
<1>10. InStep' /\ Remembered'
  BY <1>2, <1>8, <1>9 DEF InStep, Remembered, LogPossible
<1> QED
  BY <1>6, <1>7, <1>10 DEF AofInv

\* How the file and the slips grow.
LEMMA AppendedGrows ==
    ASSUME AofInv, Appended
    PROVE  /\ Len(file) \in Nat /\ Len(file') \in Nat /\ Len(file') >= Len(file)
           /\ synced \in Nat /\ synced <= Len(file)
           /\ Swallowing \subseteq Slips /\ slips \subseteq Swallowing
           /\ "swallowed" \notin Swallowing => ~cut
           /\ "lost" \in Swallowing => "lost" \in slips
           /\ "unsynced" \in slips => "unsynced" \in Swallowing
           /\ policy' = policy
<1>1. PICK e \in LogLines : unlogged = <<e>> /\ unlogged[1] = e
  BY LoggedTypes DEF Appended
<1>2. file' = FileWith(e)
  BY <1>1 DEF Appended
<1>3. /\ Len(file) \in Nat /\ Len(file') \in Nat /\ Len(file') >= Len(file)
      /\ synced \in Nat /\ synced <= Len(file)
  BY <1>2, FileGrows, LenProperties DEF AofInv, AofTypes
<1>4. "swallowed" \in Slips /\ "swallowed" # "lost"
  BY DEF Slips
<1> QED
  BY <1>3, <1>4, LoggedTypes DEF Swallowing, AofInv, AofTypes, Appended

LEMMA AppendLineInv == ASSUME AofInv, AppendLine PROVE AofInv'
<1>1. /\ Appended /\ count' = count /\ slips' = Swallowing
      /\ synced' = IF policy = "always" THEN Len(file') ELSE synced
  BY DEF AppendLine, SyncedAfterAppend
<1>2. synced' \in Nat /\ synced' <= Len(file')
  BY <1>1, AppendedGrows
<1>3. Durable'
  <2> SUFFICES ASSUME policy = "always", "unsynced" \notin slips'
               PROVE  "lost" \notin slips' /\ \A i \in synced'+1..Len(file') : file'[i] = Junk
    BY <1>1, AppendedGrows DEF Durable
  <2>1. "lost" \notin slips'
    BY <1>1, AppendedGrows DEF AofInv, Durable
  <2>2. synced' = Len(file') /\ Len(file') \in Nat
    BY <1>1, AppendedGrows
  <2> QED
    BY <2>1, <2>2
<1>4. count' \in Counts
  BY <1>1 DEF AofInv, AofTypes, Counts
<1> QED
  BY <1>1, <1>2, <1>3, <1>4, AppendedGrows, AppendedInv

LEMMA AppendUnsyncedInv == ASSUME AofInv, AppendUnsynced PROVE AofInv'
<1>1. Appended /\ slips' = Swallowing \cup {"unsynced"} /\ synced' = synced
  BY DEF AppendUnsynced
<1>2. synced' \in Nat /\ synced' <= Len(file')
  BY <1>1, AppendedGrows
<1>3. Durable'
  BY <1>1 DEF Durable
<1>4. count' \in Counts
  BY OneMore DEF AppendUnsynced, AofInv
<1>5. "unsynced" \in Slips /\ "unsynced" # "swallowed"
  BY DEF Slips
<1>6. slips \subseteq slips' /\ slips' \subseteq Slips /\ ("swallowed" \notin slips' => ~cut)
  BY <1>1, <1>5, AppendedGrows
<1> QED
  BY <1>1, <1>2, <1>3, <1>4, <1>6, AppendedInv

LEMMA AppendFailsInv == ASSUME AofInv, AppendFails PROVE AofInv'
<1>1. /\ phase = "up" /\ unlogged' = <<>>
      /\ UNCHANGED <<mem, phase, todo, saves, snapshot, policy, origin>>
      /\ possible' \subseteq Stores /\ mem' \in possible'
  BY LoggedTypes DEF AppendFails
<1>2. /\ count' \in Counts /\ slips' = slips \cup {"refused"} /\ synced' = synced
  BY OneMore DEF AppendFails, AofInv
<1>3. slips' \subseteq Slips
  BY <1>2 DEF AofInv, AofTypes, Slips
<1>4. Serving'
  BY <1>1 DEF Serving
<1>5. InStep' /\ Remembered'
  <2>1. ~Complete'
    BY <1>2 DEF Complete, TextSlips, ListSlips
  <2> QED BY <1>1, <2>1 DEF InStep, Remembered
<1>6. CASE UNCHANGED <<file, cut>>
  <2>1. AofTypes'
    BY <1>1, <1>2, <1>3, <1>6 DEF AofInv, AofTypes, Counts
  <2>2. CutShort' /\ Durable'
    BY <1>1, <1>2, <1>6 DEF AofInv, CutShort, Durable
  <2> QED
    BY <1>4, <1>5, <2>1, <2>2 DEF AofInv
<1>7. CASE file' = FileWith(Junk) /\ cut' = TRUE
  <2>1. Junk \in LogLines
    BY JunkApplied
  <2>2. /\ file' \in Seq(LogLines) /\ Len(file') \in Nat /\ Len(file') > 0
        /\ Len(file') >= Len(file) /\ file'[Len(file')] = Junk
        /\ \A i \in 1..Len(file')-1 : i <= Len(file) /\ file'[i] = file[i]
    BY <1>7, <2>1, FileGrows
  <2>3. Len(file) \in Nat /\ synced \in 0..Len(file)
    BY LenProperties DEF AofInv, AofTypes
  <2>4. AofTypes'
    <3>1. synced' \in 0..Len(file')
      BY <1>2, <2>2, <2>3
    <3> QED
      BY <1>1, <1>2, <1>3, <1>7, <2>2, <3>1 DEF AofInv, AofTypes, Counts
  <2>5. CutShort'
    BY <2>2 DEF CutShort
  <2>6. Durable'
    <3> SUFFICES ASSUME policy = "always", "unsynced" \notin slips', NEW i \in synced+1..Len(file')
                 PROVE  "lost" \notin slips' /\ file'[i] = Junk
      <4>1. policy = "always" /\ "unsynced" \notin slips' => "lost" \notin slips'
        BY <1>2 DEF AofInv, Durable
      <4> QED
        BY <1>1, <1>2, <4>1 DEF Durable
    <3>1. "lost" \notin slips'
      BY <1>2 DEF AofInv, Durable
    <3>2. i = Len(file') \/ (i \in 1..Len(file')-1 /\ i \in synced+1..Len(file))
      BY <2>2, <2>3
    <3>3. \A j \in synced+1..Len(file) : file[j] = Junk
      BY <1>2 DEF AofInv, Durable
    <3> QED
      BY <2>2, <3>1, <3>2, <3>3
  <2> QED
    BY <1>4, <1>5, <2>4, <2>5, <2>6 DEF AofInv
<1> QED
  BY <1>6, <1>7 DEF AppendFails

\* Every line is on the disk: the file has not changed.
LEMMA AllSynced ==
    ASSUME AofInv, AofTypes', UNCHANGED <<file, cut, policy, origin, slips, possible>>,
           synced' = Len(file), Serving',
           phase' # "down" => phase # "down" /\ UNCHANGED <<mem, unlogged>>
    PROVE  AofInv'
<1>1. CutShort'
  BY DEF AofInv, CutShort
<1>2. Durable'
  <2>1. Len(file) \in Nat
    BY LenProperties DEF AofInv, AofTypes
  <2>2. \A i \in synced'+1..Len(file') : FALSE
    BY <2>1
  <2> QED
    BY <2>2 DEF AofInv, Durable
<1>3. Complete' = Complete /\ LogPossible' = LogPossible
  BY DEF Complete, LogPossible
<1>4. phase' # "down" => LogGives' = LogGives
  BY DEF LogGives
<1>5. InStep' /\ Remembered'
  BY <1>3, <1>4 DEF AofInv, InStep, Remembered
<1> QED
  BY <1>1, <1>2, <1>5 DEF AofInv

LEMMA FsyncInv == ASSUME AofInv, Fsync PROVE AofInv'
<1>1. UNCHANGED <<mem, phase, todo, unlogged, saves, file, cut, snapshot, policy, count, origin, possible, slips>>
      /\ synced' = Len(file)
  BY DEF Fsync, process, history
<1>2. AofTypes'
  BY <1>1, LenProperties DEF AofInv, AofTypes
<1>3. Serving'
  BY <1>1 DEF AofInv, Serving
<1> QED
  BY <1>1, <1>2, <1>3, AllSynced

LEMMA RewriteStartsInv == ASSUME AofInv, RewriteStarts PROVE AofInv'
<1>1. UNCHANGED <<mem, todo, unlogged, saves, file, cut, synced, snapshot, policy, count, origin, possible, slips>>
      /\ phase' = "rewriting" /\ phase = "up" /\ todo = <<>> /\ unlogged = <<>>
  BY DEF RewriteStarts, Idle, disk, history
<1>2. AofTypes'
  BY <1>1 DEF AofInv, AofTypes
<1>3. Serving' /\ phase # "down"
  BY <1>1 DEF Serving
<1> QED
  BY <1>1, <1>2, <1>3, SameStores DEF disk, history

LEMMA RewriteRenamesInv == ASSUME AofInv, NEW undated \in BOOLEAN, RewriteRenames(undated) PROVE AofInv'
<1>1. /\ UNCHANGED <<mem, todo, unlogged, saves, snapshot, policy, count, possible>>
      /\ phase = "rewriting" /\ phase' = "up" /\ cut' = FALSE
      /\ file' = Rewritten(IF undated THEN [mem EXCEPT !.timed = FALSE] ELSE mem)
      /\ synced' = Len(file') /\ origin' = Empty
      /\ slips' = IF undated THEN {"undated"} ELSE {}
  BY DEF RewriteRenames
<1>2. mem \in Stores /\ mem \in possible /\ unlogged = <<>>
  BY <1>1 DEF AofInv, AofTypes, Serving, Remembered
<1>3. PICK m \in Stores : file' = Rewritten(m) /\ Alike(m, mem, slips')
  <2>1. CASE undated
    <3>1. [mem EXCEPT !.timed = FALSE] \in Stores
          /\ [mem EXCEPT !.timed = FALSE].queue = mem.queue
          /\ [mem EXCEPT !.timed = FALSE].list = mem.list
      BY <1>2 DEF Stores, StoreShape
    <3>2. slips' \cap TextSlips # {}
      BY <1>1, <2>1 DEF TextSlips
    <3>3. Alike([mem EXCEPT !.timed = FALSE], mem, slips')
      BY <3>1, <3>2 DEF Alike
    <3> QED BY <1>1, <2>1, <3>1, <3>3
  <2>2. CASE ~undated
    BY <1>1, <1>2, <2>2, AlikeItself
  <2> QED BY <2>1, <2>2
<1>4. file' \in Seq(LogLines) /\ Replayed(Empty, file') = m /\ Len(file') \in Nat
  BY <1>3, RewrittenIs, LenProperties
<1>5. AofTypes'
  <2>1. synced' \in 0..Len(file')
    BY <1>1, <1>4
  <2>2. slips' \subseteq Slips
    BY <1>1 DEF Slips, TextSlips
  <2>3. origin' \in Stores /\ origin'.queue = 0
    BY <1>1, EmptyType
  <2> QED
    BY <1>1, <1>4, <2>1, <2>2, <2>3 DEF AofInv, AofTypes
<1>6. Serving' /\ CutShort' /\ Durable'
  <2>1. "lost" \notin slips'
    BY <1>1
  <2> QED BY <1>1, <1>4, <2>1 DEF Serving, CutShort, Durable
<1>7. LogGives' = m /\ Replayed(origin', file') = m
  BY <1>1, <1>2, <1>4 DEF LogGives
<1>8. InStep' /\ Remembered'
  BY <1>1, <1>2, <1>3, <1>7 DEF InStep, Remembered, LogPossible
<1> QED
  BY <1>5, <1>6, <1>8 DEF AofInv

LEMMA RewriteFailsInv == ASSUME AofInv, RewriteFails PROVE AofInv'
<1>1. UNCHANGED <<mem, todo, unlogged, saves, file, cut, synced, snapshot, policy, count, origin, possible, slips>>
      /\ phase' = "up" /\ phase = "rewriting"
  BY DEF RewriteFails, disk, history
<1>2. AofTypes'
  BY <1>1 DEF AofInv, AofTypes
<1>3. Serving' /\ phase # "down"
  BY <1>1 DEF Serving
<1> QED
  BY <1>1, <1>2, <1>3, SameStores DEF disk, history

LEMMA CapturedType == ASSUME AofTypes PROVE Captured \in SnapshotShape
BY OneMore DEF Captured, AofTypes, Stores, StoreShape, SnapshotShape

LEMMA SaveCapturesInv == ASSUME AofInv, SaveCaptures PROVE AofInv'
<1>1. /\ UNCHANGED <<mem, phase, todo, unlogged, file, cut, synced, snapshot, policy, origin, possible, slips>>
      /\ saves' = saves \cup {Captured} /\ phase = "up" /\ todo = <<>> /\ unlogged = <<>>
  BY DEF SaveCaptures, Idle, disk, history
<1>2. count' \in Counts
  BY OneMore DEF SaveCaptures, AofInv
<1>3. AofTypes'
  BY <1>1, <1>2, CapturedType DEF AofInv, AofTypes, Counts
<1>4. Serving' /\ phase # "down"
  BY <1>1 DEF Serving
<1> QED
  BY <1>1, <1>3, <1>4, SameStores DEF disk, history

LEMMA SaveEndsInv == ASSUME AofInv, NEW save \in saves, SaveEnds(save) PROVE AofInv'
<1>1. /\ UNCHANGED <<mem, phase, todo, unlogged, file, cut, synced, policy, count, origin, possible, slips>>
      /\ phase = "up" /\ saves' \subseteq saves /\ snapshot' \in {snapshot, save}
  BY DEF SaveEnds, Latest, disk, history
<1>2. AofTypes'
  BY <1>1 DEF AofInv, AofTypes
<1>3. Serving' /\ phase # "down"
  BY <1>1 DEF AofInv, Serving
<1> QED
  BY <1>1, <1>2, <1>3, SameStores DEF disk, history

LEMMA EndsTypes ==
    ASSUME AofInv, Ends, snapshot' \in SnapshotShape, file' \in Seq(LogLines), cut' \in BOOLEAN,
           synced' \in 0..Len(file'), slips' \subseteq Slips
    PROVE  AofTypes' /\ Serving' /\ phase' = "down" /\ UNCHANGED <<policy, origin, possible>>
<1>1. count' \in Counts
  BY OneMore DEF Ends, AofInv
<1>2. mem' \in Stores /\ todo' \in Seq(Verbs)
  BY EmptyType DEF Ends
<1>3. /\ UNCHANGED <<policy, origin, possible>>
      /\ phase' = "down" /\ todo' = <<>> /\ unlogged' = <<>> /\ saves' = {}
  BY DEF Ends
<1> QED
  BY <1>1, <1>2, <1>3 DEF AofInv, AofTypes, Serving, Counts

LEMMA DiesInv ==
    ASSUME AofInv, Ends, UNCHANGED <<disk, slips>>, snapshot' \in SnapshotShape
    PROVE  AofInv'
<1>1. UNCHANGED <<file, cut, synced, slips>>
  BY DEF disk
<1>2. AofTypes' /\ Serving' /\ phase' = "down" /\ UNCHANGED <<policy, origin, possible>>
  BY <1>1, EndsTypes DEF AofInv, AofTypes
<1>3. Complete' => LogPossible'
  BY <1>1, <1>2 DEF AofInv, Remembered, LogPossible, Complete
<1> QED
  BY <1>1, <1>2, <1>3, FileUntouched DEF InStep

LEMMA ShutdownInv == ASSUME AofInv, Shutdown PROVE AofInv'
<1>1. Ends /\ UNCHANGED <<file, cut, slips>> /\ synced' \in {synced, Len(file)}
  BY DEF Shutdown
<1>2. snapshot' \in SnapshotShape
  BY CapturedType DEF Shutdown, Latest, AofInv, AofTypes
<1>3. Len(file') \in Nat /\ synced' \in 0..Len(file')
  BY <1>1, LenProperties DEF AofInv, AofTypes
<1>4. AofTypes' /\ Serving' /\ phase' = "down" /\ UNCHANGED <<policy, origin, possible>>
  BY <1>1, <1>2, <1>3, EndsTypes DEF AofInv, AofTypes
<1>5. CASE synced' = Len(file)
  BY <1>1, <1>4, <1>5, AllSynced
<1>6. CASE synced' = synced
  BY <1>1, <1>2, <1>6, DiesInv DEF disk
<1> QED
  BY <1>1, <1>5, <1>6

LEMMA ProcessDiesInv == ASSUME AofInv, ProcessDies PROVE AofInv'
BY DiesInv DEF ProcessDies, AofInv, AofTypes

LEMMA MachineDiesInv == ASSUME AofInv, MachineDies PROVE AofInv'
<1> DEFINE coming == file \o unlogged
           Kept(n) == SubSeq(file, 1, n)
           Left(n, torn) == Kept(n) \o (IF torn THEN <<Junk>> ELSE <<>>)
<1>1. Ends /\ snapshot' = snapshot
  BY DEF MachineDies
<1>2. PICK n \in synced..Len(file), torn \in BOOLEAN :
        /\ file' = Left(n, torn)
        /\ cut' = (torn \/ (cut /\ n = Len(file)))
        /\ synced' = Len(file')
        /\ slips' = IF \E i \in n+1..Len(file) : file[i] # Junk THEN slips \cup {"lost"} ELSE slips
  BY DEF MachineDies
<1>3. /\ file \in Seq(LogLines) /\ Len(file) \in Nat /\ synced \in Nat /\ n \in Nat
      /\ synced <= n /\ n <= Len(file)
  BY <1>2, LenProperties DEF AofInv, AofTypes
<1>4. /\ Kept(n) \in Seq(LogLines) /\ Len(Kept(n)) = n
      /\ \A i \in 1..n : Kept(n)[i] = file[i]
  <2>1. \A i \in 1..n : file[i] \in LogLines
    BY <1>3, LenProperties
  <2> QED
    BY <1>3, <2>1, SubSeqProperties
<1> HIDE DEF Kept
<1>5. Junk \in LogLines
  BY JunkApplied
<1>6. /\ file' \in Seq(LogLines) /\ Len(file') = n + (IF torn THEN 1 ELSE 0)
      /\ \A i \in 1..n : file'[i] = file[i]
      /\ torn => file'[n + 1] = Junk
  <2>1. CASE torn
    <3>1. file' = Append(Kept(n), Junk)
      BY <1>2, <1>4, <1>5, <2>1, AppendIsConcat
    <3>2. /\ Append(Kept(n), Junk) \in Seq(LogLines)
          /\ Len(Append(Kept(n), Junk)) = Len(Kept(n)) + 1
          /\ \A i \in 1..Len(Kept(n)) : Append(Kept(n), Junk)[i] = Kept(n)[i]
          /\ Append(Kept(n), Junk)[Len(Kept(n)) + 1] = Junk
      BY <1>4, <1>5, AppendProperties
    <3> QED
      BY <1>3, <1>4, <2>1, <3>1, <3>2
  <2>2. CASE ~torn
    <3>1. file' = Kept(n)
      BY <1>2, <1>4, <2>2, ConcatEmptySeq
    <3> QED
      BY <1>3, <1>4, <2>2, <3>1
  <2> QED
    BY <2>1, <2>2
<1>7. Len(file') \in Nat /\ synced' = Len(file') /\ synced' \in 0..Len(file')
  BY <1>2, <1>3, <1>6
<1>8. slips' \subseteq Slips /\ cut' \in BOOLEAN /\ snapshot' \in SnapshotShape
  BY <1>1, <1>2 DEF AofInv, AofTypes, Slips
<1>9. AofTypes' /\ Serving' /\ phase' = "down" /\ UNCHANGED <<policy, origin, possible>>
  BY <1>1, <1>6, <1>7, <1>8, EndsTypes
<1>10. CutShort'
  <2> SUFFICES ASSUME cut' PROVE Len(file') > 0 /\ file'[Len(file')] = Junk
    BY DEF CutShort
  <2>1. CASE torn
    BY <1>3, <1>6, <2>1
  <2>2. CASE ~torn
    <3>1. cut /\ n = Len(file)
      BY <1>2, <2>2
    <3>2. n > 0 /\ file[n] = Junk
      BY <3>1 DEF AofInv, CutShort
    <3> QED
      BY <1>3, <1>6, <2>2, <3>2
  <2> QED
    BY <2>1, <2>2
<1>11. Durable'
  <2> SUFFICES ASSUME policy = "always", "unsynced" \notin slips'
               PROVE  "lost" \notin slips' /\ \A i \in synced'+1..Len(file') : file'[i] = Junk
    BY <1>9 DEF Durable
  <2>1. "lost" \notin slips /\ \A i \in synced+1..Len(file) : file[i] = Junk
    BY <1>2 DEF AofInv, Durable
  <2>2. \A i \in n+1..Len(file) : i \in synced+1..Len(file)
    BY <1>3
  <2>3. "lost" \notin slips'
    BY <1>2, <2>1, <2>2
  <2>4. \A i \in synced'+1..Len(file') : FALSE
    BY <1>7
  <2> QED
    BY <2>3, <2>4
<1>12. InStep'
  BY <1>9 DEF InStep
<1>13. Remembered'
  <2> SUFFICES ASSUME Complete' PROVE LogPossible'
    BY <1>9 DEF Remembered
  <2>1. slips' = slips /\ Complete /\ \A i \in n+1..Len(file) : file[i] = Junk
    <3>1. "lost" \notin slips'
      BY DEF Complete, TextSlips, ListSlips
    <3>2. slips' = slips /\ \A i \in n+1..Len(file) : file[i] = Junk
      BY <1>2, <3>1
    <3> QED BY <3>2 DEF Complete
  <2>2. \A i \in n+1..Len(file') : file'[i] = Junk
    BY <1>3, <1>6
  <2>3. n <= Len(file') /\ \A i \in 1..n : file[i] = file'[i]
    BY <1>3, <1>6
  <2>4. Replayed(origin, file) = Replayed(origin, file')
    <3>1. origin \in Stores
      BY DEF AofInv, AofTypes
    <3> QED BY <1>3, <1>6, <2>1, <2>2, <2>3, <3>1, ReplayedJunk
  <2> QED
    BY <1>9, <2>1, <2>4 DEF AofInv, Remembered, LogPossible
<1> QED
  BY <1>9, <1>10, <1>11, <1>12, <1>13 DEF AofInv

LEMMA RestoredType == ASSUME AofInv, NEW base \in Restored PROVE base \in Stores /\ base.queue = 0
<1>1. PICK d \in Stores : d = snapshot.data /\ d.queue = 0
  BY DEF AofInv, AofTypes, SnapshotShape
<1>2. base \in {d, Empty, [d EXCEPT !.text = 0, !.timed = FALSE]}
  BY <1>1 DEF Restored
<1>3. [d EXCEPT !.text = 0, !.timed = FALSE] \in Stores
      /\ [d EXCEPT !.text = 0, !.timed = FALSE].queue = 0
  BY <1>1 DEF Stores, StoreShape
<1> QED BY <1>1, <1>2, <1>3, EmptyType

LEMMA BootstrapInv ==
    ASSUME AofInv, NEW base \in Restored, Bootstrap(base) PROVE AofInv'
<1>1. /\ UNCHANGED <<todo, unlogged, saves, file, cut, synced, snapshot, policy, count>>
      /\ phase = "down" /\ phase' = "up" /\ mem' = Replayed(base, file)
      /\ origin' = base /\ possible' = {mem'} /\ slips' = slips \cap {"unsynced"}
  BY DEF Bootstrap, disk
<1>2. base \in Stores /\ base.queue = 0
  BY RestoredType
<1>3. mem' \in Stores
  BY <1>1, <1>2, ReplayedType DEF AofInv, AofTypes
<1>4. AofTypes'
  <2>1. slips' \subseteq Slips
    BY <1>1 DEF AofInv, AofTypes
  <2> QED
    BY <1>1, <1>2, <1>3, <2>1 DEF AofInv, AofTypes
<1>5. Serving' /\ CutShort'
  BY <1>1 DEF AofInv, Serving, CutShort
<1>6. Durable'
  BY <1>1 DEF AofInv, Durable
<1>7. unlogged = <<>>
  BY <1>1 DEF AofInv, Serving
<1>8. LogGives' = mem' /\ Replayed(origin', file') = mem'
  BY <1>1, <1>7 DEF LogGives
<1>9. InStep' /\ Remembered'
  BY <1>1, <1>8, AlikeItself DEF InStep, Remembered, LogPossible
<1> QED
  BY <1>4, <1>5, <1>6, <1>9 DEF AofInv

LEMMA StutterInv == ASSUME AofInv, UNCHANGED vars PROVE AofInv'
<1>1. UNCHANGED <<mem, phase, todo, unlogged, saves, file, cut, synced, snapshot, policy, count, origin, possible, slips>>
  BY DEF vars, process, disk, history
<1>2. AofTypes' /\ Serving' /\ CutShort'
  BY <1>1 DEF AofInv, AofTypes, Serving, CutShort
<1>3. Durable' /\ InStep' /\ Remembered'
  BY <1>1 DEF AofInv, Durable, InStep, LogGives, Remembered, LogPossible, Complete
<1> QED
  BY <1>2, <1>3 DEF AofInv

THEOREM AofInvariant == Spec => []AofInv
<1>1. ASSUME AofInv, [Next]_vars PROVE AofInv'
  <2>1. ASSUME NEW request \in Requests, Receive(request) PROVE AofInv'
    BY <1>1, <2>1, ReceiveInv
  <2>2. ASSUME NEW verb \in Routes, RouteWrites(verb) PROVE AofInv'
    BY <1>1, <2>2, RouteWritesInv
  <2>3. ASSUME NEW save \in saves, SaveEnds(save) PROVE AofInv'
    BY <1>1, <2>3, SaveEndsInv
  <2>4. ASSUME NEW base \in Restored, Bootstrap(base) PROVE AofInv'
    BY <1>1, <2>4, BootstrapInv
  <2>5. CASE Execute \/ ExecuteFails \/ Expires \/ Evicts
    BY <1>1, <2>5, ExecuteInv, ExecuteFailsInv, ExpiresInv, EvictsInv
  <2>6. CASE AppendLine \/ AppendUnsynced \/ AppendFails \/ Fsync
    BY <1>1, <2>6, AppendLineInv, AppendUnsyncedInv, AppendFailsInv, FsyncInv
  <2>7. ASSUME NEW undated \in BOOLEAN, RewriteRenames(undated) PROVE AofInv'
    BY <1>1, <2>7, RewriteRenamesInv
  <2>8. CASE RewriteStarts \/ RewriteFails
    BY <1>1, <2>8, RewriteStartsInv, RewriteFailsInv
  <2>9. CASE SaveCaptures \/ Shutdown \/ ProcessDies \/ MachineDies
    BY <1>1, <2>9, SaveCapturesInv, ShutdownInv, ProcessDiesInv, MachineDiesInv
  <2>10. CASE UNCHANGED vars
    BY <1>1, <2>10, StutterInv
  <2> QED
    BY <1>1, <2>1, <2>2, <2>3, <2>4, <2>5, <2>6, <2>7, <2>8, <2>9, <2>10 DEF Next
<1> QED
  BY <1>1, InitInv, PTL DEF Spec

-----------------------------------------------------------------------------
(* The log, if it has every command, gives the queue of what the process   *)
(* started from as it is now, and so the string and the list, unless they  *)
(* went without a command: expired or evicted.                             *)
THEOREM FileMatchesMemoryHolds == Spec => []FileMatchesMemory
<1>1. AofInv => FileMatchesMemory
  <2> SUFFICES ASSUME AofInv, phase = "up", unlogged = <<>>, Complete
               PROVE  Alike(Replayed(origin, file), mem, slips)
    BY DEF FileMatchesMemory, Alike
  <2> QED
    BY DEF AofInv, InStep, LogGives
<1> QED
  BY <1>1, AofInvariant, PTL

(* Under "always" a machine that stops loses no line the log was given, as *)
(* long as no sync has failed since the last rewrite.                      *)
THEOREM AlwaysDurableHolds == Spec => []AlwaysDurable
<1>1. AofInv => AlwaysDurable
  BY DEF AofInv, Durable, AlwaysDurable
<1> QED
  BY <1>1, AofInvariant, PTL

(* What a restart brings back is what some crash state says it should: the *)
(* queue exactly, the string if the log sets it, and the list up to what   *)
(* the snapshot holds more or less than the stores this log began over.    *)
THEOREM RecoveryExactHolds == Spec => RecoveryExact
<1> DEFINE more == origin'.list - origin.list
           Exact == (phase = "down" /\ phase' = "up" /\ Complete) =>
                      \E p \in possible :
                        /\ mem'.queue = p.queue
                        /\ Mentions({"SET", "SETEX", "DEL", "FLUSHDB"}) /\ slips \cap TextSlips = {} =>
                             mem'.text = p.text /\ mem'.timed = p.timed
                        /\ slips \cap ListSlips = {} =>
                             mem'.list - p.list \in (0..more) \cup (more..0)
<1>1. ASSUME AofInv, Next PROVE Exact
  <2> SUFFICES ASSUME phase = "down", phase' = "up", Complete PROVE Exact
    OBVIOUS
  <2>1. PICK base \in Restored : Bootstrap(base)
    <3>1. ~\E request \in Requests : Receive(request)
      BY DEF Receive, Idle
    <3>2. ~\E verb \in Routes : RouteWrites(verb)
      BY DEF RouteWrites, Idle
    <3>3. ~\E save \in saves : SaveEnds(save)
      BY DEF SaveEnds
    <3>4. ~(Execute \/ ExecuteFails \/ Expires \/ Evicts \/ Fsync)
      BY DEF Execute, ExecuteFails, Expires, Evicts, Fsync, Idle
    <3>5. ~(AppendLine \/ AppendUnsynced \/ AppendFails)
      BY DEF AppendLine, AppendUnsynced, Appended, AppendFails, AppendReturns
    <3>6. ~\E undated \in BOOLEAN : RewriteRenames(undated)
      BY DEF RewriteRenames
    <3>7. ~(RewriteStarts \/ RewriteFails)
      BY DEF RewriteStarts, RewriteFails, Idle
    <3>8. ~(SaveCaptures \/ Shutdown \/ ProcessDies \/ MachineDies)
      BY DEF SaveCaptures, Shutdown, ProcessDies, MachineDies, Idle
    <3> QED
      BY <1>1, <3>1, <3>2, <3>3, <3>4, <3>5, <3>6, <3>7, <3>8 DEF Next
  <2>2. mem' = Replayed(base, file) /\ origin' = base
    BY <2>1 DEF Bootstrap
  <2>3. base \in Stores /\ base.queue = 0
    BY <1>1, RestoredType
  <2>4. origin \in Stores /\ origin.queue = 0 /\ file \in Seq(LogLines) /\ DOMAIN file = 1..Len(file)
    BY <1>1, LenProperties DEF AofInv, AofTypes
  <2>5. PICK p \in possible : Alike(Replayed(origin, file), p, slips)
    BY <1>1 DEF AofInv, Remembered, LogPossible
  <2> DEFINE o == Replayed(origin, file)
             q == Replayed(base, file)
  <2>6. /\ q.queue = o.queue
        /\ (\E i \in 1..Len(file) : file[i].verb \in TextVerbs) => q.text = o.text /\ q.timed = o.timed
        /\ Closer(q.list, o.list, base.list, origin.list)
    BY <2>3, <2>4, ReplayedOver
  <2>7. q \in Stores /\ o \in Stores
    BY <2>3, <2>4, ReplayedType
  <2>8. mem' = q /\ Alike(o, p, slips)
    BY <2>2, <2>5
  <2> HIDE DEF o, q
  <2>9. mem'.queue = p.queue
    BY <2>6, <2>8 DEF Alike
  <2>10. ASSUME Mentions({"SET", "SETEX", "DEL", "FLUSHDB"}), slips \cap TextSlips = {}
         PROVE  mem'.text = p.text /\ mem'.timed = p.timed
    <3>1. \E i \in 1..Len(file) : file[i].verb \in TextVerbs
      BY <2>4, <2>10 DEF Mentions, TextVerbs
    <3> QED
      BY <2>6, <2>8, <2>10, <3>1 DEF Alike
  <2>11. ASSUME slips \cap ListSlips = {}
         PROVE  mem'.list - p.list \in (0..more) \cup (more..0)
    <3>1. mem'.list = q.list /\ o.list = p.list
      BY <2>8, <2>11 DEF Alike
    <3>2. q.list \in Nat /\ o.list \in Nat /\ base.list \in Nat /\ origin.list \in Nat
      BY <2>3, <2>4, <2>7 DEF Stores, StoreShape
    <3>3. more = base.list - origin.list
      BY <2>2
    <3> QED
      BY <2>6, <3>1, <3>2, <3>3 DEF Closer
  <2> QED
    BY <2>9, <2>10, <2>11
<1>2. ASSUME AofInv, [Next]_vars PROVE [Exact]_vars
  BY <1>1, <1>2
<1> QED
  BY <1>2, AofInvariant, PTL DEF Spec, RecoveryExact
================================================================================
