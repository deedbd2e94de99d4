------------------------ MODULE AsyncLogging_proofs ------------------------
(***************************************************************************)
(* The asynchronous log: that files are left behind in time and named in   *)
(* order, for any sizes, any number of lines and any readings of the       *)
(* clock, also when buffers are aliased; and that, as long as no more was  *)
(* appended than two buffers take, every line gets to the files in order   *)
(* and once, or at most once if writes or flushes fail, however often.     *)
(*                                                                         *)
(* What FlattenSeq computes is proved by induction: the library's theorems *)
(* on induction have an operator for the induction hypothesis, but a       *)
(* nonempty set of naturals has a least element (WFMin), and a set is a    *)
(* parameter the provers can deal with.                                    *)
(***************************************************************************)
EXTENDS AsyncLogging, SequenceTheorems, WellFoundedInduction, TLAPS

File == [name : Nat, data : Seq(Nat), writtenBytes : Nat, kernel : Nat, fp : BOOLEAN]

file == files[Len(files)]

FilesOK == files \in Seq(File) /\ files # <<>>

\* file_ has no more than is accounted for, and what is accounted for is within
\* the size unless rollFile had to stay where it was.
SizeInv == /\ Len(file.data) <= file.writtenBytes
           /\ past => file.writtenBytes <= RollSize

\* Each append to a file of another day is counted in count_ as well, which a
\* roll for size leaves alone; so the check of the day is never put off.
DayInv == /\ count \in Nat /\ count <= CheckTimeRoll + 1
          /\ stale \in Nat /\ stale <= count
          /\ lastRoll \in Nat
          /\ \E k \in Nat : startOfPeriod = k * RollPerSeconds

FileInv == FilesOK /\ SizeInv /\ DayInv

----------------------------------------------------------------------------
(* What is left of a sequence of lines when some of them get lost.         *)

Increasing(s) == \A j, k \in DOMAIN s : j < k => s[j] < s[k]

\* s has no line that t does not have, and keeps the order that t is in.
Cut(s, t) == /\ s \in Seq(Nat)
             /\ \A j \in DOMAIN s : \E k \in DOMAIN t : s[j] = t[k]
             /\ Increasing(t) => Increasing(s)

LEMMA CutSame == ASSUME NEW s \in Seq(Nat) PROVE Cut(s, s)
BY DEF Cut

LEMMA CutTwice ==
  ASSUME NEW s, NEW t, NEW u, Cut(s, t), Cut(t, u) PROVE Cut(s, u)
<1>1. \A j \in DOMAIN s : \E k \in DOMAIN u : s[j] = u[k]
  <2> SUFFICES ASSUME NEW j \in DOMAIN s PROVE \E k \in DOMAIN u : s[j] = u[k]
    OBVIOUS
  <2>1. PICK m \in DOMAIN t : s[j] = t[m]
    BY DEF Cut
  <2>2. PICK k \in DOMAIN u : t[m] = u[k]
    BY DEF Cut
  <2> QED
    BY <2>1, <2>2
<1> QED
  BY <1>1 DEF Cut

LEMMA ConcatAt ==
  ASSUME NEW s \in Seq(Nat), NEW t \in Seq(Nat)
  PROVE  /\ s \o t \in Seq(Nat) /\ Len(s \o t) = Len(s) + Len(t)
         /\ DOMAIN s = 1 .. Len(s) /\ DOMAIN t = 1 .. Len(t)
         /\ DOMAIN (s \o t) = 1 .. Len(s) + Len(t)
         /\ \A k \in 1 .. Len(s) : (s \o t)[k] = s[k]
         /\ \A k \in 1 .. Len(t) : (s \o t)[Len(s) + k] = t[k]
OBVIOUS

\* Every place of s \o t is one of s or one of t.
LEMMA ConcatPlace ==
  ASSUME NEW m \in Nat, NEW n \in Nat, NEW k \in 1 .. m + n
  PROVE  k \in 1 .. m \/ \E l \in 1 .. n : k = m + l
<1>1. CASE k <= m
  BY <1>1
<1>2. CASE k > m
  <2>1. k - m \in 1 .. n /\ k = m + (k - m)
    BY <1>2
  <2> QED
    BY <2>1
<1> QED
  BY <1>1, <1>2

LEMMA IncreasingConcat ==
  ASSUME NEW s \in Seq(Nat), NEW t \in Seq(Nat)
  PROVE  Increasing(s \o t) <=>
           /\ Increasing(s) /\ Increasing(t)
           /\ \A j \in DOMAIN s, k \in DOMAIN t : s[j] < t[k]
<1> DEFINE m == Len(s)
           n == Len(t)
           w == s \o t
<1>1. /\ m \in Nat /\ n \in Nat
      /\ DOMAIN s = 1 .. m /\ DOMAIN t = 1 .. n /\ DOMAIN w = 1 .. m + n
      /\ \A k \in 1 .. m : w[k] = s[k]
      /\ \A k \in 1 .. n : w[m + k] = t[k]
  BY ConcatAt
<1> HIDE DEF m, n, w
<1>2. ASSUME Increasing(w)
      PROVE  /\ Increasing(s) /\ Increasing(t)
             /\ \A j \in DOMAIN s, k \in DOMAIN t : s[j] < t[k]
  <2>1. Increasing(s)
    <3>1. \A k \in 1 .. m : k \in 1 .. m + n
      BY <1>1
    <3> QED
      BY <1>1, <1>2, <3>1 DEF Increasing
  <2>2. ASSUME NEW j \in 1 .. n, NEW k \in 1 .. n, j < k PROVE t[j] < t[k]
    <3>1. m + j \in 1 .. m + n /\ m + k \in 1 .. m + n /\ m + j < m + k
      BY <1>1, <2>2
    <3>2. w[m + j] < w[m + k]
      BY <1>1, <1>2, <3>1 DEF Increasing
    <3> QED
      BY <1>1, <3>2
  <2>3. ASSUME NEW j \in 1 .. m, NEW k \in 1 .. n PROVE s[j] < t[k]
    <3>1. j \in 1 .. m + n /\ m + k \in 1 .. m + n /\ j < m + k
      BY <1>1, <2>3
    <3>2. w[j] < w[m + k]
      BY <1>1, <1>2, <3>1 DEF Increasing
    <3> QED
      BY <1>1, <3>2
  <2> QED
    BY <1>1, <2>1, <2>2, <2>3 DEF Increasing
<1>3. ASSUME Increasing(s), Increasing(t),
             \A j \in DOMAIN s, k \in DOMAIN t : s[j] < t[k],
             NEW j \in 1 .. m + n, NEW k \in 1 .. m + n, j < k
      PROVE  w[j] < w[k]
  <2>1. CASE j \in 1 .. m /\ k \in 1 .. m
    BY <1>1, <1>3, <2>1 DEF Increasing
  <2>2. ASSUME j \in 1 .. m, NEW l \in 1 .. n, k = m + l PROVE w[j] < w[k]
    BY <1>1, <1>3, <2>2
  <2>3. ASSUME NEW h \in 1 .. n, j = m + h, NEW l \in 1 .. n, k = m + l PROVE w[j] < w[k]
    <3>1. h < l
      BY <1>1, <1>3, <2>3
    <3>2. t[h] < t[l]
      BY <1>1, <1>3, <3>1 DEF Increasing
    <3> QED
      BY <1>1, <2>3, <3>2
  <2>4. ASSUME NEW h \in 1 .. n, j = m + h, k \in 1 .. m PROVE FALSE
    BY <1>1, <1>3, <2>4
  <2>5. j \in 1 .. m \/ \E h \in 1 .. n : j = m + h
    BY <1>1, ConcatPlace
  <2>6. k \in 1 .. m \/ \E l \in 1 .. n : k = m + l
    BY <1>1, ConcatPlace
  <2> QED
    BY <2>1, <2>2, <2>3, <2>4, <2>5, <2>6
<1> QED
  BY <1>1, <1>2, <1>3 DEF Increasing, w

\* What is cut from one part is cut from the whole.
LEMMA CutAfter ==
  ASSUME NEW p \in Seq(Nat), NEW t \in Seq(Nat), NEW s, Cut(s, t)
  PROVE  Cut(p \o s, p \o t)
<1>1. s \in Seq(Nat) /\ (Increasing(t) => Increasing(s))
      /\ \A j \in DOMAIN s : \E k \in DOMAIN t : s[j] = t[k]
  BY DEF Cut
<1>2. Increasing(p \o t) => Increasing(p \o s)
  <2> SUFFICES ASSUME Increasing(p \o t) PROVE Increasing(p \o s)
    OBVIOUS
  <2>1. /\ Increasing(p) /\ Increasing(t)
        /\ \A j \in DOMAIN p, k \in DOMAIN t : p[j] < t[k]
    BY IncreasingConcat
  <2>2. \A j \in DOMAIN p, k \in DOMAIN s : p[j] < s[k]
    BY <1>1, <2>1
  <2> QED
    BY <1>1, <2>1, <2>2, IncreasingConcat
<1> DEFINE m == Len(p)
           n == Len(s)
           l == Len(t)
           v == p \o s
           w == p \o t
<1>3. /\ m \in Nat /\ n \in Nat /\ l \in Nat /\ v \in Seq(Nat)
      /\ DOMAIN s = 1 .. n /\ DOMAIN t = 1 .. l
      /\ DOMAIN v = 1 .. m + n /\ DOMAIN w = 1 .. m + l
      /\ \A k \in 1 .. m : v[k] = p[k] /\ w[k] = p[k]
      /\ \A k \in 1 .. n : v[m + k] = s[k]
      /\ \A k \in 1 .. l : w[m + k] = t[k]
  BY <1>1, ConcatAt
<1> HIDE DEF m, n, l, v, w
<1>4. ASSUME NEW j \in 1 .. m + n PROVE \E k \in 1 .. m + l : v[j] = w[k]
  <2>1. CASE j \in 1 .. m
    <3>1. j \in 1 .. m + l
      BY <1>3, <2>1
    <3> QED
      BY <1>3, <2>1, <3>1
  <2>2. ASSUME NEW h \in 1 .. n, j = m + h PROVE \E k \in 1 .. m + l : v[j] = w[k]
    <3>1. PICK k \in 1 .. l : s[h] = t[k]
      BY <1>1, <1>3
    <3>2. m + k \in 1 .. m + l /\ v[j] = s[h] /\ w[m + k] = t[k]
      BY <1>3, <2>2
    <3> QED
      BY <3>1, <3>2
  <2>3. j \in 1 .. m \/ \E h \in 1 .. n : j = m + h
    BY <1>3, ConcatPlace
  <2> QED
    BY <2>1, <2>2, <2>3
<1>5. Cut(v, w)
  BY <1>2, <1>3, <1>4 DEF Cut, v, w
<1> QED
  BY <1>5 DEF v, w

LEMMA CutBefore ==
  ASSUME NEW q \in Seq(Nat), NEW t \in Seq(Nat), NEW s, Cut(s, t)
  PROVE  Cut(s \o q, t \o q)
<1>1. s \in Seq(Nat) /\ (Increasing(t) => Increasing(s))
      /\ \A j \in DOMAIN s : \E k \in DOMAIN t : s[j] = t[k]
  BY DEF Cut
<1>2. Increasing(t \o q) => Increasing(s \o q)
  <2> SUFFICES ASSUME Increasing(t \o q) PROVE Increasing(s \o q)
    OBVIOUS
  <2>1. /\ Increasing(t) /\ Increasing(q)
        /\ \A j \in DOMAIN t, k \in DOMAIN q : t[j] < q[k]
    BY IncreasingConcat
  <2>2. \A j \in DOMAIN s, k \in DOMAIN q : s[j] < q[k]
    BY <1>1, <2>1
  <2> QED
    BY <1>1, <2>1, <2>2, IncreasingConcat
<1> DEFINE m == Len(q)
           n == Len(s)
           l == Len(t)
           v == s \o q
           w == t \o q
<1>3. /\ m \in Nat /\ n \in Nat /\ l \in Nat /\ v \in Seq(Nat)
      /\ DOMAIN s = 1 .. n /\ DOMAIN t = 1 .. l
      /\ DOMAIN v = 1 .. n + m /\ DOMAIN w = 1 .. l + m
      /\ \A k \in 1 .. n : v[k] = s[k]
      /\ \A k \in 1 .. l : w[k] = t[k]
      /\ \A k \in 1 .. m : v[n + k] = q[k] /\ w[l + k] = q[k]
  BY <1>1, ConcatAt
<1> HIDE DEF m, n, l, v, w
<1>4. ASSUME NEW j \in 1 .. n + m PROVE \E k \in 1 .. l + m : v[j] = w[k]
  <2>1. CASE j \in 1 .. n
    <3>1. PICK k \in 1 .. l : s[j] = t[k]
      BY <1>1, <1>3, <2>1
    <3>2. k \in 1 .. l + m /\ v[j] = s[j] /\ w[k] = t[k]
      BY <1>3, <2>1
    <3> QED
      BY <3>1, <3>2
  <2>2. ASSUME NEW h \in 1 .. m, j = n + h PROVE \E k \in 1 .. l + m : v[j] = w[k]
    <3>1. l + h \in 1 .. l + m /\ v[j] = q[h] /\ w[l + h] = q[h]
      BY <1>3, <2>2
    <3> QED
      BY <3>1
  <2> QED
    BY <1>3, <2>1, <2>2, ConcatPlace
<1>5. Cut(v, w)
  BY <1>2, <1>3, <1>4 DEF Cut, v, w
<1> QED
  BY <1>5 DEF v, w

\* The first a lines of s and those after the first b, up to the first c.
LEMMA CutPieces ==
  ASSUME NEW s \in Seq(Nat), NEW a \in Nat, NEW b \in Nat, NEW c \in Nat,
         a <= b, b <= c, c <= Len(s)
  PROVE  LET w == SubSeq(s, 1, a) \o SubSeq(s, b + 1, c)
         IN  /\ Cut(w, s) /\ Len(w) = a + (c - b)
             /\ a = b /\ c = Len(s) => w = s
<1> DEFINE u == SubSeq(s, 1, a)
           v == SubSeq(s, b + 1, c)
           w == u \o v
           At(k) == IF k <= a THEN k ELSE k + (b - a)
<1>1. u \in Seq(Nat) /\ Len(u) = a /\ \A k \in 1 .. a : u[k] = s[k]
  OBVIOUS
<1>2. v \in Seq(Nat) /\ Len(v) = c - b /\ \A k \in 1 .. c - b : v[k] = s[b + k]
  OBVIOUS
<1> HIDE DEF u, v
<1>3. /\ w \in Seq(Nat) /\ Len(w) = a + (c - b) /\ DOMAIN w = 1 .. a + (c - b)
      /\ \A k \in 1 .. a : w[k] = u[k]
      /\ \A k \in 1 .. c - b : w[a + k] = v[k]
  <2>1. /\ w \in Seq(Nat) /\ Len(w) = Len(u) + Len(v)
        /\ DOMAIN w = 1 .. Len(u) + Len(v)
    BY <1>1, <1>2, ConcatAt
  <2>2. \A k \in 1 .. Len(u) : w[k] = u[k]
    BY <1>1, <1>2, ConcatAt
  <2>3. \A k \in 1 .. Len(v) : w[Len(u) + k] = v[k]
    BY <1>1, <1>2, ConcatAt
  <2> QED
    BY <1>1, <1>2, <2>1, <2>2, <2>3, Zenon
<1> HIDE DEF w
<1>4. ASSUME NEW k \in 1 .. a + (c - b) PROVE w[k] = s[At(k)] /\ At(k) \in 1 .. Len(s)
  <2>1. CASE k <= a
    <3>1. k \in 1 .. a /\ At(k) = k /\ k \in 1 .. Len(s)
      BY <2>1
    <3> HIDE DEF At
    <3> QED
      BY <1>1, <1>3, <3>1
  <2>2. CASE k > a
    <3> DEFINE l == k - a
    <3>1. l \in 1 .. c - b /\ k = a + l /\ b + l = k + (b - a)
      BY <2>2
    <3> HIDE DEF l
    <3>2. w[a + l] = v[l] /\ v[l] = s[b + l]
      BY <1>2, <1>3, <3>1
    <3>3. At(k) = b + l
      BY <2>2, <3>1
    <3>4. b + l \in 1 .. Len(s)
      BY <3>1
    <3> QED
      BY <3>1, <3>2, <3>3, <3>4
  <2> QED
    BY <2>1, <2>2
<1>5. \A j, k \in 1 .. a + (c - b) : j < k => At(j) < At(k)
  OBVIOUS
<1>6. a = b /\ c = Len(s) => w = s
  <2> SUFFICES ASSUME a = b, c = Len(s) PROVE w = s
    OBVIOUS
  <2>1. Len(w) = Len(s) /\ Len(s) = a + (c - b)
    BY <1>3
  <2>2. \A k \in 1 .. Len(s) : At(k) = k
    OBVIOUS
  <2> HIDE DEF At
  <2>3. \A k \in 1 .. Len(s) : w[k] = s[k]
    BY <1>4, <2>1, <2>2
  <2> QED
    BY <1>3, <2>1, <2>3, SeqEqual
<1> HIDE DEF At
<1>7. DOMAIN s = 1 .. Len(s)
  OBVIOUS
<1>8. Increasing(s) => Increasing(w)
  BY <1>3, <1>4, <1>5, <1>7 DEF Increasing
<1>9. \A j \in DOMAIN w : \E k \in DOMAIN s : w[j] = s[k]
  BY <1>3, <1>4, <1>7
<1>10. Cut(w, s)
  BY <1>3, <1>8, <1>9 DEF Cut
<1> QED
  BY <1>3, <1>6, <1>10 DEF w, u, v

LEMMA ConcatAssoc ==
  ASSUME NEW s \in Seq(Nat), NEW t \in Seq(Nat), NEW u \in Seq(Nat)
  PROVE  (s \o t) \o u = s \o (t \o u)
OBVIOUS

----------------------------------------------------------------------------
(* What the operations on files do.                                        *)

\* What stdio was given: f's data and lines of data behind it.
LEMMA TakenIs ==
  ASSUME NEW f \in File, NEW data \in Seq(Nat), NEW n \in Nat, NEW x \in Nat,
         n + x <= Len(data)
  PROVE  /\ Cut(Taken(f, data, n, x), f.data \o data) /\ f.data \o data \in Seq(Nat)
         /\ Len(Taken(f, data, n, x)) = Len(f.data) + (n + x)
         /\ n + x = Len(data) => Taken(f, data, n, x) = f.data \o data
<1> DEFINE u == SubSeq(data, 1, n)
           v == SubSeq(data, n + 1, n + x)
<1>1. f.data \in Seq(Nat)
  BY DEF File
<1>2. u \in Seq(Nat) /\ v \in Seq(Nat)
  OBVIOUS
<1>3. /\ Cut(u \o v, data) /\ Len(u \o v) = n + ((n + x) - n)
      /\ n = n /\ n + x = Len(data) => u \o v = data
  <2> DEFINE c == n + x
  <2>1. c \in Nat /\ n <= n /\ n <= c /\ c <= Len(data)
    OBVIOUS
  <2>2. v = SubSeq(data, n + 1, c)
    OBVIOUS
  <2> HIDE DEF c, v
  <2>3. LET w == u \o SubSeq(data, n + 1, c)
        IN  /\ Cut(w, data) /\ Len(w) = n + (c - n)
            /\ n = n /\ c = Len(data) => w = data
    BY <2>1, CutPieces
  <2> QED
    BY <2>2, <2>3, Zenon DEF c
<1>4. Taken(f, data, n, x) = (f.data \o u) \o v
  BY DEF Taken, Retry
<1> HIDE DEF u, v
<1>5. (f.data \o u) \o v = f.data \o (u \o v)
  BY <1>1, <1>2, ConcatAssoc
<1>6. u \o v \in Seq(Nat)
  BY <1>3 DEF Cut
<1>7. Cut(f.data \o (u \o v), f.data \o data)
  BY <1>1, <1>3, CutAfter
<1>8. Len(f.data \o (u \o v)) = Len(f.data) + Len(u \o v) /\ f.data \o data \in Seq(Nat)
  BY <1>1, <1>6, ConcatAt
<1>9. Len(u \o v) = n + x
  BY <1>3
<1> QED
  BY <1>3, <1>4, <1>5, <1>7, <1>8, <1>9, Zenon

\* The file after an append: whatever is lost, nothing is doubled or moved.
LEMMA Appended ==
  ASSUME NEW f \in File, NEW data \in Seq(Nat), NEW n \in Nat, NEW x \in Nat,
         n + x <= Len(data), NEW a \in Nat, NEW b \in Nat, a <= b,
         b <= Len(Taken(f, data, n, x))
  PROVE  LET g == FileAppend(f, data, n, x, a, b)
         IN  /\ g \in File /\ g.name = f.name
             /\ g.writtenBytes = f.writtenBytes + Len(data)
             /\ Len(g.data) <= Len(f.data) + Len(data)
             /\ Cut(g.data, f.data \o data)
             /\ n + x = Len(data) /\ a = b => g.data = f.data \o data
<1> DEFINE all == Taken(f, data, n, x)
           l == Len(all)
           left == SubSeq(all, 1, a) \o SubSeq(all, b + 1, l)
           sure == IF a < b THEN a ELSE f.kernel
           kernel == IF Len(left) - StdioSize > sure THEN Len(left) - StdioSize ELSE sure
           g == [f EXCEPT !.data = left, !.writtenBytes = f.writtenBytes + Len(data),
                          !.kernel = kernel]
<1>1. /\ f.data \in Seq(Nat) /\ f.writtenBytes \in Nat /\ f.kernel \in Nat
      /\ f.name \in Nat
  BY DEF File
<1>2. /\ Cut(all, f.data \o data) /\ f.data \o data \in Seq(Nat)
      /\ l = Len(f.data) + (n + x)
      /\ n + x = Len(data) => all = f.data \o data
  BY TakenIs
<1>3. FileAppend(f, data, n, x, a, b) = g
  BY DEF FileAppend, Without, Written
<1>4. all \in Seq(Nat)
  BY <1>2 DEF Cut
<1>5. a <= b /\ b <= l /\ l <= Len(all) /\ l \in Nat
  BY <1>4
<1> HIDE DEF all, l
<1>6. /\ Cut(left, all) /\ Len(left) = a + (l - b)
      /\ a = b /\ l = Len(all) => left = all
  <2>1. LET w == SubSeq(all, 1, a) \o SubSeq(all, b + 1, l)
        IN  /\ Cut(w, all) /\ Len(w) = a + (l - b)
            /\ a = b /\ l = Len(all) => w = all
    BY ONLY a \in Nat, b \in Nat, <1>4, <1>5, CutPieces
  <2> QED
    BY <2>1, Zenon
<1> HIDE DEF left
<1>7. left \in Seq(Nat) /\ Cut(left, f.data \o data)
  <2>1. Cut(left, f.data \o data)
    BY <1>2, <1>6, CutTwice, Zenon
  <2> QED
    BY <2>1 DEF Cut
<1>8. Len(left) <= Len(f.data) + Len(data)
  <2>1. Len(f.data) \in Nat /\ Len(data) \in Nat
    BY <1>1
  <2> DEFINE k == Len(left)
             j == Len(f.data)
             h == Len(data)
  <2>2. l = j + (n + x) /\ k = a + (l - b) /\ n + x <= h
    BY <1>2, <1>6, Zenon
  <2>3. j \in Nat /\ h \in Nat
    BY <2>1
  <2>4. a <= b /\ b <= l
    BY <1>5
  <2> HIDE DEF k, j, h, l
  <2>5. k <= j + h
    BY <2>2, <2>3, <2>4
  <2> QED
    BY <2>5 DEF k, j, h
<1>9. n + x = Len(data) /\ a = b => left = f.data \o data
  BY <1>2, <1>6, Zenon DEF l
<1>10. sure \in Nat
  BY <1>1
<1> HIDE DEF sure
<1>11. kernel \in Nat
  BY <1>6, <1>7, <1>10, RollAssumption
<1>12. f.writtenBytes + Len(data) \in Nat
  BY <1>1
<1> HIDE DEF kernel
<1>13. /\ g \in File /\ g.name = f.name /\ g.data = left
       /\ g.writtenBytes = f.writtenBytes + Len(data)
  BY <1>7, <1>11, <1>12 DEF File
<1> QED
  BY <1>3, <1>7, <1>8, <1>9, <1>13

\* The file after a flush that hands over m lines.
LEMMA Flushed ==
  ASSUME NEW f \in File, NEW m \in Nat, m <= Len(f.data)
  PROVE  LET g == FileFlush(f, m)
         IN  /\ g \in File /\ g.name = f.name /\ g.writtenBytes = f.writtenBytes
             /\ Cut(g.data, f.data) /\ Len(g.data) <= Len(f.data)
             /\ m = Len(f.data) => g.data = f.data
<1> DEFINE s == f.data
           u == SubSeq(s, 1, m)
           l == Len(s)
           v == SubSeq(s, l + 1, l)
           g == [f EXCEPT !.data = u, !.kernel = m]
<1>1. s \in Seq(Nat) /\ l \in Nat
  BY DEF File
<1>2. FileFlush(f, m) = g
  BY DEF FileFlush
<1>3. u \in Seq(Nat) /\ Len(u) = m /\ u \o v = u /\ (m = l => u = s)
  <2> HIDE DEF s
  <2>1. u \in Seq(Nat) /\ Len(u) = m /\ (m = l => u = s)
    BY <1>1 DEF s
  <2>2. v = <<>>
    BY <1>1, SubSeqEmpty
  <2> HIDE DEF u
  <2> QED
    BY <2>1, <2>2
<1>4. Cut(u \o v, s)
  <2>1. m <= l /\ l <= l /\ l <= Len(s)
    BY <1>1
  <2> HIDE DEF s, l
  <2> QED
    BY <1>1, <2>1, CutPieces
<1> HIDE DEF u, v
<1>5. g \in File /\ g.name = f.name /\ g.data = u /\ g.writtenBytes = f.writtenBytes
  BY <1>3 DEF File
<1> QED
  BY <1>2, <1>3, <1>4, <1>5

\* Only the last file is touched.
LEMMA LastReplaced ==
  ASSUME NEW fs \in Seq(File), fs # <<>>, NEW f \in File
  PROVE  /\ [fs EXCEPT ![Len(fs)] = f] \in Seq(File)
         /\ [fs EXCEPT ![Len(fs)] = f] # <<>>
         /\ Len([fs EXCEPT ![Len(fs)] = f]) = Len(fs)
         /\ [fs EXCEPT ![Len(fs)] = f][Len(fs)] = f
OBVIOUS

LEMMA LastAppended ==
  ASSUME NEW fs \in Seq(File), NEW f \in File
  PROVE  /\ Append(fs, f) \in Seq(File) /\ Append(fs, f) # <<>>
         /\ Len(Append(fs, f)) = Len(fs) + 1
         /\ Append(fs, f)[Len(fs) + 1] = f
OBVIOUS

\* LogFileAppend without the choices of File::append: f is the file it leaves.
LEMMA AppendTaken ==
  ASSUME files \in Seq(File), files # <<>>, NEW data \in Seq(Nat), LogFileAppend(data)
  PROVE  \E now, then \in Seconds, f \in File, lost \in BOOLEAN :
           /\ f.name = file.name
           /\ f.writtenBytes = file.writtenBytes + Len(data)
           /\ Len(f.data) <= Len(file.data) + Len(data)
           /\ Cut(f.data, file.data \o data)
           /\ ~lost => ~failed /\ f.data = file.data \o data
           /\ AppendUnlocked([files EXCEPT ![Len(files)] = f], lost, now, then)
           /\ past' = (now > lastRoll' /\ then > lastRoll')
           /\ stale' = IF \/ Len(files') > Len(files)
                          \/ now \div RollPerSeconds = startOfPeriod \div RollPerSeconds
                          \/ now <= lastRoll \/ then <= lastRoll
                       THEN 0 ELSE stale + 1
<1>1. file \in File /\ Last(files) = file
  BY DEF file, Last
<1> DEFINE Step(g, n, x, a, b, now, then) ==
             /\ AppendUnlocked(SetLast(files, FileAppend(g, data, n, x, a, b)),
                               failed \/ n + x < Len(data) \/ a < b, now, then)
             /\ past' = (now > lastRoll' /\ then > lastRoll')
             /\ stale' = IF \/ Len(files') > Len(files)
                            \/ now \div RollPerSeconds = startOfPeriod \div RollPerSeconds
                            \/ now <= lastRoll \/ then <= lastRoll
                         THEN 0 ELSE stale + 1
<1>2. \E n \in 0 .. Len(data) : \E x \in 0 .. Len(data) - n :
      \E a \in Last(files).kernel .. Len(Taken(Last(files), data, n, x)) :
      \E b \in a .. Len(Taken(Last(files), data, n, x)), now, then \in Seconds :
        Step(Last(files), n, x, a, b, now, then)
  BY DEF LogFileAppend
<1> HIDE DEF Step
<1>3. PICK n \in 0 .. Len(data) : \E x \in 0 .. Len(data) - n :
      \E a \in Last(files).kernel .. Len(Taken(Last(files), data, n, x)) :
      \E b \in a .. Len(Taken(Last(files), data, n, x)), now, then \in Seconds :
        Step(Last(files), n, x, a, b, now, then)
  BY <1>2, Zenon
<1>4. PICK x \in 0 .. Len(data) - n :
      \E a \in Last(files).kernel .. Len(Taken(Last(files), data, n, x)) :
      \E b \in a .. Len(Taken(Last(files), data, n, x)), now, then \in Seconds :
        Step(Last(files), n, x, a, b, now, then)
  BY <1>3, Zenon
<1>5. PICK a \in Last(files).kernel .. Len(Taken(Last(files), data, n, x)) :
      \E b \in a .. Len(Taken(Last(files), data, n, x)), now, then \in Seconds :
        Step(Last(files), n, x, a, b, now, then)
  BY <1>4, Zenon
<1>6. PICK b \in a .. Len(Taken(Last(files), data, n, x)),
           now \in Seconds, then \in Seconds : Step(Last(files), n, x, a, b, now, then)
  BY <1>5, Zenon
<1>7. /\ Step(file, n, x, a, b, now, then)
      /\ a \in file.kernel .. Len(Taken(file, data, n, x))
      /\ b \in a .. Len(Taken(file, data, n, x))
  BY <1>1, <1>6
<1> DEFINE f == FileAppend(file, data, n, x, a, b)
           lost == failed \/ n + x < Len(data) \/ a < b
           fs == [files EXCEPT ![Len(files)] = f]
<1>8. /\ n \in Nat /\ x \in Nat /\ n + x <= Len(data) /\ Len(data) \in Nat
      /\ file.kernel \in Nat
  BY <1>1 DEF File
<1>9. Len(Taken(file, data, n, x)) \in Nat
  <2>1. Len(file.data) \in Nat
    BY <1>1 DEF File
  <2>2. Len(Taken(file, data, n, x)) = Len(file.data) + (n + x)
    BY <1>1, <1>8, TakenIs, Zenon
  <2> DEFINE k == Len(file.data)
  <2>3. k \in Nat
    BY <2>1
  <2>4. Len(Taken(file, data, n, x)) = k + (n + x)
    BY <2>2
  <2> HIDE DEF k
  <2>5. k + (n + x) \in Nat
    BY <1>8, <2>3
  <2> QED
    BY <2>4, <2>5, Zenon
<1>10. a \in Nat /\ b \in Nat /\ a <= b /\ b <= Len(Taken(file, data, n, x))
  BY <1>7, <1>8, <1>9
<1>11. /\ f \in File /\ f.name = file.name
       /\ f.writtenBytes = file.writtenBytes + Len(data)
       /\ Len(f.data) <= Len(file.data) + Len(data)
       /\ Cut(f.data, file.data \o data)
       /\ n + x = Len(data) /\ a = b => f.data = file.data \o data
  BY <1>1, <1>8, <1>10, Appended
<1>12. SetLast(files, f) = fs
  BY DEF SetLast
<1> HIDE DEF f
<1>13. ~(n + x < Len(data)) /\ ~(a < b) => n + x = Len(data) /\ a = b
  BY <1>8, <1>10
<1>14. ~lost => ~failed /\ f.data = file.data \o data
  BY <1>11, <1>13, Zenon
<1>15. lost \in BOOLEAN
  BY Zenon
<1>16. AppendUnlocked(fs, lost, now, then)
  BY <1>7, <1>12, Zenon DEF f, Step
<1>17. /\ past' = (now > lastRoll' /\ then > lastRoll')
       /\ stale' = IF \/ Len(files') > Len(files)
                      \/ now \div RollPerSeconds = startOfPeriod \div RollPerSeconds
                      \/ now <= lastRoll \/ then <= lastRoll
                   THEN 0 ELSE stale + 1
  BY <1>7, Zenon DEF Step
<1> HIDE DEF lost, fs
<1> QED
  BY <1>11, <1>14, <1>15, <1>16, <1>17, Zenon DEF fs

\* And a flush without the choice of what gets through.
LEMMA FlushTaken ==
  ASSUME NEW fs \in Seq(File), fs # <<>>, NEW lost, Flush(fs, lost)
  PROVE  \E g \in File :
           /\ g.name = fs[Len(fs)].name /\ g.writtenBytes = fs[Len(fs)].writtenBytes
           /\ Cut(g.data, fs[Len(fs)].data) /\ Len(g.data) <= Len(fs[Len(fs)].data)
           /\ ~failed' => ~lost /\ g.data = fs[Len(fs)].data
           /\ files' = [fs EXCEPT ![Len(fs)] = g]
<1> DEFINE f == fs[Len(fs)]
<1>1. f \in File /\ Last(fs) = f
  BY DEF Last
<1>2. PICK m \in f.kernel .. Len(f.data) :
        files' = SetLast(fs, FileFlush(f, m)) /\ failed' = (lost \/ m < Len(f.data))
  BY <1>1, Zenon DEF Flush
<1> DEFINE g == FileFlush(f, m)
<1> HIDE DEF f
<1>3. f.kernel \in Nat /\ Len(f.data) \in Nat
  BY <1>1 DEF File
<1>4. m \in Nat /\ m <= Len(f.data)
  BY <1>3
<1>5. /\ g \in File /\ g.name = f.name /\ g.writtenBytes = f.writtenBytes
      /\ Cut(g.data, f.data) /\ Len(g.data) <= Len(f.data)
      /\ m = Len(f.data) => g.data = f.data
  BY <1>1, <1>4, Flushed
<1>6. ~(m < Len(f.data)) => m = Len(f.data)
  BY <1>3, <1>4
<1>7. files' = [fs EXCEPT ![Len(fs)] = g]
  BY <1>2 DEF SetLast
<1> HIDE DEF g
<1>8. ~failed' => ~lost /\ g.data = f.data
  BY <1>2, <1>5, <1>6, Zenon
<1> QED
  BY <1>5, <1>7, <1>8, Zenon DEF f

LEMMA PeriodStarts ==
  ASSUME NEW t \in Nat PROVE \E k \in Nat : Period(t) = k * RollPerSeconds
<1>1. t \div RollPerSeconds \in Nat
  BY RollAssumption
<1> QED
  BY <1>1, Zenon DEF Period

\* The day of a second is told by the start of its period.
LEMMA SameDay ==
  ASSUME NEW t \in Nat, NEW k \in Nat, Period(t) = k * RollPerSeconds
  PROVE  t \div RollPerSeconds = (k * RollPerSeconds) \div RollPerSeconds
<1>1. RollPerSeconds \in Nat /\ RollPerSeconds > 0
  BY RollAssumption
<1>2. \A m \in Nat : (m * RollPerSeconds) \div RollPerSeconds = m
  BY <1>1
<1>3. t \div RollPerSeconds \in Nat
  BY <1>1
<1> QED
  BY <1>2, <1>3 DEF Period
----------------------------------------------------------------------------
(* The file invariant.                                                     *)

\* rollFile begins a new file, or leaves everything as it is.
LEMMA Rolled ==
  ASSUME NEW fs \in Seq(File), fs # <<>>, NEW t \in Nat, RollFile(fs, t),
         lastRoll \in Nat
  PROVE  \/ /\ t > lastRoll /\ lastRoll' = t /\ startOfPeriod' = Period(t)
            /\ FilesOK' /\ Len(files') = Len(fs) + 1
            /\ file'.data = <<>> /\ file'.writtenBytes = 0
         \/ /\ t <= lastRoll /\ lastRoll' = lastRoll /\ startOfPeriod' = startOfPeriod
            /\ files' = fs
<1>1. CASE MayRoll(t)
  <2>1. PICK ok \in BOOLEAN : files' = Append(fs, NewFile(t, ok))
    BY <1>1 DEF RollFile
  <2>2. lastRoll' = t /\ startOfPeriod' = Period(t)
    BY <1>1 DEF RollFile
  <2>3. /\ NewFile(t, ok) \in File /\ NewFile(t, ok).data = <<>>
        /\ NewFile(t, ok).writtenBytes = 0
    BY DEF NewFile, File
  <2>4. FilesOK' /\ Len(files') = Len(fs) + 1 /\ file' = NewFile(t, ok)
    BY <2>1, <2>3, LastAppended DEF FilesOK, file
  <2> QED
    BY <1>1, <2>2, <2>3, <2>4 DEF MayRoll
<1>2. CASE ~MayRoll(t)
  BY <1>2 DEF RollFile, MayRoll
<1> QED
  BY <1>1, <1>2

\* What append_unlocked makes of the files, by the way it takes.
LEMMA AppendKeepsFiles ==
  ASSUME FileInv, NEW data \in Seq(Nat), LogFileAppend(data)
  PROVE  FileInv'
<1> USE DEF FileInv
<1>1. PICK now \in Seconds, then \in Seconds, f \in File, lost \in BOOLEAN :
        /\ f.writtenBytes = file.writtenBytes + Len(data)
        /\ Len(f.data) <= Len(file.data) + Len(data)
        /\ AppendUnlocked([files EXCEPT ![Len(files)] = f], lost, now, then)
        /\ past' = (now > lastRoll' /\ then > lastRoll')
        /\ stale' = IF \/ Len(files') > Len(files)
                       \/ now \div RollPerSeconds = startOfPeriod \div RollPerSeconds
                       \/ now <= lastRoll \/ then <= lastRoll
                    THEN 0 ELSE stale + 1
  <2>1. file \in File
    BY DEF FilesOK, file
  <2> QED
    BY <2>1, AppendTaken DEF FilesOK
<1>2. now \in Nat /\ then \in Nat /\ lastRoll \in Nat
  BY SecondsAssumption DEF DayInv
<1> DEFINE fs == [files EXCEPT ![Len(files)] = f]
<1>3. file \in File
  BY DEF FilesOK, file
<1>4. f.writtenBytes \in Nat /\ Len(f.data) \in Nat /\ Len(f.data) <= f.writtenBytes
  <2>1. file.writtenBytes \in Nat /\ Len(file.data) \in Nat /\ Len(f.data) \in Nat
    BY <1>3 DEF File
  <2> QED
    BY <1>1, <2>1 DEF SizeInv
<1>6. fs \in Seq(File) /\ fs # <<>> /\ Len(fs) = Len(files) /\ fs[Len(fs)] = f
  BY <1>4, LastReplaced DEF FilesOK
<1>7. \/ f.writtenBytes > RollSize /\ RollFile(fs, then) /\ UNCHANGED count
      \/ /\ f.writtenBytes <= RollSize
         /\ \/ TimeToCheck /\ count' = 0 /\ CheckTime(fs, lost, now, then)
            \/ /\ ~TimeToCheck
               /\ count' = count + 1
               /\ files' = fs
               /\ UNCHANGED <<lastRoll, lastFlush, startOfPeriod>>
  BY <1>1, <1>6 DEF AppendUnlocked, Last
<1> HIDE DEF fs
\* A roll, or an attempt at one.
<1>8. ASSUME RollFile(fs, then), count' \in {0, count} PROVE FileInv'
  <2>1. CASE /\ then > lastRoll /\ lastRoll' = then /\ startOfPeriod' = Period(then)
             /\ FilesOK' /\ Len(files') = Len(fs) + 1
             /\ file'.data = <<>> /\ file'.writtenBytes = 0
    <3>1. SizeInv'
      BY <2>1, RollAssumption DEF SizeInv
    <3>2. stale' = 0
      BY <1>1, <1>6, <2>1 DEF FilesOK
    <3>3. \E k \in Nat : startOfPeriod' = k * RollPerSeconds
      BY <1>2, <2>1, PeriodStarts
    <3>4. /\ count \in Nat /\ count <= CheckTimeRoll + 1
      BY DEF DayInv
    <3>5. /\ count' \in Nat /\ count' <= CheckTimeRoll + 1
          /\ stale' \in Nat /\ stale' <= count' /\ lastRoll' \in Nat
      BY <1>2, <1>8, <2>1, <3>2, <3>4, RollAssumption
    <3>6. DayInv'
      BY <3>3, <3>5, Zenon DEF DayInv
    <3> QED
      BY <2>1, <3>1, <3>6
  <2>2. CASE /\ then <= lastRoll /\ lastRoll' = lastRoll /\ startOfPeriod' = startOfPeriod
             /\ files' = fs
    <3>1. ~(then > lastRoll')
      BY <1>2, <2>2
    <3>2. ~past'
      BY <1>1, <3>1
    <3>3. FilesOK' /\ file' = f
      BY <1>6, <2>2 DEF FilesOK, file
    <3>4. SizeInv'
      BY <1>4, <3>2, <3>3 DEF SizeInv
    <3>5. stale' = 0
      BY <1>1, <2>2
    <3>6. DayInv'
      BY <1>8, <2>2, <3>5, RollAssumption DEF DayInv
    <3> QED
      BY <3>3, <3>4, <3>6
  <2> QED
    BY <1>2, <1>6, <1>8, <2>1, <2>2, Rolled
\* The file stays, or is flushed.
<1>9. ASSUME f.writtenBytes <= RollSize, NEW g \in File,
             Len(g.data) <= Len(f.data), g.writtenBytes = f.writtenBytes,
             FilesOK', Len(files') = Len(files), file' = g,
             UNCHANGED <<lastRoll, startOfPeriod>>,
             \/ count' = 0 /\ Period(now) = startOfPeriod
             \/ count' = count + 1 /\ ~TimeToCheck
      PROVE  FileInv'
  <2>1. SizeInv'
    <3>1. Len(g.data) \in Nat
      BY <1>9 DEF File
    <3> QED
      BY <1>4, <1>9, <3>1 DEF SizeInv
  <2>2. CASE count' = 0 /\ Period(now) = startOfPeriod
    <3>1. now \div RollPerSeconds = startOfPeriod \div RollPerSeconds
      BY <1>2, <2>2, SameDay DEF DayInv
    <3>2. stale' = 0
      BY <1>1, <3>1
    <3> QED
      BY <1>9, <2>1, <2>2, <3>2, RollAssumption DEF DayInv
  <2>3. CASE count' = count + 1 /\ ~TimeToCheck
    <3>1. stale' \in {0, stale + 1}
      BY <1>1
    <3>2. /\ count' \in Nat /\ count' <= CheckTimeRoll + 1
          /\ stale' \in Nat /\ stale' <= count'
      BY <2>3, <3>1, RollAssumption DEF DayInv, TimeToCheck
    <3>3. DayInv'
      BY <1>9, <3>2 DEF DayInv
    <3> QED
      BY <1>9, <2>1, <3>3
  <2> QED
    BY <1>9, <2>2, <2>3
<1>10. CASE f.writtenBytes > RollSize /\ RollFile(fs, then) /\ UNCHANGED count
  BY <1>8, <1>10
<1>11. CASE f.writtenBytes <= RollSize /\ TimeToCheck /\ count' = 0
             /\ CheckTime(fs, lost, now, then)
  <2>1. CASE RollFile(fs, then)
    BY <1>8, <1>11, <2>1
  <2>2. CASE Period(now) = startOfPeriod /\ Flush(fs, lost)
               /\ UNCHANGED <<lastRoll, startOfPeriod>>
    <3>1. PICK g \in File : /\ Len(g.data) <= Len(f.data) /\ g.writtenBytes = f.writtenBytes
                            /\ files' = [fs EXCEPT ![Len(fs)] = g]
      BY <1>6, <2>2, FlushTaken
    <3>2. g \in File
      OBVIOUS
    <3>3. FilesOK' /\ Len(files') = Len(files) /\ file' = g
      BY <1>6, <3>1, <3>2, LastReplaced DEF FilesOK, file
    <3> QED
      BY <1>9, <1>11, <2>2, <3>1, <3>3
  <2>3. CASE Period(now) = startOfPeriod /\ files' = fs /\ UNCHANGED <<lastRoll, startOfPeriod>>
    <3>1. FilesOK' /\ Len(files') = Len(files) /\ file' = f
      BY <1>6, <2>3 DEF FilesOK, file
    <3>2. Len(f.data) <= Len(f.data)
      BY <1>4
    <3> QED
      BY <1>9, <1>11, <2>3, <3>1, <3>2
  <2> QED
    BY <1>11, <2>1, <2>2, <2>3 DEF CheckTime
<1>12. CASE /\ f.writtenBytes <= RollSize /\ ~TimeToCheck
            /\ count' = count + 1 /\ files' = fs
            /\ UNCHANGED <<lastRoll, lastFlush, startOfPeriod>>
  <2>1. FilesOK' /\ Len(files') = Len(files) /\ file' = f
    BY <1>6, <1>12 DEF FilesOK, file
  <2>2. Len(f.data) <= Len(f.data)
    BY <1>4
  <2> QED
    BY <1>9, <1>12, <2>1, <2>2
<1> QED
  BY <1>7, <1>10, <1>11, <1>12
\* A flush of the current file.
LEMMA FlushKeepsFiles ==
  ASSUME FileInv, LogFileFlush,
         UNCHANGED <<count, startOfPeriod, lastRoll, past, stale>>
  PROVE  FileInv'
<1>1. files \in Seq(File) /\ files # <<>> /\ file \in File
  BY DEF FileInv, FilesOK, file
<1>2. PICK f \in File : /\ Len(f.data) <= Len(file.data)
                        /\ f.writtenBytes = file.writtenBytes
                        /\ files' = [files EXCEPT ![Len(files)] = f]
  <2>1. Flush(files, failed)
    BY DEF LogFileFlush
  <2> QED
    BY <1>1, <2>1, FlushTaken DEF file
<1>3. FilesOK' /\ file' = f
  BY <1>1, <1>2, LastReplaced DEF FilesOK, file
<1>4. Len(f.data) \in Nat /\ Len(file.data) \in Nat /\ file.writtenBytes \in Nat
  BY <1>1 DEF File
<1>5. SizeInv'
  BY <1>2, <1>3, <1>4 DEF FileInv, SizeInv
<1>6. DayInv'
  BY DEF FileInv, DayInv
<1> QED
  BY <1>3, <1>5, <1>6 DEF FileInv

----------------------------------------------------------------------------
(* The invariant of the logging thread.                                    *)

\* Every pointer that is followed points to a buffer: newBuffer1 has been seen
\* by the assert at the head of the loop when it is given away.
BufferInv ==
  /\ content \in [Buffers -> Seq(Nat)]
  /\ currentBuffer \in Buffers /\ nextBuffer \in Buffers
  /\ buffers \in Seq(Buffers) /\ buffersToWrite \in Seq(Buffers)
  /\ newBuffer1 \in Buffers \cup {Null}
  /\ i \in Nat /\ appended \in Nat
  /\ pc = "take" => aborted \/ newBuffer1 \in Buffers
  /\ pc = "write" => buffersToWrite # <<>>

IInv == BufferInv /\ FileInv

\* A buffer with one line more, or as it was.
LEMMA LineAppended ==
  ASSUME NEW b \in Buffers, NEW line \in Nat, BufferAppend(b, line),
         content \in [Buffers -> Seq(Nat)]
  PROVE  content' \in [Buffers -> Seq(Nat)]
<1>1. content[b] \in Seq(Nat) /\ Append(content[b], line) \in Seq(Nat)
  OBVIOUS
<1>2. content' = [content EXCEPT ![b] = IF Fits(b) THEN Append(content[b], line)
                                                  ELSE content[b]]
  BY DEF BufferAppend
<1> QED
  BY <1>1, <1>2

LEMMA FullPushed ==
  ASSUME BufferInv PROVE PushFull \in Seq(Buffers) /\ PushFull # <<>>
<1>1. buffers \in Seq(Buffers) /\ currentBuffer \in Buffers
  BY DEF BufferInv
<1> QED
  BY <1>1, AppendProperties DEF PushFull

LEMMA FileInvKept ==
  ASSUME FileInv, UNCHANGED logFileVars PROVE FileInv' /\ file' = file
BY DEF FileInv, FilesOK, SizeInv, DayInv, file, logFileVars

LEMMA IInvInductive == IInv /\ [Next]_vars => IInv'
<1> SUFFICES ASSUME IInv, [Next]_vars PROVE IInv'
  OBVIOUS
<1> USE DEF IInv
<1>1. CASE AppendLine
  <2>1. FileInv'
    BY <1>1, FileInvKept DEF AppendLine, threadVars
  <2>2. appended + 1 \in Nat
    BY DEF BufferInv
  <2>3. content' \in [Buffers -> Seq(Nat)]
    BY <1>1, <2>2, LineAppended DEF AppendLine, BufferInv
  <2>4. buffers' \in Seq(Buffers) /\ currentBuffer' \in Buffers
    BY <1>1, FullPushed DEF AppendLine, BufferInv
  <2> QED
    BY <1>1, <2>1, <2>2, <2>3, <2>4 DEF AppendLine, BufferInv, threadVars
<1>2. CASE Stop
  BY <1>2, FileInvKept DEF Stop, BufferInv, frontVars, threadVars
<1>3. CASE Top
  <2>1. CASE GoOn /\ pc' = "take" /\ UNCHANGED <<files, failed>>
              /\ aborted' = ~(Empty(newBuffer1) /\ Empty(newBuffer2)
                                 /\ buffersToWrite = <<>>)
    <3>1. UNCHANGED <<content, frontVars, newBuffer1, buffersToWrite, i, logFileVars>>
      BY <1>3, <2>1 DEF Top, logFileVars
    <3>2. FileInv'
      BY <1>3, <2>1, <3>1, FileInvKept DEF Top
    <3>3. aborted' \/ newBuffer1' \in Buffers
      BY <2>1, <3>1 DEF Empty, BufferInv
    <3> QED
      BY <2>1, <3>1, <3>2, <3>3 DEF BufferInv, frontVars
  <2>2. CASE ~GoOn /\ pc' = "done" /\ LogFileFlush
    <3>1. FileInv'
      BY <1>3, <2>2, FlushKeepsFiles DEF Top
    <3> QED
      BY <1>3, <2>2, <3>1 DEF Top, BufferInv, frontVars
  <2> QED
    BY <1>3, <2>1, <2>2 DEF Top
<1>4. CASE ~aborted /\ Take
  <2>1. FileInv'
    BY <1>4, FileInvKept DEF Take
  <2>2. buffersToWrite' \in Seq(Buffers) /\ buffersToWrite' # <<>>
    BY <1>4, FullPushed DEF Take
  <2>3. currentBuffer' \in Buffers
    BY <1>4 DEF Take, BufferInv
  <2> QED
    BY <1>4, <2>1, <2>2, <2>3 DEF Take, BufferInv
<1>5. CASE WriteBuffer
  <2>1. buffersToWrite[i + 1] \in Buffers
    BY <1>5 DEF WriteBuffer, BufferInv
  <2>2. content[buffersToWrite[i + 1]] \in Seq(Nat)
    BY <2>1 DEF BufferInv
  <2>3. FileInv'
    BY <1>5, <2>2, AppendKeepsFiles DEF WriteBuffer
  <2> QED
    BY <1>5, <2>3 DEF WriteBuffer, BufferInv, frontVars
<1>6. CASE Recycle
  <2>1. FileInv'
    BY <1>6, FlushKeepsFiles DEF Recycle
  <2>2. Kept \in Buffers
    BY <1>6 DEF Recycle, Kept, BufferInv
  <2>3. content' \in [Buffers -> Seq(Nat)]
    BY <1>6, <2>2 DEF Recycle, ResetBuffer, BufferInv
  <2> QED
    BY <1>6, <2>1, <2>2, <2>3 DEF Recycle, BufferInv, frontVars
<1>7. CASE UNCHANGED vars
  BY <1>7, FileInvKept DEF vars, frontVars, threadVars, BufferInv
<1> QED
  BY <1>1, <1>2, <1>3, <1>4, <1>5, <1>6, <1>7 DEF Next, Alive, LoggingThread

\* The constructor's file is empty.
LEMMA IInvInit == Init => IInv
<1> SUFFICES ASSUME Init PROVE IInv
  OBVIOUS
<1>1. BufferInv
  BY DEF Init, BufferInv, Buffers, Null
<1>2. lastRoll \in Nat
  BY SecondsAssumption DEF Init, LogFileInit
<1> DEFINE f == NewFile(lastRoll, TRUE)
<1>3. f \in File /\ f.data = <<>> /\ f.writtenBytes = 0
  BY <1>2 DEF NewFile, File
<1>4. FilesOK /\ file = f
  <2>1. files = <<f>>
    BY DEF Init, LogFileInit
  <2> HIDE DEF f
  <2> QED
    BY <1>3, <2>1 DEF FilesOK, file
<1> HIDE DEF f
<1>5. ~past
  BY DEF Init, LogFileInit
<1>6. SizeInv
  BY <1>3, <1>4, <1>5 DEF SizeInv
<1>7. \E k \in Nat : startOfPeriod = k * RollPerSeconds
  BY <1>2, PeriodStarts DEF Init, LogFileInit
<1>8. DayInv
  BY <1>2, <1>7, RollAssumption DEF Init, LogFileInit, DayInv
<1> QED
  BY <1>1, <1>4, <1>6, <1>8 DEF IInv, FileInv

LEMMA Invariant == Spec => []IInv
BY IInvInit, IInvInductive, PTL DEF Spec

\* However the clock is set and whatever the sizes: past the second of the last
\* roll the current file is within rollSize_, and at most kCheckTimeRoll_ + 1
\* appends in a row go to the file of another day (append_unlocked, rollFile).
THEOREM FilesRollInTime == Spec => []RollsInTime
<1>1. IInv => RollsInTime
  <2> SUFFICES ASSUME IInv PROVE RollsInTime
    OBVIOUS
  <2>1. Last(files) = file /\ file \in File
    BY DEF IInv, FileInv, FilesOK, file, Last
  <2>2. Len(file.data) \in Nat /\ file.writtenBytes \in Nat
    BY <2>1 DEF File
  <2>3. past => Len(file.data) <= RollSize
    BY <2>2, RollAssumption DEF IInv, FileInv, SizeInv
  <2>4. stale <= CheckTimeRoll + 1
    BY RollAssumption DEF IInv, FileInv, DayInv
  <2> QED
    BY <2>1, <2>3, <2>4 DEF RollsInTime
<1> QED
  BY <1>1, Invariant, PTL

----------------------------------------------------------------------------
(* FlattenSeq, by induction on the length.                                 *)

\* The least element of a set of naturals, from which the inductions are made.
LEMMA LeastNatural ==
  ASSUME NEW T \in SUBSET Nat, T # {}
  PROVE  \E x \in T : \A y \in T : x <= y
<1> DEFINE R == OpToRel(<, Nat)
<1>1. IsWellFoundedOn(R, Nat)
  BY NatLessThanWellFounded
<1>2. \A x, y \in Nat : y < x => <<y, x>> \in R
  BY DEF OpToRel
<1> HIDE DEF R
<1>3. PICK x \in T : \A y \in T : ~(<<y, x>> \in R)
  BY <1>1, WFMin
<1>4. ASSUME NEW y \in T PROVE x <= y
  <2>1. x \in Nat /\ y \in Nat /\ ~(y < x)
    BY <1>2, <1>3
  <2> QED
    BY <2>1
<1> QED
  BY <1>4

\* f solves the recursion by which FlattenSeq is defined.
IsFlatten(f, ss) == f = [j \in 1 .. Len(ss) |-> IF j = 1 THEN ss[j] ELSE f[j - 1] \o ss[j]]

LEMMA FlattenIs ==
  ASSUME NEW ss, Len(ss) # 0
  PROVE  FlattenSeq(ss) = (CHOOSE f : IsFlatten(f, ss))[Len(ss)]
BY DEF FlattenSeq, IsFlatten

\* The recursive definition has a solution, and f is it: the sequences after the
\* first n are added one by one.
LEMMA FlattenExists ==
  ASSUME NEW ss, Len(ss) \in Nat
  PROVE  \E f : IsFlatten(f, ss)
<1> DEFINE Part(f, n) == f = [j \in 1 .. n |-> IF j = 1 THEN ss[j] ELSE f[j - 1] \o ss[j]]
           T == {n \in Nat : ~ \E f : Part(f, n)}
<1>1. SUFFICES ASSUME T # {} PROVE FALSE
  BY DEF IsFlatten
<1> T \in SUBSET Nat
  OBVIOUS
<1>2. PICK n \in T : \A m \in T : n <= m
  BY <1>1, LeastNatural
<1>3. n \in Nat /\ n # 0
  <2>1. Part([j \in 1 .. 0 |-> <<>>], 0)
    OBVIOUS
  <2> QED
    BY <2>1
<1>4. n - 1 \in Nat /\ n - 1 \notin T
  <2> HIDE DEF T
  <2> QED
    BY <1>2, <1>3
<1>5. PICK f : Part(f, n - 1)
  BY <1>4
<1> DEFINE g == [j \in 1 .. n |-> IF j = n THEN (IF j = 1 THEN ss[j] ELSE f[j - 1] \o ss[j])
                                           ELSE f[j]]
<1>6. ASSUME NEW j \in 1 .. n
      PROVE  g[j] = IF j = 1 THEN ss[j] ELSE g[j - 1] \o ss[j]
  <2>1. CASE j = n
    <3>1. j # 1 => g[j - 1] = f[j - 1]
      BY <2>1
    <3> QED
      BY <2>1, <3>1
  <2>2. CASE j # n
    <3>1. j \in 1 .. n - 1 /\ g[j] = f[j]
      BY <2>2, <1>2
    <3>2. j # 1 => g[j - 1] = f[j - 1]
      BY <3>1
    <3>3. f[j] = IF j = 1 THEN ss[j] ELSE f[j - 1] \o ss[j]
      BY <1>5, <3>1
    <3> QED
      BY <3>1, <3>2, <3>3
  <2> QED
    BY <2>1, <2>2
<1>7. g = [j \in 1 .. n |-> g[j]]
  OBVIOUS
<1> HIDE DEF g
<1>8. Part(g, n)
  BY <1>6, <1>7
<1> QED
  BY <1>2, <1>8

LEMMA FlattenAt ==
  ASSUME NEW f, NEW ss, IsFlatten(f, ss), NEW j \in 1 .. Len(ss)
  PROVE  f[j] = IF j = 1 THEN ss[j] ELSE f[j - 1] \o ss[j]
<1> DEFINE F(k) == IF k = 1 THEN ss[k] ELSE f[k - 1] \o ss[k]
<1>1. f = [k \in 1 .. Len(ss) |-> F(k)]
  BY DEF IsFlatten
<1> HIDE DEF F
<1>2. f[j] = F(j)
  BY <1>1, Zenon
<1> QED
  BY <1>2 DEF F

\* What the recursion computes for each prefix.
LEMMA FlattenUnique ==
  ASSUME NEW ss, NEW tt, NEW f, NEW g, IsFlatten(f, ss), IsFlatten(g, tt),
         Len(ss) \in Nat, Len(tt) \in Nat,
         NEW m \in Nat, m <= Len(ss), m <= Len(tt), \A j \in 1 .. m : ss[j] = tt[j]
  PROVE  \A j \in 1 .. m : f[j] = g[j]
<1> DEFINE T == {j \in 1 .. m : f[j] # g[j]}
<1>1. SUFFICES ASSUME T # {} PROVE FALSE
  OBVIOUS
<1> T \in SUBSET Nat
  OBVIOUS
<1>2. PICK j \in T : \A k \in T : j <= k
  BY <1>1, LeastNatural
<1>3. /\ f[j] = IF j = 1 THEN ss[j] ELSE f[j - 1] \o ss[j]
      /\ g[j] = IF j = 1 THEN tt[j] ELSE g[j - 1] \o tt[j]
  <2>1. j \in 1 .. Len(ss) /\ j \in 1 .. Len(tt)
    OBVIOUS
  <2> QED
    BY <2>1, FlattenAt
<1>4. j # 1 => f[j - 1] = g[j - 1]
  BY <1>2
<1> QED
  BY <1>3, <1>4

\* FlattenSeq puts the last sequence behind what it makes of the others.
LEMMA FlattenStep ==
  ASSUME NEW ss, NEW tt, NEW n \in Nat \ {0}, Len(ss) = n, Len(tt) = n + 1,
         \A j \in 1 .. n : ss[j] = tt[j]
  PROVE  FlattenSeq(tt) = FlattenSeq(ss) \o tt[n + 1]
<1> DEFINE f == CHOOSE f : IsFlatten(f, ss)
           g == CHOOSE g : IsFlatten(g, tt)
<1>1. IsFlatten(f, ss) /\ IsFlatten(g, tt)
  BY FlattenExists
<1>2. FlattenSeq(ss) = f[Len(ss)] /\ FlattenSeq(tt) = g[Len(tt)]
  BY FlattenIs
<1> HIDE DEF f, g
<1>3. f[Len(ss)] = g[Len(ss)]
  BY <1>1, FlattenUnique
<1>4. g[n + 1] = g[n] \o tt[n + 1]
  <2> DEFINE m == n + 1
  <2>1. m \in 1 .. Len(tt) /\ m # 1 /\ m - 1 = n
    OBVIOUS
  <2> HIDE DEF m
  <2>2. g[m] = IF m = 1 THEN tt[m] ELSE g[m - 1] \o tt[m]
    BY <1>1, <2>1, FlattenAt, Zenon
  <2> QED
    BY <2>1, <2>2 DEF m
<1> QED
  BY <1>2, <1>3, <1>4

LEMMA FlattenOne ==
  ASSUME NEW ss, Len(ss) = 1 PROVE FlattenSeq(ss) = ss[1]
<1> DEFINE f == CHOOSE f : IsFlatten(f, ss)
<1>1. IsFlatten(f, ss) /\ FlattenSeq(ss) = f[1]
  BY FlattenExists, FlattenIs
<1> HIDE DEF f
<1> QED
  BY <1>1 DEF IsFlatten

\* The result is a sequence.
LEMMA FlattenType ==
  ASSUME NEW ss, Len(ss) \in Nat \ {0}, \A j \in 1 .. Len(ss) : ss[j] \in Seq(Nat)
  PROVE  FlattenSeq(ss) \in Seq(Nat)
<1> DEFINE f == CHOOSE f : IsFlatten(f, ss)
<1>1. IsFlatten(f, ss) /\ FlattenSeq(ss) = f[Len(ss)]
  BY FlattenExists, FlattenIs
<1> HIDE DEF f
<1> DEFINE T == {j \in 1 .. Len(ss) : f[j] \notin Seq(Nat)}
<1>2. SUFFICES ASSUME T # {} PROVE FALSE
  BY <1>1
<1> T \in SUBSET Nat
  OBVIOUS
<1>3. PICK j \in T : \A k \in T : j <= k
  BY <1>2, LeastNatural
<1>4. f[j] = IF j = 1 THEN ss[j] ELSE f[j - 1] \o ss[j]
  BY <1>1, FlattenAt
<1>5. j # 1 => f[j - 1] \in Seq(Nat)
  BY <1>3
<1>6. j # 1 => f[j - 1] \o ss[j] \in Seq(Nat)
  BY <1>5, ConcatProperties
<1> QED
  BY <1>4, <1>6

----------------------------------------------------------------------------
(* What is in the files, and in the buffers.                               *)

LogOf(fs) == FlattenSeq([k \in DOMAIN fs |-> fs[k].data])
ContentsOf(c, bs) == FlattenSeq([k \in DOMAIN bs |-> c[bs[k]]])

LEMMA LogType == ASSUME NEW fs \in Seq(File), fs # <<>> PROVE LogOf(fs) \in Seq(Nat)
<1> DEFINE ss == [k \in DOMAIN fs |-> fs[k].data]
<1>1. Len(ss) = Len(fs) /\ Len(fs) \in Nat \ {0}
  OBVIOUS
<1>2. \A k \in 1 .. Len(ss) : ss[k] \in Seq(Nat)
  <2>1. \A f \in File : f.data \in Seq(Nat)
    BY DEF File
  <2>2. \A k \in 1 .. Len(fs) : ss[k] = fs[k].data /\ fs[k] \in File
    OBVIOUS
  <2> QED
    BY <1>1, <2>1, <2>2
<1> HIDE DEF ss
<1>3. FlattenSeq(ss) \in Seq(Nat)
  BY <1>1, <1>2, FlattenType
<1> QED
  BY <1>3 DEF LogOf, ss

\* Sequences that differ in the last place flatten to one beginning.
LEMMA FlattenSplit ==
  ASSUME NEW n \in Nat \ {0}, NEW ss, NEW tt, Len(ss) = n, Len(tt) = n,
         \A k \in 1 .. n : ss[k] \in Seq(Nat), tt[n] \in Seq(Nat),
         \A k \in 1 .. n - 1 : tt[k] = ss[k]
  PROVE  \E p \in Seq(Nat) : FlattenSeq(ss) = p \o ss[n] /\ FlattenSeq(tt) = p \o tt[n]
<1>1. CASE n = 1
  <2>1. FlattenSeq(ss) = ss[1] /\ FlattenSeq(tt) = tt[1]
    BY <1>1, FlattenOne
  <2>2. <<>> \in Seq(Nat) /\ ss[1] = <<>> \o ss[1] /\ tt[1] = <<>> \o tt[1]
    BY <1>1
  <2> QED
    BY <1>1, <2>1, <2>2, Zenon
<1>2. CASE n # 1
  <2> DEFINE m == n - 1
             front == [k \in 1 .. m |-> ss[k]]
  <2>1. m \in Nat \ {0} /\ n = m + 1 /\ Len(ss) = m + 1 /\ Len(tt) = m + 1 /\ Len(front) = m
    BY <1>2
  <2>2. \A k \in 1 .. m : front[k] = ss[k] /\ front[k] = tt[k] /\ front[k] \in Seq(Nat)
    OBVIOUS
  <2> HIDE DEF m, front
  <2>3. FlattenSeq(ss) = FlattenSeq(front) \o ss[m + 1]
    BY <2>1, <2>2, FlattenStep, Zenon
  <2>4. FlattenSeq(tt) = FlattenSeq(front) \o tt[m + 1]
    BY <2>1, <2>2, FlattenStep, Zenon
  <2>5. FlattenSeq(front) \in Seq(Nat)
    BY <2>1, <2>2, FlattenType, Zenon
  <2> QED
    BY <2>1, <2>3, <2>4, <2>5, Zenon
<1> QED
  BY <1>1, <1>2

\* So do files of which only the last one differs.
LEMMA LogSplit ==
  ASSUME NEW fs \in Seq(File), NEW gs \in Seq(File), NEW n \in Nat \ {0},
         Len(fs) = n, Len(gs) = n, \A k \in 1 .. n - 1 : gs[k].data = fs[k].data
  PROVE  \E p \in Seq(Nat) : LogOf(fs) = p \o fs[n].data /\ LogOf(gs) = p \o gs[n].data
<1> DEFINE ss == [k \in DOMAIN fs |-> fs[k].data]
           tt == [k \in DOMAIN gs |-> gs[k].data]
<1>1. Len(ss) = n /\ Len(tt) = n /\ DOMAIN fs = 1 .. n /\ DOMAIN gs = 1 .. n
  OBVIOUS
<1>2. \A k \in 1 .. n : ss[k] = fs[k].data /\ tt[k] = gs[k].data
  BY <1>1, Zenon
<1>3. \A k \in 1 .. n : fs[k].data \in Seq(Nat) /\ gs[k].data \in Seq(Nat)
  <2>1. \A k \in 1 .. n : fs[k] \in File /\ gs[k] \in File
    OBVIOUS
  <2>2. \A f \in File : f.data \in Seq(Nat)
    BY DEF File
  <2> QED
    BY <2>1, <2>2, Zenon
<1>4. LogOf(fs) = FlattenSeq(ss) /\ LogOf(gs) = FlattenSeq(tt)
  BY DEF LogOf
<1> HIDE DEF ss, tt
<1>5. n \in 1 .. n /\ \A k \in 1 .. n - 1 : k \in 1 .. n
  OBVIOUS
<1>6. \A k \in 1 .. n : ss[k] \in Seq(Nat)
  BY <1>2, <1>3, Zenon
<1>7. \A k \in 1 .. n - 1 : tt[k] = ss[k]
  BY <1>2, <1>5, Zenon
<1>8. tt[n] \in Seq(Nat)
  BY <1>2, <1>3, <1>5, Zenon
<1>9. Len(ss) = n
  BY <1>1
<1>10. Len(tt) = n
  BY <1>1
<1>11. \E p \in Seq(Nat) : FlattenSeq(ss) = p \o ss[n] /\ FlattenSeq(tt) = p \o tt[n]
  BY ONLY <1>6, <1>7, <1>8, <1>9, <1>10, n \in Nat \ {0}, FlattenSplit, Zenon
<1> QED
  BY <1>2, <1>4, <1>5, <1>11, Zenon

\* A new file adds nothing to the log.
LEMMA LogRolls ==
  ASSUME NEW fs \in Seq(File), fs # <<>>, NEW f \in File, f.data = <<>>
  PROVE  LogOf(Append(fs, f)) = LogOf(fs)
<1> DEFINE gs == Append(fs, f)
           ss == [k \in DOMAIN fs |-> fs[k].data]
           tt == [k \in DOMAIN gs |-> gs[k].data]
<1>1. /\ Len(fs) \in Nat \ {0} /\ Len(ss) = Len(fs) /\ Len(tt) = Len(fs) + 1
      /\ \A k \in 1 .. Len(fs) : ss[k] = tt[k]
      /\ tt[Len(fs) + 1] = <<>>
  OBVIOUS
<1>2. LogOf(fs) = FlattenSeq(ss) /\ LogOf(gs) = FlattenSeq(tt)
  BY DEF LogOf
<1> HIDE DEF gs, ss, tt
<1>3. FlattenSeq(tt) = FlattenSeq(ss) \o tt[Len(fs) + 1]
  BY <1>1, FlattenStep, Zenon
<1>4. LogOf(fs) \in Seq(Nat)
  BY LogType
<1>5. LogOf(fs) \o <<>> = LogOf(fs)
  BY <1>4
<1> QED
  BY <1>1, <1>2, <1>3, <1>5 DEF gs

\* No more than two buffers are ever looked at.
LEMMA ContentsFew ==
  ASSUME NEW c \in [Buffers -> Seq(Nat)], NEW a \in Buffers, NEW b \in Buffers
  PROVE  /\ ContentsOf(c, <<>>) = <<>>
         /\ ContentsOf(c, <<a>>) = c[a]
         /\ ContentsOf(c, <<a, b>>) = c[a] \o c[b]
<1> DEFINE none == [k \in DOMAIN <<>> |-> c[<<>>[k]]]
           one == [k \in DOMAIN <<a>> |-> c[<<a>>[k]]]
           two == [k \in DOMAIN <<a, b>> |-> c[<<a, b>>[k]]]
<1>1. none = <<>> /\ Len(none) = 0
  OBVIOUS
<1>2. Len(one) = 1 /\ one[1] = c[a]
  OBVIOUS
<1>3. Len(two) = 2 /\ two[1] = c[a] /\ two[2] = c[b]
  OBVIOUS
<1>4. /\ ContentsOf(c, <<>>) = FlattenSeq(none)
      /\ ContentsOf(c, <<a>>) = FlattenSeq(one)
      /\ ContentsOf(c, <<a, b>>) = FlattenSeq(two)
  BY DEF ContentsOf
<1> HIDE DEF none, one, two
<1>5. FlattenSeq(none) = <<>>
  BY <1>1 DEF FlattenSeq
<1>6. FlattenSeq(one) = c[a]
  BY <1>2, FlattenOne
<1>7. FlattenSeq(two) = FlattenSeq(one) \o two[2]
  <2>1. \A j \in 1 .. 1 : one[j] = two[j]
    BY <1>2, <1>3
  <2>2. 1 \in Nat \ {0} /\ Len(two) = 1 + 1
    BY <1>3
  <2>3. FlattenSeq(two) = FlattenSeq(one) \o two[1 + 1]
    BY <1>2, <2>1, <2>2, FlattenStep, Zenon
  <2> QED
    BY <2>3
<1> QED
  BY <1>3, <1>4, <1>5, <1>6, <1>7

\* gs are the files fs after the last one has come to hold d.
Given(fs, gs, d) ==
  /\ gs \in Seq(File) /\ Len(gs) = Len(fs)
  /\ \A k \in 1 .. Len(fs) : gs[k].name = fs[k].name
  /\ \A k \in 1 .. Len(fs) - 1 : gs[k].data = fs[k].data
  /\ gs[Len(fs)].data = d

LEMMA GivenSame == ASSUME NEW fs \in Seq(File) PROVE Given(fs, fs, fs[Len(fs)].data)
BY DEF Given

LEMMA GivenLast ==
  ASSUME NEW fs \in Seq(File), fs # <<>>, NEW gs, NEW d, Given(fs, gs, d),
         NEW g \in File, g.name = gs[Len(gs)].name
  PROVE  Given(fs, [gs EXCEPT ![Len(gs)] = g], g.data)
<1> DEFINE hs == [gs EXCEPT ![Len(gs)] = g]
<1>1. gs \in Seq(File) /\ gs # <<>> /\ Len(gs) = Len(fs) /\ Len(gs) \in Nat \ {0}
  BY DEF Given
<1>2. hs \in Seq(File) /\ Len(hs) = Len(gs) /\ hs[Len(gs)] = g
  BY <1>1, LastReplaced
<1>3. \A k \in 1 .. Len(gs) : k # Len(gs) => hs[k] = gs[k]
  BY <1>1
<1> HIDE DEF hs
<1>4. \A k \in 1 .. Len(fs) : hs[k].name = gs[k].name
  BY <1>1, <1>2, <1>3
<1>5. \A k \in 1 .. Len(fs) - 1 : hs[k].data = gs[k].data
  <2>1. \A k \in 1 .. Len(fs) - 1 : k \in 1 .. Len(gs) /\ k # Len(gs)
    BY <1>1
  <2> QED
    BY <1>3, <2>1
<1>6. Given(fs, hs, g.data)
  BY <1>1, <1>2, <1>4, <1>5 DEF Given
<1> QED
  BY <1>6 DEF hs

\* A flush may take more away.
LEMMA GivenFlushed ==
  ASSUME NEW fs \in Seq(File), fs # <<>>, NEW gs, NEW d, Given(fs, gs, d),
         NEW lost, Flush(gs, lost)
  PROVE  \E e : /\ Cut(e, d) /\ (~failed' => ~lost /\ e = d)
                /\ Given(fs, files', e)
<1>1. gs \in Seq(File) /\ gs # <<>> /\ gs[Len(gs)].data = d
  BY DEF Given
<1>2. PICK g \in File :
        /\ g.name = gs[Len(gs)].name /\ Cut(g.data, gs[Len(gs)].data)
        /\ ~failed' => ~lost /\ g.data = gs[Len(gs)].data
        /\ files' = [gs EXCEPT ![Len(gs)] = g]
  BY <1>1, FlushTaken
<1>3. Given(fs, files', g.data)
  BY <1>2, GivenLast
<1> QED
  BY <1>1, <1>2, <1>3, Zenon

\* The files become gs, or a new one with a later name follows.
Becomes(gs) ==
  \/ files' = gs /\ lastRoll' = lastRoll
  \/ \E t \in Nat, ok \in BOOLEAN :
       t > lastRoll /\ lastRoll' = t /\ files' = Append(gs, NewFile(t, ok))

\* What append_unlocked makes of the files: the last one is given what was
\* written, and a new one may follow.
LEMMA FilesGrow ==
  ASSUME FileInv, NEW data \in Seq(Nat), LogFileAppend(data)
  PROVE  \E d, fs : /\ Cut(d, file.data \o data)
                    /\ ~failed' => ~failed /\ d = file.data \o data
                    /\ Given(files, fs, d) /\ Becomes(fs)
<1>1. files \in Seq(File) /\ files # <<>> /\ file \in File /\ file = files[Len(files)]
  BY DEF FileInv, FilesOK, file
<1>2. PICK now \in Seconds, then \in Seconds, f \in File, lost \in BOOLEAN :
        /\ f.name = file.name
        /\ Cut(f.data, file.data \o data)
        /\ ~lost => ~failed /\ f.data = file.data \o data
        /\ AppendUnlocked([files EXCEPT ![Len(files)] = f], lost, now, then)
  BY <1>1, AppendTaken
<1> DEFINE fs == [files EXCEPT ![Len(files)] = f]
           all == file.data \o data
           Goal == \E d, gs : /\ Cut(d, all) /\ (~failed' => ~failed /\ d = all)
                             /\ Given(files, gs, d) /\ Becomes(gs)
<1>3. then \in Nat
  BY SecondsAssumption
<1>4. Given(files, fs, f.data)
  <2>1. Given(files, files, file.data)
    BY <1>1, GivenSame
  <2>2. f.name = files[Len(files)].name
    BY <1>1, <1>2
  <2> QED
    BY <1>1, <2>1, <2>2, GivenLast
<1>5. \/ RollFile(fs, then) /\ failed' = lost
      \/ CheckTime(fs, lost, now, then)
      \/ files' = fs /\ lastRoll' = lastRoll /\ failed' = lost
  BY <1>2 DEF AppendUnlocked
<1> HIDE DEF fs
<1>6. RollFile(fs, then) => Becomes(fs)
  BY <1>3, Zenon DEF RollFile, MayRoll, Becomes
<1>7. files' = fs /\ lastRoll' = lastRoll => Becomes(fs)
  BY DEF Becomes
<1>8. CheckTime(fs, lost, now, then) =>
        \/ Becomes(fs) /\ failed' = lost
        \/ Flush(fs, lost) /\ lastRoll' = lastRoll
  BY <1>6, <1>7 DEF CheckTime
<1> HIDE DEF all
<1>9. ASSUME Becomes(fs), failed' = lost PROVE Goal
  <2>1. Cut(f.data, all)
    BY <1>2 DEF all
  <2>2. ~failed' => ~failed /\ f.data = all
    BY <1>2, <1>9 DEF all
  <2> QED
    BY <1>4, <1>9, <2>1, <2>2, Zenon
<1>10. ASSUME Flush(fs, lost), lastRoll' = lastRoll PROVE Goal
  <2>1. PICK e : /\ Cut(e, f.data) /\ (~failed' => ~lost /\ e = f.data)
                 /\ Given(files, files', e)
    BY <1>1, <1>4, <1>10, GivenFlushed
  <2>2. Cut(e, all)
    BY <1>2, <2>1, CutTwice DEF all
  <2>3. ~failed' => ~failed /\ e = all
    BY <1>2, <2>1, Zenon DEF all
  <2>4. Becomes(files')
    BY <1>10 DEF Becomes
  <2> QED
    BY <2>1, <2>2, <2>3, <2>4, Zenon
<1>11. Goal
  BY <1>5, <1>6, <1>7, <1>8, <1>9, <1>10, Zenon
<1> QED
  BY <1>11 DEF all

\* A flush gives nothing to anybody.
LEMMA FlushCuts ==
  ASSUME FileInv, LogFileFlush
  PROVE  \E d : /\ Cut(d, file.data) /\ (~failed' => ~failed /\ d = file.data)
                /\ Given(files, files', d)
<1>1. files \in Seq(File) /\ files # <<>>
  BY DEF FileInv, FilesOK
<1>2. Given(files, files, file.data)
  BY <1>1, GivenSame DEF file
<1>3. Flush(files, failed)
  BY DEF LogFileFlush
<1> QED
  BY <1>1, <1>2, <1>3, GivenFlushed

\* So the log grows by what was given, or by what is left of it.
LEMMA GivenToLog ==
  ASSUME FilesOK, NEW fs, NEW d, NEW e \in Seq(Nat), Given(files, fs, d),
         Cut(d, file.data \o e)
  PROVE  /\ Cut(LogOf(fs), LogOf(files) \o e)
         /\ d = file.data \o e => LogOf(fs) = LogOf(files) \o e
<1> DEFINE n == Len(files)
<1>1. files \in Seq(File) /\ n \in Nat \ {0} /\ file = files[n] /\ file \in File
  BY DEF FilesOK, file
<1>2. fs \in Seq(File) /\ Len(fs) = n
  BY DEF Given
<1>3. (\A k \in 1 .. n - 1 : fs[k].data = files[k].data) /\ fs[n].data = d
  BY DEF Given
<1> HIDE DEF n
<1>4. PICK p \in Seq(Nat) : LogOf(files) = p \o files[n].data /\ LogOf(fs) = p \o fs[n].data
  BY <1>1, <1>2, <1>3, LogSplit DEF n
<1>5. file.data \in Seq(Nat)
  BY <1>1 DEF File
<1>6. file.data \o e \in Seq(Nat) /\ (p \o file.data) \o e = p \o (file.data \o e)
  <2>1. file.data \o e \in Seq(Nat)
    BY <1>5, ConcatAt
  <2> QED
    BY <1>5, <2>1, ConcatAssoc, Zenon
<1>7. Cut(p \o d, p \o (file.data \o e))
  BY <1>6, CutAfter
<1> QED
  BY <1>1, <1>3, <1>4, <1>6, <1>7, Zenon

----------------------------------------------------------------------------
(* The names of the files.                                                 *)

NamesInv == NamesInOrder /\ file.name = lastRoll

LEMMA NamesKept ==
  ASSUME FileInv, NamesInv, NEW fs, NEW d, Given(files, fs, d), Becomes(fs)
  PROVE  NamesInv'
<1> DEFINE n == Len(files)
<1>1. n \in Nat \ {0} /\ fs \in Seq(File) /\ Len(fs) = n /\ lastRoll \in Nat
      /\ DOMAIN files = 1 .. n /\ DOMAIN fs = 1 .. n
  BY DEF FileInv, FilesOK, DayInv, Given
<1>2. \A k \in 1 .. n : fs[k].name = files[k].name /\ files[k].name \in Nat
  <2>1. \A f \in File : f.name \in Nat
    BY DEF File
  <2>2. \A k \in 1 .. n : files[k] \in File
    BY DEF FileInv, FilesOK
  <2> QED
    BY <2>1, <2>2 DEF Given
<1>3. files[n].name = lastRoll
  BY DEF NamesInv, file
<1> HIDE DEF n
<1>4. \A j, k \in 1 .. n : j < k => fs[j].name < fs[k].name
  BY <1>1, <1>2 DEF NamesInv, NamesInOrder
<1>5. fs[n].name = lastRoll /\ \A j \in 1 .. n : fs[j].name <= lastRoll
  <2>1. n \in 1 .. n /\ \A j \in 1 .. n : j = n \/ j < n
    BY <1>1
  <2>2. fs[n].name = lastRoll
    BY <1>2, <1>3, <2>1
  <2>3. ASSUME NEW j \in 1 .. n PROVE fs[j].name <= lastRoll
    <3>1. CASE j = n
      BY <1>1, <2>2, <3>1
    <3>2. CASE j < n
      <4>1. fs[j].name < fs[n].name
        BY <1>4, <2>1, <3>2
      <4>2. fs[j].name \in Nat
        BY <1>2
      <4> QED
        BY <1>1, <2>2, <4>1, <4>2
    <3> QED
      BY <2>1, <3>1, <3>2
  <2> QED
    BY <2>2, <2>3
<1>6. CASE files' = fs /\ lastRoll' = lastRoll
  BY <1>1, <1>4, <1>5, <1>6 DEF NamesInv, NamesInOrder, file
<1>7. ASSUME NEW t \in Nat, t > lastRoll, lastRoll' = t, NEW ok \in BOOLEAN,
             files' = Append(fs, NewFile(t, ok))
      PROVE  NamesInv'
  <2> DEFINE f == NewFile(t, ok)
  <2>1. f.name = t
    BY DEF NewFile
  <2> HIDE DEF f
  <2>2. /\ Len(files') = n + 1 /\ DOMAIN files' = 1 .. n + 1 /\ files'[n + 1] = f
        /\ \A k \in 1 .. n : files'[k] = fs[k]
    <3>1. files' = Append(fs, f)
      BY <1>7 DEF f
    <3> QED
      BY <1>1, <3>1
  <2>3. file'.name = lastRoll'
    BY <1>7, <2>1, <2>2 DEF file
  <2>4. ASSUME NEW j \in 1 .. n + 1, NEW k \in 1 .. n + 1, j < k
        PROVE  files'[j].name < files'[k].name
    <3>1. j \in 1 .. n
      BY <1>1, <2>4
    <3>2. files'[j].name = fs[j].name /\ fs[j].name \in Nat
      BY <1>2, <2>2, <3>1
    <3>3. CASE k = n + 1
      <4>1. files'[k].name = t
        BY <2>1, <2>2, <3>3
      <4>2. fs[j].name <= lastRoll
        BY <1>5, <3>1
      <4> QED
        BY <1>1, <1>7, <3>2, <4>1, <4>2
    <3>4. CASE k # n + 1
      <4>1. k \in 1 .. n
        BY <1>1, <3>4
      <4> QED
        BY <1>4, <2>2, <2>4, <3>1, <4>1
    <3> QED
      BY <3>3, <3>4
  <2> QED
    BY <2>2, <2>3, <2>4 DEF NamesInv, NamesInOrder
<1> QED
  BY <1>6, <1>7 DEF Becomes

----------------------------------------------------------------------------
(* The buffers, as long as no more was appended than two of them take.     *)

Early == appended <= 2 * Capacity

\* The full buffer has been queued and nextBuffer_ taken into use: from then on
\* nextBuffer_ is an alias.
Spilled == 2 \in {currentBuffer, newBuffer1} \cup Range(buffersToWrite)

\* Where the three buffers in use are: one is current, one at most is queued,
\* and the logging thread has the others to write, or the spare one.  After the
\* one overflow the lines left are too few for another.
PointerInv ==
  /\ ~aborted /\ nextBuffer = 2 /\ content[newBuffer2] = <<>>
  /\ currentBuffer \in 1 .. 3
  /\ \/ buffers = <<>>
     \/ currentBuffer = 2 /\ \E x \in {1, 3} : buffers = <<x>>
  /\ pc # "write" => /\ buffersToWrite = <<>> /\ i = 0
                     /\ newBuffer1 \in (1 .. 3) \ ({currentBuffer} \cup Range(buffers))
                     /\ content[newBuffer1] = <<>>
  /\ pc = "write" => /\ i <= Len(buffersToWrite) /\ newBuffer1 = Null
                     /\ \/ \E y \in (1 .. 3) \ ({currentBuffer} \cup Range(buffers)) :
                              buffersToWrite = <<y>>
                        \/ \E x \in {1, 3} \ {currentBuffer} :
                              buffersToWrite = <<x, 2>> /\ currentBuffer # 2
  /\ Spilled => Capacity + Len(content[currentBuffer]) <= appended
  /\ ~Spilled => content[2] = <<>> /\ Len(content[currentBuffer]) <= appended

\* The buffers the logging thread has still to write.
ToWrite == SubSeq(buffersToWrite, i + 1, Len(buffersToWrite))

Lines(n) == [k \in 1 .. n |-> k]

\* The lines in the files and on their way there.
Sum == Log \o Contents(ToWrite) \o Contents(buffers) \o content[currentBuffer]

DataInv == /\ ~failed => Sum = Lines(appended)
           /\ Increasing(Sum) /\ \A k \in DOMAIN Sum : Sum[k] <= appended

OrderInv == NamesInv /\ (Early => PointerInv /\ DataInv)

LEMMA RangeFew ==
  ASSUME NEW a, NEW b
  PROVE  Range(<<>>) = {} /\ Range(<<a>>) = {a} /\ Range(<<a, b>>) = {a, b}
<1>1. Range(<<>>) = {}
  BY DEF Range
<1>2. Range(<<a>>) = {a}
  <2>1. DOMAIN <<a>> = {1} /\ <<a>>[1] = a
    OBVIOUS
  <2> QED
    BY <2>1, Zenon DEF Range
<1>3. Range(<<a, b>>) = {a, b}
  <2>1. DOMAIN <<a, b>> = {1, 2} /\ <<a, b>>[1] = a /\ <<a, b>>[2] = b
    OBVIOUS
  <2> QED
    BY <2>1, Zenon DEF Range
<1> QED
  BY <1>1, <1>2, <1>3

\* The first line after an overflow finds nextBuffer_ empty.
LEMMA PointersAppend ==
  ASSUME BufferInv, PointerInv, AppendLine, Early'
  PROVE  /\ PointerInv'
         /\ ~Fits(currentBuffer) => /\ ~Spilled /\ buffers = <<>>
                                    /\ content' = [content EXCEPT ![2] = <<appended + 1>>]
<1>1. appended \in Nat /\ appended' = appended + 1 /\ appended + 1 <= 2 * Capacity
  BY DEF AppendLine, BufferInv, Early
<1>2. Capacity \in Nat \ {0}
  BY CapacityAssumption
<1>3. /\ UNCHANGED <<nextBuffer, newBuffer1, buffersToWrite, pc, i, aborted>>
  BY DEF AppendLine, threadVars
<1>4. content \in [Buffers -> Seq(Nat)] /\ currentBuffer \in Buffers /\ 2 \in Buffers
      /\ Len(content[currentBuffer]) \in Nat
  BY DEF BufferInv, Buffers
<1>5. CASE Fits(currentBuffer)
  <2> DEFINE s == Append(content[currentBuffer], appended + 1)
  <2>1. content' = [content EXCEPT ![currentBuffer] = s]
        /\ UNCHANGED <<buffers, currentBuffer>>
    BY <1>5 DEF AppendLine, BufferAppend
  <2>2. Len(s) = Len(content[currentBuffer]) + 1
    BY <1>1, <1>4
  <2> HIDE DEF s
  <2>3. /\ content'[currentBuffer] = s
        /\ \A b \in Buffers : b # currentBuffer => content'[b] = content[b]
    BY <1>4, <2>1
  <2>4. Spilled' = Spilled
    BY <1>3, <2>1 DEF Spilled
  <2>5. content'[newBuffer2] = <<>>
    BY <2>3 DEF PointerInv, newBuffer2, Buffers
  <2>6. pc # "write" => content'[newBuffer1] = <<>>
    BY <2>3 DEF PointerInv, Buffers
  <2>7. /\ Spilled' => Capacity + Len(content'[currentBuffer']) <= appended'
        /\ ~Spilled' => content'[2] = <<>> /\ Len(content'[currentBuffer']) <= appended'
    <3>1. ~Spilled => currentBuffer # 2
      BY DEF Spilled
    <3>2. Len(content'[currentBuffer']) = Len(content[currentBuffer]) + 1
      BY <2>1, <2>2, <2>3
    <3>3. ~Spilled' => content'[2] = <<>>
      BY <1>4, <2>3, <2>4, <3>1 DEF PointerInv
    <3>4. Spilled => Capacity + Len(content[currentBuffer]) <= appended
      BY DEF PointerInv
    <3>5. ~Spilled => Len(content[currentBuffer]) <= appended
      BY DEF PointerInv
    <3>6. Spilled' => Capacity + Len(content'[currentBuffer']) <= appended'
      BY <1>1, <1>2, <1>4, <2>4, <3>2, <3>4
    <3>7. ~Spilled' => Len(content'[currentBuffer']) <= appended'
      BY <1>1, <1>4, <2>4, <3>2, <3>5
    <3> QED
      BY <3>3, <3>6, <3>7
  <2> QED
    BY <1>3, <1>5, <2>1, <2>5, <2>6, <2>7 DEF PointerInv
<1>6. CASE ~Fits(currentBuffer)
  <2>1. Len(content[currentBuffer]) >= Capacity
    BY <1>2, <1>4, <1>6 DEF Fits
  <2>2. ~Spilled
    BY <1>1, <1>2, <1>4, <2>1 DEF PointerInv
  <2>3. content[2] = <<>> /\ currentBuffer \in {1, 3} /\ buffers = <<>> /\ nextBuffer = 2
        /\ Len(content[currentBuffer]) <= appended
    BY <2>2 DEF PointerInv, Spilled
  <2>4. Fits(2)
    BY <1>2, <2>3 DEF Fits
  <2>5. content' = [content EXCEPT ![2] = <<appended + 1>>]
    <3>1. content' = [content EXCEPT ![2] = Append(content[2], appended + 1)]
      BY <1>6, <2>3, <2>4 DEF AppendLine, BufferAppend
    <3>2. Append(content[2], appended + 1) = <<appended + 1>>
      BY <2>3
    <3> QED
      BY <3>1, <3>2
  <2>6. buffers' = <<currentBuffer>> /\ currentBuffer' = 2
    BY <1>6, <2>3 DEF AppendLine, PushFull
  <2>7. /\ content'[2] = <<appended + 1>>
        /\ \A b \in Buffers : b # 2 => content'[b] = content[b]
    BY <1>4, <2>5
  <2>8. Spilled' /\ Range(buffers') = {currentBuffer} /\ Range(buffers) = {}
    BY <2>3, <2>6, RangeFew DEF Spilled
  <2>9. Capacity + Len(content'[currentBuffer']) <= appended'
    BY <1>1, <1>2, <1>4, <2>1, <2>3, <2>6, <2>7
  <2>10. newBuffer1 # 2 /\ 2 \notin Range(buffersToWrite)
    BY <2>2 DEF Spilled
  <2>11. content'[newBuffer2] = <<>>
    BY <2>7 DEF PointerInv, newBuffer2, Buffers
  <2>12. pc' # "write" => /\ buffersToWrite' = <<>> /\ i' = 0
            /\ newBuffer1' \in (1 .. 3) \ ({currentBuffer'} \cup Range(buffers'))
            /\ content'[newBuffer1'] = <<>>
    <3> SUFFICES ASSUME pc # "write"
                 PROVE  /\ buffersToWrite = <<>> /\ i = 0
                        /\ newBuffer1 \in (1 .. 3) \ {2, currentBuffer}
                        /\ content'[newBuffer1] = <<>>
      BY <1>3, <2>6, <2>8
    <3>1. /\ buffersToWrite = <<>> /\ i = 0 /\ content[newBuffer1] = <<>>
          /\ newBuffer1 \in (1 .. 3) \ {currentBuffer}
      BY <2>8 DEF PointerInv
    <3> QED
      BY <2>7, <2>10, <3>1 DEF Buffers
  <2>13. pc' = "write" => /\ i' <= Len(buffersToWrite') /\ newBuffer1' = Null
            /\ \E y \in (1 .. 3) \ ({currentBuffer'} \cup Range(buffers')) :
                              buffersToWrite' = <<y>>
    <3> SUFFICES ASSUME pc = "write"
                 PROVE  /\ i <= Len(buffersToWrite) /\ newBuffer1 = Null
                        /\ \E y \in (1 .. 3) \ {2, currentBuffer} : buffersToWrite = <<y>>
      BY <1>3, <2>6, <2>8
    <3>1. /\ i <= Len(buffersToWrite) /\ newBuffer1 = Null
          /\ \/ \E y \in (1 .. 3) \ {currentBuffer} : buffersToWrite = <<y>>
             \/ \E x \in {1, 3} : buffersToWrite = <<x, 2>>
      BY <2>8 DEF PointerInv
    <3>2. ASSUME NEW x \in {1, 3}, buffersToWrite = <<x, 2>> PROVE FALSE
      <4>1. Range(<<x, 2>>) = {x, 2}
        BY RangeFew
      <4> QED
        BY <2>10, <3>2, <4>1, Zenon
    <3>3. PICK y \in (1 .. 3) \ {currentBuffer} : buffersToWrite = <<y>>
      BY <3>1, <3>2
    <3>4. y # 2
      BY <2>10, <3>3, RangeFew
    <3> QED
      BY <3>1, <3>3, <3>4
  <2>14. ~aborted' /\ nextBuffer' = 2
    BY <1>3, <2>3 DEF PointerInv
  <2> HIDE DEF Spilled
  <2>15. PointerInv'
    BY <2>3, <2>6, <2>8, <2>9, <2>11, <2>12, <2>13, <2>14 DEF PointerInv
  <2> QED
    BY <1>6, <2>2, <2>3, <2>5, <2>15
<1> QED
  BY <1>5, <1>6

LEMMA AppendOne ==
  ASSUME NEW x \in Nat, NEW y \in Nat PROVE Append(<<x>>, y) = <<x, y>>
<1> DEFINE s == <<x>>
           t == Append(s, y)
<1>1. s \in Seq(Nat) /\ Len(s) = 1 /\ s[1] = x
  OBVIOUS
<1> HIDE DEF s
<1>2. t \in Seq(Nat)
  BY <1>1
<1>3. Len(t) = 2 /\ t[2] = y
  <2>1. Len(t) = Len(s) + 1
    BY <1>1, AppendProperties
  <2>2. t[Len(s) + 1] = y
    BY <1>1, AppendProperties
  <2> QED
    BY <1>1, <2>1, <2>2
<1>4. t[1] = x
  BY <1>1
<1> HIDE DEF t
<1>5. t = <<x, y>>
  BY <1>2, <1>3, <1>4
<1> QED
  BY <1>5 DEF s, t

\* newBuffer1 is empty, and the buffers change hands.
LEMMA PointersTake ==
  ASSUME BufferInv, PointerInv, Take PROVE PointerInv'
<1>1. /\ pc = "take" /\ buffersToWrite' = Append(buffers, currentBuffer) /\ buffers' = <<>>
      /\ currentBuffer' = newBuffer1 /\ newBuffer1' = Null /\ i' = 0 /\ pc' = "write"
      /\ UNCHANGED <<content, nextBuffer, appended, aborted>>
  BY DEF Take, PushFull
<1>2. /\ newBuffer1 \in (1 .. 3) \ ({currentBuffer} \cup Range(buffers))
      /\ content[newBuffer1] = <<>> /\ buffersToWrite = <<>>
  BY <1>1 DEF PointerInv
<1>3. Len(content[currentBuffer]) \in Nat /\ appended \in Nat /\ Capacity \in Nat
  BY CapacityAssumption DEF BufferInv
<1>4. Range(buffers') = {} /\ Range(buffersToWrite) = {}
  BY <1>1, <1>2, RangeFew
<1>5. CASE buffers = <<>>
  <2>1. buffersToWrite' = <<currentBuffer>> /\ Range(buffersToWrite') = {currentBuffer}
    <3>1. buffersToWrite' = <<currentBuffer>>
      BY <1>1, <1>5
    <3> QED
      BY <3>1, RangeFew, Zenon
  <2>2. Spilled' = Spilled
    BY <1>1, <1>4, <2>1 DEF Spilled, Null
  <2>3. currentBuffer \in (1 .. 3) \ ({currentBuffer'} \cup Range(buffers'))
    BY <1>1, <1>2, <1>4 DEF PointerInv
  <2>4. /\ Spilled' => Capacity + Len(content'[currentBuffer']) <= appended'
        /\ ~Spilled' => content'[2] = <<>> /\ Len(content'[currentBuffer']) <= appended'
    BY <1>1, <1>2, <1>3, <2>2 DEF PointerInv
  <2> HIDE DEF Spilled
  <2> QED
    BY <1>1, <1>2, <2>1, <2>3, <2>4 DEF PointerInv
<1>6. ASSUME NEW x \in {1, 3}, buffers = <<x>>, currentBuffer = 2 PROVE PointerInv'
  <2>1. buffersToWrite' = <<x, 2>> /\ Range(buffersToWrite') = {x, 2} /\ Range(buffers) = {x}
    <3>1. buffersToWrite' = <<x, 2>>
      BY <1>1, <1>6, AppendOne
    <3> QED
      BY <1>6, <3>1, RangeFew, Zenon
  <2>2. Spilled' /\ Spilled
    BY <1>6, <2>1 DEF Spilled
  <2>3. x \in {1, 3} \ {currentBuffer'} /\ currentBuffer' # 2
    BY <1>1, <1>2, <1>6, <2>1
  <2>4. Capacity + Len(content'[currentBuffer']) <= appended'
    BY <1>1, <1>2, <1>3, <2>2 DEF PointerInv
  <2> HIDE DEF Spilled
  <2> QED
    BY <1>1, <1>2, <2>1, <2>2, <2>3, <2>4 DEF PointerInv
<1> QED
  BY <1>5, <1>6 DEF PointerInv

\* The buffer that is kept is the spare one.
LEMMA PointersRecycle ==
  ASSUME BufferInv, PointerInv, Recycle
  PROVE  /\ PointerInv' /\ Kept \in 1 .. 3
         /\ Kept \notin {currentBuffer} \cup Range(buffers)
<1>1. /\ pc = "write" /\ newBuffer1' = Kept /\ content' = [content EXCEPT ![Kept] = <<>>]
      /\ buffersToWrite' = <<>> /\ i' = 0 /\ pc' = "top"
      /\ UNCHANGED <<currentBuffer, nextBuffer, buffers, appended, aborted>>
  BY DEF Recycle, ResetBuffer, frontVars
<1>2. newBuffer1 = Null /\ Range(buffersToWrite') = {}
  BY <1>1, RangeFew DEF PointerInv
<1> DEFINE IsSpare == Kept \in (1 .. 3) \ ({currentBuffer} \cup Range(buffers))
           KeepsTwo == Kept = 2 <=> 2 \in Range(buffersToWrite)
<1>3. IsSpare /\ KeepsTwo
  <2>1. ASSUME NEW y \in (1 .. 3) \ ({currentBuffer} \cup Range(buffers)),
               buffersToWrite = <<y>>
        PROVE  IsSpare /\ KeepsTwo
    <3>1. Kept = y
      BY <2>1 DEF Kept
    <3>2. Range(buffersToWrite) = {y}
      BY <2>1, RangeFew, Zenon
    <3> QED
      BY <2>1, <3>1, <3>2
  <2>2. ASSUME NEW x \in {1, 3} \ {currentBuffer},
               buffersToWrite = <<x, 2>>, currentBuffer # 2
        PROVE  IsSpare /\ KeepsTwo
    <3>1. Kept = 2
      BY <2>2 DEF Kept
    <3>2. Range(buffersToWrite) = {x, 2}
      BY <2>2, RangeFew
    <3>3. buffers = <<>> /\ Range(buffers) = {}
      BY <2>2, RangeFew DEF PointerInv
    <3> QED
      BY <2>2, <3>1, <3>2, <3>3
  <2> QED
    BY <1>1, <2>1, <2>2 DEF PointerInv
<1>4. Spilled' = Spilled
  BY <1>1, <1>2, <1>3 DEF Spilled, Null
<1>5. content'[Kept] = <<>> /\ \A b \in Buffers : b # Kept => content'[b] = content[b]
  BY <1>1, <1>3 DEF BufferInv, Buffers
<1>6. content'[newBuffer2] = <<>> /\ content'[currentBuffer'] = content[currentBuffer]
      /\ content'[2] \in {content[2], <<>>}
  BY <1>1, <1>3, <1>5 DEF PointerInv, newBuffer2, Buffers
<1>7. /\ Spilled' => Capacity + Len(content'[currentBuffer']) <= appended'
      /\ ~Spilled' => content'[2] = <<>> /\ Len(content'[currentBuffer']) <= appended'
  BY <1>1, <1>4, <1>6 DEF PointerInv
<1>8. newBuffer1' \in (1 .. 3) \ ({currentBuffer'} \cup Range(buffers'))
      /\ content'[newBuffer1'] = <<>>
  BY <1>1, <1>3, <1>5
<1> HIDE DEF Spilled
<1>9. PointerInv'
  BY <1>1, <1>6, <1>7, <1>8 DEF PointerInv
<1> QED
  BY <1>3, <1>9

\* The steps that leave the buffers where they are.
LEMMA PointersKept ==
  ASSUME PointerInv, UNCHANGED <<content, frontVars, newBuffer1, buffersToWrite>>,
         ~aborted', pc' = "write" <=> pc = "write",
         i' = i \/ (pc = "write" /\ i' <= Len(buffersToWrite))
  PROVE  PointerInv'
<1>1. Spilled' = Spilled
  BY DEF Spilled, frontVars
<1> HIDE DEF Spilled
<1> QED
  BY <1>1 DEF PointerInv, frontVars

----------------------------------------------------------------------------
(* The lines on their way.                                                 *)

LEMMA ConcatNone == ASSUME NEW s \in Seq(Nat) PROVE s \o <<>> = s /\ <<>> \o s = s
OBVIOUS

LEMMA AppendRight ==
  ASSUME NEW s \in Seq(Nat), NEW t \in Seq(Nat), NEW e \in Nat
  PROVE  s \o Append(t, e) = Append(s \o t, e)
OBVIOUS

LEMMA LinesNext == ASSUME NEW n \in Nat PROVE Lines(n + 1) = Append(Lines(n), n + 1)
<1>1. Lines(n) \in Seq(Nat) /\ Len(Lines(n)) = n /\ Lines(n + 1) \in Seq(Nat)
      /\ Len(Lines(n + 1)) = n + 1
  BY DEF Lines
<1>2. /\ \A k \in 1 .. n : Lines(n)[k] = k
      /\ \A k \in 1 .. n + 1 : Lines(n + 1)[k] = k
  BY DEF Lines
<1>3. /\ Append(Lines(n), n + 1) \in Seq(Nat) /\ Len(Append(Lines(n), n + 1)) = n + 1
      /\ \A k \in 1 .. n : Append(Lines(n), n + 1)[k] = k
      /\ Append(Lines(n), n + 1)[n + 1] = n + 1
  BY <1>1, <1>2, AppendProperties
<1>4. \A k \in 1 .. n + 1 : Append(Lines(n), n + 1)[k] = k
  BY <1>3
<1> QED
  BY <1>1, <1>2, <1>3, <1>4, SeqEqual

LEMMA ContentsSame ==
  ASSUME NEW c, NEW d, NEW bs, \A b \in Range(bs) : c[b] = d[b]
  PROVE  ContentsOf(c, bs) = ContentsOf(d, bs)
<1>1. \A k \in DOMAIN bs : c[bs[k]] = d[bs[k]]
  BY DEF Range
<1>2. [k \in DOMAIN bs |-> c[bs[k]]] = [k \in DOMAIN bs |-> d[bs[k]]]
  BY <1>1
<1> QED
  BY <1>2 DEF ContentsOf

LEMMA ContentsType ==
  ASSUME NEW c \in [Buffers -> Seq(Nat)], NEW bs \in Seq(Buffers)
  PROVE  ContentsOf(c, bs) \in Seq(Nat)
<1> DEFINE ss == [k \in DOMAIN bs |-> c[bs[k]]]
<1>1. Len(ss) = Len(bs) /\ Len(bs) \in Nat
  OBVIOUS
<1>2. \A k \in 1 .. Len(ss) : ss[k] \in Seq(Nat)
  OBVIOUS
<1>3. bs = <<>> => ContentsOf(c, bs) = <<>>
  <2>1. 1 \in Buffers
    BY DEF Buffers
  <2>2. ContentsOf(c, <<>>) = <<>>
    BY <2>1, ContentsFew
  <2> QED
    BY <2>2
<1>4. bs # <<>> => Len(ss) # 0
  BY <1>1
<1> HIDE DEF ss
<1>5. Len(ss) # 0 => FlattenSeq(ss) \in Seq(Nat)
  BY <1>1, <1>2, FlattenType
<1> QED
  BY <1>3, <1>4, <1>5 DEF ContentsOf, ss

LEMMA ToWriteRange ==
  ASSUME BufferInv
  PROVE  ToWrite \in Seq(Buffers) /\ Range(ToWrite) \subseteq Range(buffersToWrite)
<1> DEFINE n == Len(buffersToWrite)
<1>1. buffersToWrite \in Seq(Buffers) /\ i \in Nat /\ n \in Nat
  BY DEF BufferInv
<1>2. \A k \in i + 1 .. n : buffersToWrite[k] \in Buffers
  BY <1>1
<1>3. /\ SubSeq(buffersToWrite, i + 1, n) \in Seq(Buffers)
      /\ Len(SubSeq(buffersToWrite, i + 1, n)) = IF i + 1 <= n THEN n - (i + 1) + 1 ELSE 0
      /\ \A k \in 1 .. n - (i + 1) + 1 :
           SubSeq(buffersToWrite, i + 1, n)[k] = buffersToWrite[i + 1 + k - 1]
  BY <1>1, <1>2, SubSeqProperties
<1>4. ASSUME NEW k \in DOMAIN ToWrite
      PROVE  ToWrite[k] \in Range(buffersToWrite)
  <2>1. k \in 1 .. n - (i + 1) + 1 /\ i + 1 + k - 1 \in DOMAIN buffersToWrite
    BY <1>1, <1>3 DEF ToWrite
  <2> QED
    BY <1>3, <2>1 DEF ToWrite, Range
<1> QED
  BY <1>3, <1>4 DEF ToWrite, Range

\* What the sum of the lines is made of.
LEMMA Parts ==
  ASSUME IInv
  PROVE  /\ Log \in Seq(Nat) /\ Log = LogOf(files)
         /\ Contents(ToWrite) \in Seq(Nat) /\ Contents(ToWrite) = ContentsOf(content, ToWrite)
         /\ Contents(buffers) \in Seq(Nat) /\ Contents(buffers) = ContentsOf(content, buffers)
         /\ content[currentBuffer] \in Seq(Nat) /\ appended \in Nat
<1>1. Log = LogOf(files) /\ LogOf(files) \in Seq(Nat)
  BY LogType DEF Log, LogOf, IInv, FileInv, FilesOK
<1>2. /\ Contents(ToWrite) = ContentsOf(content, ToWrite)
      /\ Contents(buffers) = ContentsOf(content, buffers)
  BY DEF Contents, ContentsOf
<1>3. /\ content \in [Buffers -> Seq(Nat)] /\ buffers \in Seq(Buffers)
      /\ ToWrite \in Seq(Buffers) /\ currentBuffer \in Buffers /\ appended \in Nat
  BY ToWriteRange DEF IInv, BufferInv
<1> QED
  BY <1>1, <1>2, <1>3, ContentsType

LEMMA SumType == ASSUME IInv PROVE Sum \in Seq(Nat)
<1> DEFINE L == Log
           W == Contents(ToWrite)
           B == Contents(buffers)
           C == content[currentBuffer]
<1>1. L \in Seq(Nat) /\ W \in Seq(Nat) /\ B \in Seq(Nat) /\ C \in Seq(Nat)
  BY Parts
<1>2. Sum = L \o W \o B \o C
  BY DEF Sum
<1> HIDE DEF L, W, B, C
<1>3. L \o W \in Seq(Nat)
  BY <1>1, ConcatAt
<1>4. L \o W \o B \in Seq(Nat)
  BY <1>1, <1>3, ConcatAt
<1> QED
  BY <1>1, <1>2, <1>4, ConcatAt

\* A line more, ...
LEMMA SumGrows ==
  ASSUME IInv, DataInv, Sum' = Append(Sum, appended + 1), appended' = appended + 1,
         failed' = failed
  PROVE  DataInv'
<1> DEFINE s == Sum
           t == Append(s, appended + 1)
           n == Len(s)
<1>1. s \in Seq(Nat) /\ appended \in Nat /\ n \in Nat
  BY SumType, Parts
<1>2. /\ DOMAIN s = 1 .. n /\ Increasing(s) /\ \A k \in 1 .. n : s[k] <= appended
  BY <1>1 DEF DataInv
<1>3. \A k \in 1 .. n : s[k] \in Nat
  BY <1>1
<1>4. /\ DOMAIN t = 1 .. n + 1 /\ t[n + 1] = appended + 1 /\ \A k \in 1 .. n : t[k] = s[k]
  BY <1>1
<1>5. ~failed' => t = Lines(appended')
  BY <1>1, LinesNext DEF DataInv
<1> HIDE DEF s, t, n
<1>6. \A k \in DOMAIN t : t[k] <= appended'
  BY <1>1, <1>2, <1>3, <1>4
<1>7. ASSUME NEW j \in 1 .. n + 1, NEW k \in 1 .. n + 1, j < k PROVE t[j] < t[k]
  <2>1. j \in 1 .. n /\ t[j] = s[j]
    BY <1>1, <1>4, <1>7
  <2>2. CASE k = n + 1
    BY <1>1, <1>2, <1>3, <1>4, <2>1, <2>2
  <2>3. CASE k # n + 1
    <3>1. k \in 1 .. n /\ t[k] = s[k]
      BY <1>1, <1>4, <2>3
    <3> QED
      BY <1>2, <1>7, <2>1, <3>1 DEF Increasing
  <2> QED
    BY <2>2, <2>3
<1>8. Increasing(t)
  BY <1>4, <1>7 DEF Increasing
<1>9. Sum' = t
  BY DEF s, t
<1> QED
  BY <1>5, <1>6, <1>8, <1>9, Zenon DEF DataInv

\* ... or some that get lost.
LEMMA SumCut ==
  ASSUME IInv, DataInv, Cut(Sum', Sum), appended' = appended,
         ~failed' => ~failed /\ Sum' = Sum
  PROVE  DataInv'
<1>1. Increasing(Sum')
  BY DEF Cut, DataInv
<1>2. \A k \in DOMAIN Sum' : Sum'[k] <= appended'
  BY Zenon DEF Cut, DataInv
<1>3. ~failed' => Sum' = Lines(appended')
  BY Zenon DEF DataInv
<1> QED
  BY <1>1, <1>2, <1>3, Zenon DEF DataInv

\* currentBuffer_ is not among the buffers that wait.
LEMMA RangeOthers ==
  ASSUME BufferInv, PointerInv
  PROVE  /\ currentBuffer \notin Range(buffersToWrite)
         /\ currentBuffer \notin Range(buffers)
         /\ Range(buffersToWrite) \subseteq Buffers /\ Range(buffers) \subseteq Buffers
<1>1. Range(buffersToWrite) \subseteq Buffers /\ Range(buffers) \subseteq Buffers
  BY DEF BufferInv, Range
<1>2. currentBuffer \notin Range(buffers)
  <2>1. ASSUME NEW x \in {1, 3}, buffers = <<x>>, currentBuffer = 2
        PROVE  currentBuffer \notin Range(buffers)
    <3>1. Range(buffers) = {x}
      BY <2>1, RangeFew, Zenon
    <3> QED
      BY <2>1, <3>1
  <2>2. buffers = <<>> => currentBuffer \notin Range(buffers)
    BY RangeFew
  <2> QED
    BY <2>1, <2>2 DEF PointerInv
<1>3. currentBuffer \notin Range(buffersToWrite)
  <2>1. pc # "write" => Range(buffersToWrite) = {}
    BY RangeFew DEF PointerInv
  <2>2. ASSUME NEW y \in (1 .. 3) \ ({currentBuffer} \cup Range(buffers)),
               buffersToWrite = <<y>>
        PROVE  currentBuffer \notin Range(buffersToWrite)
    <3>1. Range(buffersToWrite) = {y}
      BY <2>2, RangeFew, Zenon
    <3> QED
      BY <2>2, <3>1
  <2>3. ASSUME NEW x \in {1, 3} \ {currentBuffer},
               buffersToWrite = <<x, 2>>, currentBuffer # 2
        PROVE  currentBuffer \notin Range(buffersToWrite)
    <3>1. Range(buffersToWrite) = {x, 2}
      BY <2>3, RangeFew, Zenon
    <3> QED
      BY <2>3, <3>1
  <2> QED
    BY <2>1, <2>2, <2>3 DEF PointerInv
<1> QED
  BY <1>1, <1>2, <1>3

LEMMA DataAppend ==
  ASSUME IInv, PointerInv, DataInv, AppendLine, Early' PROVE DataInv'
<1> DEFINE L == Log
           W == Contents(ToWrite)
           B == Contents(buffers)
           C == content[currentBuffer]
           e == appended + 1
<1>1. /\ L \in Seq(Nat) /\ W \in Seq(Nat) /\ B \in Seq(Nat) /\ C \in Seq(Nat)
      /\ W = ContentsOf(content, ToWrite) /\ B = ContentsOf(content, buffers)
      /\ e \in Nat /\ appended \in Nat
  BY Parts
<1>2. UNCHANGED <<ToWrite, Log, failed>> /\ appended' = e
  BY DEF AppendLine, threadVars, logFileVars, ToWrite, Log
<1>3. Sum = L \o W \o B \o C
  BY DEF Sum
<1>4. Range(ToWrite) \subseteq Range(buffersToWrite)
  BY ToWriteRange DEF IInv
<1>5. content \in [Buffers -> Seq(Nat)] /\ currentBuffer \in Buffers /\ 2 \in Buffers
  BY DEF IInv, BufferInv, Buffers
<1>6. Contents(ToWrite)' = ContentsOf(content', ToWrite)
      /\ Contents(buffers)' = ContentsOf(content', buffers')
  BY <1>2 DEF Contents, ContentsOf
<1>7. Sum' = Log' \o Contents(ToWrite)' \o Contents(buffers)' \o content'[currentBuffer']
  BY DEF Sum
<1>8. L \o W \in Seq(Nat) /\ L \o W \o B \in Seq(Nat)
  <2> HIDE DEF L, W, B
  <2>1. L \o W \in Seq(Nat)
    BY <1>1, ConcatProperties, Zenon
  <2> QED
    BY <1>1, <2>1, ConcatProperties, Zenon
<1>9. CASE Fits(currentBuffer)
  <2>1. content' = [content EXCEPT ![currentBuffer] = Append(C, e)]
        /\ UNCHANGED <<buffers, currentBuffer>>
    BY <1>9 DEF AppendLine, BufferAppend
  <2>2. \A b \in Buffers \ {currentBuffer} : content'[b] = content[b]
    BY <1>5, <2>1
  <2>3. content'[currentBuffer'] = Append(C, e)
    BY <1>5, <2>1
  <2>4. currentBuffer \notin Range(buffersToWrite) /\ currentBuffer \notin Range(buffers)
        /\ Range(buffersToWrite) \subseteq Buffers /\ Range(buffers) \subseteq Buffers
    BY RangeOthers DEF IInv
  <2>5. Contents(ToWrite)' = W
    BY <1>1, <1>4, <1>6, <2>2, <2>4, ContentsSame
  <2>6. Contents(buffers)' = B
    <3>1. \A b \in Range(buffers) : content'[b] = content[b]
      BY <2>2, <2>4
    <3>2. ContentsOf(content', buffers) = ContentsOf(content, buffers)
      BY <3>1, ContentsSame
    <3> QED
      BY <1>1, <1>6, <2>1, <3>2
  <2> HIDE DEF L, W, B, C, e
  <2>7. L \o W \o B \o Append(C, e) = Append(L \o W \o B \o C, e)
    BY <1>1, <1>8, AppendRight, Zenon
  <2>8. Log' = L
    BY <1>2 DEF L
  <2>9. Sum' = Append(Sum, e)
    BY <1>3, <1>7, <2>3, <2>5, <2>6, <2>7, <2>8, Zenon
  <2> QED
    BY <1>2, <2>9, SumGrows DEF e
<1>10. CASE ~Fits(currentBuffer)
  <2>1. ~Spilled /\ buffers = <<>> /\ content' = [content EXCEPT ![2] = <<e>>]
    BY <1>10, PointersAppend DEF IInv
  <2>2. currentBuffer' = 2 /\ buffers' = <<currentBuffer>> /\ currentBuffer # 2
        /\ 2 \notin Range(buffersToWrite)
    BY <1>10, <2>1 DEF AppendLine, PushFull, PointerInv, Spilled
  <2>3. /\ content'[2] = <<e>> /\ content'[currentBuffer] = C
        /\ \A b \in Buffers \ {2} : content'[b] = content[b]
    BY <1>5, <2>1, <2>2
  <2>4. Range(buffersToWrite) \subseteq Buffers
    BY RangeOthers DEF IInv
  <2>5. Contents(ToWrite)' = W
    BY <1>1, <1>4, <1>6, <2>2, <2>3, <2>4, ContentsSame
  <2>6. content' \in [Buffers -> Seq(Nat)]
    BY <1>1, <1>5, <2>1
  <2>7. Contents(buffers)' = C
    BY <1>5, <1>6, <2>2, <2>3, <2>6, ContentsFew
  <2>8. B = <<>>
    BY <1>1, <1>5, <2>1, ContentsFew
  <2> HIDE DEF L, W, B, C, e
  <2>9. L \o W \o B = L \o W
    BY <1>8, <2>8, ConcatNone
  <2>10. L \o W \o C \in Seq(Nat)
    BY <1>1, <1>8, ConcatProperties, Zenon
  <2>11. L \o W \o C \o <<e>> = Append(L \o W \o C, e)
    BY <1>1, <2>10
  <2>12. Log' = L
    BY <1>2 DEF L
  <2>13. Sum' = Append(Sum, e)
    BY <1>3, <1>7, <2>2, <2>3, <2>5, <2>7, <2>9, <2>11, <2>12, Zenon
  <2> QED
    BY <1>2, <2>13, SumGrows DEF e
<1> QED
  BY <1>9, <1>10

LEMMA TailsOfFew ==
  ASSUME NEW x \in Nat, NEW y \in Nat
  PROVE  /\ SubSeq(<<x>>, 1, 1) = <<x>> /\ SubSeq(<<x, y>>, 1, 2) = <<x, y>>
         /\ SubSeq(<<x, y>>, 2, 2) = <<y>>
         /\ SubSeq(<<x>>, 2, 1) = <<>> /\ SubSeq(<<x, y>>, 3, 2) = <<>>
<1> DEFINE s == <<x>>
           t == <<x, y>>
           u == <<y>>
<1>1. s \in Seq(Nat) /\ Len(s) = 1 /\ s[1] = x
  OBVIOUS
<1>2. t \in Seq(Nat) /\ Len(t) = 2 /\ t[1] = x /\ t[2] = y
  OBVIOUS
<1>3. u \in Seq(Nat) /\ Len(u) = 1 /\ u[1] = y
  OBVIOUS
<1> HIDE DEF s, t, u
<1>4. SubSeq(s, 1, 1) = s /\ SubSeq(t, 1, 2) = t
  BY <1>1, <1>2
<1>5. SubSeq(s, 2, 1) = <<>> /\ SubSeq(t, 3, 2) = <<>>
  BY <1>1, <1>2, SubSeqEmpty
<1>6. SubSeq(t, 2, 2) = u
  <2>1. \A k \in 2 .. 2 : t[k] \in Nat
    BY <1>2
  <2>2. /\ SubSeq(t, 2, 2) \in Seq(Nat) /\ Len(SubSeq(t, 2, 2)) = 1
        /\ SubSeq(t, 2, 2)[1] = t[2]
    BY <1>2, <2>1, SubSeqProperties
  <2>3. \A k \in 1 .. 1 : SubSeq(t, 2, 2)[k] = u[k]
    BY <1>2, <1>3, <2>2
  <2> QED
    BY <1>3, <2>2, <2>3, SeqEqual
<1> QED
  BY <1>4, <1>5, <1>6 DEF s, t, u

\* What the logging thread has still to write, by the buffers it took over.
LEMMA Tails ==
  ASSUME BufferInv, PointerInv
  PROVE  /\ pc # "write" => ToWrite = <<>>
         /\ i = Len(buffersToWrite) => ToWrite = <<>>
         /\ pc = "write" /\ i < Len(buffersToWrite) =>
              \/ \E y \in Buffers :
                   /\ buffersToWrite[i + 1] = y /\ ToWrite = <<y>>
                   /\ i + 1 = Len(buffersToWrite)
              \/ \E x, y \in Buffers :
                   /\ buffersToWrite = <<x, y>> /\ i = 0 /\ ToWrite = <<x, y>>
<1>1. pc # "write" => ToWrite = <<>>
  BY SubSeqEmpty DEF PointerInv, ToWrite
<1>2. i = Len(buffersToWrite) => ToWrite = <<>>
  BY SubSeqEmpty DEF BufferInv, ToWrite
<1> SUFFICES ASSUME pc = "write", i < Len(buffersToWrite)
             PROVE  \/ \E y \in Buffers :
                         /\ buffersToWrite[i + 1] = y /\ ToWrite = <<y>>
                         /\ i + 1 = Len(buffersToWrite)
                    \/ \E x, y \in Buffers :
                         /\ buffersToWrite = <<x, y>> /\ i = 0 /\ ToWrite = <<x, y>>
  BY <1>1, <1>2
<1>3. i \in Nat
  BY DEF BufferInv
<1>4. ASSUME NEW y \in 1 .. 3, buffersToWrite = <<y>>
      PROVE  /\ buffersToWrite[i + 1] = y /\ ToWrite = <<y>>
             /\ i + 1 = Len(buffersToWrite)
  <2>1. i = 0 /\ Len(buffersToWrite) = 1 /\ buffersToWrite[1] = y
    BY <1>3, <1>4
  <2>2. ToWrite = SubSeq(<<y>>, 1, 1)
    BY <1>4, <2>1 DEF ToWrite
  <2>3. SubSeq(<<y>>, 1, 1) = <<y>>
    <3>1. y \in Nat
      OBVIOUS
    <3> QED
      BY <3>1, TailsOfFew, Zenon
  <2> QED
    BY <2>1, <2>2, <2>3
<1>5. ASSUME NEW x \in {1, 3}, buffersToWrite = <<x, 2>>
      PROVE  \/ i = 0 /\ ToWrite = <<x, 2>>
             \/ /\ buffersToWrite[i + 1] = 2 /\ ToWrite = <<2>>
                /\ i + 1 = Len(buffersToWrite)
  <2>1. Len(buffersToWrite) = 2 /\ buffersToWrite[2] = 2
    BY <1>5
  <2>2. i = 0 \/ i = 1
    BY <1>3, <2>1
  <2>3. SubSeq(<<x, 2>>, 1, 2) = <<x, 2>> /\ SubSeq(<<x, 2>>, 2, 2) = <<2>>
    <3>1. x \in Nat /\ 2 \in Nat
      OBVIOUS
    <3> QED
      BY <3>1, TailsOfFew, Zenon
  <2>4. i = 0 => ToWrite = SubSeq(<<x, 2>>, 1, 2)
    BY <1>5, <2>1 DEF ToWrite
  <2>5. i = 1 => ToWrite = SubSeq(<<x, 2>>, 2, 2)
    BY <1>5, <2>1 DEF ToWrite
  <2> QED
    BY <2>1, <2>2, <2>3, <2>4, <2>5
<1>6. 1 .. 3 \subseteq Buffers /\ {1, 2, 3} \subseteq Buffers
  BY DEF Buffers
<1>7. \/ \E y \in 1 .. 3 : buffersToWrite = <<y>>
      \/ \E x \in {1, 3} : buffersToWrite = <<x, 2>>
  BY DEF PointerInv
<1>8. CASE \E y \in 1 .. 3 : buffersToWrite = <<y>>
  BY <1>4, <1>6, <1>8
<1>9. CASE \E x \in {1, 3} : buffersToWrite = <<x, 2>>
  <2>1. PICK x \in {1, 3} : buffersToWrite = <<x, 2>>
    BY <1>9
  <2>2. x \in Buffers /\ 2 \in Buffers
    BY <1>6
  <2> QED
    BY <1>5, <2>1, <2>2, Zenon
<1> QED
  BY <1>7, <1>8, <1>9

\* The buffers are taken over in the order in which they were filled.
LEMMA DataTake ==
  ASSUME IInv, PointerInv, DataInv, Take PROVE DataInv'
<1> DEFINE L == Log
           B == Contents(buffers)
           C == content[currentBuffer]
<1>1. /\ pc = "take" /\ buffersToWrite' = Append(buffers, currentBuffer) /\ buffers' = <<>>
      /\ currentBuffer' = newBuffer1 /\ i' = 0
      /\ UNCHANGED <<content, appended, Log, failed>>
  BY DEF Take, PushFull, logFileVars, Log
<1>2. /\ L \in Seq(Nat) /\ B \in Seq(Nat) /\ C \in Seq(Nat)
      /\ B = ContentsOf(content, buffers)
  BY Parts
<1>3. content \in [Buffers -> Seq(Nat)] /\ currentBuffer \in Buffers /\ 1 \in Buffers
  BY DEF IInv, BufferInv, Buffers
<1>4. Contents(ToWrite) = <<>>
  <2>1. ToWrite = <<>>
    BY <1>1, Tails DEF IInv
  <2>2. ContentsOf(content, <<>>) = <<>>
    BY <1>3, ContentsFew
  <2> QED
    BY <2>1, <2>2 DEF Contents, ContentsOf
<1>5. Sum = L \o <<>> \o B \o C
  BY <1>4 DEF Sum
<1>6. content[newBuffer1] = <<>>
  BY <1>1 DEF PointerInv
<1>7. Contents(buffers)' = <<>>
  <2>1. ContentsOf(content, <<>>) = <<>>
    BY <1>3, ContentsFew
  <2> QED
    BY <1>1, <2>1 DEF Contents, ContentsOf
<1>8. Contents(ToWrite)' = B \o C
  <2>1. Contents(ToWrite)' = ContentsOf(content, ToWrite')
    BY <1>1 DEF Contents, ContentsOf
  <2>2. ToWrite' = SubSeq(buffersToWrite', 1, Len(buffersToWrite'))
    BY <1>1 DEF ToWrite
  <2>3. CASE buffers = <<>>
    <3>1. buffersToWrite' = <<currentBuffer>> /\ Len(buffersToWrite') = 1
      BY <1>1, <2>3
    <3>2. SubSeq(<<currentBuffer>>, 1, 1) = <<currentBuffer>>
      <4>1. currentBuffer \in Nat
        BY <1>3 DEF Buffers
      <4> QED
        BY <4>1, TailsOfFew, Zenon
    <3>3. ToWrite' = <<currentBuffer>>
      BY <2>2, <3>1, <3>2
    <3>4. ContentsOf(content, <<currentBuffer>>) = C /\ ContentsOf(content, <<>>) = <<>>
      BY <1>3, ContentsFew
    <3>5. <<>> \o C = C
      BY <1>2, ConcatNone
    <3> QED
      BY <1>2, <2>1, <2>3, <3>3, <3>4, <3>5, Zenon
  <2>4. ASSUME NEW x \in {1, 3}, buffers = <<x>>, currentBuffer = 2
        PROVE  Contents(ToWrite)' = B \o C
    <3>1. x \in Nat /\ 2 \in Nat /\ x \in Buffers /\ 2 \in Buffers
      BY DEF Buffers
    <3>2. buffersToWrite' = <<x, 2>>
      BY <1>1, <2>4, <3>1, AppendOne
    <3>3. Len(buffersToWrite') = 2
      BY <3>2
    <3>4. SubSeq(<<x, 2>>, 1, 2) = <<x, 2>>
      BY <3>1, TailsOfFew
    <3>5. ToWrite' = <<x, 2>>
      BY <2>2, <3>2, <3>3, <3>4
    <3>6. ContentsOf(content, <<x, 2>>) = content[x] \o content[2]
          /\ ContentsOf(content, <<x>>) = content[x]
      BY <1>3, <3>1, ContentsFew
    <3> QED
      BY <1>2, <2>1, <2>4, <3>5, <3>6, Zenon
  <2> QED
    BY <2>3, <2>4 DEF PointerInv
<1>9. content'[currentBuffer'] = <<>> /\ Log' = L /\ appended' = appended
  BY <1>1, <1>6
<1> HIDE DEF L, B, C
<1>10. /\ L \o <<>> = L /\ (L \o B) \o C = L \o (B \o C)
       /\ (L \o (B \o C)) \o <<>> = L \o (B \o C)
  <2>1. B \o C \in Seq(Nat)
    BY <1>2, ConcatProperties, Zenon
  <2>2. L \o (B \o C) \in Seq(Nat)
    BY <1>2, <2>1, ConcatProperties, Zenon
  <2> QED
    BY <1>2, <2>2, ConcatNone, ConcatAssoc, Zenon
<1>11. Sum' = Log' \o Contents(ToWrite)' \o Contents(buffers)' \o content'[currentBuffer']
  BY DEF Sum
<1>12. Sum' = Sum
  BY <1>5, <1>7, <1>8, <1>9, <1>10, <1>11, Zenon
<1>13. Cut(Sum', Sum) /\ (~failed' => ~failed /\ Sum' = Sum)
  BY <1>1, <1>12, SumType, CutSame
<1> QED
  BY <1>9, <1>13, SumCut

\* What is written is what was to be written first.
LEMMA DataWrite ==
  ASSUME IInv, PointerInv, DataInv, WriteBuffer PROVE DataInv'
<1> DEFINE b == buffersToWrite[i + 1]
           d == content[b]
           B == Contents(buffers)
           C == content[currentBuffer]
<1>1. /\ pc = "write" /\ i < Len(buffersToWrite) /\ LogFileAppend(d) /\ i' = i + 1
      /\ UNCHANGED <<content, buffers, currentBuffer, appended, buffersToWrite>>
  BY DEF WriteBuffer, frontVars
<1>2. /\ content \in [Buffers -> Seq(Nat)] /\ b \in Buffers /\ d \in Seq(Nat)
      /\ i \in Nat /\ Len(d) \in Nat /\ SubSeq(d, 1, Len(d)) = d
  BY <1>1 DEF IInv, BufferInv
<1>3. /\ Log \in Seq(Nat) /\ Log = LogOf(files) /\ B \in Seq(Nat) /\ C \in Seq(Nat)
      /\ Contents(ToWrite) = ContentsOf(content, ToWrite)
  BY Parts
<1> HIDE DEF d
<1>4. PICK e, fs : /\ Cut(e, file.data \o d)
                   /\ ~failed' => ~failed /\ e = file.data \o d
                   /\ Given(files, fs, e) /\ Becomes(fs)
  BY <1>1, <1>2, FilesGrow DEF IInv
<1>5. FilesOK
  BY DEF IInv, FileInv
<1>6. /\ Cut(LogOf(fs), Log \o d)
      /\ e = file.data \o d => LogOf(fs) = Log \o d
  BY <1>2, <1>3, <1>4, <1>5, GivenToLog
<1>7. Log' = LogOf(fs)
  <2>1. Log' = LogOf(files')
    BY DEF Log, LogOf
  <2>2. fs \in Seq(File) /\ fs # <<>>
    BY <1>4, <1>5 DEF Given, FilesOK
  <2>3. \A t \in Nat, ok \in BOOLEAN : NewFile(t, ok) \in File /\ NewFile(t, ok).data = <<>>
    BY DEF NewFile, File
  <2>4. \A t \in Nat, ok \in BOOLEAN : LogOf(Append(fs, NewFile(t, ok))) = LogOf(fs)
    BY <2>2, <2>3, LogRolls
  <2>5. \/ files' = fs
        \/ \E t \in Nat, ok \in BOOLEAN : files' = Append(fs, NewFile(t, ok))
    BY <1>4, Zenon DEF Becomes
  <2>6. ASSUME NEW t \in Nat, NEW ok \in BOOLEAN, files' = Append(fs, NewFile(t, ok))
        PROVE  Log' = LogOf(fs)
    BY <2>1, <2>4, <2>6, Zenon
  <2> QED
    BY <2>1, <2>5, <2>6, Zenon
<1>8. Cut(Log', Log \o d) /\ (~failed' => ~failed /\ Log' = Log \o d)
  BY <1>4, <1>6, <1>7, Zenon
<1> DEFINE Split == /\ Contents(ToWrite) \in Seq(Nat) /\ Contents(ToWrite)' \in Seq(Nat)
                    /\ Contents(ToWrite) = d \o Contents(ToWrite)'
<1>9. Split
  <2>1. Contents(ToWrite)' = ContentsOf(content, ToWrite')
    BY <1>1 DEF Contents, ContentsOf
  <2>2. ToWrite' = SubSeq(buffersToWrite, i + 2, Len(buffersToWrite))
    BY <1>1, <1>2 DEF ToWrite
  <2>3. ContentsOf(content, <<>>) = <<>> /\ <<>> \in Seq(Nat)
    <3>1. ContentsOf(content, <<>>) = <<>>
      BY <1>2, ContentsFew
    <3> QED
      BY <3>1
  <2>4. CASE ToWrite = <<b>> /\ i + 1 = Len(buffersToWrite)
    <3>1. ToWrite' = <<>>
      BY <1>2, <2>2, <2>4, SubSeqEmpty
    <3>2. ContentsOf(content, <<b>>) = d
      BY <1>2, ContentsFew DEF d
    <3>3. d \o <<>> = d
      BY <1>2, ConcatNone
    <3> QED
      BY <1>2, <1>3, <2>1, <2>3, <2>4, <3>1, <3>2, <3>3, Zenon
  <2>5. ASSUME NEW x \in Buffers, NEW y \in Buffers,
               buffersToWrite = <<x, y>>, i = 0, ToWrite = <<x, y>>
        PROVE  Split
    <3>1. x \in Nat /\ y \in Nat
      BY DEF Buffers
    <3>2. Len(buffersToWrite) = 2 /\ b = x
      BY <2>5
    <3>3. SubSeq(<<x, y>>, 2, 2) = <<y>>
      BY <3>1, TailsOfFew
    <3>4. ToWrite' = <<y>>
      BY <2>2, <2>5, <3>2, <3>3
    <3>5. /\ ContentsOf(content, <<y>>) = content[y] /\ content[y] \in Seq(Nat)
          /\ ContentsOf(content, <<x, y>>) = content[x] \o content[y]
      BY <1>2, ContentsFew
    <3>6. d = content[x]
      BY <3>2 DEF d
    <3>7. d \o content[y] \in Seq(Nat)
      BY <1>2, <3>5, ConcatProperties
    <3> HIDE DEF b
    <3> QED
      BY <1>3, <2>1, <2>5, <3>4, <3>5, <3>6, <3>7, Zenon
  <2> QED
    BY <1>1, <2>4, <2>5, Tails DEF IInv
<1>10. Contents(buffers)' = B /\ content'[currentBuffer'] = C /\ appended' = appended
  BY <1>1 DEF Contents
<1> DEFINE D == Log \o d
           R == Contents(ToWrite)'
<1>11. Sum = Log \o (d \o R) \o B \o C /\ Sum' = Log' \o R \o B \o C
  <2>1. Sum = Log \o Contents(ToWrite) \o B \o C
    BY DEF Sum
  <2>2. Sum' = Log' \o R \o Contents(buffers)' \o content'[currentBuffer']
    BY DEF Sum
  <2> QED
    BY <1>9, <1>10, <2>1, <2>2, Zenon
<1>12. /\ Log \in Seq(Nat) /\ d \in Seq(Nat) /\ R \in Seq(Nat)
       /\ B \in Seq(Nat) /\ C \in Seq(Nat) /\ D \in Seq(Nat)
  BY <1>2, <1>3, <1>9, ConcatAt
<1>13. Log \o (d \o R) = D \o R
  <2> DEFINE l == Log
             h == R
  <2>1. l \in Seq(Nat) /\ d \in Seq(Nat) /\ h \in Seq(Nat)
    BY <1>12
  <2> HIDE DEF l, h
  <2>2. (l \o d) \o h = l \o (d \o h)
    BY <2>1, ConcatAssoc
  <2> QED
    BY <2>2, Zenon DEF l, h
<1> HIDE DEF B, C, R, D
<1>14. D \o R \in Seq(Nat) /\ D \o R \o B \in Seq(Nat)
  <2>1. D \o R \in Seq(Nat)
    BY <1>12, ConcatAt
  <2> QED
    BY <1>12, <2>1, ConcatAt
<1>15. Cut(Log', D)
  BY <1>8 DEF D
<1>16. Cut(Log' \o R, D \o R)
  BY <1>12, <1>15, CutBefore
<1>17. Cut(Log' \o R \o B, D \o R \o B)
  BY <1>12, <1>14, <1>16, CutBefore
<1>18. Cut(Log' \o R \o B \o C, D \o R \o B \o C)
  BY <1>12, <1>14, <1>17, CutBefore
<1>19. Cut(Sum', Sum)
  BY <1>11, <1>13, <1>18, Zenon
<1>20. ~failed' => ~failed /\ Sum' = Sum
  BY <1>8, <1>11, <1>13, Zenon DEF D
<1> QED
  BY <1>10, <1>19, <1>20, SumCut

\* The steps that neither write nor move a line.
LEMMA DataKept ==
  ASSUME IInv, DataInv, Contents(ToWrite)' = Contents(ToWrite),
         Contents(buffers)' = Contents(buffers),
         content'[currentBuffer'] = content[currentBuffer], UNCHANGED appended,
         UNCHANGED <<files, failed>> \/ LogFileFlush
  PROVE  DataInv'
<1> DEFINE L == Log
           W == Contents(ToWrite)
           B == Contents(buffers)
           C == content[currentBuffer]
<1>1. /\ L \in Seq(Nat) /\ W \in Seq(Nat) /\ B \in Seq(Nat) /\ C \in Seq(Nat)
      /\ L = LogOf(files) /\ Log' = LogOf(files')
  BY Parts DEF Log, LogOf
<1>2. Cut(Log', L) /\ (~failed' => ~failed /\ Log' = L)
  <2>1. CASE UNCHANGED <<files, failed>>
    <3>1. Log' = L /\ failed' = failed
      BY <1>1, <2>1
    <3>2. Cut(L, L)
      BY <1>1, CutSame
    <3> QED
      BY <3>1, <3>2
  <2>2. CASE LogFileFlush
    <3>1. FileInv /\ FilesOK
      BY DEF IInv, FileInv
    <3>2. PICK d : /\ Cut(d, file.data) /\ (~failed' => ~failed /\ d = file.data)
                   /\ Given(files, files', d)
      BY <2>2, <3>1, FlushCuts
    <3>3. file.data \in Seq(Nat)
      <4>1. file \in File
        BY <3>1 DEF FilesOK, file
      <4> QED
        BY <4>1 DEF File
    <3>4. <<>> \in Seq(Nat) /\ file.data \o <<>> = file.data /\ L \o <<>> = L
      BY <1>1, <3>3, ConcatNone
    <3>5. Cut(d, file.data \o <<>>)
      BY <3>2, <3>4
    <3>6. /\ Cut(LogOf(files'), LogOf(files) \o <<>>)
          /\ d = file.data \o <<>> => LogOf(files') = LogOf(files) \o <<>>
      BY <3>1, <3>2, <3>4, <3>5, GivenToLog
    <3> QED
      BY <1>1, <3>2, <3>4, <3>6, Zenon
  <2> QED
    BY <2>1, <2>2
<1>3. Sum = L \o W \o B \o C /\ Sum' = Log' \o W \o B \o C
  BY DEF Sum
<1> HIDE DEF L, W, B, C
<1>4. L \o W \in Seq(Nat) /\ L \o W \o B \in Seq(Nat)
  <2>1. L \o W \in Seq(Nat)
    BY <1>1, ConcatAt
  <2> QED
    BY <1>1, <2>1, ConcatAt
<1>5. Cut(Log' \o W, L \o W)
  BY <1>1, <1>2, CutBefore
<1>6. Cut(Log' \o W \o B, L \o W \o B)
  BY <1>1, <1>4, <1>5, CutBefore
<1>7. Cut(Log' \o W \o B \o C, L \o W \o B \o C)
  BY <1>1, <1>4, <1>6, CutBefore
<1>8. Cut(Sum', Sum) /\ (~failed' => ~failed /\ Sum' = Sum)
  BY <1>2, <1>3, <1>7, Zenon
<1> QED
  BY <1>8, SumCut

\* The buffer that is reset has been written.
LEMMA DataRecycle ==
  ASSUME IInv, PointerInv, DataInv, Recycle PROVE DataInv'
<1>1. /\ i = Len(buffersToWrite) /\ content' = [content EXCEPT ![Kept] = <<>>]
      /\ buffersToWrite' = <<>> /\ i' = 0 /\ LogFileFlush
      /\ UNCHANGED <<buffers, currentBuffer, appended>>
  BY DEF Recycle, ResetBuffer, frontVars
<1>2. content \in [Buffers -> Seq(Nat)] /\ currentBuffer \in Buffers /\ 1 \in Buffers
  BY DEF IInv, BufferInv, Buffers
<1>3. Kept \in 1 .. 3 /\ Kept \notin {currentBuffer} \cup Range(buffers)
  BY PointersRecycle DEF IInv
<1>4. \A b \in Buffers \ {Kept} : content'[b] = content[b]
  BY <1>1, <1>2
<1>5. content' \in [Buffers -> Seq(Nat)]
  <2>1. <<>> \in Seq(Nat)
    OBVIOUS
  <2> QED
    BY <1>1, <1>2, <2>1
<1>6. Contents(ToWrite)' = <<>> /\ Contents(ToWrite) = <<>>
  <2>1. ToWrite = <<>>
    BY <1>1, Tails DEF IInv
  <2>2. ToWrite' = <<>>
    BY <1>1, SubSeqEmpty DEF ToWrite
  <2>3. ContentsOf(content, <<>>) = <<>> /\ ContentsOf(content', <<>>) = <<>>
    BY <1>2, <1>5, ContentsFew
  <2> QED
    BY <2>1, <2>2, <2>3 DEF Contents, ContentsOf
<1>7. Contents(buffers)' = Contents(buffers)
  <2>1. Range(buffers) \subseteq Buffers
    BY RangeOthers DEF IInv
  <2>2. \A b \in Range(buffers) : content'[b] = content[b]
    BY <1>3, <1>4, <2>1
  <2>3. ContentsOf(content', buffers) = ContentsOf(content, buffers)
    BY <2>2, ContentsSame
  <2> QED
    BY <1>1, <2>3 DEF Contents, ContentsOf
<1>8. content'[currentBuffer'] = content[currentBuffer]
  BY <1>1, <1>2, <1>3, <1>4
<1> QED
  BY <1>1, <1>6, <1>7, <1>8, DataKept

LEMMA OrderInvInit == Init => OrderInv
<1> SUFFICES ASSUME Init PROVE OrderInv
  OBVIOUS
<1>1. /\ content = [b \in Buffers |-> <<>>] /\ buffers = <<>> /\ buffersToWrite = <<>>
      /\ i = 0 /\ appended = 0 /\ currentBuffer = 1 /\ nextBuffer = 2 /\ newBuffer1 = 3
      /\ pc = "top" /\ ~aborted /\ files = <<NewFile(lastRoll, TRUE)>>
  BY DEF Init, LogFileInit
<1>2. IInv
  BY IInvInit
<1>3. NamesInv
  <2>1. Len(files) = 1 /\ DOMAIN files = {1} /\ files[1].name = lastRoll
    BY <1>1 DEF NewFile
  <2> QED
    BY <2>1 DEF NamesInv, NamesInOrder, file
<1>4. Range(buffers) = {} /\ Range(buffersToWrite) = {}
  BY <1>1, RangeFew
<1>5. ~Spilled
  BY <1>1, <1>4 DEF Spilled
<1>6. PointerInv
  <2>1. \A b \in 1 .. 4 : content[b] = <<>>
    BY <1>1 DEF Buffers
  <2>2. content[1] = <<>> /\ content[2] = <<>> /\ content[3] = <<>> /\ content[4] = <<>>
    BY <2>1
  <2>3. Len(content[currentBuffer]) <= appended
    BY <1>1, <2>2
  <2>4. newBuffer1 \in (1 .. 3) \ ({currentBuffer} \cup Range(buffers))
    BY <1>1, <1>4
  <2> HIDE DEF Spilled
  <2> QED
    BY <1>1, <1>5, <2>2, <2>3, <2>4 DEF PointerInv, newBuffer2
<1>7. DataInv
  <2>1. 1 \in Buffers /\ content \in [Buffers -> Seq(Nat)] /\ content[1] = <<>>
    BY <1>1, <1>2 DEF IInv, BufferInv, Buffers
  <2>2. ContentsOf(content, <<>>) = <<>>
    BY <2>1, ContentsFew
  <2>3. ToWrite = <<>>
    BY <1>1, SubSeqEmpty DEF ToWrite
  <2>4. Contents(ToWrite) = <<>> /\ Contents(buffers) = <<>>
    BY <1>1, <2>2, <2>3 DEF Contents, ContentsOf
  <2>5. Log = <<>>
    <3> DEFINE ss == [k \in DOMAIN files |-> files[k].data]
    <3>1. Len(ss) = 1 /\ ss[1] = <<>>
      BY <1>1 DEF NewFile
    <3> HIDE DEF ss
    <3>2. FlattenSeq(ss) = <<>>
      BY <3>1, FlattenOne
    <3> QED
      BY <3>2 DEF Log, ss
  <2>6. Lines(0) = <<>>
    BY DEF Lines
  <2>7. <<>> \o <<>> = <<>>
    OBVIOUS
  <2>8. Sum = <<>>
    BY <1>1, <2>1, <2>4, <2>5, <2>7 DEF Sum
  <2>9. DOMAIN <<>> = {}
    OBVIOUS
  <2> QED
    BY <1>1, <2>6, <2>8, <2>9, Zenon DEF DataInv, Increasing
<1> QED
  BY <1>3, <1>6, <1>7 DEF OrderInv

LEMMA OrderInductive == IInv /\ OrderInv /\ [Next]_vars => OrderInv'
<1> SUFFICES ASSUME IInv, OrderInv, [Next]_vars PROVE OrderInv'
  OBVIOUS
<1>1. FileInv /\ BufferInv /\ appended \in Nat /\ NamesInv
  BY DEF IInv, BufferInv, OrderInv
<1>2. <<>> \in Seq(Nat) /\ lastRoll \in Nat
  BY <1>1 DEF FileInv, DayInv
<1>3. ASSUME UNCHANGED <<files, lastRoll>> PROVE NamesInv'
  BY <1>1, <1>3 DEF NamesInv, NamesInOrder, file
<1>4. ASSUME LogFileFlush, UNCHANGED lastRoll PROVE NamesInv'
  <2>1. \E d : Given(files, files', d)
    BY <1>1, <1>4, FlushCuts
  <2>2. Becomes(files')
    BY <1>4 DEF Becomes
  <2> QED
    BY <1>1, <2>1, <2>2, NamesKept
<1> DEFINE Holds == PointerInv /\ DataInv
<1>5. Early => Holds
  BY DEF OrderInv
<1>6. UNCHANGED appended /\ Early' => Early
  BY DEF Early
<1> HIDE DEF Holds
<1>7. CASE AppendLine
  <2>1. Early' => Early
    BY <1>1, <1>7, CapacityAssumption DEF AppendLine, Early
  <2>2. Early' => PointerInv' /\ DataInv'
    BY <1>1, <1>5, <1>7, <2>1, PointersAppend, DataAppend DEF Holds
  <2>3. NamesInv'
    BY <1>3, <1>7 DEF AppendLine, logFileVars
  <2> QED
    BY <2>2, <2>3 DEF OrderInv
<1>8. ASSUME UNCHANGED <<content, frontVars, newBuffer1, buffersToWrite, i, lastRoll>>,
             Early' => ~aborted',
             pc' = "write" <=> pc = "write", UNCHANGED <<files, failed>> \/ LogFileFlush
      PROVE  OrderInv'
  <2>1. UNCHANGED <<appended, buffers, currentBuffer, ToWrite>>
    BY <1>8 DEF frontVars, ToWrite
  <2>2. /\ Contents(ToWrite)' = Contents(ToWrite) /\ Contents(buffers)' = Contents(buffers)
        /\ content'[currentBuffer'] = content[currentBuffer]
    BY <1>8, <2>1 DEF Contents
  <2>3. Early' => Early
    BY <1>6, <2>1
  <2>4. Early' => PointerInv'
    BY <1>5, <1>8, <2>3, PointersKept DEF Holds
  <2>5. Early' => DataInv'
    BY <1>5, <1>8, <2>1, <2>2, <2>3, DataKept DEF Holds
  <2>6. NamesInv'
    BY <1>3, <1>4, <1>8
  <2> QED
    BY <2>4, <2>5, <2>6 DEF OrderInv
<1>9. CASE Stop
  <2>1. Early' => ~aborted'
    BY <1>5, <1>6, <1>9 DEF Holds, PointerInv, Stop, frontVars
  <2> QED
    BY <1>8, <1>9, <2>1 DEF Stop, threadVars, logFileVars
<1>10. CASE Top
  <2>1. UNCHANGED <<content, frontVars, newBuffer1, buffersToWrite, i, lastRoll>>
    BY <1>10 DEF Top
  <2>2. Early' => Early
    BY <1>6, <2>1 DEF frontVars
  <2>3. Early' => ~aborted'
    <3> SUFFICES ASSUME Early' PROVE ~aborted'
      OBVIOUS
    <3>1. PointerInv
      BY <1>5, <2>2 DEF Holds
    <3>2. /\ newBuffer1 \in 1 .. 3 /\ content[newBuffer1] = <<>> /\ content[newBuffer2] = <<>>
          /\ buffersToWrite = <<>> /\ ~aborted
      BY <1>10, <3>1 DEF Top, PointerInv
    <3>3. Empty(newBuffer1) /\ Empty(newBuffer2) /\ buffersToWrite = <<>>
      BY <3>2 DEF Empty, newBuffer2, Null
    <3> QED
      BY <1>10, <3>2, <3>3 DEF Top
  <2>4. pc = "top" /\ pc' # "write" /\ (UNCHANGED <<files, failed>> \/ LogFileFlush)
    BY <1>10 DEF Top
  <2> QED
    BY <1>8, <2>1, <2>3, <2>4
<1>11. CASE Take
  <2>1. Early' => PointerInv' /\ DataInv'
    <3>1. UNCHANGED appended
      BY <1>11 DEF Take
    <3> QED
      BY <1>1, <1>5, <1>6, <1>11, <3>1, PointersTake, DataTake DEF Holds
  <2>2. NamesInv'
    BY <1>3, <1>11 DEF Take, logFileVars
  <2> QED
    BY <2>1, <2>2 DEF OrderInv
<1>12. CASE WriteBuffer
  <2>1. /\ UNCHANGED <<content, frontVars, newBuffer1, buffersToWrite, pc, aborted>>
        /\ pc = "write" /\ i < Len(buffersToWrite) /\ i' = i + 1
        /\ LogFileAppend(content[buffersToWrite[i + 1]])
    BY <1>12 DEF WriteBuffer
  <2>2. UNCHANGED appended /\ i \in Nat /\ buffersToWrite \in Seq(Buffers)
    BY <1>1, <2>1 DEF frontVars, BufferInv
  <2>3. i' <= Len(buffersToWrite) /\ buffersToWrite[i + 1] \in Buffers
    BY <2>1, <2>2
  <2>4. Early' => PointerInv'
    <3> SUFFICES ASSUME Early' PROVE PointerInv'
      OBVIOUS
    <3>1. PointerInv
      BY <1>5, <1>6, <2>2 DEF Holds
    <3>2. ~aborted'
      BY <2>1, <3>1 DEF PointerInv
    <3> QED
      BY <2>1, <2>3, <3>1, <3>2, PointersKept
  <2>5. Early' => DataInv'
    BY <1>5, <1>6, <1>12, <2>2, DataWrite DEF Holds
  <2>6. NamesInv'
    <3>1. content[buffersToWrite[i + 1]] \in Seq(Nat)
      BY <1>1, <2>3 DEF BufferInv
    <3>2. PICK d, fs : Given(files, fs, d) /\ Becomes(fs)
      BY <1>1, <2>1, <3>1, FilesGrow
    <3> QED
      BY <1>1, <3>2, NamesKept
  <2> QED
    BY <2>4, <2>5, <2>6 DEF OrderInv
<1>13. CASE Recycle
  <2>1. LogFileFlush /\ UNCHANGED <<appended, lastRoll>>
    BY <1>13 DEF Recycle, frontVars
  <2>2. Early' => PointerInv' /\ DataInv'
    BY <1>1, <1>5, <1>6, <1>13, <2>1, PointersRecycle, DataRecycle DEF Holds
  <2> QED
    BY <1>4, <2>1, <2>2 DEF OrderInv
<1>14. CASE UNCHANGED vars
  <2>1. Early' => ~aborted'
    BY <1>5, <1>6, <1>14 DEF Holds, PointerInv, vars, frontVars
  <2> QED
    BY <1>8, <1>14, <2>1 DEF vars, threadVars, logFileVars
<1> QED
  BY <1>7, <1>9, <1>10, <1>11, <1>12, <1>13, <1>14 DEF Next, Alive, LoggingThread

LEMMA Order == Spec => [](IInv /\ OrderInv)
<1>1. Init => IInv /\ OrderInv
  BY IInvInit, OrderInvInit
<1>2. IInv /\ OrderInv /\ [Next]_vars => (IInv /\ OrderInv)'
  BY IInvInductive, OrderInductive
<1> QED
  BY <1>1, <1>2, PTL DEF Spec

\* The names put the files in the order in which they were written, and no two
\* share one, whatever the clock does and whatever is appended
\* (LogFile::rollFile).
THEOREM FilesAreNamedInOrder == Spec => []NamesInOrder
<1>1. OrderInv => NamesInOrder
  BY DEF OrderInv, NamesInv
<1> QED
  BY <1>1, Order, PTL

\* As long as no more was appended than two buffers take, no line is lost,
\* doubled or moved between append() and the files, if writes succeed.  One line
\* more can be lost: nextBuffer_ stays set, so the second buffer that overflows
\* is followed by itself (AsyncLogging::append).
THEOREM LinesInOrderOnce == Spec => [](appended <= 2 * Capacity => InOrderOnce)
<1>1. OrderInv => (appended <= 2 * Capacity => InOrderOnce)
  BY DEF OrderInv, NamesInv, Early, DataInv, InOrderOnce, Sum, ToWrite, Lines
<1> QED
  BY <1>1, Order, PTL

\* And whatever writes and flushes fail, until then no line is doubled or moved:
\* File::append goes on where its first write ended, and what a failing fwrite
\* or fflush loses leaves the rest in order.
THEOREM LinesNeverDoubled == Spec => [](appended <= 2 * Capacity => NeverDoubled)
<1>1. OrderInv => (appended <= 2 * Capacity => NeverDoubled)
  BY DEF OrderInv, Early, DataInv, NeverDoubled, Sum, ToWrite, Increasing
<1> QED
  BY <1>1, Order, PTL

\* And until then the asserts of threadFunc hold: the buffers that the logging
\* thread is about to hand out are empty.
THEOREM HandsOutEmptyBuffers == Spec => [](appended <= 2 * Capacity => AssertsHold)
<1>1. OrderInv => (appended <= 2 * Capacity => AssertsHold)
  BY DEF OrderInv, Early, PointerInv, AssertsHold
<1> QED
  BY <1>1, Order, PTL
=============================================================================
