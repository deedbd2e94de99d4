---------------------------- MODULE Buffer_proofs ----------------------------
(***************************************************************************)
(* Proofs about Buffer, for any bytes and sizes.  TypeOK is inductive with *)
(* MemoryBounded; the work is in the lemmas, which say of each operation   *)
(* what it does to the contents and to the size.                           *)
(***************************************************************************)
EXTENDS Buffer, SequenceTheorems, TLAPS

----------------------------------------------------------------------------
(* Functions on 1 .. n as sequences.                                       *)

LEMMA RunIsSeq ==
  ASSUME NEW S, NEW n \in Nat, NEW f \in [1 .. n -> S]
  PROVE  f \in Seq(S) /\ Len(f) = n
  OBVIOUS

LEMMA ConcatEqual ==
  ASSUME NEW S, NEW f \in Seq(S), NEW g \in Seq(S), NEW h \in Seq(S),
         Len(h) = Len(f) + Len(g),
         \A i \in 1 .. Len(f) : h[i] = f[i],
         \A i \in 1 .. Len(g) : h[Len(f) + i] = g[i]
  PROVE  h = f \o g
  <1>1. /\ f \o g \in Seq(S) /\ Len(f \o g) = Len(f) + Len(g)
        /\ \A i \in 1 .. Len(f) + Len(g) :
             (f \o g)[i] = IF i <= Len(f) THEN f[i] ELSE g[i - Len(f)]
    BY ConcatProperties
  <1>2. ASSUME NEW i \in 1 .. Len(h) PROVE h[i] = (f \o g)[i]
    <2>1. CASE i <= Len(f)
      BY <1>1, <2>1
    <2>2. CASE i > Len(f)
      <3>1. i - Len(f) \in 1 .. Len(g) /\ Len(f) + (i - Len(f)) = i
        BY <2>2
      <3> QED BY <1>1, <2>2, <3>1
    <2> QED BY <2>1, <2>2
  <1> QED BY <1>1, <1>2, SeqEqual

LEMMA SuffixEqual ==
  ASSUME NEW S, NEW f \in Seq(S), NEW h \in Seq(S), NEW n \in 0 .. Len(f),
         Len(h) = Len(f) - n,
         \A i \in 1 .. Len(h) : h[i] = f[n + i]
  PROVE  h = SubSeq(f, n + 1, Len(f))
  <1>1. \A i \in n + 1 .. Len(f) : f[i] \in S
    OBVIOUS
  <1>2. /\ SubSeq(f, n + 1, Len(f)) \in Seq(S)
        /\ Len(SubSeq(f, n + 1, Len(f))) = IF n + 1 <= Len(f) THEN Len(f) - (n + 1) + 1 ELSE 0
        /\ \A i \in 1 .. Len(f) - (n + 1) + 1 :
             SubSeq(f, n + 1, Len(f))[i] = f[(n + 1) + i - 1]
    BY <1>1, SubSeqProperties
  <1>3. /\ Len(SubSeq(f, n + 1, Len(f))) = Len(h)
        /\ \A i \in 1 .. Len(h) : SubSeq(f, n + 1, Len(f))[i] = f[n + i]
    BY <1>2
  <1> QED BY <1>2, <1>3, SeqEqual

----------------------------------------------------------------------------
(* The operations.                                                         *)

LEMMA ContentsType ==
  ASSUME NEW s, IsBuffer(s)
  PROVE  /\ ReadableBytes(s) \in Nat
         /\ Contents(s) \in [1 .. ReadableBytes(s) -> Byte]
         /\ Contents(s) \in Seq(Byte) /\ Len(Contents(s)) = ReadableBytes(s)
  <1>1. ReadableBytes(s) \in Nat
    BY DEF IsBuffer, ReadableBytes
  <1>2. \A i \in 1 .. ReadableBytes(s) : s.readerIndex + i - 1 \in 0 .. s.size - 1
    BY DEF IsBuffer, ReadableBytes
  <1>3. \A i \in 1 .. ReadableBytes(s) : s.data[s.readerIndex + i - 1] \in Byte
    BY <1>2 DEF IsBuffer
  <1>4. Contents(s) \in [1 .. ReadableBytes(s) -> Byte]
    BY <1>3 DEF Contents
  <1> HIDE DEF Contents
  <1> QED BY <1>1, <1>4, RunIsSeq

LEMMA CopyToType ==
  ASSUME NEW s, IsBuffer(s), NEW n \in Nat, NEW bytes \in [1 .. n -> Byte], NEW at \in Nat
  PROVE  CopyTo(s, n, bytes, at) \in [0 .. s.size - 1 -> Byte]
  BY DEF IsBuffer, CopyTo

LEMMA ResizeKeeps ==
  ASSUME NEW s, IsBuffer(s), NEW n \in Nat, n >= s.size
  PROVE  /\ IsBuffer(Resize(s, n))
         /\ Resize(s, n).size = n
         /\ Resize(s, n).readerIndex = s.readerIndex
         /\ Resize(s, n).writerIndex = s.writerIndex
         /\ Contents(Resize(s, n)) = Contents(s)
  <1> DEFINE r == Resize(s, n)
  <1>1. /\ DOMAIN r = {"data", "size", "readerIndex", "writerIndex"}
        /\ r.size = n
        /\ r.readerIndex = s.readerIndex /\ r.writerIndex = s.writerIndex
        /\ r.data = [i \in 0 .. n - 1 |-> IF i < s.size THEN s.data[i] ELSE Nul]
    BY DEF Resize, IsBuffer
  <1> HIDE DEF r
  <1>2. IsBuffer(r)
    <2>1. \A i \in 0 .. n - 1 : i < s.size => s.data[i] \in Byte
      BY DEF IsBuffer
    <2>2. r.data \in [0 .. r.size - 1 -> Byte]
      BY <1>1, <2>1, NulAssumption
    <2> QED BY <1>1, <2>2 DEF IsBuffer
  <1>3. \A i \in 1 .. ReadableBytes(s) : r.data[s.readerIndex + i - 1] = s.data[s.readerIndex + i - 1]
    BY <1>1 DEF IsBuffer, ReadableBytes
  <1>4. ReadableBytes(r) = ReadableBytes(s)
    BY <1>1 DEF ReadableBytes
  <1>5. Contents(r) = Contents(s)
    BY <1>1, <1>3, <1>4 DEF Contents
  <1> QED BY <1>1, <1>2, <1>5 DEF r

LEMMA MoveToFrontKeeps ==
  ASSUME NEW s, IsBuffer(s), kCheapPrepend + ReadableBytes(s) <= s.size
  PROVE  /\ IsBuffer(MoveToFront(s))
         /\ MoveToFront(s).size = s.size
         /\ MoveToFront(s).writerIndex = kCheapPrepend + ReadableBytes(s)
         /\ Contents(MoveToFront(s)) = Contents(s)
  <1> DEFINE r == MoveToFront(s)
             k == ReadableBytes(s)
  <1>1. /\ DOMAIN r = {"data", "size", "readerIndex", "writerIndex"}
        /\ r.size = s.size
        /\ r.readerIndex = kCheapPrepend /\ r.writerIndex = kCheapPrepend + k
        /\ r.data = CopyTo(s, k, Contents(s), kCheapPrepend)
    BY DEF MoveToFront, IsBuffer
  <1>2. k \in Nat /\ Contents(s) \in [1 .. k -> Byte]
    BY ContentsType
  <1>3. r.data \in [0 .. s.size - 1 -> Byte]
    BY <1>1, <1>2, CopyToType, SizeAssumption
  <1>4. ReadableBytes(r) = k
    BY <1>1, <1>2, SizeAssumption DEF ReadableBytes
  <1> HIDE DEF r, k
  <1>5. IsBuffer(r)
    BY <1>1, <1>2, <1>3, SizeAssumption DEF IsBuffer, k
  <1>6. ASSUME NEW i \in 1 .. k
        PROVE  r.data[kCheapPrepend + i - 1] = Contents(s)[i]
    <2>1. /\ kCheapPrepend + i - 1 \in 0 .. s.size - 1
          /\ kCheapPrepend + i - 1 \in kCheapPrepend .. kCheapPrepend + k - 1
          /\ (kCheapPrepend + i - 1) - kCheapPrepend + 1 = i
      BY <1>2, <1>6, SizeAssumption DEF IsBuffer, k
    <2> QED BY <1>1, <2>1 DEF CopyTo
  <1>7. Contents(r) = [i \in 1 .. k |-> r.data[kCheapPrepend + i - 1]]
    BY <1>1, <1>4 DEF Contents
  <1>8. Contents(r) = Contents(s)
    BY <1>2, <1>6, <1>7
  <1> QED BY <1>1, <1>5, <1>8 DEF r, k

\* ensureWritableBytes makes enough room and keeps the contents; if it takes more
\* memory, it takes less than it needs twice over.
LEMMA EnsureWritable ==
  ASSUME NEW s, IsBuffer(s), NEW len \in Nat
  PROVE  LET e == EnsureWritableBytes(s, len)
         IN  /\ IsBuffer(e)
             /\ WritableBytes(e) >= len
             /\ ReadableBytes(e) = ReadableBytes(s)
             /\ Contents(e) = Contents(s)
             /\ \/ e.size = s.size
                \/ s.size <= e.size /\ e.size < kCheapPrepend + ReadableBytes(s) + 2 * len
  <1> DEFINE e == EnsureWritableBytes(s, len)
  <1>0. /\ s.size \in Nat /\ s.writerIndex \in 0 .. s.size
        /\ s.readerIndex \in 0 .. s.writerIndex
        /\ ReadableBytes(s) = s.writerIndex - s.readerIndex
    BY DEF IsBuffer, ReadableBytes
  <1>1. CASE WritableBytes(s) >= len
    <2>1. e = s
      BY <1>0, <1>1 DEF EnsureWritableBytes, WritableBytes
    <2> QED BY <1>1, <2>1
  <1>2. CASE WritableBytes(s) < len /\ Fits(s, len)
    <2>1. e = MoveToFront(s)
      BY <1>2 DEF EnsureWritableBytes, MakeSpace
    <2>2. kCheapPrepend + ReadableBytes(s) + len <= s.size
      BY <1>0, <1>2, SizeAssumption DEF Fits, WritableBytes, PrependableBytes
    <2>3. /\ IsBuffer(e) /\ e.size = s.size
          /\ e.writerIndex = kCheapPrepend + ReadableBytes(s)
          /\ Contents(e) = Contents(s)
      BY <1>0, <2>1, <2>2, MoveToFrontKeeps, SizeAssumption
    <2>4. ReadableBytes(e) = ReadableBytes(s)
      BY <1>0, <2>1, SizeAssumption DEF MoveToFront, ReadableBytes, IsBuffer
    <2>5. WritableBytes(e) >= len
      BY <1>0, <2>2, <2>3, SizeAssumption DEF WritableBytes
    <2> QED BY <2>3, <2>4, <2>5
  <1>3. CASE WritableBytes(s) < len /\ ~Fits(s, len)
    <2>1. e = Resize(s, s.writerIndex + len)
      BY <1>3 DEF EnsureWritableBytes, MakeSpace
    <2>2. s.writerIndex + len >= s.size /\ s.writerIndex + len \in Nat
      BY <1>0, <1>3 DEF WritableBytes
    <2>3. /\ IsBuffer(e) /\ e.size = s.writerIndex + len
          /\ e.readerIndex = s.readerIndex /\ e.writerIndex = s.writerIndex
          /\ Contents(e) = Contents(s)
      BY <2>1, <2>2, ResizeKeeps
    <2>4. ReadableBytes(e) = ReadableBytes(s)
      BY <2>3 DEF ReadableBytes
    <2>5. WritableBytes(e) >= len
      BY <1>0, <2>3 DEF WritableBytes
    <2>6. s.readerIndex < len + kCheapPrepend
      BY <1>0, <1>3, SizeAssumption DEF Fits, WritableBytes, PrependableBytes
    <2>7. e.size < kCheapPrepend + ReadableBytes(s) + 2 * len
      BY <1>0, <2>3, <2>6, SizeAssumption
    <2> QED BY <2>2, <2>3, <2>4, <2>5, <2>7
  <1>4. WritableBytes(s) \in Int
    BY <1>0 DEF WritableBytes
  <1> QED BY <1>1, <1>2, <1>3, <1>4
\* What is written at writerIndex_ continues the contents.
LEMMA FillAppends ==
  ASSUME NEW s, IsBuffer(s), NEW n \in Nat, NEW bytes, n <= WritableBytes(s),
         \A i \in 1 .. n : bytes[i] \in Byte
  PROVE  LET r == Fill(s, n, bytes)
         IN  /\ IsBuffer(r)
             /\ r.size = s.size
             /\ r.writerIndex = s.writerIndex + n
             /\ ReadableBytes(r) = ReadableBytes(s) + n
             /\ Contents(r) = Contents(s) \o [i \in 1 .. n |-> bytes[i]]
  <1> DEFINE r == Fill(s, n, bytes)
             k == ReadableBytes(s)
             head == [i \in 1 .. n |-> bytes[i]]
  <1>1. /\ DOMAIN r = {"data", "size", "readerIndex", "writerIndex"}
        /\ r.size = s.size
        /\ r.readerIndex = s.readerIndex /\ r.writerIndex = s.writerIndex + n
        /\ r.data = CopyTo(s, n, bytes, s.writerIndex)
    BY DEF Fill, IsBuffer
  <1>2. /\ s.size \in Nat /\ s.writerIndex \in 0 .. s.size
        /\ s.readerIndex \in 0 .. s.writerIndex
        /\ k = s.writerIndex - s.readerIndex /\ k \in Nat
        /\ s.writerIndex + n <= s.size
    BY DEF IsBuffer, ReadableBytes, WritableBytes
  <1>3. head \in [1 .. n -> Byte]
    OBVIOUS
  <1>4. \A i \in 0 .. s.size - 1 :
          r.data[i] = IF i \in s.writerIndex .. s.writerIndex + n - 1
                      THEN bytes[i - s.writerIndex + 1] ELSE s.data[i]
    BY <1>1 DEF CopyTo
  <1>5. r.data \in [0 .. s.size - 1 -> Byte]
    <2>1. \A i \in s.writerIndex .. s.writerIndex + n - 1 : i - s.writerIndex + 1 \in 1 .. n
      BY <1>2
    <2>2. \A i \in 0 .. s.size - 1 : s.data[i] \in Byte
      BY DEF IsBuffer
    <2> QED BY <1>1, <2>1, <2>2 DEF CopyTo
  <1> HIDE DEF r, k, head
  <1>6. IsBuffer(r)
    BY <1>1, <1>2, <1>5 DEF IsBuffer
  <1>7. ReadableBytes(r) = k + n
    BY <1>1, <1>2 DEF ReadableBytes
  <1>8. Contents(r) \in [1 .. k + n -> Byte] /\ Contents(s) \in [1 .. k -> Byte]
    BY <1>6, <1>7, ContentsType DEF k
  <1>9. Contents(r) = [i \in 1 .. k + n |-> r.data[s.readerIndex + i - 1]]
    BY <1>1, <1>7 DEF Contents
  <1>10. ASSUME NEW i \in 1 .. k PROVE Contents(r)[i] = Contents(s)[i]
    <2>1. i \in 1 .. k + n /\ s.readerIndex + i - 1 \in 0 .. s.size - 1
      BY <1>2
    <2>2. s.readerIndex + i - 1 \notin s.writerIndex .. s.writerIndex + n - 1
      BY <1>2
    <2>3. r.data[s.readerIndex + i - 1] = s.data[s.readerIndex + i - 1]
      BY <1>4, <2>1, <2>2
    <2>4. Contents(s)[i] = s.data[s.readerIndex + i - 1]
      BY DEF Contents, k
    <2> QED BY <1>9, <2>1, <2>3, <2>4
  <1>11. ASSUME NEW i \in 1 .. n PROVE Contents(r)[k + i] = head[i]
    <2>0. i \in Nat /\ 1 <= i /\ i <= n
      OBVIOUS
    <2>1. s.readerIndex + (k + i) - 1 = s.writerIndex + i - 1
      BY <1>2, <2>0
    <2>2. k + i \in 1 .. k + n
      BY <1>2, <2>0
    <2>3. s.writerIndex + i - 1 \in 0 .. s.size - 1
      BY <1>2, <2>0
    <2>4. /\ s.writerIndex + i - 1 \in s.writerIndex .. s.writerIndex + n - 1
          /\ (s.writerIndex + i - 1) - s.writerIndex + 1 = i
      BY <1>2, <2>0
    <2>5. r.data[s.writerIndex + i - 1] = bytes[i]
      BY <1>4, <2>3, <2>4
    <2> QED BY <1>9, <2>1, <2>2, <2>5 DEF head
  <1>12. Contents(r) = Contents(s) \o head
    <2>1. Contents(s) \in Seq(Byte) /\ Len(Contents(s)) = k
      BY ContentsType DEF k
    <2>2. head \in Seq(Byte) /\ Len(head) = n
      BY <1>3, RunIsSeq
    <2>3. Contents(r) \in Seq(Byte) /\ Len(Contents(r)) = k + n
      BY <1>6, <1>7, ContentsType
    <2> QED BY <1>10, <1>11, <2>1, <2>2, <2>3, ConcatEqual
  <1> QED BY <1>1, <1>6, <1>7, <1>12 DEF r, k, head

LEMMA AppendToAppends ==
  ASSUME NEW s, IsBuffer(s), NEW n \in Nat, NEW bytes \in [1 .. n -> Byte]
  PROVE  LET r == AppendTo(s, n, bytes)
         IN  /\ IsBuffer(r)
             /\ ReadableBytes(r) = ReadableBytes(s) + n
             /\ Contents(r) = Contents(s) \o bytes
             /\ \/ r.size = s.size
                \/ s.size <= r.size /\ r.size < kCheapPrepend + ReadableBytes(s) + 2 * n
  <1> DEFINE e == EnsureWritableBytes(s, n)
             r == Fill(e, n, bytes)
  <1>1. /\ IsBuffer(e)
        /\ WritableBytes(e) >= n
        /\ ReadableBytes(e) = ReadableBytes(s)
        /\ Contents(e) = Contents(s)
        /\ \/ e.size = s.size
           \/ s.size <= e.size /\ e.size < kCheapPrepend + ReadableBytes(s) + 2 * n
    BY EnsureWritable
  <1>2. WritableBytes(e) \in Int
    BY <1>1 DEF WritableBytes, IsBuffer
  <1> HIDE DEF e
  <1>3. /\ IsBuffer(r) /\ r.size = e.size
        /\ ReadableBytes(r) = ReadableBytes(e) + n
        /\ Contents(r) = Contents(e) \o [i \in 1 .. n |-> bytes[i]]
    BY <1>1, <1>2, FillAppends
  <1>4. [i \in 1 .. n |-> bytes[i]] = bytes
    OBVIOUS
  <1> HIDE DEF r
  <1>5. AppendTo(s, n, bytes) = r
    BY DEF AppendTo, r, e
  <1> QED BY <1>1, <1>3, <1>4, <1>5

LEMMA ReadIntoAppends ==
  ASSUME NEW s, IsBuffer(s), NEW n \in Nat, NEW bytes \in [1 .. n -> Byte]
  PROVE  LET r == ReadInto(s, n, bytes)
         IN  /\ IsBuffer(r)
             /\ ReadableBytes(r) = ReadableBytes(s) + n
             /\ Contents(r) = Contents(s) \o bytes
             /\ \/ r.size = s.size
                \/ s.size <= r.size /\ r.size < kCheapPrepend + ReadableBytes(s) + 2 * n
  <1> DEFINE w == WritableBytes(s)
             k == ReadableBytes(s)
             f == Fill(s, w, bytes)
             head == [i \in 1 .. w |-> bytes[i]]
             extra == [i \in 1 .. n - w |-> bytes[w + i]]
             r == ReadInto(s, n, bytes)
  <1>0. w \in Nat /\ k \in Nat /\ Contents(s) \in [1 .. k -> Byte]
    BY ContentsType DEF IsBuffer, WritableBytes
  <1>1. CASE n <= w
    <2>1. r = Fill(s, n, bytes)
      BY <1>1 DEF ReadInto
    <2>2. [i \in 1 .. n |-> bytes[i]] = bytes
      OBVIOUS
    <2>3. /\ IsBuffer(r) /\ r.size = s.size
          /\ ReadableBytes(r) = ReadableBytes(s) + n
          /\ Contents(r) = Contents(s) \o [i \in 1 .. n |-> bytes[i]]
      BY <1>1, <2>1, FillAppends
    <2> QED BY <2>2, <2>3
  <1>2. CASE w < n
    <2>1. r = AppendTo(f, n - w, extra)
      BY <1>0, <1>2 DEF ReadInto
    <2>2. /\ IsBuffer(f) /\ f.size = s.size
          /\ ReadableBytes(f) = k + w
          /\ Contents(f) = Contents(s) \o head
      <3>1. w <= WritableBytes(s) /\ \A i \in 1 .. w : bytes[i] \in Byte
        BY <1>0, <1>2
      <3> HIDE DEF w
      <3> QED BY <1>0, <3>1, FillAppends
    <2>3. n - w \in Nat /\ extra \in [1 .. n - w -> Byte] /\ head \in [1 .. w -> Byte]
      BY <1>0, <1>2
    <2> HIDE DEF f, r, w, k, head, extra
    <2>4. /\ IsBuffer(r)
          /\ ReadableBytes(r) = (k + w) + (n - w)
          /\ Contents(r) = Contents(f) \o extra
          /\ \/ r.size = f.size
             \/ f.size <= r.size /\ r.size < kCheapPrepend + (k + w) + 2 * (n - w)
      BY <2>1, <2>2, <2>3, AppendToAppends
    <2>5. head \o extra = bytes
      <3>1. \A i \in 1 .. w : bytes[i] = head[i]
        BY DEF head
      <3>2. \A i \in 1 .. n - w : bytes[w + i] = extra[i]
        BY DEF extra
      <3>3. head \in Seq(Byte) /\ Len(head) = w
        BY <1>0, <2>3, RunIsSeq
      <3>4. extra \in Seq(Byte) /\ Len(extra) = n - w
        BY <2>3, RunIsSeq
      <3>5. bytes \in Seq(Byte) /\ Len(bytes) = n
        BY RunIsSeq
      <3>6. /\ Len(bytes) = Len(head) + Len(extra)
            /\ \A i \in 1 .. Len(head) : bytes[i] = head[i]
            /\ \A i \in 1 .. Len(extra) : bytes[Len(head) + i] = extra[i]
        BY <1>0, <3>1, <3>2, <3>3, <3>4, <3>5
      <3> QED BY <3>3, <3>4, <3>5, <3>6, ConcatEqual
    <2>6. (Contents(s) \o head) \o extra = Contents(s) \o (head \o extra)
      <3>1. Contents(s) \in Seq(Byte) /\ head \in Seq(Byte) /\ extra \in Seq(Byte)
        BY <1>0, <2>3, RunIsSeq
      <3> QED BY <3>1, ConcatAssociative
    <2>7. ReadableBytes(r) = k + n
      BY <1>0, <2>4
    <2>8. \/ r.size = s.size
          \/ s.size <= r.size /\ r.size < kCheapPrepend + k + 2 * n
      <3>1. r.size \in Nat
        BY <2>4 DEF IsBuffer
      <3> QED BY <1>0, <2>2, <2>4, <3>1, SizeAssumption
    <2> QED BY <2>2, <2>4, <2>5, <2>6, <2>7, <2>8 DEF r, k
  <1> QED BY <1>0, <1>1, <1>2

----------------------------------------------------------------------------
(* The actions.                                                            *)

\* retrieveAll relies on the vector never becoming shorter than kCheapPrepend.
Inv == TypeOK /\ MemoryBounded /\ kCheapPrepend <= b.size

\* All that an action has to show: it makes a buffer that is as large as before,
\* or larger, but not too large for what it now holds.
LEMMA StepPreserves ==
  ASSUME Inv, Notes, IsBuffer(b'),
         \/ b'.size = b.size
         \/ b.size <= b'.size /\ b'.size < kCheapPrepend + 2 * ReadableBytes(b')
  PROVE  Inv'
  <1>1. /\ peak \in Nat /\ ReadableBytes(b') \in Nat /\ ReadableBytes(b) \in Nat
        /\ b.size \in Nat /\ b'.size \in Nat
    BY ContentsType DEF Inv, TypeOK, IsBuffer
  <1>2. peak' \in Nat /\ ReadableBytes(b') <= peak' /\ peak <= peak'
    BY <1>1 DEF Notes
  <1>3. TypeOK'
    BY <1>2 DEF TypeOK, IsBuffer, ReadableBytes
  <1>4. MemoryBounded'
    BY <1>1, <1>2, SizeAssumption DEF Inv, MemoryBounded
  <1>5. kCheapPrepend <= b'.size
    BY <1>1, SizeAssumption DEF Inv
  <1> QED BY <1>3, <1>4, <1>5 DEF Inv

\* The same for appending.
LEMMA Grows ==
  ASSUME Inv, Notes, NEW n \in Nat, IsBuffer(b'),
         ReadableBytes(b') = ReadableBytes(b) + n,
         \/ b'.size = b.size
         \/ b.size <= b'.size /\ b'.size < kCheapPrepend + ReadableBytes(b) + 2 * n
  PROVE  Inv'
  <1>1. ReadableBytes(b) \in Nat /\ b'.size \in Nat
    BY ContentsType DEF Inv, TypeOK, IsBuffer
  <1>2. kCheapPrepend + ReadableBytes(b) + 2 * n <= kCheapPrepend + 2 * ReadableBytes(b')
    BY <1>1, SizeAssumption
  <1>3. ReadableBytes(b') \in Nat
    BY <1>1
  <1>4. \/ b'.size = b.size
        \/ b.size <= b'.size /\ b'.size < kCheapPrepend + 2 * ReadableBytes(b')
    BY <1>1, <1>2, <1>3, SizeAssumption
  <1> QED BY <1>4, StepPreserves

LEMMA AppendBytesStep ==
  ASSUME Inv, NEW n \in Nat, NEW bytes \in [1 .. n -> Byte], AppendBytes(n, bytes)
  PROVE  Inv' /\ Queue!Put(bytes)
  <1>1. /\ IsBuffer(b')
        /\ ReadableBytes(b') = ReadableBytes(b) + n
        /\ Contents(b') = Contents(b) \o bytes
        /\ \/ b'.size = b.size
           \/ b.size <= b'.size /\ b'.size < kCheapPrepend + ReadableBytes(b) + 2 * n
    BY AppendToAppends DEF AppendBytes, Inv, TypeOK
  <1>2. Inv'
    BY <1>1, Grows DEF AppendBytes
  <1> QED BY <1>1, <1>2 DEF Queue!Put, Contents, ReadableBytes

LEMMA ReadFdStep ==
  ASSUME Inv, NEW n \in Nat, NEW bytes \in [1 .. n -> Byte], ReadFd(n, bytes)
  PROVE  Inv' /\ Queue!Put(bytes)
  <1>1. /\ IsBuffer(b')
        /\ ReadableBytes(b') = ReadableBytes(b) + n
        /\ Contents(b') = Contents(b) \o bytes
        /\ \/ b'.size = b.size
           \/ b.size <= b'.size /\ b'.size < kCheapPrepend + ReadableBytes(b) + 2 * n
    BY ReadIntoAppends DEF ReadFd, Inv, TypeOK
  <1>2. Inv'
    BY <1>1, Grows DEF ReadFd
  <1> QED BY <1>1, <1>2 DEF Queue!Put, Contents, ReadableBytes

LEMMA PrependStep ==
  ASSUME Inv, NEW n \in Nat, NEW bytes \in [1 .. n -> Byte], Prepend(n, bytes)
  PROVE  Inv' /\ Queue!PutBack(bytes)
  <1> DEFINE at == b.readerIndex - n
             k == ReadableBytes(b)
  <1>1. /\ DOMAIN b' = {"data", "size", "readerIndex", "writerIndex"}
        /\ b'.size = b.size
        /\ b'.readerIndex = at /\ b'.writerIndex = b.writerIndex
        /\ b'.data = CopyTo(b, n, bytes, at)
    BY DEF Prepend, Inv, TypeOK, IsBuffer
  <1>2. /\ b.size \in Nat /\ b.writerIndex \in 0 .. b.size
        /\ b.readerIndex \in 0 .. b.writerIndex
        /\ k = b.writerIndex - b.readerIndex /\ k \in Nat
        /\ at \in 0 .. b.readerIndex
    BY DEF Prepend, PrependableBytes, Inv, TypeOK, IsBuffer, ReadableBytes
  <1>3. b'.data \in [0 .. b.size - 1 -> Byte]
    BY <1>1, <1>2, CopyToType DEF Inv, TypeOK
  <1>4. \A i \in 0 .. b.size - 1 :
          b'.data[i] = IF i \in at .. at + n - 1 THEN bytes[i - at + 1] ELSE b.data[i]
    BY <1>1 DEF CopyTo
  <1> HIDE DEF at, k
  <1>5. IsBuffer(b')
    BY <1>1, <1>2, <1>3 DEF IsBuffer
  <1>6. Inv'
    BY <1>1, <1>5, StepPreserves DEF Prepend
  <1>7. ReadableBytes(b') = n + k
    BY <1>1, <1>2 DEF ReadableBytes, at
  <1>8. Contents(b') = [i \in 1 .. n + k |-> b'.data[at + i - 1]]
    BY <1>1, <1>7 DEF Contents
  <1>9. ASSUME NEW i \in 1 .. n PROVE Contents(b')[i] = bytes[i]
    <2>0. i \in Nat /\ 1 <= i /\ i <= n /\ at \in Nat /\ at + n = b.readerIndex
      BY <1>2 DEF at
    <2>1. i \in 1 .. n + k /\ at + i - 1 \in 0 .. b.size - 1
      BY <1>2, <2>0
    <2>2. at + i - 1 \in at .. at + n - 1 /\ (at + i - 1) - at + 1 = i
      BY <2>0
    <2>3. b'.data[at + i - 1] = bytes[i]
      BY <1>4, <2>1, <2>2
    <2> QED BY <1>8, <2>1, <2>3
  <1>10. ASSUME NEW i \in 1 .. k PROVE Contents(b')[n + i] = Contents(b)[i]
    <2>0. i \in Nat /\ 1 <= i /\ i <= k /\ at \in Nat /\ at + n = b.readerIndex
      BY <1>2 DEF at
    <2>1. n + i \in 1 .. n + k /\ at + (n + i) - 1 = b.readerIndex + i - 1
      BY <1>2, <2>0
    <2>2. /\ b.readerIndex + i - 1 \in 0 .. b.size - 1
          /\ b.readerIndex + i - 1 \notin at .. at + n - 1
      BY <1>2, <2>0
    <2>3. Contents(b)[i] = b.data[b.readerIndex + i - 1]
      BY DEF Contents, k
    <2>4. b'.data[b.readerIndex + i - 1] = b.data[b.readerIndex + i - 1]
      BY <1>4, <2>2
    <2> QED BY <1>8, <2>1, <2>3, <2>4
  <1>11. /\ bytes \in Seq(Byte) /\ Len(bytes) = n
    BY RunIsSeq
  <1>12. Contents(b) \in Seq(Byte) /\ Len(Contents(b)) = k
    BY ContentsType DEF Inv, TypeOK, k
  <1>13. Contents(b') \in Seq(Byte) /\ Len(Contents(b')) = n + k
    BY <1>5, <1>7, ContentsType
  <1>14. Contents(b') = bytes \o Contents(b)
    BY <1>9, <1>10, <1>11, <1>12, <1>13, ConcatEqual
  <1> QED BY <1>6, <1>14 DEF Queue!PutBack, Contents, ReadableBytes

LEMMA RetrieveStep ==
  ASSUME Inv, NEW n \in Nat, Retrieve(n)
  PROVE  Inv' /\ n <= ReadableBytes(b) /\ Queue!Take(n)
  <1> DEFINE k == ReadableBytes(b)
  <1>1. /\ DOMAIN b' = {"data", "size", "readerIndex", "writerIndex"}
        /\ b'.size = b.size /\ b'.data = b.data
        /\ b'.readerIndex = b.readerIndex + n /\ b'.writerIndex = b.writerIndex
    BY DEF Retrieve, Inv, TypeOK, IsBuffer
  <1>2. /\ b.size \in Nat /\ b.writerIndex \in 0 .. b.size
        /\ b.readerIndex \in 0 .. b.writerIndex
        /\ k = b.writerIndex - b.readerIndex /\ k \in Nat /\ n <= k
    BY DEF Retrieve, Inv, TypeOK, IsBuffer, ReadableBytes
  <1>3. IsBuffer(b')
    BY <1>1, <1>2 DEF Inv, TypeOK, IsBuffer
  <1>4. Inv'
    BY <1>1, <1>3, StepPreserves DEF Retrieve
  <1> HIDE DEF k
  <1>5. ReadableBytes(b') = k - n
    BY <1>1, <1>2 DEF ReadableBytes
  <1>6. Contents(b') = [i \in 1 .. k - n |-> b.data[b.readerIndex + n + i - 1]]
    BY <1>1, <1>5 DEF Contents
  <1>7. ASSUME NEW i \in 1 .. k - n PROVE Contents(b')[i] = Contents(b)[n + i]
    <2>1. n + i \in 1 .. k /\ b.readerIndex + (n + i) - 1 = b.readerIndex + n + i - 1
      BY <1>2
    <2>2. Contents(b)[n + i] = b.data[b.readerIndex + (n + i) - 1]
      BY <2>1 DEF Contents, k
    <2> QED BY <1>6, <2>1, <2>2
  <1>8. Contents(b) \in Seq(Byte) /\ Len(Contents(b)) = k
    BY ContentsType DEF Inv, TypeOK, k
  <1>9. Contents(b') \in Seq(Byte) /\ Len(Contents(b')) = k - n
    BY <1>3, <1>5, ContentsType
  <1>10. n \in 0 .. Len(Contents(b))
    BY <1>2, <1>8
  <1>11. Contents(b') = SubSeq(Contents(b), n + 1, Len(Contents(b)))
    BY <1>7, <1>8, <1>9, <1>10, SuffixEqual
  <1> QED BY <1>2, <1>4, <1>11 DEF Queue!Take, Contents, ReadableBytes, k

LEMMA RetrieveAllStep ==
  ASSUME Inv, RetrieveAll
  PROVE  Inv' /\ Queue!Take(ReadableBytes(b))
  <1>1. /\ DOMAIN b' = {"data", "size", "readerIndex", "writerIndex"}
        /\ b'.size = b.size /\ b'.data = b.data
        /\ b'.readerIndex = kCheapPrepend /\ b'.writerIndex = kCheapPrepend
    BY DEF RetrieveAll, Inv, TypeOK, IsBuffer
  <1>2. IsBuffer(b')
    BY <1>1, SizeAssumption DEF Inv, TypeOK, IsBuffer
  <1>3. Inv'
    BY <1>1, <1>2, StepPreserves DEF RetrieveAll
  <1>4. ReadableBytes(b') = 0
    BY <1>1, SizeAssumption DEF ReadableBytes
  <1>5. Contents(b) \in Seq(Byte) /\ Len(Contents(b)) = ReadableBytes(b)
    BY ContentsType DEF Inv, TypeOK
  <1>6. Contents(b') \in Seq(Byte) /\ Len(Contents(b')) = 0
    BY <1>2, <1>4, ContentsType
  <1>7. Contents(b') = SubSeq(Contents(b), Len(Contents(b)) + 1, Len(Contents(b)))
    BY <1>5, <1>6, SuffixEqual
  <1> QED BY <1>3, <1>5, <1>7 DEF Queue!Take, Contents, ReadableBytes

----------------------------------------------------------------------------
(* The theorems.                                                           *)

LEMMA InitInv == Init => Inv /\ Queue!Init
  <1> SUFFICES ASSUME Init PROVE Inv /\ Queue!Init
    OBVIOUS
  <1>1. /\ DOMAIN b = {"data", "size", "readerIndex", "writerIndex"}
        /\ b.size = kCheapPrepend + kInitialSize
        /\ b.data = [i \in 0 .. kCheapPrepend + kInitialSize - 1 |-> Nul]
        /\ b.readerIndex = kCheapPrepend /\ b.writerIndex = kCheapPrepend
    BY DEF Init
  <1>2. IsBuffer(b)
    BY <1>1, SizeAssumption, NulAssumption DEF IsBuffer
  <1>3. ReadableBytes(b) = 0 /\ peak = 0
    BY <1>1, SizeAssumption DEF ReadableBytes, Init
  <1>4. Inv
    BY <1>1, <1>2, <1>3, SizeAssumption DEF Inv, TypeOK, MemoryBounded
  <1>5. Contents(b) \in Seq(Byte) /\ Len(Contents(b)) = 0
    BY <1>2, <1>3, ContentsType
  <1>6. Contents(b) = <<>>
    BY <1>5
  <1> QED BY <1>4, <1>6 DEF Queue!Init, Contents, ReadableBytes

LEMMA CallsMatchStep == Inv => CallsMatch
  BY AppendBytesStep, ReadFdStep, PrependStep, RetrieveStep, RetrieveAllStep, SizeAssumption
     DEF CallsMatch

LEMMA NextInv == Inv /\ [Next]_vars => Inv' /\ [Queue!Next]_(Contents(b))
  <1> SUFFICES ASSUME Inv, [Next]_vars PROVE Inv' /\ [Queue!Next]_(Contents(b))
    OBVIOUS
  <1>0. ReadableBytes(b) \in Nat /\ Len(Contents(b)) = ReadableBytes(b)
    BY ContentsType DEF Inv, TypeOK
  <1>1. ASSUME NEW n \in 0 .. MaxReadable - ReadableBytes(b), NEW bytes \in [1 .. n -> Byte],
               AppendBytes(n, bytes) \/ ReadFd(n, bytes) \/ Prepend(n, bytes)
        PROVE  Inv' /\ Queue!Next
    <2>1. n \in Nat /\ n \in 0 .. MaxReadable
      BY <1>0, <1>1, SizeAssumption
    <2>2. bytes \in Input
      BY <2>1 DEF Input
    <2>3. Inv' /\ (Queue!Put(bytes) \/ Queue!PutBack(bytes))
      BY <1>1, <2>1, AppendBytesStep, ReadFdStep, PrependStep
    <2> QED BY <2>2, <2>3 DEF Queue!Next
  <1>2. ASSUME NEW n \in 0 .. MaxReadable, Retrieve(n) PROVE Inv' /\ Queue!Next
    <2>1. n \in Nat
      BY <1>2, SizeAssumption
    <2>2. Inv' /\ n <= ReadableBytes(b) /\ Queue!Take(n)
      BY <1>2, <2>1, RetrieveStep
    <2>3. n \in 0 .. Len(Contents(b))
      BY <1>0, <2>1, <2>2
    <2> QED BY <2>2, <2>3 DEF Queue!Next
  <1>3. CASE RetrieveAll
    <2>1. Inv' /\ Queue!Take(ReadableBytes(b))
      BY <1>3, RetrieveAllStep
    <2>2. ReadableBytes(b) \in 0 .. Len(Contents(b))
      BY <1>0
    <2> QED BY <2>1, <2>2 DEF Queue!Next
  <1>4. CASE UNCHANGED vars
    BY <1>4 DEF vars, Inv, TypeOK, MemoryBounded, IsBuffer, ReadableBytes, Contents
  <1> QED BY <1>1, <1>2, <1>3, <1>4 DEF Next

LEMMA Invariance == Spec => []Inv
  BY InitInv, NextInv, PTL DEF Spec

\* The indices of a buffer stay in order and within its vector.
THEOREM TypeCorrect == Spec => []TypeOK
  <1>1. Inv => TypeOK
    BY DEF Inv
  <1> QED BY <1>1, Invariance, PTL

\* The memory of a buffer stays within twice the most it has had to hold, plus
\* kCheapPrepend (makeSpace).
THEOREM MemoryIsBounded == Spec => []MemoryBounded
  <1>1. Inv => MemoryBounded
    BY DEF Inv
  <1> QED BY <1>1, Invariance, PTL

\* No assert of makeSpace or ensureWritableBytes can fail.
THEOREM AssertsHold == Spec => []NoAssertFails
  <1>1. Inv => NoAssertFails
    <2> SUFFICES ASSUME Inv, NEW len \in 0 .. MaxReadable
                 PROVE  /\ WritableBytes(b) < len /\ Fits(b, len)
                             => kCheapPrepend < b.readerIndex
                        /\ WritableBytes(EnsureWritableBytes(b, len)) >= len
                        /\ ReadableBytes(EnsureWritableBytes(b, len)) = ReadableBytes(b)
      BY DEF NoAssertFails
    <2>1. len \in Nat /\ IsBuffer(b)
      BY SizeAssumption DEF Inv, TypeOK
    <2>2. WritableBytes(b) < len /\ Fits(b, len) => kCheapPrepend < b.readerIndex
      BY <2>1, SizeAssumption DEF IsBuffer, Fits, WritableBytes, PrependableBytes
    <2> QED BY <2>1, <2>2, EnsureWritable
  <1> QED BY <1>1, Invariance, PTL

\* A buffer is a queue of bytes (ByteQueue), and append, readFd, prepend, retrieve
\* and retrieveAll do to it what their arguments say.
THEOREM BufferIsByteQueue == Spec => IsByteQueue
  <1>1. Inv => [CallsMatch]_vars
    BY CallsMatchStep
  <1> QED BY <1>1, InitInv, NextInv, Invariance, PTL DEF Spec, IsByteQueue, Queue!Spec
=============================================================================
