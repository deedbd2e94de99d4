------------------------------- MODULE Buffer -------------------------------
(***************************************************************************)
(* The byte buffer of a connection (include/Buffer.h, src/Buffer.cpp):     *)
(*                                                                         *)
(*   | prependable bytes | readable bytes | writable bytes |               *)
(*   0             readerIndex       writerIndex         size              *)
(*                                                                         *)
(* The operations are functions from one state of the buffer to the next,  *)
(* composed as the code composes them.  Bytes written past the end of the  *)
(* vector would be lost here; NoAssertFails says that there are none.  A   *)
(* run of n bytes is a function on 1 .. n.                                 *)
(*                                                                         *)
(* shrink, which nothing calls, is left out, and so is the search for      *)
(* CRLF, which changes nothing.                                            *)
(***************************************************************************)
EXTENDS Naturals, Sequences

CONSTANTS
  Byte,            \* values of a char
  Nul,             \* the char a vector is filled with
  kCheapPrepend,
  kInitialSize,
  ExtraSize,       \* sizeof(extrabuf) of readFd
  MaxReadable      \* bound: bytes in the buffer at a time

ASSUME NulAssumption == Nul \in Byte
ASSUME SizeAssumption == /\ kCheapPrepend \in Nat /\ kInitialSize \in Nat
                         /\ ExtraSize \in Nat /\ MaxReadable \in Nat

VARIABLES
  b,      \* the buffer
  peak    \* history: the most bytes it has held at a time

vars == <<b, peak>>

ReadableBytes(s) == s.writerIndex - s.readerIndex
WritableBytes(s) == s.size - s.writerIndex
PrependableBytes(s) == s.readerIndex

\* What lies from peek() to beginWrite().
Contents(s) == [i \in 1 .. ReadableBytes(s) |-> s.data[s.readerIndex + i - 1]]

IsBuffer(s) ==
  /\ DOMAIN s = {"data", "size", "readerIndex", "writerIndex"}
  /\ s.size \in Nat
  /\ s.data \in [0 .. s.size - 1 -> Byte]
  /\ s.writerIndex \in 0 .. s.size
  /\ s.readerIndex \in 0 .. s.writerIndex

TypeOK == IsBuffer(b) /\ peak \in Nat /\ ReadableBytes(b) <= peak

Init ==
  /\ b = [data |-> [i \in 0 .. kCheapPrepend + kInitialSize - 1 |-> Nul],
          size |-> kCheapPrepend + kInitialSize,
          readerIndex |-> kCheapPrepend, writerIndex |-> kCheapPrepend]
  /\ peak = 0

----------------------------------------------------------------------------
(* Making room.                                                            *)

\* std::copy of bytes to the place at.  They are read before any is written:
\* std::copy is defined for ranges that overlap when it copies to the front.
CopyTo(s, n, bytes, at) ==
  [i \in 0 .. s.size - 1 |-> IF i \in at .. at + n - 1 THEN bytes[i - at + 1]
                                                       ELSE s.data[i]]

\* buffer_.resize(n)
Resize(s, n) ==
  [s EXCEPT !.size = n,
            !.data = [i \in 0 .. n - 1 |-> IF i < s.size THEN s.data[i] ELSE Nul]]

\* Mutated form: the indices move, the bytes do not.
MoveToFrontLazily(s) ==
  [s EXCEPT !.readerIndex = kCheapPrepend,
            !.writerIndex = kCheapPrepend + ReadableBytes(s)]

\* The readable bytes move to the front.
MoveToFront(s) ==
  [s EXCEPT !.data = CopyTo(s, ReadableBytes(s), Contents(s), kCheapPrepend),
            !.readerIndex = kCheapPrepend,
            !.writerIndex = kCheapPrepend + ReadableBytes(s)]

\* Mutated form: the room before kCheapPrepend counts as well.
FitsTight(s, len) == WritableBytes(s) + PrependableBytes(s) >= len

\* Mutated form: free room at the front is not used again.
FitsNever(s, len) == FALSE

Fits(s, len) == WritableBytes(s) + PrependableBytes(s) >= len + kCheapPrepend

MakeSpace(s, len) ==
  IF Fits(s, len) THEN MoveToFront(s) ELSE Resize(s, s.writerIndex + len)

EnsureWritableBytes(s, len) ==
  IF WritableBytes(s) < len THEN MakeSpace(s, len) ELSE s

----------------------------------------------------------------------------
(* The operations.                                                         *)

\* Into the room at the end, as far as it goes.
Fill(s, n, bytes) == [s EXCEPT !.data = CopyTo(s, n, bytes, s.writerIndex),
                               !.writerIndex = s.writerIndex + n]

AppendTo(s, n, bytes) == Fill(EnsureWritableBytes(s, n), n, bytes)

\* Mutated form: writerIndex_ is advanced by what was read, wherever that went.
ReadIntoAll(s, n, bytes) == Fill(s, n, bytes)

\* readv has read n bytes: first into the room at the end, then into extrabuf.
ReadInto(s, n, bytes) ==
  LET writable == WritableBytes(s)
      extra == [i \in 1 .. n - writable |-> bytes[writable + i]]
  IN  IF n <= writable THEN Fill(s, n, bytes)
      ELSE AppendTo(Fill(s, writable, bytes), n - writable, extra)

Notes == peak' = IF ReadableBytes(b') > peak THEN ReadableBytes(b') ELSE peak

AppendBytes(n, bytes) ==
  /\ b' = AppendTo(b, n, bytes)
  /\ Notes

\* A read that fails changes nothing.
ReadFd(n, bytes) ==
  /\ n <= WritableBytes(b) + ExtraSize
  /\ b' = ReadInto(b, n, bytes)
  /\ Notes

Prepend(n, bytes) ==
  /\ n <= PrependableBytes(b)
  /\ b' = [b EXCEPT !.readerIndex = b.readerIndex - n,
                    !.data = CopyTo(b, n, bytes, b.readerIndex - n)]
  /\ Notes

Retrieve(n) ==
  /\ n <= ReadableBytes(b)
  /\ b' = [b EXCEPT !.readerIndex = b.readerIndex + n]
  /\ Notes

\* retrieveAll; retrieveAsString hands out Contents(b) before.
RetrieveAll ==
  /\ b' = [b EXCEPT !.readerIndex = kCheapPrepend, !.writerIndex = kCheapPrepend]
  /\ Notes

----------------------------------------------------------------------------
Next ==
  \/ \E n \in 0 .. MaxReadable - ReadableBytes(b) :
       \E bytes \in [1 .. n -> Byte] :
         AppendBytes(n, bytes) \/ ReadFd(n, bytes) \/ Prepend(n, bytes)
  \/ \E n \in 0 .. MaxReadable : Retrieve(n)
  \/ RetrieveAll

Spec == Init /\ [][Next]_vars

----------------------------------------------------------------------------
(* Properties.                                                             *)

Input == UNION {[1 .. n -> Byte] : n \in 0 .. MaxReadable}

Queue == INSTANCE ByteQueue WITH queue <- Contents(b), Inputs <- Input

\* What each call does to the contents.
CallsMatch ==
  /\ \A n \in 0 .. MaxReadable : \A bytes \in [1 .. n -> Byte] :
       /\ AppendBytes(n, bytes) \/ ReadFd(n, bytes) => Queue!Put(bytes)
       /\ Prepend(n, bytes) => Queue!PutBack(bytes)
  /\ \A n \in 0 .. MaxReadable : Retrieve(n) => Queue!Take(n)
  /\ RetrieveAll => Queue!Take(ReadableBytes(b))

\* Whatever is moved or grown inside, the buffer is a queue of bytes, and each
\* call does to it what its arguments say: what readFd and append put in comes
\* out of peek() in that order.
IsByteQueue == Queue!Spec /\ [][CallsMatch]_vars

\* The asserts of makeSpace and ensureWritableBytes hold for whatever length
\* comes next: room is made by moving only if there is something to gain, and
\* enough room is made.
NoAssertFails ==
  \A len \in 0 .. MaxReadable :
    /\ WritableBytes(b) < len /\ Fits(b, len) => kCheapPrepend < b.readerIndex
    /\ WritableBytes(EnsureWritableBytes(b, len)) >= len
    /\ ReadableBytes(EnsureWritableBytes(b, len)) = ReadableBytes(b)

\* However long the buffer is used, its memory stays within twice the most it
\* has had to hold: room freed by retrieve is used again.
MemoryBounded ==
  \/ b.size <= kCheapPrepend + kInitialSize
  \/ b.size < kCheapPrepend + 2 * peak
=============================================================================
