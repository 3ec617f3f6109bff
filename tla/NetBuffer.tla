----------------------------- MODULE NetBuffer -----------------------------
(***************************************************************************)
(* brsdk::net::NetBuffer, the byte buffer between a connection and its     *)
(* user.  The readable bytes lie between readerIdx_ and writerIdx_; space  *)
(* is made for more by moving them to the front or by growing, a read from *)
(* a socket may spill over into a buffer on the stack, and a header can be *)
(* put before what is already there.                                       *)
(*                                                                         *)
(* A buffer is a record and an operation an operator on it, because the    *)
(* code builds shrink() and read_fd() from append() and append() from      *)
(* make_space().  Strings of bytes are functions on 0 .. len-1.  The       *)
(* integer variants of each operation append, read or prepend 1 to 8       *)
(* bytes and are not told apart.  The calls the code leaves unchecked are  *)
(* made with arguments that fit: prepend with room before the bytes,       *)
(* unwrite and retrieve_as_string with no more than is readable.           *)
(***************************************************************************)
EXTENDS Integers

CONSTANTS Byte,
          Nul,           \* what resize fills with
          CheapPrepend,  \* kCheapPrepend
          InitialSize,   \* kInitialSize
          ExtraSize,     \* size of the stack buffer of read_fd
          MaxLen,        \* bound: the bytes in one call
          MaxSize        \* bound: how large the vector may grow

ASSUME NetBufferAssumption ==
  /\ Nul \in Byte
  /\ CheapPrepend \in Nat /\ InitialSize \in Nat /\ ExtraSize \in Nat
  /\ MaxLen \in Nat /\ MaxSize \in Nat

VARIABLES buffer,    \* buffer_ with its size, readerIdx_ and writerIdx_
          content    \* history: what was put in and not yet taken out

bufferVars == <<buffer, content>>

Data(len) == [0 .. len - 1 -> Byte]

Concat(n, s, m, t) == [i \in 0 .. n + m - 1 |-> IF i < n THEN s[i] ELSE t[i - n]]

Sub(s, from, len) == [i \in 0 .. len - 1 |-> s[from + i]]

Readable(b) == b.writer - b.reader
Writable(b) == b.size - b.writer

Buf(size, cells, reader, writer) ==
  [size |-> size, cells |-> cells, reader |-> reader, writer |-> writer]

NewBuffer ==
  Buf(CheapPrepend + InitialSize,
      [i \in 0 .. CheapPrepend + InitialSize - 1 |-> Nul], CheapPrepend, CheapPrepend)

(***************************************************************************)
(* Space                                                                   *)
(***************************************************************************)
Resized(b, n) ==
  Buf(n, [i \in 0 .. n - 1 |-> IF i < b.size THEN b.cells[i] ELSE Nul],
      b.reader, b.writer)

Shifted(b) ==
  Buf(b.size,
      [i \in 0 .. b.size - 1 |->
         IF i >= CheapPrepend /\ i < CheapPrepend + Readable(b)
         THEN b.cells[b.reader + i - CheapPrepend] ELSE b.cells[i]],
      CheapPrepend, CheapPrepend + Readable(b))

(* A bug: the space in front counts in full, though 8 bytes of it stay.    *)
FitsWithoutHeadroom(b, len) == Writable(b) + b.reader >= len

FitsShifted(b, len) == Writable(b) + b.reader >= len + CheapPrepend

MakeSpace(b, len) ==
  IF FitsShifted(b, len) THEN Shifted(b) ELSE Resized(b, b.writer + len)

EnsureWritable(b, len) == IF Writable(b) < len THEN MakeSpace(b, len) ELSE b

(***************************************************************************)
(* Bytes in and out                                                        *)
(***************************************************************************)
Filled(b, len, d) ==
  Buf(b.size,
      [i \in 0 .. b.size - 1 |->
         IF i >= b.writer /\ i < b.writer + len THEN d[i - b.writer] ELSE b.cells[i]],
      b.reader, b.writer + len)

Appended(b, len, d) == Filled(EnsureWritable(b, len), len, d)

RetrievedAll(b) == Buf(b.size, b.cells, CheapPrepend, CheapPrepend)

Retrieved(b, len) ==
  IF len < Readable(b) THEN Buf(b.size, b.cells, b.reader + len, b.writer)
                       ELSE RetrievedAll(b)

Unwritten(b, len) == Buf(b.size, b.cells, b.reader, b.writer - len)

Prepended(b, len, d) ==
  Buf(b.size,
      [i \in 0 .. b.size - 1 |->
         IF i >= b.reader - len /\ i < b.reader
         THEN d[i - (b.reader - len)] ELSE b.cells[i]],
      b.reader - len, b.writer)

(* readv takes what fits behind writerIdx_ and the rest in the extra       *)
(* buffer, which is appended.                                              *)
ReadFd(b, n, d) ==
  IF n <= Writable(b) THEN Filled(b, n, d)
  ELSE Appended(Filled(b, Writable(b), d), n - Writable(b),
                Sub(d, Writable(b), n - Writable(b)))

ReadLimit(b) == IF Writable(b) < ExtraSize THEN Writable(b) + ExtraSize ELSE Writable(b)

Shrunk(b, reserve) ==
  Appended(EnsureWritable(NewBuffer, Readable(b) + reserve), Readable(b),
           Sub(b.cells, b.reader, Readable(b)))

(***************************************************************************)
(* The operations                                                          *)
(***************************************************************************)
Count == Readable(buffer)

BufferInit ==
  /\ buffer = NewBuffer
  /\ content = [i \in 0 .. -1 |-> Nul]

AppendBytes(len) ==
  \E d \in Data(len) :
     /\ buffer' = Appended(buffer, len, d)
     /\ content' = Concat(Count, content, len, d)

Ensure(len) ==
  /\ buffer' = EnsureWritable(buffer, len)
  /\ UNCHANGED content

(* The caller writes at begin_write() and reports it with has_written.     *)
WriteInPlace(len) ==
  /\ len <= Writable(buffer)
  /\ \E d \in Data(len) :
        /\ buffer' = Filled(buffer, len, d)
        /\ content' = Concat(Count, content, len, d)

Receive(len) ==
  /\ len <= ReadLimit(buffer)
  /\ \E d \in Data(len) :
        /\ buffer' = ReadFd(buffer, len, d)
        /\ content' = Concat(Count, content, len, d)

Retrieve(len) ==
  /\ buffer' = Retrieved(buffer, len)
  /\ content' = IF len < Count THEN Sub(content, len, Count - len)
                               ELSE Sub(content, 0, 0)

Unwrite(len) ==
  /\ len <= Count
  /\ buffer' = Unwritten(buffer, len)
  /\ content' = Sub(content, 0, Count - len)

Prepend(len) ==
  /\ len <= buffer.reader
  /\ \E d \in Data(len) :
        /\ buffer' = Prepended(buffer, len, d)
        /\ content' = Concat(len, d, Count, content)

Shrink(reserve) ==
  /\ buffer' = Shrunk(buffer, reserve)
  /\ UNCHANGED content

BufferNext ==
  \E len \in 0 .. MaxLen :
     \/ buffer.writer + len <= MaxSize
        /\ (AppendBytes(len) \/ Ensure(len) \/ Receive(len))
     \/ WriteInPlace(len)
     \/ Retrieve(len)
     \/ Unwrite(len)
     \/ Prepend(len)
     \/ Count + CheapPrepend + len <= MaxSize /\ Shrink(len)

BufferSpec == BufferInit /\ [][BufferNext]_bufferVars
-----------------------------------------------------------------------------
BufferTypeOK ==
  /\ buffer \in [size : Nat, cells : [0 .. buffer.size - 1 -> Byte],
                 reader : Nat, writer : Nat]
  /\ content \in [0 .. Count - 1 -> Byte]

(* The picture in buffer.hpp:51-57.                                        *)
IndicesInOrder ==
  /\ buffer.reader <= buffer.writer
  /\ buffer.writer <= buffer.size
  /\ CheapPrepend <= buffer.size

(* What is readable is exactly what was put in and not yet taken out,      *)
(* whatever has been moved, grown, spilled over or copied in between       *)
(* (buffer.hpp:325-338, buffer.cpp:41-65).                                 *)
ContentKept == \A i \in 0 .. Count - 1 : buffer.cells[buffer.reader + i] = content[i]

BufferSound == BufferTypeOK /\ IndicesInOrder /\ ContentKept
=============================================================================
