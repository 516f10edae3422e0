------------------------------- MODULE Buffer -------------------------------
(***************************************************************************)
(* Buffer.cpp as operators on b = [buf, readIdx, writeIdx]: a vector whose *)
(* bytes readIdx+1 .. writeIdx wait to be consumed.  The space before them *)
(* is reused by shifting, the vector grows when that is not enough.  An    *)
(* operator named f_X is f with the mistake X, used by no module.          *)
(***************************************************************************)
EXTENDS Integers, Sequences

CONSTANTS Byte,        \* what travels through a buffer
          NUL,         \* the value of a cell that vector::resize has added
          CR, LF,      \* the two bytes of a line end
          BufferSize,  \* initial size: BUFFER_SIZE, 1024
          ExtraSize    \* bytes sckToBuffer reads on the stack: 65536

ASSUME BufferAssumption ==
  /\ NUL \in Byte /\ CR \in Byte /\ LF \in Byte /\ CR # LF
  /\ BufferSize \in Nat /\ ExtraSize \in Nat \ {0}

BufferType ==
  {b \in [buf : Seq(Byte), readIdx : Nat, writeIdx : Nat] :
     b.readIdx <= b.writeIdx /\ b.writeIdx <= Len(b.buf)}

NewBuffer == [buf |-> [i \in 1..BufferSize |-> NUL], readIdx |-> 0, writeIdx |-> 0]

readable(b) == b.writeIdx - b.readIdx
writable(b) == Len(b.buf) - b.writeIdx
peek(b) == SubSeq(b.buf, b.readIdx + 1, b.writeIdx)

(* memcpy behind writeIdx; the caller has made room.                       *)
Put(b, s) ==
  [b EXCEPT !.buf = [i \in 1..Len(b.buf) |->
                       IF i \in b.writeIdx + 1..b.writeIdx + Len(s) THEN s[i - b.writeIdx]
                       ELSE b.buf[i]],
            !.writeIdx = @ + Len(s)]
Shift(b) ==
  [buf |-> [i \in 1..Len(b.buf) |-> IF i <= readable(b) THEN b.buf[b.readIdx + i] ELSE b.buf[i]],
   readIdx |-> 0, writeIdx |-> readable(b)]
Grow(b, count) ==
  [b EXCEPT !.buf = [i \in 1..b.writeIdx + count |-> IF i <= Len(b.buf) THEN b.buf[i] ELSE NUL]]

dataIn_StaleIndex(b, s) ==
  IF Len(s) <= writable(b) THEN Put(b, s)
  ELSE IF Len(s) <= writable(b) + b.readIdx THEN [Put(Shift(b), s) EXCEPT !.writeIdx = Len(b.buf)]
  ELSE Put(Grow(b, Len(s)), s)
dataIn_NeverGrows(b, s) ==
  IF Len(s) <= writable(b) THEN Put(b, s)
  ELSE Put(Shift(b), s)
dataIn_NeverShifts(b, s) ==
  IF Len(s) <= writable(b) THEN Put(b, s)
  ELSE Put(Grow(b, Len(s)), s)
dataIn(b, s) ==
  IF Len(s) <= writable(b) THEN Put(b, s)
  ELSE IF Len(s) <= writable(b) + b.readIdx THEN Put(Shift(b), s)
  ELSE Put(Grow(b, Len(s)), s)

(* One readv into the free space and the stack; s is what it has read.     *)
MaxRead(b) == writable(b) + ExtraSize
sckToBuffer(b, s) ==
  IF Len(s) <= writable(b) THEN Put(b, s)
  ELSE dataIn(Put(b, SubSeq(s, 1, writable(b))), SubSeq(s, writable(b) + 1, Len(s)))

(* Consumption: an empty buffer starts again from 0.  bufferToSck is this  *)
(* with the number of bytes the socket took.                               *)
retrieve(b, n) ==
  IF b.readIdx + n = b.writeIdx THEN [b EXCEPT !.readIdx = 0, !.writeIdx = 0]
  ELSE [b EXCEPT !.readIdx = @ + n]

CRLFs(b) ==
  {i \in 0..readable(b) - 2 : b.buf[b.readIdx + i + 1] = CR /\ b.buf[b.readIdx + i + 2] = LF}
npos == -1
findCRLF(b) ==
  IF CRLFs(b) = {} THEN npos ELSE CHOOSE i \in CRLFs(b) : \A j \in CRLFs(b) : i <= j
=============================================================================
