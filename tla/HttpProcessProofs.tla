-------------------------- MODULE HttpProcessProofs --------------------------
(* What TLAPS proves of HttpProcess, for any stream, any way to cut it up  *)
(* and any sizes of the buffers; before that, what the operators of Buffer *)
(* do to the bytes.                                                        *)
EXTENDS HttpReference, SequenceTheorems, FiniteSetTheorems, WellFoundedInduction, TLAPS

-----------------------------------------------------------------------------
(* Buffer: whatever its operators shift, grow or reset, a buffer is a      *)
(* first-in first-out queue of bytes.                                      *)

(* A function on 1..n is a sequence of length n.                           *)
LEMMA FcnIsSeq ==
  ASSUME NEW S, NEW n \in Nat, NEW f \in [1..n -> S]
  PROVE  f \in Seq(S) /\ Len(f) = n /\ DOMAIN f = 1..n
  OBVIOUS

(* A set of natural numbers has a least element.                           *)
LEMMA LeastNat ==
  ASSUME NEW S \in SUBSET Nat, S # {}
  PROVE  \E i \in S : \A j \in S : i <= j
<1> DEFINE R == {p \in Nat \X Nat : p[1] < p[2]}
<1>1. IsWellFoundedOn(R, Nat)
  BY NatLessThanWellFounded DEF OpToRel
<1> HIDE DEF R
<1>2. PICK i \in S : \A j \in S : ~(<<j, i>> \in R)
  BY <1>1, WFMin
<1>3. \A j \in S : ~(j < i)
  BY <1>2 DEF R
<1> QED
  BY <1>3

(* A sequence cut in two is the two parts put together.                    *)
LEMMA CutInTwo ==
  ASSUME NEW S, NEW s \in Seq(S), NEW k \in 0..Len(s)
  PROVE  /\ SubSeq(s, 1, k) \in Seq(S) /\ Len(SubSeq(s, 1, k)) = k
         /\ SubSeq(s, k + 1, Len(s)) \in Seq(S) /\ Len(SubSeq(s, k + 1, Len(s))) = Len(s) - k
         /\ SubSeq(s, 1, k) \o SubSeq(s, k + 1, Len(s)) = s
<1>1. 1 \in 1..Len(s) + 1 /\ k \in 1 - 1..Len(s) /\ Len(s) \in k..Len(s)
  OBVIOUS
<1>2. SubSeq(s, 1, k) \o SubSeq(s, k + 1, Len(s)) = SubSeq(s, 1, Len(s))
  BY <1>1, ConcatAdjacentSubSeq
<1>3. SubSeq(s, 1, Len(s)) = s
  BY SubSeqFull
<1>4. SubSeq(s, 1, k) \in Seq(S) /\ Len(SubSeq(s, 1, k)) = k
  OBVIOUS
<1>5. SubSeq(s, k + 1, Len(s)) \in Seq(S) /\ Len(SubSeq(s, k + 1, Len(s))) = Len(s) - k
  OBVIOUS
<1> QED
  BY <1>2, <1>3, <1>4, <1>5

(* The fields of a buffer.                                                 *)
LEMMA BufferFields ==
  ASSUME NEW b \in BufferType
  PROVE  /\ b.buf \in Seq(Byte) /\ Len(b.buf) \in Nat
         /\ b.readIdx \in Nat /\ b.writeIdx \in Nat
         /\ b.readIdx <= b.writeIdx /\ b.writeIdx <= Len(b.buf)
         /\ readable(b) \in 0..Len(b.buf) /\ writable(b) \in Nat
         /\ \A i \in 1..Len(b.buf) : b.buf[i] \in Byte
  BY DEF BufferType, readable, writable

(* What peek shows, byte by byte.                                          *)
LEMMA PeekIs ==
  ASSUME NEW b \in BufferType
  PROVE  /\ peek(b) \in Seq(Byte) /\ Len(peek(b)) = readable(b)
         /\ \A i \in 1..readable(b) : peek(b)[i] = b.buf[b.readIdx + i]
<1> USE BufferFields
<1>1. \A i \in b.readIdx + 1..b.writeIdx : b.buf[i] \in Byte
  OBVIOUS
<1> DEFINE m == b.readIdx + 1  n == b.writeIdx
<1>2. /\ SubSeq(b.buf, m, n) \in Seq(Byte)
      /\ Len(SubSeq(b.buf, m, n)) = IF m <= n THEN n - m + 1 ELSE 0
      /\ \A i \in 1..n - m + 1 : SubSeq(b.buf, m, n)[i] = b.buf[m + i - 1]
  <2>1. m \in Int /\ n \in Int /\ \A i \in m..n : b.buf[i] \in Byte
    BY <1>1
  <2> HIDE DEF m, n
  <2> QED BY <2>1, SubSeqProperties
<1>3. readable(b) = n - m + 1 /\ readable(b) \in Nat
  BY DEF readable
<1>4. ASSUME NEW i \in 1..readable(b) PROVE peek(b)[i] = b.buf[b.readIdx + i]
  <2>1. peek(b)[i] = b.buf[m + i - 1]
    BY <1>2, <1>3, <1>4 DEF peek
  <2>2. m + i - 1 = b.readIdx + i
    BY <1>4, <1>3
  <2> QED BY <2>1, <2>2
<1>5. peek(b) \in Seq(Byte) /\ Len(peek(b)) = readable(b)
  BY <1>2, <1>3 DEF peek
<1> QED
  BY <1>4, <1>5

(* A buffer is its fields, and what peek shows is found by comparing bytes.*)
LEMMA PeekOf ==
  ASSUME NEW b \in BufferType, NEW s \in Seq(Byte), Len(s) = readable(b),
         \A i \in 1..readable(b) : b.buf[b.readIdx + i] = s[i]
  PROVE  peek(b) = s
<1>1. \A i \in 1..Len(peek(b)) : peek(b)[i] = s[i]
  BY PeekIs
<1> QED
  BY <1>1, PeekIs, SeqEqual

-----------------------------------------------------------------------------
(* A new buffer is empty.                                                  *)
LEMMA NewBufferIs ==
  NewBuffer \in BufferType /\ readable(NewBuffer) = 0 /\ peek(NewBuffer) = <<>>
<1>1. NewBuffer.buf \in [1..BufferSize -> Byte]
  BY BufferAssumption DEF NewBuffer
<1>2. NewBuffer.buf \in Seq(Byte) /\ Len(NewBuffer.buf) \in Nat
  BY <1>1, FcnIsSeq, BufferAssumption
<1>3. NewBuffer \in BufferType /\ readable(NewBuffer) = 0
  BY <1>2 DEF NewBuffer, BufferType, readable
<1>4. <<>> \in Seq(Byte) /\ Len(<<>>) = 0 /\ 1..0 = {}
  OBVIOUS
<1> QED
  BY <1>3, <1>4, PeekOf

(* Put appends to what waits, when the bytes fit behind writeIdx.          *)
LEMMA PutAppends ==
  ASSUME NEW b \in BufferType, NEW s \in Seq(Byte), Len(s) <= writable(b)
  PROVE  /\ Put(b, s) \in BufferType /\ Len(Put(b, s).buf) = Len(b.buf)
         /\ Put(b, s).readIdx = b.readIdx /\ Put(b, s).writeIdx = b.writeIdx + Len(s)
         /\ peek(Put(b, s)) = peek(b) \o s
<1> DEFINE p == Put(b, s)
           f == [i \in 1..Len(b.buf) |->
                   IF i \in b.writeIdx + 1..b.writeIdx + Len(s) THEN s[i - b.writeIdx] ELSE b.buf[i]]
           w == b.writeIdx + Len(s)
<1>1. Len(s) \in Nat /\ \A i \in 1..Len(s) : s[i] \in Byte
  OBVIOUS
<1>2. w \in Nat /\ b.readIdx <= w /\ w <= Len(b.buf) /\ readable(b) \in Nat
  BY <1>1, BufferFields DEF writable
<1>3. f \in [1..Len(b.buf) -> Byte]
  BY <1>1, BufferFields
<1>4. f \in Seq(Byte) /\ Len(f) = Len(b.buf)
  BY <1>3, FcnIsSeq, BufferFields
<1>5. p \in BufferType /\ p.buf = f /\ p.readIdx = b.readIdx /\ p.writeIdx = w
  <2>1. p = [b EXCEPT !.buf = f, !.writeIdx = w]
    BY DEF Put
  <2>2. b \in [buf : Seq(Byte), readIdx : Nat, writeIdx : Nat]
    BY DEF BufferType
  <2>3. w \in Nat /\ b.readIdx <= w /\ w <= Len(f) /\ f \in Seq(Byte)
    BY <1>2, <1>4
  <2> HIDE DEF p, f, w
  <2>4. p \in [buf : Seq(Byte), readIdx : Nat, writeIdx : Nat]
    BY <2>1, <2>2, <2>3
  <2>5. p.buf = f /\ p.readIdx = b.readIdx /\ p.writeIdx = w
    BY <2>1, <2>2
  <2> QED BY <2>3, <2>4, <2>5 DEF BufferType
<1>6. readable(p) = readable(b) + Len(s)
  BY <1>1, <1>5, BufferFields DEF readable
<1>7. /\ peek(b) \in Seq(Byte) /\ Len(peek(b)) = readable(b)
      /\ \A i \in 1..readable(b) : peek(b)[i] = b.buf[b.readIdx + i]
  BY PeekIs
<1>8. /\ peek(b) \o s \in Seq(Byte) /\ Len(peek(b) \o s) = readable(b) + Len(s)
      /\ \A i \in 1..readable(b) + Len(s) :
           (peek(b) \o s)[i] = IF i <= readable(b) THEN peek(b)[i] ELSE s[i - readable(b)]
  <2> DEFINE t == peek(b)
  <2>1. t \in Seq(Byte) /\ Len(t) = readable(b)
    BY <1>7
  <2> HIDE DEF t
  <2>2. /\ t \o s \in Seq(Byte) /\ Len(t \o s) = Len(t) + Len(s)
        /\ \A i \in 1..Len(t) + Len(s) : (t \o s)[i] = IF i <= Len(t) THEN t[i] ELSE s[i - Len(t)]
    BY <2>1, ConcatProperties, Zenon
  <2> QED BY <2>1, <2>2 DEF t
<1>9. ASSUME NEW i \in 1..readable(p) PROVE p.buf[p.readIdx + i] = (peek(b) \o s)[i]
  <2>1. b.readIdx + i \in 1..Len(b.buf)
    <3>1. i \in 1..readable(b) + Len(s)
      BY <1>6, Zenon
    <3>2. /\ b.readIdx \in Nat /\ readable(b) \in Nat /\ Len(b.buf) \in Nat
          /\ b.readIdx + readable(b) = b.writeIdx
      BY BufferFields DEF readable
    <3>3. b.writeIdx + Len(s) <= Len(b.buf)
      BY <1>2
    <3> HIDE DEF p, f, w
    <3> QED BY <1>1, <3>1, <3>2, <3>3
  <2>2. CASE i <= readable(b)
    <3>1. b.readIdx + i <= b.writeIdx
      BY <2>2, BufferFields DEF readable
    <3>2. f[b.readIdx + i] = b.buf[b.readIdx + i]
      BY <2>1, <3>1, BufferFields
    <3>3. i \in 1..readable(b) + Len(s) /\ i \in 1..readable(b)
      <4>1. \A m, n \in Nat : \A k \in 1..m + n : k <= m => k \in 1..m
        OBVIOUS
      <4>2. i \in 1..readable(b) + Len(s)
        BY <1>6, Zenon
      <4> QED BY <1>1, <1>2, <2>2, <4>1, <4>2, Zenon
    <3>4. (peek(b) \o s)[i] = peek(b)[i] /\ peek(b)[i] = b.buf[b.readIdx + i]
      BY <1>7, <1>8, <2>2, <3>3, Zenon
    <3> QED BY <1>5, <3>2, <3>4, Zenon
  <2>3. CASE i > readable(b)
    <3>1. (peek(b) \o s)[i] = s[i - readable(b)]
      BY <1>1, <1>2, <1>6, <1>8, <2>3
    <3>2. b.readIdx + i \in b.writeIdx + 1..b.writeIdx + Len(s)
      BY <1>1, <1>6, <2>3, BufferFields DEF readable
    <3>3. f[b.readIdx + i] = s[(b.readIdx + i) - b.writeIdx]
      <4>1. \A j \in 1..Len(b.buf) : j \in b.writeIdx + 1..b.writeIdx + Len(s) => f[j] = s[j - b.writeIdx]
        BY Zenon
      <4> HIDE DEF f, p, w
      <4> QED BY <2>1, <3>2, <4>1, Zenon
    <3>4. i - readable(b) = (b.readIdx + i) - b.writeIdx
      BY <1>1, <1>2, <1>6, BufferFields DEF readable
    <3>5. p.buf[p.readIdx + i] = f[b.readIdx + i]
      BY <1>5, Zenon
    <3>6. s[(b.readIdx + i) - b.writeIdx] = s[i - readable(b)]
      BY <3>4, Zenon
    <3> HIDE DEF f, p
    <3> QED BY <3>1, <3>3, <3>5, <3>6, Zenon
  <2>4. i <= readable(b) \/ i > readable(b)
    BY <1>1, <1>2, <1>6
  <2> QED BY <2>2, <2>3, <2>4, Zenon
<1>10. peek(p) = peek(b) \o s
  BY <1>5, <1>6, <1>8, <1>9, PeekOf
<1> QED
  BY <1>4, <1>5, <1>10

(* Shift moves what waits to the start.                                    *)
LEMMA ShiftKeeps ==
  ASSUME NEW b \in BufferType
  PROVE  /\ Shift(b) \in BufferType /\ Len(Shift(b).buf) = Len(b.buf)
         /\ Shift(b).readIdx = 0 /\ Shift(b).writeIdx = readable(b)
         /\ peek(Shift(b)) = peek(b)
<1> DEFINE p == Shift(b)
           f == [i \in 1..Len(b.buf) |->
                   IF i <= readable(b) THEN b.buf[b.readIdx + i] ELSE b.buf[i]]
<1>1. /\ b.buf \in Seq(Byte) /\ Len(b.buf) \in Nat /\ b.readIdx \in Nat /\ b.writeIdx \in Nat
      /\ b.readIdx + readable(b) = b.writeIdx /\ b.writeIdx <= Len(b.buf)
      /\ readable(b) \in Nat /\ readable(b) <= Len(b.buf)
      /\ \A i \in 1..Len(b.buf) : b.buf[i] \in Byte
  BY BufferFields DEF readable
<1>2. f \in [1..Len(b.buf) -> Byte]
  BY <1>1
<1>3. f \in Seq(Byte) /\ Len(f) = Len(b.buf)
  BY <1>1, <1>2, FcnIsSeq
<1>4. p = [buf |-> f, readIdx |-> 0, writeIdx |-> readable(b)]
  BY DEF Shift
<1>5. \A i \in 1..readable(b) : f[i] = b.buf[b.readIdx + i]
  BY <1>1
<1> HIDE DEF f, p
<1>6. /\ p \in [buf : Seq(Byte), readIdx : Nat, writeIdx : Nat]
      /\ p.buf = f /\ p.readIdx = 0 /\ p.writeIdx = readable(b)
  BY <1>1, <1>3, <1>4
<1>7. p \in BufferType /\ readable(p) = readable(b)
  BY <1>1, <1>3, <1>6 DEF BufferType, readable
<1>8. \A i \in 1..readable(p) : p.buf[p.readIdx + i] = peek(b)[i]
  BY <1>1, <1>5, <1>6, <1>7, PeekIs
<1>9. peek(p) = peek(b)
  BY <1>7, <1>8, PeekIs, PeekOf
<1> QED
  BY <1>3, <1>6, <1>7, <1>9 DEF p

(* Grow makes room for count bytes and moves nothing.                      *)
LEMMA GrowKeeps ==
  ASSUME NEW b \in BufferType, NEW count \in Nat, count > writable(b)
  PROVE  /\ Grow(b, count) \in BufferType /\ Len(Grow(b, count).buf) = b.writeIdx + count
         /\ Grow(b, count).readIdx = b.readIdx /\ Grow(b, count).writeIdx = b.writeIdx
         /\ peek(Grow(b, count)) = peek(b)
<1> DEFINE p == Grow(b, count)
           f == [i \in 1..b.writeIdx + count |-> IF i <= Len(b.buf) THEN b.buf[i] ELSE NUL]
<1>1. /\ b.buf \in Seq(Byte) /\ Len(b.buf) \in Nat /\ b.readIdx \in Nat /\ b.writeIdx \in Nat
      /\ b.readIdx + readable(b) = b.writeIdx /\ b.writeIdx <= Len(b.buf)
      /\ readable(b) \in Nat /\ Len(b.buf) < b.writeIdx + count
      /\ b.readIdx <= b.writeIdx
      /\ \A i \in 1..Len(b.buf) : b.buf[i] \in Byte
  <2>1. /\ b.buf \in Seq(Byte) /\ Len(b.buf) \in Nat /\ b.readIdx \in Nat /\ b.writeIdx \in Nat
        /\ b.readIdx <= b.writeIdx /\ b.writeIdx <= Len(b.buf)
        /\ \A i \in 1..Len(b.buf) : b.buf[i] \in Byte
    BY BufferFields, Zenon
  <2> QED BY <2>1 DEF readable, writable
<1>2. f \in [1..b.writeIdx + count -> Byte]
  BY <1>1, BufferAssumption
<1>3. f \in Seq(Byte) /\ Len(f) = b.writeIdx + count
  <2>1. b.writeIdx + count \in Nat
    BY <1>1
  <2> HIDE DEF f
  <2> QED BY <1>2, <2>1, FcnIsSeq
<1>4. p = [b EXCEPT !.buf = f]
  BY DEF Grow
<1>5. \A i \in 1..Len(b.buf) : f[i] = b.buf[i]
  BY <1>1
<1>6. b \in [buf : Seq(Byte), readIdx : Nat, writeIdx : Nat]
  BY DEF BufferType
<1> HIDE DEF f, p
<1>7. /\ p \in [buf : Seq(Byte), readIdx : Nat, writeIdx : Nat]
      /\ p.buf = f /\ p.readIdx = b.readIdx /\ p.writeIdx = b.writeIdx
  BY <1>3, <1>4, <1>6
<1>8. p \in BufferType /\ readable(p) = readable(b)
  BY <1>1, <1>3, <1>7 DEF BufferType, readable
<1>9. ASSUME NEW i \in 1..readable(p) PROVE p.buf[p.readIdx + i] = peek(b)[i]
  <2>1. b.readIdx + i \in 1..Len(b.buf) /\ i \in 1..readable(b)
    BY <1>1, <1>8
  <2>2. f[b.readIdx + i] = b.buf[b.readIdx + i]
    BY <1>5, <2>1
  <2> QED BY <1>7, <2>1, <2>2, PeekIs
<1>10. peek(p) = peek(b)
  BY <1>8, <1>9, PeekIs, PeekOf
<1> QED
  BY <1>3, <1>7, <1>8, <1>10 DEF p

-----------------------------------------------------------------------------
(* Whatever dataIn chooses, the bytes are appended; the buffer grows only  *)
(* when the free space, before and behind, is too small, and then by less  *)
(* than it had in use.                                                     *)
LEMMA DataInAppends ==
  ASSUME NEW b \in BufferType, NEW s \in Seq(Byte)
  PROVE  /\ dataIn(b, s) \in BufferType
         /\ peek(dataIn(b, s)) = peek(b) \o s
         /\ readable(dataIn(b, s)) = readable(b) + Len(s)
         /\ Len(dataIn(b, s).buf) >= Len(b.buf)
         /\ Len(dataIn(b, s).buf) > Len(b.buf)
              => /\ readable(b) + Len(s) > Len(b.buf)
                 /\ Len(dataIn(b, s).buf) = b.writeIdx + Len(s)
<1>1. /\ b.buf \in Seq(Byte) /\ Len(b.buf) \in Nat /\ b.readIdx \in Nat /\ b.writeIdx \in Nat
      /\ b.readIdx + readable(b) = b.writeIdx /\ b.writeIdx + writable(b) = Len(b.buf)
      /\ readable(b) \in Nat /\ writable(b) \in Nat /\ Len(s) \in Nat
  BY BufferFields DEF readable, writable
<1>2. CASE Len(s) <= writable(b)
  <2>1. dataIn(b, s) = Put(b, s)
    BY <1>2 DEF dataIn
  <2>2. /\ Put(b, s) \in BufferType /\ Len(Put(b, s).buf) = Len(b.buf)
        /\ Put(b, s).readIdx = b.readIdx /\ Put(b, s).writeIdx = b.writeIdx + Len(s)
        /\ peek(Put(b, s)) = peek(b) \o s
    BY <1>2, PutAppends
  <2>3. readable(Put(b, s)) = readable(b) + Len(s)
    BY <1>1, <2>2 DEF readable
  <2> QED BY <1>1, <2>1, <2>2, <2>3
<1>3. CASE Len(s) > writable(b) /\ Len(s) <= writable(b) + b.readIdx
  <2>1. dataIn(b, s) = Put(Shift(b), s)
    BY <1>1, <1>3 DEF dataIn
  <2> DEFINE p == Shift(b)
  <2>2. /\ p \in BufferType /\ Len(p.buf) = Len(b.buf) /\ p.readIdx = 0
        /\ p.writeIdx = readable(b) /\ peek(p) = peek(b)
    BY ShiftKeeps
  <2>3. dataIn(b, s) = Put(p, s)
    BY <2>1
  <2> HIDE DEF p
  <2>4. Len(s) <= Len(b.buf) - readable(b)
    BY <1>1, <1>3
  <2>5. Len(s) <= writable(p)
    BY <2>2, <2>4 DEF writable
  <2>6. /\ Put(p, s) \in BufferType /\ Len(Put(p, s).buf) = Len(p.buf)
        /\ Put(p, s).readIdx = p.readIdx /\ Put(p, s).writeIdx = p.writeIdx + Len(s)
        /\ peek(Put(p, s)) = peek(p) \o s
    BY <2>2, <2>5, PutAppends
  <2>7. readable(Put(p, s)) = readable(b) + Len(s)
    BY <1>1, <2>2, <2>6 DEF readable
  <2> QED BY <1>1, <2>2, <2>3, <2>6, <2>7
<1>4. CASE Len(s) > writable(b) + b.readIdx
  <2> DEFINE p == Grow(b, Len(s))
  <2>1. dataIn(b, s) = Put(p, s)
    BY <1>1, <1>4 DEF dataIn
  <2>2. /\ p \in BufferType /\ Len(p.buf) = b.writeIdx + Len(s) /\ p.readIdx = b.readIdx
        /\ p.writeIdx = b.writeIdx /\ peek(p) = peek(b)
    BY <1>1, <1>4, GrowKeeps
  <2> HIDE DEF p
  <2>3. Len(s) <= writable(p)
    BY <1>1, <2>2 DEF writable
  <2>4. /\ Put(p, s) \in BufferType /\ Len(Put(p, s).buf) = Len(p.buf)
        /\ Put(p, s).readIdx = p.readIdx /\ Put(p, s).writeIdx = p.writeIdx + Len(s)
        /\ peek(Put(p, s)) = peek(p) \o s
    BY <2>2, <2>3, PutAppends
  <2>5. readable(Put(p, s)) = readable(b) + Len(s)
    BY <1>1, <2>2, <2>4 DEF readable
  <2>6. readable(b) + Len(s) > Len(b.buf) /\ b.writeIdx + Len(s) > Len(b.buf)
    BY <1>1, <1>4
  <2> QED BY <1>1, <2>1, <2>2, <2>4, <2>5, <2>6
<1> QED
  BY <1>1, <1>2, <1>3, <1>4

(* One readv appends what it has read, partly through the stack; if the    *)
(* buffer grows, it stays below twice what waits in it then.               *)
LEMMA SckToBufferAppends ==
  ASSUME NEW b \in BufferType, NEW s \in Seq(Byte)
  PROVE  /\ sckToBuffer(b, s) \in BufferType
         /\ peek(sckToBuffer(b, s)) = peek(b) \o s
         /\ Len(sckToBuffer(b, s).buf) > Len(b.buf)
              => Len(sckToBuffer(b, s).buf) < 2 * readable(sckToBuffer(b, s))
<1>1. /\ b.buf \in Seq(Byte) /\ Len(b.buf) \in Nat /\ b.readIdx \in Nat /\ b.writeIdx \in Nat
      /\ b.readIdx + readable(b) = b.writeIdx /\ b.writeIdx + writable(b) = Len(b.buf)
      /\ readable(b) \in Nat /\ writable(b) \in Nat /\ Len(s) \in Nat
  BY BufferFields DEF readable, writable
<1>2. CASE Len(s) <= writable(b)
  <2>1. sckToBuffer(b, s) = Put(b, s)
    BY <1>2 DEF sckToBuffer
  <2>2. /\ Put(b, s) \in BufferType /\ Len(Put(b, s).buf) = Len(b.buf)
        /\ peek(Put(b, s)) = peek(b) \o s
    BY <1>2, PutAppends, Zenon
  <2> QED BY <1>1, <2>1, <2>2
<1>3. CASE Len(s) > writable(b)
  <2> DEFINE s1 == SubSeq(s, 1, writable(b))
             s2 == SubSeq(s, writable(b) + 1, Len(s))
             p  == Put(b, s1)
             r  == dataIn(p, s2)
  <2>1. sckToBuffer(b, s) = r
    BY <1>1, <1>3 DEF sckToBuffer
  <2>2. writable(b) \in 0..Len(s)
    BY <1>1, <1>3
  <2>3. /\ s1 \in Seq(Byte) /\ Len(s1) = writable(b)
        /\ s2 \in Seq(Byte) /\ Len(s2) = Len(s) - writable(b)
        /\ s1 \o s2 = s
    BY <2>2, CutInTwo
  <2> HIDE DEF s1, s2
  <2>5. /\ p \in BufferType /\ Len(p.buf) = Len(b.buf) /\ p.readIdx = b.readIdx
        /\ p.writeIdx = b.writeIdx + writable(b) /\ peek(p) = peek(b) \o s1
    <3>1. s1 \in Seq(Byte) /\ Len(s1) <= writable(b) /\ Len(s1) = writable(b)
      BY <1>1, <2>3
    <3>2. /\ p \in BufferType /\ Len(p.buf) = Len(b.buf) /\ p.readIdx = b.readIdx
          /\ p.writeIdx = b.writeIdx + Len(s1) /\ peek(p) = peek(b) \o s1
      BY <3>1, PutAppends
    <3> HIDE DEF p
    <3> QED BY <3>1, <3>2
  <2> HIDE DEF p
  <2>6. /\ r \in BufferType /\ peek(r) = peek(p) \o s2
        /\ readable(r) = readable(p) + Len(s2)
        /\ Len(r.buf) > Len(p.buf) => /\ readable(p) + Len(s2) > Len(p.buf)
                                     /\ Len(r.buf) = p.writeIdx + Len(s2)
    BY <2>3, <2>5, DataInAppends
  <2> HIDE DEF r
  <2>7. peek(r) = peek(b) \o s
    <3>1. peek(b) \in Seq(Byte)
      BY PeekIs
    <3>2. (peek(b) \o s1) \o s2 = peek(b) \o (s1 \o s2)
      <4>1. s1 \in Seq(Byte) /\ s2 \in Seq(Byte)
        BY <2>3
      <4> DEFINE t == peek(b)
      <4> HIDE DEF t
      <4>2. (t \o s1) \o s2 = t \o (s1 \o s2)
        BY <4>1, <3>1, ConcatAssociative DEF t
      <4> QED BY <4>2 DEF t
    <3> QED BY <2>3, <2>5, <2>6, <3>2, Zenon
  <2>8. readable(p) \in Nat
    BY <2>5, BufferFields
  <2>9. Len(r.buf) > Len(b.buf) => Len(r.buf) < 2 * readable(r)
    <3>1. /\ Len(p.buf) = Len(b.buf) /\ p.writeIdx = Len(b.buf)
          /\ Len(s2) \in Nat
      BY <1>1, <2>3, <2>5
    <3> HAVE Len(r.buf) > Len(b.buf)
    <3>2. readable(r) > Len(b.buf) /\ Len(r.buf) = Len(b.buf) + Len(s2)
      BY <2>6, <3>1
    <3>3. readable(r) >= Len(s2) /\ readable(r) \in Nat
      BY <2>6, <2>8, <3>1
    <3> QED BY <1>1, <3>1, <3>2, <3>3
  <2> QED BY <2>1, <2>6, <2>7, <2>9
<1> QED
  BY <1>1, <1>2, <1>3

-----------------------------------------------------------------------------
(* retrieve takes n bytes from the front.                                  *)
LEMMA RetrieveTakes ==
  ASSUME NEW b \in BufferType, NEW n \in 0..readable(b)
  PROVE  /\ retrieve(b, n) \in BufferType
         /\ Len(retrieve(b, n).buf) = Len(b.buf)
         /\ readable(retrieve(b, n)) = readable(b) - n
         /\ peek(retrieve(b, n)) = SubSeq(peek(b), n + 1, readable(b))
<1> DEFINE r == retrieve(b, n)  t == SubSeq(peek(b), n + 1, readable(b))
<1>1. /\ b \in [buf : Seq(Byte), readIdx : Nat, writeIdx : Nat]
      /\ b.buf \in Seq(Byte) /\ Len(b.buf) \in Nat /\ b.readIdx \in Nat /\ b.writeIdx \in Nat
      /\ b.readIdx + readable(b) = b.writeIdx /\ b.writeIdx <= Len(b.buf)
      /\ readable(b) \in Nat /\ n \in Nat /\ n <= readable(b)
  BY BufferFields DEF readable, BufferType
<1>2. /\ peek(b) \in Seq(Byte) /\ Len(peek(b)) = readable(b)
      /\ \A i \in 1..readable(b) : peek(b)[i] = b.buf[b.readIdx + i]
  BY PeekIs
<1>3. /\ t \in Seq(Byte) /\ Len(t) = readable(b) - n
      /\ \A i \in 1..readable(b) - n : t[i] = peek(b)[n + i]
  <2> DEFINE p == peek(b)  m == readable(b)
  <2>1. p \in Seq(Byte) /\ Len(p) = m /\ m \in Nat /\ n \in 0..m
    BY <1>1, <1>2
  <2> HIDE DEF p, m
  <2>2. /\ SubSeq(p, n + 1, m) \in Seq(Byte) /\ Len(SubSeq(p, n + 1, m)) = m - n
        /\ \A i \in 1..m - n : SubSeq(p, n + 1, m)[i] = p[n + i]
    BY <2>1
  <2> QED BY <2>2 DEF p, m
<1> HIDE DEF t
<1>4. CASE b.readIdx + n = b.writeIdx
  <2>1. r = [b EXCEPT !.readIdx = 0, !.writeIdx = 0]
    BY <1>4 DEF retrieve
  <2> HIDE DEF r
  <2>2. /\ r \in [buf : Seq(Byte), readIdx : Nat, writeIdx : Nat]
        /\ r.buf = b.buf /\ r.readIdx = 0 /\ r.writeIdx = 0
    BY <1>1, <2>1
  <2>3. readable(r) = readable(b) - n /\ readable(r) = 0
    BY <1>1, <1>4, <2>2 DEF readable
  <2>4. r \in BufferType
    BY <1>1, <2>2 DEF BufferType
  <2>5. peek(r) = t
    BY <1>3, <2>3, <2>4, PeekOf
  <2> QED BY <2>2, <2>3, <2>4, <2>5 DEF r, t
<1>5. CASE b.readIdx + n # b.writeIdx
  <2>1. r = [b EXCEPT !.readIdx = b.readIdx + n]
    BY <1>5 DEF retrieve
  <2> HIDE DEF r
  <2>2. /\ r \in [buf : Seq(Byte), readIdx : Nat, writeIdx : Nat]
        /\ r.buf = b.buf /\ r.readIdx = b.readIdx + n /\ r.writeIdx = b.writeIdx
    BY <1>1, <2>1
  <2>3. r \in BufferType /\ readable(r) = readable(b) - n
    BY <1>1, <2>2 DEF BufferType, readable
  <2>4. ASSUME NEW i \in 1..readable(r) PROVE r.buf[r.readIdx + i] = t[i]
    <3>1. i \in 1..readable(b) - n /\ n + i \in 1..readable(b)
      BY <1>1, <2>3
    <3>2. t[i] = b.buf[b.readIdx + (n + i)]
      BY <1>2, <1>3, <3>1
    <3>3. b.readIdx + (n + i) = r.readIdx + i
      BY <1>1, <2>2, <3>1
    <3> QED BY <2>2, <3>2, <3>3, Zenon
  <2>5. peek(r) = t
    BY <1>3, <2>3, <2>4, PeekOf
  <2> QED BY <2>2, <2>3, <2>5 DEF r, t
<1> QED
  BY <1>4, <1>5

(* A line end that findCRLF reports lies within what waits.                *)
LEMMA FindCRLFIs ==
  ASSUME NEW b \in BufferType
  PROVE  findCRLF(b) = npos \/ findCRLF(b) \in 0..readable(b) - 2
<1>1. CRLFs(b) \subseteq Nat /\ CRLFs(b) \subseteq 0..readable(b) - 2
  BY BufferFields DEF CRLFs
<1>2. CASE CRLFs(b) # {}
  <2>2. \E i \in CRLFs(b) : \A j \in CRLFs(b) : i <= j
    BY <1>1, <1>2, LeastNat
  <2>3. findCRLF(b) \in CRLFs(b)
    BY <1>2, <2>2 DEF findCRLF
  <2> QED BY <1>1, <2>3
<1> QED
  BY <1>2 DEF findCRLF
-----------------------------------------------------------------------------
(* HttpProcess.                                                            *)

(* Runs of bytes join in any order.                                        *)
LEMMA JoinsAssociate ==
  ASSUME NEW u \in Seq(Byte), NEW v \in Seq(Byte), NEW x \in Seq(Byte)
  PROVE  (u \o v) \o x = u \o (v \o x)
  BY ConcatAssociative

(* The rest of a part of a sequence is a part of the sequence.             *)
LEMMA RestOfSubSeq ==
  ASSUME NEW S, NEW s \in Seq(S), NEW a \in Nat, NEW c \in a..Len(s), NEW k \in 0..c - a
  PROVE  SubSeq(SubSeq(s, a + 1, c), k + 1, c - a) = SubSeq(s, a + k + 1, c)
<1> DEFINE t == SubSeq(s, a + 1, c)  u == SubSeq(t, k + 1, c - a)  v == SubSeq(s, a + k + 1, c)
<1>1. t \in Seq(S) /\ Len(t) = c - a /\ \A i \in 1..c - a : t[i] = s[a + i]
  OBVIOUS
<1>2. v \in Seq(S) /\ Len(v) = c - a - k /\ \A i \in 1..c - a - k : v[i] = s[a + k + i]
  OBVIOUS
<1> HIDE DEF t, v
<1>3. u \in Seq(S) /\ Len(u) = c - a - k /\ \A i \in 1..c - a - k : u[i] = t[k + i]
  BY <1>1
<1> HIDE DEF u
<1>4. ASSUME NEW i \in 1..Len(u) PROVE u[i] = v[i]
  <2>1. i \in 1..c - a - k /\ k + i \in 1..c - a /\ a + (k + i) = a + k + i
    BY <1>3
  <2> QED BY <1>1, <1>2, <1>3, <2>1
<1>5. u = v
  BY <1>2, <1>3, <1>4, SeqEqual
<1> QED
  BY <1>5 DEF t, u, v

(* The socket takes n bytes: they move from the buffer to the wire.        *)
LEMMA WriteMoves ==
  ASSUME NEW b \in BufferType, NEW w \in Seq(Byte), NEW n \in 0..readable(b)
  PROVE  /\ retrieve(b, n) \in BufferType
         /\ w \o SubSeq(peek(b), 1, n) \in Seq(Byte)
         /\ (w \o SubSeq(peek(b), 1, n)) \o peek(retrieve(b, n)) = w \o peek(b)
<1> DEFINE t == peek(b)
<1>1. t \in Seq(Byte) /\ Len(t) = readable(b)
  BY PeekIs
<1>2. peek(retrieve(b, n)) = SubSeq(t, n + 1, Len(t)) /\ retrieve(b, n) \in BufferType
  BY <1>1, RetrieveTakes
<1> HIDE DEF t
<1>3. n \in 0..Len(t)
  BY <1>1
<1> DEFINE t1 == SubSeq(t, 1, n)  t2 == SubSeq(t, n + 1, Len(t))
<1>4. t1 \in Seq(Byte) /\ t2 \in Seq(Byte) /\ t1 \o t2 = t
  BY <1>1, <1>3, CutInTwo
<1> HIDE DEF t1, t2
<1>5. (w \o t1) \o t2 = w \o (t1 \o t2) /\ w \o t1 \in Seq(Byte)
  <2>1. t1 \in Seq(Byte) /\ t2 \in Seq(Byte)
    BY <1>4
  <2>2. (w \o t1) \o t2 = w \o (t1 \o t2)
    BY <2>1, JoinsAssociate, Zenon
  <2>3. w \o t1 \in Seq(Byte)
    BY <2>1, ConcatProperties
  <2> QED BY <2>2, <2>3
<1> QED
  BY <1>2, <1>4, <1>5, Zenon DEF t, t1, t2

(* A response enters the buffer and the socket takes n bytes of it; a      *)
(* buffer that grew is below twice the backlog.                            *)
LEMMA SendMoves ==
  ASSUME NEW b \in BufferType, NEW w \in Seq(Byte), NEW s \in Seq(Byte),
         NEW n \in 0..readable(dataIn(b, s))
  PROVE  LET r == retrieve(dataIn(b, s), n)
             v == w \o SubSeq(peek(dataIn(b, s)), 1, n)
         IN  /\ r \in BufferType /\ v \in Seq(Byte)
             /\ v \o peek(r) = (w \o peek(b)) \o s
             /\ Len(r.buf) > Len(b.buf) => Len(r.buf) < 2 * (readable(b) + Len(s))
<1> DEFINE d == dataIn(b, s)
           r == retrieve(d, n)
           v == w \o SubSeq(peek(d), 1, n)
           t == peek(b)
<1>1. /\ d \in BufferType /\ peek(d) = t \o s
      /\ Len(d.buf) > Len(b.buf) => readable(b) + Len(s) > Len(b.buf) /\ Len(d.buf) = b.writeIdx + Len(s)
  BY DataInAppends
<1>2. b.writeIdx \in Nat /\ b.writeIdx <= Len(b.buf) /\ Len(b.buf) \in Nat
      /\ Len(s) \in Nat /\ readable(b) \in Nat
  BY BufferFields
<1>3. t \in Seq(Byte)
  BY PeekIs
<1> HIDE DEF d, t
<1>4. Len(d.buf) > Len(b.buf) => Len(d.buf) < 2 * (readable(b) + Len(s))
  BY <1>1, <1>2
<1>5. /\ r \in BufferType /\ v \in Seq(Byte) /\ v \o peek(r) = w \o peek(d)
      /\ Len(r.buf) = Len(d.buf)
  BY <1>1, WriteMoves, RetrieveTakes DEF d
<1> HIDE DEF r, v
<1>6. w \o (t \o s) = (w \o t) \o s
  <2>1. w \in Seq(Byte) /\ t \in Seq(Byte) /\ s \in Seq(Byte)
    BY <1>3, Zenon
  <2>2. (w \o t) \o s = w \o (t \o s)
    BY <2>1, JoinsAssociate, Zenon
  <2> QED BY <2>2, Zenon
<1>7. v \o peek(r) = (w \o t) \o s
  BY <1>1, <1>5, <1>6, Zenon
<1> QED
  BY <1>4, <1>5, <1>7 DEF d, r, v, t

-----------------------------------------------------------------------------
(* A request with too many headers has ended the reading, so the count of  *)
(* its lines stops one above the limit.                                    *)
CountStops ==
  parser.headerLineCount > MaxHeaders => ~reading /\ pc \in {"wait", "closed"}

Inv == TypeOK /\ CountStops /\ InOrder

(* The initial states.                                                     *)
LEMMA InvInit == Init => Inv
<1> SUFFICES ASSUME Init PROVE Inv
  OBVIOUS
<1>1. stream \in Seq(Byte) /\ Len(stream) \in Nat
  BY HttpAssumption DEF Init
<1>2. /\ readBuffer \in BufferType /\ writeBuffer \in BufferType
      /\ peek(readBuffer) = <<>> /\ peek(writeBuffer) = <<>>
  BY NewBufferIs DEF Init
<1>3. parser.headerLineCount = 0 /\ MaxHeaders \in Nat
  BY HttpAssumption DEF Init, NewRequest
<1>4. parser \in [state : {"kExpectRequestLine", "kExpectHeaders"}, keepAlive : BOOLEAN,
                  body : BOOLEAN, headerLineCount : 0..MaxHeaders + 1]
  BY <1>3 DEF Init, NewRequest
<1>5. <<>> \in Seq(Byte) /\ <<>> \in Seq(Result)
  OBVIOUS
<1>6. TypeOK
  BY <1>1, <1>2, <1>4, <1>5 DEF Init, TypeOK
<1>7. SubSeq(stream, 0 + 1, 0) = <<>>
  BY SubSeqEmpty
<1>8. <<>> \o <<>> = <<>>
  BY <1>5, ConcatEmptySeq
<1>9. InOrder
  BY <1>2, <1>7, <1>8 DEF Init, InOrder
<1> QED
  BY <1>3, <1>6, <1>9 DEF Inv, CountStops

(* What waits in readBuffer is as long as what has been read and not taken.*)
LEMMA BacklogLength ==
  ASSUME Inv
  PROVE  /\ readable(readBuffer) = nread - taken
         /\ Len(stream) \in Nat /\ arrived \in Nat /\ nread \in Nat /\ taken \in Nat
         /\ taken <= nread /\ nread <= arrived /\ arrived <= Len(stream)
<1>1. /\ stream \in Seq(Byte) /\ Len(stream) \in Nat
      /\ arrived \in 0..Len(stream) /\ nread \in 0..arrived /\ taken \in 0..nread
  BY DEF Inv, TypeOK
<1>2. Len(SubSeq(stream, taken + 1, nread)) = nread - taken
  BY <1>1
<1>3. Len(peek(readBuffer)) = readable(readBuffer)
  BY PeekIs DEF Inv, TypeOK
<1> QED
  BY <1>1, <1>2, <1>3 DEF Inv, InOrder

(* readv: the bytes of the socket follow those in the buffer.              *)
LEMMA ReadvKeeps ==
  ASSUME Inv, readv
  PROVE  /\ readBuffer' \in BufferType /\ nread' \in 0..arrived /\ nread <= nread'
         /\ peek(readBuffer') = SubSeq(stream, taken + 1, nread')
         /\ Len(readBuffer'.buf) > Len(readBuffer.buf)
              => Len(readBuffer'.buf) < 2 * readable(readBuffer')
<1> DEFINE n == IF arrived - nread <= MaxRead(readBuffer) THEN arrived - nread ELSE MaxRead(readBuffer)
           s == SubSeq(stream, nread + 1, nread + n)
<1>1. /\ stream \in Seq(Byte) /\ Len(stream) \in Nat /\ arrived \in Nat /\ nread \in Nat /\ taken \in Nat
      /\ taken <= nread /\ nread < arrived /\ arrived <= Len(stream) /\ readBuffer \in BufferType
  BY BacklogLength DEF Inv, TypeOK, readv
<1>2. MaxRead(readBuffer) \in Nat
  BY <1>1, BufferFields, BufferAssumption DEF MaxRead
<1>3. n \in Nat /\ nread + n <= arrived
  BY <1>1, <1>2
<1>4. readBuffer' = sckToBuffer(readBuffer, s) /\ nread' = nread + n
  BY DEF readv
<1> HIDE DEF n
<1>5. s \in Seq(Byte)
  BY <1>1, <1>3
<1>6. SubSeq(stream, taken + 1, nread) \o s = SubSeq(stream, taken + 1, nread + n)
  <2> DEFINE m == taken + 1  k == nread + n
  <2>1. m \in 1..Len(stream) + 1 /\ nread \in m - 1..Len(stream) /\ k \in nread..Len(stream)
    BY <1>1, <1>3
  <2>2. stream \in Seq(Byte)
    BY <1>1
  <2> HIDE DEF m, k
  <2>3. SubSeq(stream, m, nread) \o SubSeq(stream, nread + 1, k) = SubSeq(stream, m, k)
    BY <2>1, <2>2, ConcatAdjacentSubSeq
  <2> QED BY <2>3 DEF m, k
<1> HIDE DEF s
<1>7. /\ readBuffer' \in BufferType /\ peek(readBuffer') = peek(readBuffer) \o s
      /\ Len(readBuffer'.buf) > Len(readBuffer.buf)
           => Len(readBuffer'.buf) < 2 * readable(readBuffer')
  BY <1>1, <1>4, <1>5, SckToBufferAppends
<1>8. peek(readBuffer) = SubSeq(stream, taken + 1, nread)
  BY DEF Inv, InOrder
<1> QED
  BY <1>1, <1>3, <1>4, <1>6, <1>7, <1>8

(* retrieveLine: the line is the next part of the stream.                  *)
LEMMA RetrieveLineKeeps ==
  ASSUME Inv, retrieveLine
  PROVE  /\ readBuffer' \in BufferType /\ taken' \in 0..nread
         /\ peek(readBuffer') = SubSeq(stream, taken' + 1, nread)
         /\ Len(readBuffer'.buf) = Len(readBuffer.buf)
<1> DEFINE n == crlf + 2
<1>1. /\ stream \in Seq(Byte) /\ Len(stream) \in Nat /\ nread \in Nat /\ taken \in Nat
      /\ taken <= nread /\ nread <= Len(stream) /\ readBuffer \in BufferType
      /\ readable(readBuffer) = nread - taken
  BY BacklogLength DEF Inv, TypeOK
<1>2. n \in 0..readable(readBuffer) /\ crlf \in Nat
  <2>1. crlf \in 0..readable(readBuffer) - 2
    BY <1>1, FindCRLFIs DEF retrieveLine, crlf
  <2> QED BY <1>1, <2>1
<1>3. readBuffer' = retrieve(readBuffer, n) /\ taken' = taken + n
  BY <1>1, <1>2 DEF retrieveLine
<1> HIDE DEF n
<1>4. /\ readBuffer' \in BufferType /\ Len(readBuffer'.buf) = Len(readBuffer.buf)
      /\ peek(readBuffer') = SubSeq(peek(readBuffer), n + 1, nread - taken)
  BY <1>1, <1>2, <1>3, RetrieveTakes
<1>5. SubSeq(SubSeq(stream, taken + 1, nread), n + 1, nread - taken) = SubSeq(stream, taken + n + 1, nread)
  <2>1. nread \in taken..Len(stream) /\ n \in 0..nread - taken
    BY <1>1, <1>2
  <2> QED BY <1>1, <2>1, RestOfSubSeq
<1>6. peek(readBuffer) = SubSeq(stream, taken + 1, nread)
  BY DEF Inv, InOrder
<1>7. taken' \in 0..nread
  BY <1>1, <1>2, <1>3
<1> QED
  BY <1>3, <1>4, <1>5, <1>6, <1>7

(* sendHttpOnLoop: wire and backlog stay what was put in.                  *)
LEMMA SendKeeps ==
  ASSUME Inv, NEW s \in Seq(Byte), NEW keepAlive \in BOOLEAN, NEW more, Send(s, keepAlive, more)
  PROVE  /\ writeBuffer' \in BufferType /\ wire' \in Seq(Byte) /\ put' \in Seq(Byte)
         /\ wire' \o peek(writeBuffer') = put'
         /\ reading' \in BOOLEAN /\ (~keepAlive => ~reading') /\ pc' \in {"closed", more}
         /\ Len(writeBuffer'.buf) > Len(writeBuffer.buf)
              => Len(writeBuffer'.buf) < 2 * (readable(writeBuffer) + Len(put') - Len(put))
<1>1. writeBuffer \in BufferType /\ wire \in Seq(Byte) /\ put \in Seq(Byte) /\ reading \in BOOLEAN
  BY DEF Inv, TypeOK
<1>2. PICK n \in 0..readable(dataIn(writeBuffer, s)) :
        /\ wire' = wire \o SubSeq(peek(dataIn(writeBuffer, s)), 1, n)
        /\ writeBuffer' = retrieve(dataIn(writeBuffer, s), n)
        /\ reading' = (reading /\ keepAlive)
        /\ pc' \in {"closed", more}
  BY DEF Send
<1>3. /\ writeBuffer' \in BufferType /\ wire' \in Seq(Byte)
      /\ wire' \o peek(writeBuffer') = (wire \o peek(writeBuffer)) \o s
      /\ Len(writeBuffer'.buf) > Len(writeBuffer.buf)
           => Len(writeBuffer'.buf) < 2 * (readable(writeBuffer) + Len(s))
  BY <1>1, <1>2, SendMoves
<1>4. wire \o peek(writeBuffer) = put
  BY DEF Inv, InOrder
<1>5. put' = put \o s
  BY DEF Send
<1>6. put' \in Seq(Byte) /\ Len(put') = Len(put) + Len(s) /\ Len(put) \in Nat /\ Len(s) \in Nat
  BY <1>1, <1>5, ConcatProperties
<1>7. readable(writeBuffer) + Len(put') - Len(put) = readable(writeBuffer) + Len(s)
  BY <1>1, <1>6, BufferFields
<1> QED
  BY <1>1, <1>2, <1>3, <1>4, <1>5, <1>6, <1>7

(* What GrowsForBacklog says of one step.                                  *)
Growth ==
  /\ Len(readBuffer'.buf) > Len(readBuffer.buf)
       => Len(readBuffer'.buf) < 2 * readable(readBuffer')
  /\ Len(writeBuffer'.buf) > Len(writeBuffer.buf)
       => Len(writeBuffer'.buf) < 2 * (readable(writeBuffer) + Len(put') - Len(put))

(* A buffer that is left alone does not grow.                              *)
LEMMA SameBufferSize ==
  ASSUME Inv
  PROVE  /\ readBuffer' = readBuffer => ~(Len(readBuffer'.buf) > Len(readBuffer.buf))
         /\ Len(readBuffer'.buf) = Len(readBuffer.buf) => ~(Len(readBuffer'.buf) > Len(readBuffer.buf))
         /\ writeBuffer' = writeBuffer => ~(Len(writeBuffer'.buf) > Len(writeBuffer.buf))
         /\ Len(writeBuffer'.buf) = Len(writeBuffer.buf) => ~(Len(writeBuffer'.buf) > Len(writeBuffer.buf))
<1>1. Len(readBuffer.buf) \in Nat /\ Len(writeBuffer.buf) \in Nat
  BY BufferFields DEF Inv, TypeOK
<1> QED
  BY <1>1

(* The steps that read.                                                    *)
LEMMA ReadingSteps ==
  ASSUME Inv, Arrive \/ handleReadCallBack \/ readv \/ readDone \/ needMore
  PROVE  Inv' /\ Growth
<1>1. CASE Arrive
  <2>1. arrived' \in 0..Len(stream) /\ nread \in 0..arrived'
    BY <1>1, BacklogLength DEF Arrive
  <2> QED BY <1>1, <2>1, SameBufferSize DEF Arrive, Inv, TypeOK, CountStops, InOrder, Growth
<1>2. CASE handleReadCallBack
  BY <1>2, SameBufferSize DEF handleReadCallBack, Inv, TypeOK, CountStops, InOrder, Growth
<1>3. CASE readv
  <2>1. taken \in 0..nread' /\ nread' \in 0..arrived
    BY <1>3, ReadvKeeps, BacklogLength
  <2> QED BY <1>3, <2>1, ReadvKeeps, SameBufferSize DEF readv, Inv, TypeOK, CountStops, InOrder, Growth
<1>4. CASE readDone
  BY <1>4, SameBufferSize DEF readDone, Inv, TypeOK, CountStops, InOrder, Growth
<1>5. CASE needMore
  BY <1>5, SameBufferSize DEF needMore, Inv, TypeOK, CountStops, InOrder, Growth
<1> QED
  BY <1>1, <1>2, <1>3, <1>4, <1>5

-----------------------------------------------------------------------------
ParserType ==
  [state : {"kExpectRequestLine", "kExpectHeaders"}, keepAlive : BOOLEAN, body : BOOLEAN,
   headerLineCount : 0..MaxHeaders + 1]

(* A line that is taken out of readBuffer leaves Inv to the other half of  *)
(* the step: the parser, the results and writeBuffer.                      *)
LEMMA LineTaken ==
  ASSUME Inv, retrieveLine, UNCHANGED <<stream, arrived, nread>>,
         parser' \in ParserType, results' \in Seq(Result),
         pc' \in {"wait", "read", "parse", "closed", "terminated"},
         reading' \in BOOLEAN, CountStops',
         writeBuffer' \in BufferType, wire' \in Seq(Byte), put' \in Seq(Byte),
         wire' \o peek(writeBuffer') = put',
         Len(writeBuffer'.buf) > Len(writeBuffer.buf)
           => Len(writeBuffer'.buf) < 2 * (readable(writeBuffer) + Len(put') - Len(put))
  PROVE  Inv' /\ Growth
<1>1. /\ readBuffer' \in BufferType /\ taken' \in 0..nread
      /\ peek(readBuffer') = SubSeq(stream, taken' + 1, nread)
      /\ Len(readBuffer'.buf) = Len(readBuffer.buf)
  BY RetrieveLineKeeps
<1>2. TypeOK'
  BY <1>1 DEF Inv, TypeOK, ParserType
<1>3. InOrder'
  BY <1>1 DEF InOrder
<1>4. Growth
  BY <1>1, SameBufferSize DEF Growth
<1> QED
  BY <1>2, <1>3, <1>4 DEF Inv

(* Parsers that fit: a new one, and one that has counted a line.           *)
LEMMA ParserTypes ==
  ASSUME Inv
  PROVE  /\ parser \in ParserType /\ MaxHeaders \in Nat
         /\ NewRequest \in ParserType /\ NewRequest.headerLineCount = 0
         /\ pc = "parse" => /\ Counted \in ParserType
                            /\ Counted.headerLineCount = parser.headerLineCount + 1
                            /\ parser.headerLineCount \in 0..MaxHeaders
<1>1. parser \in ParserType /\ MaxHeaders \in Nat
  BY HttpAssumption DEF Inv, TypeOK, ParserType
<1>2. NewRequest \in ParserType /\ NewRequest.headerLineCount = 0
  BY <1>1 DEF NewRequest, ParserType
<1>3. ASSUME pc = "parse"
      PROVE  /\ Counted \in ParserType /\ Counted.headerLineCount = parser.headerLineCount + 1
             /\ parser.headerLineCount \in 0..MaxHeaders
  <2>1. parser.headerLineCount \in 0..MaxHeaders
    BY <1>1, <1>3 DEF Inv, CountStops, ParserType
  <2> QED BY <1>1, <2>1 DEF Counted, ParserType
<1> QED
  BY <1>1, <1>2, <1>3

(* A result is one more element of the history.                            *)
LEMMA ReturnKeeps ==
  ASSUME Inv, NEW r \in Result, Return(r)
  PROVE  results' \in Seq(Result)
  BY DEF Inv, TypeOK, Return

(* The writing side when a step leaves it alone.                           *)
LEMMA WriteSideSame ==
  ASSUME Inv, UNCHANGED <<writeBuffer, put, wire>>
  PROVE  /\ writeBuffer' \in BufferType /\ wire' \in Seq(Byte) /\ put' \in Seq(Byte)
         /\ wire' \o peek(writeBuffer') = put'
         /\ ~(Len(writeBuffer'.buf) > Len(writeBuffer.buf))
  BY SameBufferSize DEF Inv, TypeOK, InOrder

(* A bad line or request is answered by the 400.                           *)
LEMMA BadRequestKeeps ==
  ASSUME Inv, retrieveLine, UNCHANGED <<stream, arrived, nread>>, badRequest
  PROVE  Inv' /\ Growth
<1>1. <<"!">> \in Seq(Byte) /\ [kind |-> "kError"] \in Result
  BY HttpAssumption DEF ResponseByte, Result
<1>2. /\ Send(<<"!">>, FALSE, "wait") /\ parser' = NewRequest
      /\ Return([kind |-> "kError"])
  BY DEF badRequest
<1>3. CountStops'
  BY <1>2, ParserTypes DEF CountStops
<1>4. parser' \in ParserType /\ results' \in Seq(Result)
  BY <1>1, <1>2, ParserTypes, ReturnKeeps
<1> QED
  BY <1>1, <1>2, <1>3, <1>4, SendKeeps, LineTaken

(* LineTooLong stops the reading and leaves the writing side alone.        *)
LEMMA LineTooLongKeeps ==
  ASSUME Inv, LineTooLong
  PROVE  /\ results' \in Seq(Result) /\ reading' = FALSE /\ pc' \in {"wait", "closed"}
         /\ UNCHANGED <<writeBuffer, put, wire>>
<1>1. [kind |-> "kLineTooLong"] \in Result /\ Return([kind |-> "kLineTooLong"])
  BY DEF Result, LineTooLong
<1> QED
  BY <1>1, ReturnKeeps DEF LineTooLong

(* parse returns kLineTooLong.                                             *)
LEMMA StepLineTooLong == ASSUME Inv, lineTooLong PROVE Inv' /\ Growth
<1>1. /\ results' \in Seq(Result) /\ reading' = FALSE /\ pc' \in {"wait", "closed"}
      /\ UNCHANGED <<writeBuffer, put, wire>>
  BY LineTooLongKeeps DEF lineTooLong
<1> QED
  BY <1>1, SameBufferSize DEF lineTooLong, Inv, TypeOK, CountStops, InOrder, Growth

(* parse takes a request line.                                             *)
LEMMA StepRequestLine == ASSUME Inv, requestLine PROVE Inv' /\ Growth
<1>1. CASE Line \in {<<"G">>, <<"O">>}
  <2>1. /\ retrieveLine /\ UNCHANGED <<stream, arrived, nread>>
        /\ parser' = [parser EXCEPT !.state = "kExpectHeaders", !.body = FALSE,
                        !.headerLineCount = 0, !.keepAlive = @ /\ Line # <<"O">>]
        /\ UNCHANGED <<writeBuffer, reading, pc, results, put, wire>>
    BY <1>1 DEF requestLine
  <2>2. parser' \in ParserType /\ parser'.headerLineCount = 0
    BY <2>1, ParserTypes DEF ParserType
  <2>3. CountStops'
    BY <2>2, ParserTypes DEF CountStops
  <2>4. /\ results' \in Seq(Result) /\ reading' \in BOOLEAN
        /\ pc' \in {"wait", "read", "parse", "closed", "terminated"}
    BY <2>1 DEF Inv, TypeOK
  <2> QED BY <2>1, <2>2, <2>3, <2>4, WriteSideSame, LineTaken
<1>2. CASE Line \notin {<<"G">>, <<"O">>}
  BY <1>2, BadRequestKeeps DEF requestLine
<1> QED
  BY <1>1, <1>2

(* parse takes a header line: good, bad, or one that makes stoul throw.    *)
LEMMA StepHeaderLine == ASSUME Inv, headerLine PROVE Inv' /\ Growth
<1> DEFINE kind == HeaderKind(Line)
<1>1. /\ retrieveLine /\ UNCHANGED <<stream, arrived, nread>> /\ pc = "parse"
      /\ parser.headerLineCount < MaxHeaders
  BY DEF headerLine, retrieveLine
<1>2. /\ Counted \in ParserType /\ Counted.headerLineCount = parser.headerLineCount + 1
      /\ parser.headerLineCount \in 0..MaxHeaders /\ MaxHeaders \in Nat
  BY <1>1, ParserTypes
<1>3. Counted.headerLineCount <= MaxHeaders
  BY <1>1, <1>2
<1>4. CASE /\ parser' = [Counted EXCEPT
                 !.keepAlive = IF kind = "c" THEN FALSE ELSE IF kind = "k" THEN TRUE ELSE @,
                 !.body = IF kind = "n" THEN TRUE ELSE IF kind = "z" THEN FALSE ELSE @]
           /\ UNCHANGED <<writeBuffer, reading, pc, results, put, wire>>
  <2> HIDE DEF kind
  <2>1. parser' \in ParserType /\ parser'.headerLineCount = Counted.headerLineCount
    BY <1>2, <1>4 DEF ParserType
  <2>2. CountStops'
    BY <1>2, <1>3, <2>1 DEF CountStops
  <2>3. /\ results' \in Seq(Result) /\ reading' \in BOOLEAN
        /\ pc' \in {"wait", "read", "parse", "closed", "terminated"}
    BY <1>4 DEF Inv, TypeOK
  <2> QED BY <1>1, <1>4, <2>1, <2>2, <2>3, WriteSideSame, LineTaken
<1>5. CASE badRequest
  BY <1>1, <1>5, BadRequestKeeps
<1>6. CASE /\ pc' = "terminated" /\ parser' = Counted
           /\ UNCHANGED <<writeBuffer, reading, results, put, wire>>
  <2>1. results' \in Seq(Result) /\ reading' \in BOOLEAN
    BY <1>6 DEF Inv, TypeOK
  <2>2. CountStops'
    BY <1>2, <1>3, <1>6 DEF CountStops
  <2> QED BY <1>1, <1>2, <1>6, <2>1, <2>2, WriteSideSame, LineTaken
<1> QED
  BY <1>4, <1>5, <1>6 DEF headerLine

(* parse takes one header line too many.                                   *)
LEMMA StepTooManyHeaders == ASSUME Inv, tooManyHeaders PROVE Inv' /\ Growth
<1>1. /\ retrieveLine /\ UNCHANGED <<stream, arrived, nread>> /\ pc = "parse"
      /\ parser' = Counted /\ LineTooLong
  BY DEF tooManyHeaders, retrieveLine
<1>2. /\ results' \in Seq(Result) /\ reading' = FALSE /\ pc' \in {"wait", "closed"}
      /\ UNCHANGED <<writeBuffer, put, wire>>
  BY <1>1, LineTooLongKeeps
<1>3. CountStops'
  BY <1>2 DEF CountStops
<1> QED
  BY <1>1, <1>2, <1>3, ParserTypes, WriteSideSame, LineTaken

(* parse takes the empty line that ends a request.                         *)
LEMMA StepEmptyLine == ASSUME Inv, emptyLine PROVE Inv' /\ Growth
<1>1. retrieveLine /\ UNCHANGED <<stream, arrived, nread>>
  BY DEF emptyLine
<1>2. CASE parser.body
  BY <1>1, <1>2, BadRequestKeeps DEF emptyLine
<1>3. CASE ~parser.body
  <2> DEFINE k == parser.keepAlive  r == [kind |-> "kComplete", keepAlive |-> k]
  <2>1. Return(r) /\ parser' = NewRequest /\ Send(Response(k), k, "parse")
    BY <1>3 DEF emptyLine
  <2>2. k \in BOOLEAN
    BY DEF Inv, TypeOK
  <2>3. r \in Result
    BY <2>2 DEF Result
  <2>4. Response(k) \in Seq(Byte)
    BY HttpAssumption DEF Response, ResponseByte
  <2> HIDE DEF k, r
  <2>5. CountStops' /\ parser' \in ParserType
    BY <2>1, ParserTypes DEF CountStops
  <2>6. results' \in Seq(Result)
    BY <2>1, <2>3, ReturnKeeps
  <2> QED BY <1>1, <2>1, <2>2, <2>4, <2>5, <2>6, SendKeeps, LineTaken
<1> QED
  BY <1>2, <1>3

(* handleWriteCallBack moves bytes to the wire.                            *)
LEMMA StepWrite == ASSUME Inv, handleWriteCallBack PROVE Inv' /\ Growth
<1>1. /\ writeBuffer \in BufferType /\ wire \in Seq(Byte) /\ readable(writeBuffer) \in Nat
      /\ wire \o peek(writeBuffer) = put
  BY BufferFields DEF Inv, TypeOK, InOrder
<1>2. PICK n \in 1..readable(writeBuffer) :
        /\ wire' = wire \o SubSeq(peek(writeBuffer), 1, n)
        /\ writeBuffer' = retrieve(writeBuffer, n)
        /\ pc' \in {"closed", "wait"}
  BY DEF handleWriteCallBack
<1>3. n \in 0..readable(writeBuffer)
  BY <1>1
<1>4. /\ writeBuffer' \in BufferType /\ wire' \in Seq(Byte)
      /\ wire' \o peek(writeBuffer') = put /\ Len(writeBuffer'.buf) = Len(writeBuffer.buf)
  BY <1>1, <1>2, <1>3, WriteMoves, RetrieveTakes
<1> QED
  BY <1>2, <1>4, SameBufferSize
     DEF handleWriteCallBack, Inv, TypeOK, CountStops, InOrder, Growth

(* Every step keeps the invariant and lets no buffer grow for nothing.     *)
LEMMA InvStep == Inv /\ [Next]_vars => Inv' /\ [Growth]_vars
<1> SUFFICES ASSUME Inv, [Next]_vars PROVE Inv' /\ [Growth]_vars
  OBVIOUS
<1>1. CASE Next
  BY <1>1, ReadingSteps, StepLineTooLong, StepRequestLine, StepHeaderLine,
     StepTooManyHeaders, StepEmptyLine, StepWrite DEF Next, parse
<1>2. CASE UNCHANGED vars
  BY <1>2 DEF vars, Inv, TypeOK, CountStops, InOrder
<1> QED
  BY <1>1, <1>2

(* The types of HttpProcess's variables: neither the counts nor the        *)
(* indices of the buffers leave their ranges, and the parser takes no byte *)
(* that has not been read.                                                 *)
THEOREM TypeCorrect == Spec => []TypeOK
<1>1. Inv => TypeOK
  BY DEF Inv
<1> QED
  BY <1>1, InvInit, InvStep, PTL DEF Spec

(* InOrder for every stream, every way to cut it into reads and writes,    *)
(* and every size of the buffers.                                          *)
THEOREM BytesStayInOrder == Spec => []InOrder
<1>1. Inv => InOrder
  BY DEF Inv
<1> QED
  BY <1>1, InvInit, InvStep, PTL DEF Spec

(* GrowsForBacklog: dataIn and sckToBuffer reuse the space already read    *)
(* before they enlarge a buffer, whatever the stream and the sizes.        *)
THEOREM GrowthIsForBacklog == Spec => GrowsForBacklog
  BY InvInit, InvStep, PTL DEF Spec, GrowsForBacklog, Growth


-----------------------------------------------------------------------------
(* HttpReference: parse is at a line of the stream, and what it remembers  *)
(* is what the lines of the request under way say.                         *)

(* The largest element of a set.                                           *)
LEMMA MaxIs ==
  ASSUME NEW S \in SUBSET Nat, NEW m \in S, \A i \in S : i <= m
  PROVE  Max(S) = m
<1>1. m \in S /\ \A y \in S : m >= y
  OBVIOUS
<1>2. \E x \in S : \A y \in S : x >= y
  BY <1>1
<1>3. Max(S) \in S /\ \A y \in S : Max(S) >= y
  BY <1>2, Zenon DEF Max
<1>4. m >= Max(S) /\ Max(S) >= m
  BY <1>1, <1>3, Zenon
<1>5. m \in Nat /\ Max(S) \in Nat
  BY <1>3, Zenon
<1> QED
  BY <1>4, <1>5

(* Lines are positions of the stream, and there are finitely many.         *)
LEMMA LineEndsAre ==
  ASSUME NEW s \in Seq(Byte)
  PROVE  LineEnds(s) \subseteq Nat \ {0} /\ IsFiniteSet(LineEnds(s))
<1>1. LineEnds(s) \in SUBSET (1..Len(s) - 1) /\ Len(s) \in Nat
  BY DEF LineEnds
<1>2. IsFiniteSet(1..Len(s) - 1)
  BY <1>1, FS_Interval
<1> QED
  BY <1>1, <1>2, FS_Subset

(* A set of lines is finite.                                               *)
LEMMA LinesAreFinite ==
  ASSUME NEW s \in Seq(Byte), NEW L \in SUBSET LineEnds(s)
  PROVE  L \subseteq Nat \ {0} /\ IsFiniteSet(L) /\ Cardinality(L) \in Nat
<1>1. LineEnds(s) \subseteq Nat \ {0} /\ IsFiniteSet(LineEnds(s))
  BY LineEndsAre
<1>2. IsFiniteSet(L)
  BY <1>1, FS_Subset
<1> QED
  BY <1>1, <1>2, FS_CardinalityType

(* findCRLF reports the first line end in what waits.                      *)
LEMMA FindCRLFFirst ==
  ASSUME NEW b \in BufferType
  PROVE  LET at == {i \in 0..readable(b) - 2 : peek(b)[i + 1] = CR /\ peek(b)[i + 2] = LF}
         IN  /\ findCRLF(b) = npos => at = {}
             /\ findCRLF(b) # npos =>
                  findCRLF(b) \in at /\ \A j \in at : findCRLF(b) <= j
<1> DEFINE at == {i \in 0..readable(b) - 2 : peek(b)[i + 1] = CR /\ peek(b)[i + 2] = LF}
<1>1. readable(b) \in Nat /\ b.readIdx \in Nat
  BY BufferFields
<1>2. ASSUME NEW i \in 0..readable(b) - 2
      PROVE  /\ peek(b)[i + 1] = b.buf[b.readIdx + i + 1]
             /\ peek(b)[i + 2] = b.buf[b.readIdx + i + 2]
  <2>1. /\ i + 1 \in 1..readable(b) /\ b.readIdx + (i + 1) = b.readIdx + i + 1
        /\ i + 2 \in 1..readable(b) /\ b.readIdx + (i + 2) = b.readIdx + i + 2
    BY <1>1
  <2> QED BY <2>1, PeekIs
<1>3. at = CRLFs(b)
  BY <1>2 DEF CRLFs
<1>4. CRLFs(b) \subseteq Nat
  BY <1>1 DEF CRLFs
<1>5. CASE CRLFs(b) = {}
  BY <1>3, <1>5 DEF findCRLF
<1>6. CASE CRLFs(b) # {}
  <2>1. \E i \in CRLFs(b) : \A j \in CRLFs(b) : i <= j
    BY <1>4, <1>6, LeastNat
  <2>2. findCRLF(b) \in CRLFs(b) /\ \A j \in CRLFs(b) : findCRLF(b) <= j
    BY <1>6, <2>1 DEF findCRLF
  <2>3. findCRLF(b) # npos
    BY <1>4, <2>2 DEF npos
  <2> QED BY <1>3, <2>2, <2>3
<1> QED
  BY <1>5, <1>6

(* The line parse is at is the next line of the stream.                    *)
NextLine == taken + crlf + 1
LEMMA NextLineIs ==
  ASSUME Inv
  PROVE  /\ crlf = npos => \A e \in LineEnds(stream) : e > taken => e + 1 > nread
         /\ crlf # npos =>
              /\ crlf \in Nat /\ NextLine \in LineEnds(stream) /\ NextLine < nread
              /\ \A e \in LineEnds(stream) : e > taken => e >= NextLine
<1> DEFINE t == peek(readBuffer)
           at == {i \in 0..readable(readBuffer) - 2 : t[i + 1] = CR /\ t[i + 2] = LF}
<1>1. /\ stream \in Seq(Byte) /\ Len(stream) \in Nat /\ nread \in Nat /\ taken \in Nat
      /\ taken <= nread /\ nread <= Len(stream) /\ readBuffer \in BufferType
      /\ readable(readBuffer) = nread - taken
  BY BacklogLength DEF Inv, TypeOK
<1>2. \A i \in 1..nread - taken : t[i] = stream[taken + i]
  <2>1. t = SubSeq(stream, taken + 1, nread)
    BY DEF Inv, InOrder
  <2> HIDE DEF t
  <2> QED BY <1>1, <2>1
<1>3. /\ crlf = npos => at = {}
      /\ crlf # npos => crlf \in at /\ \A j \in at : crlf <= j
  BY <1>1, FindCRLFFirst DEF crlf
<1> HIDE DEF t
<1>4. ASSUME NEW i \in Nat
      PROVE  i \in at <=> (taken + i + 1 \in LineEnds(stream) /\ taken + i + 2 <= nread)
  <2>1. CASE i <= nread - taken - 2
    <3>1. /\ i + 1 \in 1..nread - taken /\ taken + (i + 1) = taken + i + 1
          /\ i + 2 \in 1..nread - taken /\ taken + (i + 2) = taken + i + 2
          /\ taken + i + 1 \in 1..Len(stream) - 1 /\ taken + i + 1 + 1 = taken + i + 2
          /\ i \in 0..readable(readBuffer) - 2
      BY <1>1, <2>1
    <3>2. t[i + 1] = stream[taken + i + 1] /\ t[i + 2] = stream[taken + i + 2]
      BY <1>2, <3>1
    <3> QED BY <1>1, <2>1, <3>1, <3>2 DEF LineEnds
  <2>2. CASE ~(i <= nread - taken - 2)
    BY <1>1, <2>2
  <2> QED BY <2>1, <2>2
<1>5. ASSUME NEW e \in LineEnds(stream), e > taken, e + 1 <= nread
      PROVE  e - taken - 1 \in at
  <2>1. e \in Nat
    BY <1>1, LineEndsAre
  <2>2. e - taken - 1 \in Nat /\ taken + (e - taken - 1) + 1 = e /\ taken + (e - taken - 1) + 2 <= nread
    BY <1>1, <1>5, <2>1
  <2> QED BY <1>4, <2>2
<1>6. at \subseteq Nat
  BY <1>1
<1> HIDE DEF at
<1>7. ASSUME crlf = npos PROVE \A e \in LineEnds(stream) : e > taken => e + 1 > nread
  <2>1. \A e \in LineEnds(stream) : e \in Nat
    BY <1>1, LineEndsAre
  <2> QED BY <1>1, <1>3, <1>5, <1>7, <2>1
<1>8. ASSUME crlf # npos
      PROVE  /\ crlf \in Nat /\ NextLine \in LineEnds(stream) /\ NextLine < nread
             /\ \A e \in LineEnds(stream) : e > taken => e >= NextLine
  <2>1. crlf \in Nat
    BY <1>3, <1>6, <1>8
  <2>2. taken + crlf + 1 \in LineEnds(stream) /\ taken + crlf + 2 <= nread
    BY <1>3, <1>4, <1>8, <2>1
  <2>3. ASSUME NEW e \in LineEnds(stream), e > taken PROVE e >= taken + crlf + 1
    <3>1. e \in Nat
      BY <1>1, LineEndsAre
    <3>2. CASE e + 1 <= nread
      BY <1>1, <1>3, <1>5, <1>8, <2>1, <2>3, <3>1, <3>2
    <3>3. CASE ~(e + 1 <= nread)
      BY <1>1, <2>1, <2>2, <3>1, <3>3
    <3> QED BY <3>2, <3>3
  <2> QED BY <1>1, <2>1, <2>2, <2>3 DEF NextLine
<1> QED
  BY <1>7, <1>8

(* What parse has taken ends with a line.                                  *)
AtLine == taken = 0 \/ taken - 1 \in LineEnds(stream)

(* Bytes taken end with LF, and a line is named by its CR.                 *)
LEMMA TakenIsNoLine ==
  ASSUME Inv, AtLine
  PROVE  taken \notin LineEnds(stream)
<1>1. taken \in Nat /\ LineEnds(stream) \subseteq Nat \ {0}
  BY BacklogLength, LineEndsAre DEF Inv, TypeOK
<1>2. CASE taken = 0
  BY <1>1, <1>2
<1>3. CASE taken - 1 \in LineEnds(stream)
  <2>1. taken - 1 + 1 = taken
    BY <1>1
  <2>2. stream[taken] = LF
    BY <1>3, <2>1 DEF LineEnds
  <2> QED BY <2>2, BufferAssumption DEF LineEnds
<1> QED
  BY <1>2, <1>3 DEF AtLine

(* No line end lies between what has been taken and the next line.         *)
LEMMA NoneBetween ==
  ASSUME Inv, AtLine, crlf # npos
  PROVE  Before(stream, NextLine) = Before(stream, taken)
<1>1. /\ taken \in Nat /\ LineEnds(stream) \subseteq Nat \ {0}
  BY BacklogLength, LineEndsAre DEF Inv, TypeOK
<1>2. /\ crlf \in Nat /\ \A e \in LineEnds(stream) : e > taken => e >= NextLine
  BY NextLineIs
<1>3. taken \notin LineEnds(stream)
  BY TakenIsNoLine
<1>4. NextLine \in Nat /\ NextLine > taken
  BY <1>1, <1>2 DEF NextLine
<1>5. ASSUME NEW i \in LineEnds(stream) PROVE i < NextLine <=> i < taken
  <2>1. i \in Nat /\ i # taken
    BY <1>1, <1>3
  <2>2. i > taken => i >= NextLine
    BY <1>2
  <2> QED BY <1>1, <1>4, <2>1, <2>2
<1> QED
  BY <1>5 DEF Before

(* The text of the next line is the line parse sees.                       *)
LEMMA TextIsLine ==
  ASSUME Inv, AtLine, crlf # npos
  PROVE  /\ Text(stream, NextLine) = Line
         /\ Line \in Seq(Byte) /\ Len(Line) = crlf /\ (Line = <<>> <=> crlf = 0)
<1>1. /\ stream \in Seq(Byte) /\ Len(stream) \in Nat /\ nread \in Nat /\ taken \in Nat
      /\ taken <= nread /\ nread <= Len(stream)
  BY BacklogLength DEF Inv, TypeOK
<1>2. crlf \in Nat /\ NextLine < nread
  BY NextLineIs
<1>3. peek(readBuffer) = SubSeq(stream, taken + 1, nread)
  BY DEF Inv, InOrder
<1>4. Text(stream, NextLine) = SubSeq(stream, taken + 1, taken + crlf)
  <2> DEFINE B == Before(stream, NextLine)
  <2>1. B = {i \in LineEnds(stream) : i < taken}
    BY NoneBetween DEF Before
  <2>2. Text(stream, NextLine) = SubSeq(stream, IF B = {} THEN 1 ELSE Max(B) + 2, NextLine - 1)
    BY DEF Text
  <2> HIDE DEF B
  <2>3. LineEnds(stream) \subseteq Nat \ {0}
    BY <1>1, LineEndsAre
  <2>4. NextLine - 1 = taken + crlf
    BY <1>1, <1>2 DEF NextLine
  <2>5. CASE taken = 0
    <3>1. B = {}
      BY <2>1, <2>3, <2>5
    <3>2. taken + 1 = 1
      BY <2>5
    <3> QED BY <2>2, <2>4, <3>1, <3>2
  <2>6. CASE taken # 0
    <3>1. taken - 1 \in B /\ B \in SUBSET Nat /\ \A i \in B : i <= taken - 1
      BY <1>1, <2>1, <2>3, <2>6 DEF AtLine
    <3>2. Max(B) = taken - 1
      BY <3>1, MaxIs
    <3>3. Max(B) + 2 = taken + 1 /\ B # {}
      BY <1>1, <3>1, <3>2
    <3> QED BY <2>2, <2>4, <3>3
  <2> QED BY <2>5, <2>6
<1>5. /\ SubSeq(stream, taken + 1, taken + crlf) \in Seq(Byte)
      /\ Len(SubSeq(stream, taken + 1, taken + crlf)) = crlf
      /\ SubSeq(SubSeq(stream, taken + 1, nread), 1, crlf) = SubSeq(stream, taken + 1, taken + crlf)
  <2> DEFINE t == SubSeq(stream, taken + 1, nread)
             u == SubSeq(t, 1, crlf)
             v == SubSeq(stream, taken + 1, taken + crlf)
  <2>1. crlf <= nread - taken /\ taken + crlf <= Len(stream)
    BY <1>1, <1>2 DEF NextLine
  <2>2. t \in Seq(Byte) /\ Len(t) = nread - taken /\ \A i \in 1..nread - taken : t[i] = stream[taken + i]
    BY <1>1
  <2>3. v \in Seq(Byte) /\ Len(v) = crlf /\ \A i \in 1..crlf : v[i] = stream[taken + i]
    <3> DEFINE c == taken + crlf
    <3>1. c \in taken..Len(stream) /\ c - taken = crlf
      BY <1>1, <1>2, <2>1
    <3> HIDE DEF c
    <3>2. /\ SubSeq(stream, taken + 1, c) \in Seq(Byte)
          /\ Len(SubSeq(stream, taken + 1, c)) = c - taken
          /\ \A i \in 1..c - taken : SubSeq(stream, taken + 1, c)[i] = stream[taken + i]
      BY <1>1, <3>1
    <3> QED BY <3>1, <3>2 DEF c
  <2> HIDE DEF t, v
  <2>4. u \in Seq(Byte) /\ Len(u) = crlf /\ \A i \in 1..crlf : u[i] = t[i]
    BY <1>2, <2>1, <2>2
  <2> HIDE DEF u
  <2>5. ASSUME NEW i \in 1..Len(u) PROVE u[i] = v[i]
    <3>1. i \in 1..crlf /\ i \in 1..nread - taken
      BY <1>1, <1>2, <2>1, <2>4
    <3> QED BY <2>2, <2>3, <2>4, <3>1
  <2>6. u = v
    BY <2>3, <2>4, <2>5, SeqEqual
  <2> QED BY <2>3, <2>6 DEF t, u, v
<1>6. Line = SubSeq(stream, taken + 1, taken + crlf)
  BY <1>3, <1>5 DEF Line
<1>7. Line \in Seq(Byte) /\ Len(Line) = crlf
  BY <1>5, <1>6
<1>8. Line = <<>> <=> Len(Line) = 0
  BY <1>7, EmptySeq
<1> QED
  BY <1>4, <1>6, <1>7, <1>8

(* The lines of the request under way, before and behind the next line.    *)
LEMMA RequestGoesOn ==
  ASSUME Inv, AtLine, crlf # npos
  PROVE  /\ Earlier(stream, NextLine) = Earlier(stream, taken)
         /\ Before(stream, NextLine + 1) = Before(stream, taken) \cup {NextLine}
         /\ Earlier(stream, NextLine + 1) =
              IF Line = <<>> THEN {} ELSE Earlier(stream, taken) \cup {NextLine}
<1> DEFINE B == Before(stream, taken)
<1>1. /\ NextLine \in LineEnds(stream) /\ LineEnds(stream) \subseteq Nat
  BY NextLineIs, LineEndsAre DEF Inv, TypeOK
<1>2. Before(stream, NextLine) = B /\ Text(stream, NextLine) = Line
  BY NoneBetween, TextIsLine
<1>3. Before(stream, NextLine + 1) = B \cup {NextLine}
  <2>1. \A i \in LineEnds(stream) : i < NextLine + 1 <=> i < NextLine \/ i = NextLine
    BY <1>1
  <2> QED BY <1>1, <1>2, <2>1 DEF Before
<1>4. \A i \in B : i < NextLine /\ i \in Nat /\ NextLine \in Nat
  BY <1>1, <1>2 DEF Before
<1>5. Earlier(stream, NextLine) = Earlier(stream, taken)
  BY <1>2 DEF Earlier
<1>6. Earlier(stream, NextLine + 1)
        = {i \in B \cup {NextLine} : \A j \in B \cup {NextLine} : i <= j => Text(stream, j) # <<>>}
  BY <1>3 DEF Earlier
<1>7. Earlier(stream, taken) = {i \in B : \A j \in B : i <= j => Text(stream, j) # <<>>}
  BY DEF Earlier
<1> HIDE DEF B
<1>8. CASE Line = <<>>
  <2>1. \A i \in B \cup {NextLine} : i <= NextLine
    BY <1>1, <1>4
  <2> QED BY <1>2, <1>3, <1>5, <1>6, <1>8, <2>1 DEF B
<1>9. CASE Line # <<>>
  <2>1. \A i \in B : ~(NextLine <= i)
    BY <1>4
  <2>2. ASSUME NEW i
        PROVE  i \in Earlier(stream, NextLine + 1) <=> i \in Earlier(stream, taken) \cup {NextLine}
    BY <1>2, <1>6, <1>7, <1>9, <2>1
  <2>3. Earlier(stream, NextLine + 1) = Earlier(stream, taken) \cup {NextLine}
    BY <2>2
  <2> QED BY <1>3, <1>5, <1>9, <2>3 DEF B
<1> QED
  BY <1>8, <1>9

-----------------------------------------------------------------------------
(* The inductive invariant of SameForAnyCut.                               *)

(* The parser knows the lines of the request under way, and no others.     *)
Knows(p, lines) ==
  IF lines = {} THEN p = NewRequest
  ELSE /\ p.state = "kExpectHeaders"
       /\ p.headerLineCount = Cardinality(lines) - 1
       /\ p.keepAlive <=> KeepsAlive(stream, lines)
       /\ p.body <=> HasBody(stream, lines)
Current == Earlier(stream, taken)

(* While parsing may go on, no line that ends it has been taken, and the   *)
(* results are those of the lines taken.                                   *)
Done == Answered(stream) \cap Before(stream, taken)
Parsing == pc \in {"read", "parse"} \/ (pc = "wait" /\ reading)
UpToDate ==
  /\ AtLine
  /\ \A e \in Before(stream, taken) : ~Stops(stream, e)
  /\ Len(results) = Cardinality(Done)
  /\ Knows(parser, Current)

(* parse goes back to wait for more only when no whole line is left.       *)
AllParsed ==
  pc = "wait" /\ reading => \A e \in LineEnds(stream) : e > taken => e + 1 > nread

Agrees ==
  /\ stream \in Streams
  /\ IsPrefix(results, Expected[stream])
  /\ Parsing => UpToDate
  /\ AllParsed

(* Outcomes are results of parse, and those of a stream are a sequence.    *)
LEMMA ExpectedIs ==
  ASSUME NEW s \in Streams
  PROVE  /\ \A e : Outcome(s, e) \in Result
         /\ Cardinality(Answered(s)) \in Nat
         /\ Expected[s] \in Seq(Result) /\ Len(Expected[s]) = Cardinality(Answered(s))
         /\ \A n \in 1..Cardinality(Answered(s)) : Expected[s][n] = Outcome(s, Nth(s, n))
<1>1. ASSUME NEW e PROVE Outcome(s, e) \in Result
  <2>1. KeepsAlive(s, Earlier(s, e)) \in BOOLEAN
    BY DEF KeepsAlive
  <2> DEFINE k == KeepsAlive(s, Earlier(s, e))
  <2>2. /\ [kind |-> "kComplete", keepAlive |-> k] \in Result
        /\ [kind |-> "kLineTooLong"] \in Result
        /\ [kind |-> "kError"] \in Result
    <3> HIDE DEF k
    <3>1. k \in BOOLEAN
      BY <2>1 DEF k
    <3> QED BY <3>1 DEF Result
  <2> QED BY <2>2, Zenon DEF Outcome
<1>2. Cardinality(Answered(s)) \in Nat
  <2>1. Answered(s) \in SUBSET LineEnds(s)
    BY DEF Answered
  <2>2. s \in Seq(Byte)
    BY HttpAssumption
  <2> QED BY <2>1, <2>2, LinesAreFinite
<1> DEFINE n == Cardinality(Answered(s))
<1>3. Expected[s] = [i \in 1..n |-> Outcome(s, Nth(s, i))]
  BY Zenon DEF Expected
<1> HIDE DEF n
<1>4. Expected[s] \in [1..n -> Result]
  BY <1>1, <1>3, Zenon
<1>5. Expected[s] \in Seq(Result) /\ Len(Expected[s]) = n
  BY <1>2, <1>4, FcnIsSeq, Zenon DEF n
<1>6. \A i \in 1..n : Expected[s][i] = Outcome(s, Nth(s, i))
  BY <1>3, Zenon
<1> QED
  BY <1>1, <1>2, <1>5, <1>6 DEF n

(* A prefix grows by the next element.                                     *)
LEMMA PrefixGrows ==
  ASSUME NEW S, NEW s \in Seq(S), NEW t \in Seq(S), IsPrefix(s, t), Len(s) < Len(t)
  PROVE  IsPrefix(Append(s, t[Len(s) + 1]), t)
<1> DEFINE n == Len(s)  u == Append(s, t[Len(s) + 1])
<1>1. n \in Nat /\ Len(t) \in Nat /\ n + 1 \in 1..Len(t)
  OBVIOUS
<1>2. t[n + 1] \in S
  BY <1>1
<1>3. u \in Seq(S) /\ Len(u) = n + 1 /\ u[n + 1] = t[n + 1] /\ \A i \in 1..n : u[i] = s[i]
  BY <1>2
<1>4. \A i \in 1..n : s[i] = t[i]
  <2>1. SubSeq(s, 1, n) = SubSeq(t, 1, n)
    BY DEF IsPrefix
  <2>2. \A i \in 1..n : SubSeq(s, 1, n)[i] = s[i] /\ SubSeq(t, 1, n)[i] = t[i]
    BY <1>1
  <2> QED BY <2>1, <2>2
<1> HIDE DEF n, u
<1>5. \A i \in 1..n + 1 : u[i] = t[i]
  BY <1>1, <1>3, <1>4
<1>6. /\ SubSeq(u, 1, n + 1) \in Seq(S) /\ Len(SubSeq(u, 1, n + 1)) = n + 1
      /\ \A i \in 1..n + 1 : SubSeq(u, 1, n + 1)[i] = u[i]
  BY <1>1, <1>3
<1>7. /\ SubSeq(t, 1, n + 1) \in Seq(S) /\ Len(SubSeq(t, 1, n + 1)) = n + 1
      /\ \A i \in 1..n + 1 : SubSeq(t, 1, n + 1)[i] = t[i]
  BY <1>1
<1>8. SubSeq(u, 1, n + 1) = SubSeq(t, 1, n + 1)
  BY <1>5, <1>6, <1>7, SeqEqual
<1>9. IsPrefix(u, t)
  BY <1>1, <1>3, <1>8 DEF IsPrefix
<1> QED
  BY <1>9 DEF u, n

(* A complete prefix is the sequence.                                      *)
LEMMA PrefixIsAll ==
  ASSUME NEW S, NEW s \in Seq(S), NEW t \in Seq(S), IsPrefix(s, t), Len(s) = Len(t)
  PROVE  s = t
<1>1. SubSeq(s, 1, Len(s)) = SubSeq(t, 1, Len(t))
  BY DEF IsPrefix
<1> QED
  BY <1>1, SubSeqFull

(* The line with n answered ones up to it is the n-th.                     *)
LEMMA NthIs ==
  ASSUME NEW s \in Seq(Byte), NEW e \in Answered(s)
  PROVE  Nth(s, Cardinality({i \in Answered(s) : i <= e})) = e
<1> DEFINE UpTo(x) == {i \in Answered(s) : i <= x}  n == Cardinality(UpTo(e))
<1>1. \A x \in Answered(s) : UpTo(x) \in SUBSET LineEnds(s) /\ x \in Nat
  BY LineEndsAre DEF Answered
<1>2. \A x \in Answered(s) : IsFiniteSet(UpTo(x))
  BY <1>1, LinesAreFinite, Zenon
<1>3. ASSUME NEW x \in Answered(s), NEW y \in Answered(s), x < y
      PROVE  Cardinality(UpTo(x)) # Cardinality(UpTo(y))
  <2>1. UpTo(x) \in SUBSET UpTo(y)
    BY <1>1, <1>3
  <2>2. y \in UpTo(y) /\ y \notin UpTo(x)
    BY <1>1, <1>3
  <2>3. UpTo(x) # UpTo(y)
    BY <2>2
  <2> HIDE DEF UpTo
  <2> QED BY <1>2, <2>1, <2>3, FS_Subset
<1>4. ASSUME NEW x \in Answered(s), Cardinality(UpTo(x)) = n PROVE x = e
  <2>1. ~(x < e) /\ ~(e < x)
    BY <1>3, <1>4, Zenon
  <2>2. x \in Nat /\ e \in Nat
    BY <1>1
  <2> QED BY <2>1, <2>2
<1>5. \E x \in Answered(s) : Cardinality(UpTo(x)) = n
  OBVIOUS
<1>6. Nth(s, n) = CHOOSE x \in Answered(s) : Cardinality(UpTo(x)) = n
  BY Zenon DEF Nth
<1> HIDE DEF UpTo, n
<1>7. Nth(s, n) \in Answered(s) /\ Cardinality(UpTo(Nth(s, n))) = n
  BY <1>5, <1>6, Zenon
<1>8. Nth(s, n) = e
  BY <1>4, <1>7, Zenon
<1> QED
  BY <1>8 DEF UpTo, n

(* The next line, if it is answered, is the next of those expected.        *)
LEMMA NextResult ==
  ASSUME Inv, Agrees, UpToDate, crlf # npos, NextLine \in Answered(stream)
  PROVE  /\ IsPrefix(Append(results, Outcome(stream, NextLine)), Expected[stream])
         /\ Cardinality(Done \cup {NextLine}) = Len(results) + 1
<1> DEFINE A == Answered(stream)  n == Len(results)  D == Done \cup {NextLine}
<1>1. stream \in Streams /\ stream \in Seq(Byte) /\ results \in Seq(Result) /\ n \in Nat
  BY DEF Agrees, Inv, TypeOK
<1>2. NextLine \in LineEnds(stream) /\ LineEnds(stream) \subseteq Nat
      /\ Before(stream, NextLine) = Before(stream, taken)
  BY <1>1, NextLineIs, NoneBetween, LineEndsAre DEF UpToDate
<1>3. A \subseteq LineEnds(stream) /\ Done \in SUBSET LineEnds(stream) /\ D \in SUBSET A
  BY DEF Answered, Done
<1>4. D = {i \in A : i <= NextLine}
  <2>1. ASSUME NEW i \in A PROVE i <= NextLine <=> i \in Before(stream, taken) \/ i = NextLine
    <3>1. i \in LineEnds(stream) /\ i \in Nat /\ NextLine \in Nat
      BY <1>2, <1>3
    <3>2. i < NextLine <=> i \in Before(stream, taken)
      BY <1>2, <3>1 DEF Before
    <3> QED BY <3>1, <3>2
  <2> QED BY <2>1 DEF Done
<1>5. NextLine \notin Done /\ IsFiniteSet(Done) /\ IsFiniteSet(A)
  <2>1. NextLine \notin Before(stream, NextLine)
    BY <1>2 DEF Before
  <2>2. IsFiniteSet(Done) /\ IsFiniteSet(A)
    BY <1>1, <1>3, LinesAreFinite, Zenon
  <2> QED BY <1>2, <2>1, <2>2 DEF Done
<1>6. Cardinality(Done) = n
  BY DEF UpToDate
<1>7. Cardinality(D) = n + 1
  BY <1>5, <1>6, FS_AddElement
<1>8. Nth(stream, n + 1) = NextLine
  BY <1>1, <1>4, <1>7, NthIs
<1>9. n + 1 <= Cardinality(A) /\ Cardinality(A) \in Nat
  BY <1>3, <1>5, <1>7, FS_Subset, FS_CardinalityType
<1> HIDE DEF n, A, D
<1>10. /\ Expected[stream] \in Seq(Result) /\ Len(Expected[stream]) = Cardinality(A)
       /\ Expected[stream][n + 1] = Outcome(stream, NextLine)
  <2>1. n + 1 \in 1..Cardinality(A)
    BY <1>1, <1>9
  <2> QED BY <1>1, <1>8, <2>1, ExpectedIs DEF A
<1>11. Len(results) < Len(Expected[stream])
  BY <1>1, <1>9, <1>10 DEF n
<1>12. IsPrefix(results, Expected[stream])
  BY DEF Agrees
<1>13. IsPrefix(Append(results, Expected[stream][n + 1]), Expected[stream])
  BY <1>1, <1>10, <1>11, <1>12, PrefixGrows DEF n
<1> QED
  BY <1>7, <1>10, <1>13 DEF n, D

(* A step that answers a line for the last time.                           *)
LEMMA StopAgrees ==
  ASSUME Inv, Agrees, UpToDate, crlf # npos, Stops(stream, NextLine),
         stream' = stream, Return(Outcome(stream, NextLine)),
         pc' \in {"wait", "closed"}, ~reading'
  PROVE  Agrees'
<1>1. NextLine \in Answered(stream)
  <2>1. NextLine \in LineEnds(stream) /\ Before(stream, NextLine) = Before(stream, taken)
    BY NextLineIs, NoneBetween DEF UpToDate
  <2> QED BY <2>1 DEF Answered, UpToDate
<1>2. IsPrefix(results', Expected[stream])
  BY <1>1, NextResult DEF Return
<1>3. ~Parsing' /\ ~(pc' = "wait" /\ reading')
  BY DEF Parsing
<1> QED
  BY <1>2, <1>3 DEF Agrees, AllParsed

(* A step that takes a line behind which parsing goes on.                  *)
LEMMA LineAgrees ==
  ASSUME Inv, Agrees, UpToDate, retrieveLine, ~Stops(stream, NextLine),
         stream' = stream, pc' \in {"parse", "closed"},
         Line = <<>> => Return(Outcome(stream, NextLine)) /\ parser' = NewRequest,
         Line # <<>> => results' = results /\ Knows(parser', Current \cup {NextLine})
  PROVE  Agrees'
<1>1. crlf # npos /\ taken' = taken + crlf + 2
  BY DEF retrieveLine
<1>2. /\ stream \in Seq(Byte) /\ taken \in Nat /\ crlf \in Nat /\ NextLine \in LineEnds(stream)
  BY <1>1, NextLineIs, BacklogLength DEF Inv, TypeOK
<1>3. taken' = NextLine + 1 /\ taken' - 1 = NextLine
  BY <1>1, <1>2 DEF NextLine
<1>4. /\ Before(stream, NextLine) = Before(stream, taken)
      /\ Text(stream, NextLine) = Line
      /\ Before(stream, taken') = Before(stream, taken) \cup {NextLine}
      /\ Earlier(stream, taken') = IF Line = <<>> THEN {} ELSE Current \cup {NextLine}
  BY <1>1, <1>3, NoneBetween, TextIsLine, RequestGoesOn DEF UpToDate, Current
<1>5. \A e \in Before(stream, taken') : ~Stops(stream, e)
  BY <1>4 DEF UpToDate
<1>6. NextLine \in Answered(stream) <=> Line = <<>>
  BY <1>2, <1>4 DEF Answered, UpToDate
<1>7. IsPrefix(results', Expected[stream]) /\ Len(results') = Cardinality(Done')
  <2>1. Done' = Answered(stream) \cap (Before(stream, taken) \cup {NextLine})
    BY <1>4 DEF Done
  <2>2. CASE Line = <<>>
    <3>1. Done' = Done \cup {NextLine} /\ results' = Append(results, Outcome(stream, NextLine))
      BY <1>6, <2>1, <2>2 DEF Done, Return
    <3>2. Len(results') = Len(results) + 1
      BY <3>1 DEF Inv, TypeOK
    <3> QED BY <1>1, <1>6, <2>2, <3>1, <3>2, NextResult
  <2>3. CASE Line # <<>>
    <3>1. Done' = Done
      BY <1>6, <2>1, <2>3 DEF Done
    <3> QED BY <2>3, <3>1 DEF Agrees, UpToDate
  <2> QED BY <2>2, <2>3
<1>8. Knows(parser, Current)'
  <2>1. Current' = IF Line = <<>> THEN {} ELSE Current \cup {NextLine}
    BY <1>4 DEF Current
  <2>2. CASE Line = <<>>
    <3>1. Current' = {} /\ parser' = NewRequest
      BY <2>1, <2>2
    <3> QED BY <3>1 DEF Knows
  <2>3. CASE Line # <<>>
    <3> DEFINE L == Current \cup {NextLine}
    <3>1. Current' = L /\ Knows(parser', L) /\ L # {}
      BY <2>1, <2>3
    <3> HIDE DEF L
    <3> QED BY <3>1 DEF Knows
  <2> QED BY <2>2, <2>3
<1>9. AtLine'
  BY <1>2, <1>3 DEF AtLine
<1>10. UpToDate'
  BY <1>5, <1>7, <1>8, <1>9 DEF UpToDate
<1> QED
  BY <1>7, <1>10 DEF Agrees, AllParsed

(* What parse should make of the line it is at.                            *)
LEMMA Verdict ==
  ASSUME Inv, Agrees, UpToDate, crlf # npos
  PROVE  LET e == NextLine
             long == crlf > MaxLineLen \/ (crlf > 0 /\ Cardinality(Current) > MaxHeaders)
             header == Current # {} /\ crlf > 0
             stops == \/ long
                      \/ Current = {} /\ Line \notin {<<"G">>, <<"O">>}
                      \/ header /\ HeaderKind(Line) = "bad"
                      \/ crlf = 0 /\ HasBody(stream, Current)
         IN  /\ Stops(stream, e) <=> stops
             /\ long => Outcome(stream, e) = [kind |-> "kLineTooLong"]
             /\ ~stops => Outcome(stream, e) =
                            [kind |-> "kComplete", keepAlive |-> KeepsAlive(stream, Current)]
             /\ ~long /\ stops => Outcome(stream, e) = [kind |-> "kError"]
<1>1. /\ Text(stream, NextLine) = Line /\ Earlier(stream, NextLine) = Current
      /\ Len(Line) = crlf /\ (Line = <<>> <=> crlf = 0)
  BY TextIsLine, RequestGoesOn DEF UpToDate, Current
<1>2. crlf \in Nat
  BY NextLineIs
<1>3. Line # <<>> <=> crlf > 0
  BY <1>1, <1>2
<1> DEFINE long == crlf > MaxLineLen \/ (crlf > 0 /\ Cardinality(Current) > MaxHeaders)
           header == Current # {} /\ crlf > 0
           stops == \/ long
                    \/ Current = {} /\ Line \notin {<<"G">>, <<"O">>}
                    \/ header /\ HeaderKind(Line) = "bad"
                    \/ crlf = 0 /\ HasBody(stream, Current)
<1>4. TooLong(stream, NextLine) <=> long
  BY <1>1, <1>3, Zenon DEF TooLong
<1>5. IsHeader(stream, NextLine) <=> header
  BY <1>1, <1>3, Zenon DEF IsHeader
<1> HIDE DEF long, header
<1>6. Stops(stream, NextLine) <=> stops
  BY <1>1, <1>4, <1>5, Zenon DEF Stops
<1>7. long => stops
  OBVIOUS
<1> HIDE DEF stops
<1>8. long => Outcome(stream, NextLine) = [kind |-> "kLineTooLong"]
  BY <1>4, Zenon DEF Outcome
<1>9. ~stops => Outcome(stream, NextLine) =
                  [kind |-> "kComplete", keepAlive |-> KeepsAlive(stream, Current)]
  BY <1>1, <1>4, <1>6, <1>7, Zenon DEF Outcome
<1>10. ~long /\ stops => Outcome(stream, NextLine) = [kind |-> "kError"]
  BY <1>4, <1>6, Zenon DEF Outcome
<1> QED
  BY <1>6, <1>8, <1>9, <1>10 DEF long, header, stops

(* The lines of the request under way.                                     *)
LEMMA CurrentIs ==
  ASSUME Inv
  PROVE  /\ Current \in SUBSET LineEnds(stream) /\ Current \subseteq Nat
         /\ IsFiniteSet(Current) /\ Cardinality(Current) \in Nat
         /\ Cardinality(Current) = 0 <=> Current = {}
         /\ AtLine /\ crlf # npos =>
              /\ \A i \in Current : i < NextLine
              /\ NextLine \in LineEnds(stream) /\ NextLine \in Nat
              /\ Text(stream, NextLine) = Line
              /\ Current \cup {NextLine} \in SUBSET Nat
              /\ Cardinality(Current \cup {NextLine}) = Cardinality(Current) + 1
<1>1. stream \in Seq(Byte)
  BY DEF Inv, TypeOK
<1>2. Current \in SUBSET LineEnds(stream) /\ \A i \in Current : i \in Before(stream, taken)
  BY DEF Current, Earlier, Before
<1>3. Current \subseteq Nat /\ IsFiniteSet(Current) /\ Cardinality(Current) \in Nat
  BY <1>1, <1>2, LinesAreFinite
<1>4. Cardinality(Current) = 0 <=> Current = {}
  BY <1>3, FS_EmptySet
<1>5. ASSUME AtLine, crlf # npos
      PROVE  /\ \A i \in Current : i < NextLine
             /\ NextLine \in LineEnds(stream) /\ NextLine \in Nat
             /\ Text(stream, NextLine) = Line
             /\ Current \cup {NextLine} \in SUBSET Nat
             /\ Cardinality(Current \cup {NextLine}) = Cardinality(Current) + 1
  <2>1. NextLine \in LineEnds(stream) /\ NextLine \in Nat
    BY <1>1, <1>5, NextLineIs, LineEndsAre
  <2>2. Before(stream, NextLine) = Before(stream, taken) /\ Text(stream, NextLine) = Line
    BY <1>5, NoneBetween, TextIsLine
  <2>3. \A i \in Current : i < NextLine
    BY <1>2, <2>2 DEF Before
  <2>4. NextLine \notin Current
    BY <2>1, <2>3
  <2> QED BY <1>3, <2>1, <2>2, <2>3, <2>4, FS_AddElement
<1> QED
  BY <1>2, <1>3, <1>4, <1>5

(* The last line that says something decides, and the one parse is at is   *)
(* the last.                                                               *)
LEMMA DecidesLast ==
  ASSUME Inv, AtLine, crlf # npos
  PROVE  LET lines == Current \cup {NextLine}
         IN  /\ AboutConnection(Line) =>
                  (KeepsAlive(stream, lines) <=> Line = <<"G">> \/ HeaderKind(Line) = "k")
             /\ ~AboutConnection(Line) =>
                  (KeepsAlive(stream, lines) <=> KeepsAlive(stream, Current))
             /\ AboutLength(Line) =>
                  (HasBody(stream, lines) <=> HeaderKind(Line) \in {"n", "v"})
             /\ ~AboutLength(Line) =>
                  (HasBody(stream, lines) <=> HasBody(stream, Current))
<1> DEFINE L == Current \cup {NextLine}
           C(lines) == {i \in lines : AboutConnection(Text(stream, i))}
           B(lines) == {i \in lines : AboutLength(Text(stream, i))}
<1>1. /\ \A i \in Current : i < NextLine /\ i \in Nat
      /\ NextLine \in Nat /\ Text(stream, NextLine) = Line
      /\ L \in SUBSET Nat
  BY CurrentIs
<1>2. \A i \in L : i <= NextLine
  BY <1>1
<1>3. AboutConnection(Line) => Max(C(L)) = NextLine
  <2>1. C(L) \in SUBSET Nat /\ \A i \in C(L) : i <= NextLine
    BY <1>1, <1>2
  <2>2. AboutConnection(Line) => NextLine \in C(L)
    BY <1>1
  <2> QED BY <2>1, <2>2, MaxIs
<1>4. AboutLength(Line) => Max(B(L)) = NextLine /\ B(L) # {}
  <2>1. B(L) \in SUBSET Nat /\ \A i \in B(L) : i <= NextLine
    BY <1>1, <1>2
  <2>2. AboutLength(Line) => NextLine \in B(L)
    BY <1>1
  <2> QED BY <2>1, <2>2, MaxIs
<1>5. ~AboutConnection(Line) => C(L) = C(Current)
  BY <1>1
<1>6. ~AboutLength(Line) => B(L) = B(Current)
  BY <1>1
<1>7. \A lines : KeepsAlive(stream, lines)
        <=> \/ Text(stream, Max(C(lines))) = <<"G">>
            \/ HeaderKind(Text(stream, Max(C(lines)))) = "k"
  BY Zenon DEF KeepsAlive
<1>8. \A lines : HasBody(stream, lines)
        <=> B(lines) # {} /\ HeaderKind(Text(stream, Max(B(lines)))) \in {"n", "v"}
  BY Zenon DEF HasBody
<1> HIDE DEF L, C, B
<1> QED
  BY <1>1, <1>3, <1>4, <1>5, <1>6, <1>7, <1>8, Zenon DEF L

(* A request line is no header.                                            *)
LEMMA RequestLineKind == HeaderKind(<<"G">>) = "bad" /\ HeaderKind(<<"O">>) = "bad"
<1>1. DOMAIN <<"G">> = {1} /\ DOMAIN <<"O">> = {1}
  OBVIOUS
<1> QED
  BY <1>1 DEF HeaderKind, Letter

(* While a line is parsed, parse is up to date.                            *)
LEMMA AtWork ==
  ASSUME Inv, Agrees, pc = "parse"
  PROVE  /\ UpToDate /\ AtLine /\ MaxHeaders \in Nat /\ MaxLineLen \in Nat
         /\ crlf # npos => crlf \in Nat
         /\ parser.state = "kExpectRequestLine" => Current = {} /\ parser = NewRequest
         /\ parser.state = "kExpectHeaders" =>
              /\ Current # {}
              /\ parser.headerLineCount = Cardinality(Current) - 1
              /\ parser.keepAlive <=> KeepsAlive(stream, Current)
              /\ parser.body <=> HasBody(stream, Current)
<1>1. UpToDate
  BY DEF Agrees, Parsing
<1>2. AtLine /\ Knows(parser, Current)
  BY <1>1 DEF UpToDate
<1>3. NewRequest.state = "kExpectRequestLine"
  BY DEF NewRequest
<1>4. parser.state = "kExpectRequestLine" => Current = {} /\ parser = NewRequest
  BY <1>2 DEF Knows
<1>5. ASSUME parser.state = "kExpectHeaders"
      PROVE  /\ Current # {}
             /\ parser.headerLineCount = Cardinality(Current) - 1
             /\ parser.keepAlive <=> KeepsAlive(stream, Current)
             /\ parser.body <=> HasBody(stream, Current)
  <2>1. Current # {}
    BY <1>2, <1>3, <1>5 DEF Knows
  <2> QED BY <1>2, <2>1, Zenon DEF Knows
<1> QED
  BY <1>1, <1>2, <1>4, <1>5, NextLineIs, HttpAssumption

(* A 400 is the end.                                                       *)
LEMMA BadRequestAgrees ==
  ASSUME Inv, Agrees, UpToDate, crlf # npos, Stops(stream, NextLine), stream' = stream, badRequest,
         Outcome(stream, NextLine) = [kind |-> "kError"]
  PROVE  Agrees'
<1>1. Return(Outcome(stream, NextLine)) /\ Send(<<"!">>, FALSE, "wait")
  BY Zenon DEF badRequest
<1>2. ~reading' /\ pc' \in {"wait", "closed"}
  BY <1>1 DEF Send
<1> QED
  BY <1>1, <1>2, StopAgrees

(* So is a line that is too long, or one too many.                         *)
LEMMA LineTooLongAgrees ==
  ASSUME Inv, Agrees, lineTooLong \/ tooManyHeaders
  PROVE  Agrees'
<1>1. pc = "parse" /\ crlf # npos /\ stream' = stream /\ LineTooLong
  BY DEF lineTooLong, tooManyHeaders, retrieveLine
<1>2. crlf > MaxLineLen \/ (crlf > 0 /\ Cardinality(Current) > MaxHeaders)
  <2>1. CASE lineTooLong
    BY <2>1 DEF lineTooLong
  <2>2. CASE tooManyHeaders
    <3>1. parser.state = "kExpectHeaders" /\ crlf > 0 /\ parser.headerLineCount >= MaxHeaders
      BY <2>2 DEF tooManyHeaders
    <3>2. parser.headerLineCount = Cardinality(Current) - 1
      BY <1>1, <3>1, AtWork
    <3> QED BY <1>1, <3>1, <3>2, AtWork, CurrentIs
  <2> QED BY <2>1, <2>2
<1>3. UpToDate
  BY <1>1, AtWork
<1>4. Stops(stream, NextLine) /\ Outcome(stream, NextLine) = [kind |-> "kLineTooLong"]
  BY <1>1, <1>2, <1>3, Verdict
<1>5. /\ Return(Outcome(stream, NextLine))
      /\ ~reading' /\ pc' \in {"wait", "closed"}
  BY <1>1, <1>4 DEF LineTooLong
<1> QED
  BY <1>1, <1>3, <1>4, <1>5, StopAgrees

(* A request line starts a request or ends everything.                     *)
LEMMA RequestLineAgrees ==
  ASSUME Inv, Agrees, requestLine
  PROVE  Agrees'
<1>1. /\ pc = "parse" /\ crlf # npos /\ stream' = stream /\ retrieveLine
      /\ parser.state = "kExpectRequestLine" /\ crlf <= MaxLineLen
  BY DEF requestLine, retrieveLine
<1>2. UpToDate /\ AtLine /\ Current = {} /\ parser = NewRequest /\ crlf \in Nat
      /\ MaxHeaders \in Nat /\ MaxLineLen \in Nat
  BY <1>1, AtWork
<1>3. Cardinality(Current) = 0 /\ ~(Cardinality(Current) > MaxHeaders) /\ ~(crlf > MaxLineLen)
  BY <1>1, <1>2, CurrentIs
<1>4. Len(Line) = crlf
  BY <1>1, <1>2, TextIsLine
<1>5. CASE Line \in {<<"G">>, <<"O">>}
  <2>1. crlf # 0 /\ Line # <<>>
    BY <1>4, <1>5
  <2>2. ~Stops(stream, NextLine)
    BY <1>1, <1>2, <1>3, <1>5, <2>1, Verdict
  <2>3. /\ parser' = [parser EXCEPT !.state = "kExpectHeaders", !.body = FALSE,
                        !.headerLineCount = 0, !.keepAlive = @ /\ Line # <<"O">>]
        /\ results' = results /\ pc' = pc
    BY <1>5 DEF requestLine
  <2>4. /\ parser'.state = "kExpectHeaders" /\ parser'.headerLineCount = 0
        /\ (parser'.keepAlive <=> Line # <<"O">>) /\ parser'.body = FALSE
    BY <1>2, <2>3 DEF NewRequest
  <2> DEFINE L == Current \cup {NextLine}
  <2>5. Cardinality(L) = 1
    BY <1>1, <1>2, <1>3, CurrentIs
  <2>6. KeepsAlive(stream, L) <=> Line # <<"O">>
    <3>1. AboutConnection(Line)
      BY <1>5 DEF AboutConnection
    <3>2. KeepsAlive(stream, L) <=> Line = <<"G">> \/ HeaderKind(Line) = "k"
      BY <1>1, <1>2, <3>1, DecidesLast
    <3>3. HeaderKind(Line) # "k" /\ <<"G">> # <<"O">>
      BY <1>5, RequestLineKind
    <3> QED BY <1>5, <3>2, <3>3
  <2>7. ~HasBody(stream, L)
    <3>1. ~AboutLength(Line)
      BY <1>5, RequestLineKind DEF AboutLength
    <3>2. HasBody(stream, L) <=> HasBody(stream, Current)
      BY <1>1, <1>2, <3>1, DecidesLast
    <3> QED BY <1>2, <3>2 DEF HasBody
  <2>8. L # {}
    OBVIOUS
  <2> HIDE DEF L
  <2>9. Knows(parser', L)
    BY <2>4, <2>5, <2>6, <2>7, <2>8 DEF Knows
  <2> QED BY <1>1, <1>2, <2>1, <2>2, <2>3, <2>9, LineAgrees DEF L
<1>6. CASE Line \notin {<<"G">>, <<"O">>}
  <2>1. badRequest
    BY <1>6 DEF requestLine
  <2>2. Stops(stream, NextLine) /\ Outcome(stream, NextLine) = [kind |-> "kError"]
    BY <1>1, <1>2, <1>3, <1>6, Verdict
  <2> QED BY <1>1, <1>2, <2>1, <2>2, BadRequestAgrees
<1> QED
  BY <1>5, <1>6

(* A header line is remembered, or bad, or ends the process.               *)
LEMMA HeaderLineAgrees ==
  ASSUME Inv, Agrees, headerLine
  PROVE  Agrees'
<1>1. /\ pc = "parse" /\ crlf # npos /\ stream' = stream /\ retrieveLine /\ crlf > 0
      /\ parser.state = "kExpectHeaders" /\ crlf <= MaxLineLen
      /\ parser.headerLineCount < MaxHeaders
  BY DEF headerLine, retrieveLine
<1>2. /\ UpToDate /\ AtLine /\ Current # {} /\ crlf \in Nat
      /\ MaxHeaders \in Nat /\ MaxLineLen \in Nat
      /\ parser.headerLineCount = Cardinality(Current) - 1
      /\ parser.keepAlive <=> KeepsAlive(stream, Current)
      /\ parser.body <=> HasBody(stream, Current)
  BY <1>1, AtWork
<1>3. ~(Cardinality(Current) > MaxHeaders) /\ ~(crlf > MaxLineLen) /\ crlf # 0 /\ Line # <<>>
  BY <1>1, <1>2, CurrentIs, TextIsLine
<1> DEFINE kind == HeaderKind(Line)  L == Current \cup {NextLine}
<1>4. CASE /\ kind \notin {"bad", "v"}
           /\ parser' = [Counted EXCEPT
                !.keepAlive = IF kind = "c" THEN FALSE ELSE IF kind = "k" THEN TRUE ELSE @,
                !.body = IF kind = "n" THEN TRUE ELSE IF kind = "z" THEN FALSE ELSE @]
           /\ UNCHANGED <<writeBuffer, reading, pc, results, put, wire>>
  <2>1. ~Stops(stream, NextLine)
    BY <1>1, <1>2, <1>3, <1>4, Verdict
  <2>2. Line \notin {<<"G">>, <<"O">>}
    BY <1>4, RequestLineKind
  <2>3. /\ parser \in ParserType /\ Counted \in ParserType
        /\ Counted.headerLineCount = parser.headerLineCount + 1
    BY <1>1, ParserTypes
  <2>4. Counted.state = parser.state /\ Counted.keepAlive = parser.keepAlive
        /\ Counted.body = parser.body
    BY <2>3 DEF Counted, ParserType
  <2>5. /\ parser'.state = "kExpectHeaders"
        /\ parser'.headerLineCount = parser.headerLineCount + 1
        /\ parser'.keepAlive = (IF kind = "c" THEN FALSE ELSE IF kind = "k" THEN TRUE
                                ELSE parser.keepAlive)
        /\ parser'.body = (IF kind = "n" THEN TRUE ELSE IF kind = "z" THEN FALSE ELSE parser.body)
    <3> HIDE DEF kind
    <3> QED BY <1>1, <1>4, <2>3, <2>4 DEF ParserType
  <2>6. Cardinality(L) - 1 = parser.headerLineCount + 1
    BY <1>1, <1>2, CurrentIs
  <2>7. parser'.keepAlive <=> KeepsAlive(stream, L)
    <3>1. AboutConnection(Line) <=> kind \in {"k", "c"}
      BY <2>2 DEF AboutConnection
    <3>2. kind \in {"k", "c"} => (KeepsAlive(stream, L) <=> kind = "k")
      BY <1>1, <1>2, <2>2, <3>1, DecidesLast
    <3>3. kind \notin {"k", "c"} => (KeepsAlive(stream, L) <=> KeepsAlive(stream, Current))
      BY <1>1, <1>2, <3>1, DecidesLast
    <3> HIDE DEF kind, L
    <3>4. CASE kind = "c"
      BY <2>5, <3>2, <3>4
    <3>5. CASE kind = "k"
      BY <2>5, <3>2, <3>5
    <3>6. CASE kind \notin {"k", "c"}
      BY <1>2, <2>5, <3>3, <3>6
    <3> QED BY <3>4, <3>5, <3>6
  <2>8. parser'.body <=> HasBody(stream, L)
    <3>1. AboutLength(Line) <=> kind \in {"z", "n", "v"}
      BY DEF AboutLength
    <3>2. kind \in {"z", "n", "v"} => (HasBody(stream, L) <=> kind \in {"n", "v"})
      BY <1>1, <1>2, <3>1, DecidesLast
    <3>3. kind \notin {"z", "n", "v"} => (HasBody(stream, L) <=> HasBody(stream, Current))
      BY <1>1, <1>2, <3>1, DecidesLast
    <3> HIDE DEF kind, L
    <3>4. CASE kind = "n"
      BY <2>5, <3>2, <3>4
    <3>5. CASE kind = "z"
      BY <2>5, <3>2, <3>5
    <3>6. CASE kind \notin {"z", "n"}
      BY <1>2, <1>4, <2>5, <3>3, <3>6
    <3> QED BY <3>4, <3>5, <3>6
  <2>9. L # {}
    OBVIOUS
  <2> HIDE DEF L, kind
  <2>10. Knows(parser', L)
    BY <2>5, <2>6, <2>7, <2>8, <2>9 DEF Knows
  <2>11. results' = results /\ pc' = "parse"
    BY <1>1, <1>4
  <2> QED BY <1>1, <1>2, <1>3, <2>1, <2>10, <2>11, LineAgrees DEF L
<1>5. CASE kind = "bad" /\ badRequest
  <2>1. Stops(stream, NextLine) /\ Outcome(stream, NextLine) = [kind |-> "kError"]
    BY <1>1, <1>2, <1>3, <1>5, Verdict
  <2> QED BY <1>1, <1>2, <1>5, <2>1, BadRequestAgrees
<1>6. CASE pc' = "terminated" /\ results' = results
  <2>1. ~Parsing' /\ AllParsed'
    BY <1>6 DEF Parsing, AllParsed
  <2> QED BY <1>1, <1>6, <2>1 DEF Agrees
<1> QED
  BY <1>4, <1>5, <1>6 DEF headerLine

(* The empty line ends a request, for good if the request has a body.      *)
LEMMA EmptyLineAgrees ==
  ASSUME Inv, Agrees, emptyLine
  PROVE  Agrees'
<1>1. /\ pc = "parse" /\ crlf # npos /\ stream' = stream /\ retrieveLine /\ crlf = 0
      /\ parser.state = "kExpectHeaders"
  BY DEF emptyLine, retrieveLine
<1>2. /\ UpToDate /\ AtLine /\ Current # {} /\ MaxLineLen \in Nat
      /\ parser.keepAlive <=> KeepsAlive(stream, Current)
      /\ parser.body <=> HasBody(stream, Current)
  BY <1>1, AtWork
<1>3. ~(crlf > MaxLineLen) /\ ~(crlf > 0) /\ Line = <<>>
  BY <1>1, <1>2, TextIsLine
<1>4. CASE parser.body
  <2>1. Stops(stream, NextLine) /\ Outcome(stream, NextLine) = [kind |-> "kError"]
    BY <1>1, <1>2, <1>3, <1>4, Verdict
  <2>2. badRequest
    BY <1>4 DEF emptyLine
  <2> QED BY <1>1, <1>2, <2>1, <2>2, BadRequestAgrees
<1>5. CASE ~parser.body
  <2>1. /\ Return([kind |-> "kComplete", keepAlive |-> parser.keepAlive]) /\ parser' = NewRequest
        /\ Send(Response(parser.keepAlive), parser.keepAlive, "parse")
    BY <1>5 DEF emptyLine
  <2>2. /\ ~Stops(stream, NextLine)
        /\ Outcome(stream, NextLine) = [kind |-> "kComplete", keepAlive |-> KeepsAlive(stream, Current)]
    BY <1>1, <1>2, <1>3, <1>5, Verdict
  <2>3. parser.keepAlive = KeepsAlive(stream, Current)
    <3>1. parser.keepAlive \in BOOLEAN
      BY DEF Inv, TypeOK
    <3>2. KeepsAlive(stream, Current) \in BOOLEAN
      BY DEF KeepsAlive
    <3>3. \A a, b \in BOOLEAN : (a <=> b) => a = b
      OBVIOUS
    <3>4. parser.keepAlive <=> KeepsAlive(stream, Current)
      BY <1>2
    <3> QED BY <3>1, <3>2, <3>3, <3>4, Zenon
  <2>4. Return(Outcome(stream, NextLine))
    BY <2>1, <2>2, <2>3
  <2>5. pc' \in {"parse", "closed"}
    BY <2>1 DEF Send
  <2> QED BY <1>1, <1>2, <1>3, <2>1, <2>2, <2>4, <2>5, LineAgrees
<1> QED
  BY <1>4, <1>5

(* Nothing has been sent yet.                                              *)
LEMMA AgreesInit == Init => Agrees
<1> SUFFICES ASSUME Init PROVE Agrees
  OBVIOUS
<1>1. stream \in Streams /\ stream \in Seq(Byte) /\ results = <<>> /\ taken = 0 /\ nread = 0
      /\ parser = NewRequest
  BY HttpAssumption DEF Init
<1>2. LineEnds(stream) \subseteq Nat \ {0}
  BY <1>1, LineEndsAre
<1>3. Before(stream, 0) = {}
  BY <1>2 DEF Before
<1>4. Len(results) = 0 /\ results \in Seq(Result)
  BY <1>1
<1>5. Expected[stream] \in Seq(Result) /\ Len(Expected[stream]) \in Nat
  BY <1>1, ExpectedIs
<1>6. IsPrefix(results, Expected[stream])
  <2>1. SubSeq(results, 1, 0) = <<>> /\ SubSeq(Expected[stream], 1, 0) = <<>>
    BY <1>4, <1>5, SubSeqEmpty
  <2> QED BY <1>4, <1>5, <2>1 DEF IsPrefix
<1>7. Current = {} /\ Done = {}
  BY <1>1, <1>3 DEF Current, Earlier, Done
<1>8. UpToDate
  BY <1>1, <1>3, <1>4, <1>7, FS_EmptySet DEF UpToDate, AtLine, Knows
<1>9. AllParsed
  BY <1>1, <1>2 DEF AllParsed
<1> QED
  BY <1>1, <1>6, <1>8, <1>9 DEF Agrees

(* The other steps take no line and return nothing.                        *)
LEMMA OtherStepsAgree ==
  ASSUME Inv, Agrees,
         UNCHANGED vars \/ Arrive \/ handleReadCallBack \/ readv \/ readDone \/ needMore
           \/ handleWriteCallBack
  PROVE  Agrees'
<1>1. UNCHANGED <<stream, taken, parser, results>>
  BY DEF vars, Arrive, handleReadCallBack, readv, readDone, needMore, handleWriteCallBack
<1>2. Parsing' => Parsing
  BY DEF vars, Arrive, handleReadCallBack, readv, readDone, needMore, handleWriteCallBack, Parsing
<1>3. AllParsed'
  <2>1. CASE needMore
    BY <2>1, NextLineIs DEF needMore, AllParsed
  <2>2. CASE UNCHANGED vars \/ Arrive \/ handleWriteCallBack
    <3>1. nread' = nread /\ reading' = reading /\ (pc' = "wait" => pc = "wait")
      BY <2>2 DEF vars, Arrive, handleWriteCallBack
    <3> QED BY <1>1, <3>1 DEF AllParsed, Agrees
  <2>3. CASE handleReadCallBack \/ readv \/ readDone
    <3>1. pc' # "wait"
      BY <2>3 DEF handleReadCallBack, readv, readDone
    <3> QED BY <3>1 DEF AllParsed
  <2> QED BY <2>1, <2>2, <2>3
<1>4. UpToDate => UpToDate'
  <2>1. Current' = Current /\ Done' = Done
    BY <1>1 DEF Current, Done
  <2>2. Knows(parser, Current) => Knows(parser, Current)'
    BY <1>1, <2>1 DEF Knows
  <2> QED BY <1>1, <2>1, <2>2 DEF UpToDate, AtLine
<1> QED
  BY <1>1, <1>2, <1>3, <1>4 DEF Agrees

(* Every step keeps what has been returned in line with the stream.        *)
LEMMA AgreesStep == Inv /\ Agrees /\ [Next]_vars => Agrees'
<1> SUFFICES ASSUME Inv, Agrees, [Next]_vars PROVE Agrees'
  OBVIOUS
<1> QED
  BY LineTooLongAgrees, RequestLineAgrees, HeaderLineAgrees, EmptyLineAgrees, OtherStepsAgree
     DEF Next, parse

(* Once the whole stream is parsed, all of it has been answered.           *)
LEMMA AgreesIsSame == Inv /\ Agrees => SameForAnyCut
<1> SUFFICES ASSUME Inv, Agrees PROVE SameForAnyCut
  OBVIOUS
<1>1. stream \in Streams /\ stream \in Seq(Byte) /\ results \in Seq(Result)
      /\ taken \in Nat /\ Len(stream) \in Nat
  BY BacklogLength DEF Agrees, Inv, TypeOK
<1>2. ASSUME pc = "wait", reading, nread = Len(stream) PROVE results = Expected[stream]
  <2>1. UpToDate /\ \A e \in LineEnds(stream) : e > taken => e + 1 > nread
    BY <1>2 DEF Agrees, Parsing, AllParsed
  <2>2. ASSUME NEW e \in LineEnds(stream) PROVE e \in Before(stream, taken)
    <3>1. e \in Nat /\ e + 1 <= Len(stream)
      BY <1>1 DEF LineEnds
    <3>2. e <= taken
      BY <1>1, <1>2, <2>1, <3>1
    <3>3. e # taken
      BY <2>1, TakenIsNoLine DEF UpToDate
    <3> QED BY <1>1, <3>1, <3>2, <3>3 DEF Before
  <2>3. Done = Answered(stream)
    BY <2>2 DEF Done, Answered
  <2>4. Len(results) = Len(Expected[stream]) /\ Expected[stream] \in Seq(Result)
    BY <1>1, <2>1, <2>3, ExpectedIs DEF UpToDate
  <2> QED BY <1>1, <2>4, PrefixIsAll DEF Agrees
<1> QED
  BY <1>2 DEF Agrees, SameForAnyCut

(* SameForAnyCut for every stream and every way to cut it: parse makes the *)
(* same requests and errors of the pieces as of the whole.                 *)
THEOREM CutsDoNotMatter == Spec => []SameForAnyCut
<1>1. Init => Inv /\ Agrees
  BY InvInit, AgreesInit
<1>2. Inv /\ Agrees /\ [Next]_vars => (Inv /\ Agrees)'
  BY InvStep, AgreesStep
<1> QED
  BY <1>1, <1>2, AgreesIsSame, PTL DEF Spec
=============================================================================
