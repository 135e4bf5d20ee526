--------------------------- MODULE TransportProofs ---------------------------
(***************************************************************************)
(* What holds of Transport for any byte, frame, chunk and pipe size, any    *)
(* JSON and anything the peer may write.                                    *)
(***************************************************************************)
EXTENDS Transport, SequenceTheorems, WellFoundedInduction, TLAPS

USE DEF vars, reader

(* A quotient of a number below the product is below the other factor. *)
LEMMA Quotient ==
  ASSUME NEW b \in Nat \ {0}, NEW r \in Nat, NEW n \in Nat, n < r * b
  PROVE  n \div b \in 0 .. (r - 1)
<1> DEFINE q == n \div b
<1>1. q \in Nat /\ b * q <= n
  OBVIOUS
<1>2. ~(q >= r)
  <2>1. SUFFICES ASSUME q >= r PROVE FALSE
    OBVIOUS
  <2> HIDE DEF q
  <2>2. b * q >= b * r
    BY <1>1, <2>1
  <2> QED
    BY <1>1, <2>2
<1> QED
  BY <1>1, <1>2

(* A header's four bytes give a natural number; a legal length gives four bytes. *)
LEMMA Header ==
  /\ \A h \in Seq(Byte) : Len(h) >= 4 => from_be(h) \in Nat
  /\ \A n \in 0 .. MaxFrame : to_be(n) \in Seq(Byte) /\ Len(to_be(n)) = 4
<1>1. ASSUME NEW h \in Seq(Byte), Len(h) >= 4 PROVE from_be(h) \in Nat
  <2>1. h[1] \in Nat /\ h[2] \in Nat /\ h[3] \in Nat /\ h[4] \in Nat /\ Radix \in Nat
    BY <1>1, SizesAssumption DEF Byte
  <2>2. h[1] * Radix + h[2] \in Nat
    BY <2>1
  <2>3. (h[1] * Radix + h[2]) * Radix + h[3] \in Nat
    BY <2>1, <2>2, SMTT(20)
  <2>4. \A k, b, d \in Nat : k * b + d \in Nat
    OBVIOUS
  <2> QED
    BY <2>1, <2>3, <2>4 DEF from_be
<1>2. ASSUME NEW n \in 0 .. MaxFrame PROVE to_be(n) \in Seq(Byte) /\ Len(to_be(n)) = 4
  <2> DEFINE r2 == Radix * Radix
             r3 == Radix * Radix * Radix
  <2>1. Radix \in Nat \ {0} /\ r2 \in Nat \ {0} /\ r3 \in Nat \ {0}
    BY SizesAssumption
  <2>2. n \in Nat /\ n < Radix * r3
    BY SizesAssumption
  <2>3. n \div r3 \in Byte
    BY <2>1, <2>2, Quotient DEF Byte
  <2>4. n \div r2 \in Nat /\ n \div Radix \in Nat
    BY <2>1, <2>2
  <2>5. \A k \in Nat : k % Radix \in Byte
    BY <2>1 DEF Byte
  <2> QED
    BY <2>2, <2>3, <2>4, <2>5 DEF to_be
<1> QED
  BY <1>1, <1>2

(* What a quotient is; dividing by a product is dividing twice. *)
LEMMA Division ==
  ASSUME NEW b \in Nat \ {0}, NEW n \in Nat, NEW q \in Nat, b * q <= n, n < b * (q + 1)
  PROVE  n \div b = q
<1> DEFINE p == n \div b
<1>1. p \in Nat /\ b * p <= n /\ n < b * p + b
  OBVIOUS
<1> HIDE DEF p
<1>2. ASSUME p < q PROVE FALSE
  <2>1. p + 1 <= q BY <1>1, <1>2
  <2>2. b * (p + 1) <= b * q BY <1>1, <2>1
  <2>3. b * (p + 1) = b * p + b BY <1>1
  <2> QED BY <1>1, <2>2, <2>3
<1>3. ASSUME q < p PROVE FALSE
  <2>1. q + 1 <= p BY <1>1, <1>3
  <2>2. b * (q + 1) <= b * p BY <1>1, <2>1
  <2> QED BY <1>1, <2>2
<1>4. p = q BY <1>1, <1>2, <1>3
<1> QED BY <1>4 DEF p

LEMMA TwiceDivided ==
  ASSUME NEW j \in Nat \ {0}, NEW k \in Nat \ {0}, NEW n \in Nat
  PROVE  n \div (j * k) = (n \div j) \div k
<1> DEFINE a == n \div j
           c == a \div k
<1>1. a \in Nat /\ j * a <= n /\ n < j * a + j
  OBVIOUS
<1>2. c \in Nat /\ k * c <= a /\ a < k * c + k
  <2> HIDE DEF a
  <2> QED BY <1>1
<1> HIDE DEF a, c
<1>3. (j * k) * c <= n
  <2>1. j * (k * c) <= j * a BY <1>1, <1>2
  <2>2. j * (k * c) = (j * k) * c BY <1>2
  <2> QED BY <1>1, <1>2, <2>1, <2>2
<1>4. n < (j * k) * (c + 1)
  <2>1. a + 1 <= k * c + k BY <1>1, <1>2
  <2>2. j * (a + 1) <= j * (k * c + k) BY <1>1, <1>2, <2>1
  <2>3. j * (a + 1) = j * a + j BY <1>1
  <2>4. j * (k * c + k) = (j * k) * (c + 1) BY <1>2
  <2> QED BY <1>1, <1>2, <2>2, <2>3, <2>4
<1>5. j * k \in Nat \ {0} OBVIOUS
<1>6. n \div (j * k) = c BY <1>2, <1>3, <1>4, <1>5, Division
<1> QED BY <1>6 DEF a, c

LEMMA Remainder ==
  ASSUME NEW b \in Nat \ {0}, NEW n \in Nat
  PROVE  n = (n \div b) * b + (n % b) /\ n % b \in Nat
OBVIOUS

(* from_be reads the number that to_be writes. *)
LEMMA HeaderTells ==
  ASSUME NEW n \in 0 .. MaxFrame
  PROVE  ((to_be(n)[1] * Radix + to_be(n)[2]) * Radix + to_be(n)[3]) * Radix + to_be(n)[4] = n
<1> DEFINE a == n \div Radix
           b == a \div Radix
           c == b \div Radix
<1>1. Radix \in Nat \ {0} /\ Radix * Radix \in Nat \ {0} /\ n \in Nat
  BY SizesAssumption
<1>2. a \in Nat /\ n = a * Radix + (n % Radix) /\ n % Radix \in Nat
  BY <1>1, Remainder
<1>3. b \in Nat /\ a = b * Radix + (a % Radix) /\ a % Radix \in Nat
  <2> HIDE DEF a
  <2> QED BY <1>1, <1>2, Remainder
<1>4. c \in Nat /\ b = c * Radix + (b % Radix) /\ b % Radix \in Nat
  <2> HIDE DEF b
  <2> QED BY <1>1, <1>3, Remainder
<1>5. n \div (Radix * Radix) = b
  BY <1>1, TwiceDivided
<1>6. n \div (Radix * Radix * Radix) = c
  <2>1. n \div ((Radix * Radix) * Radix) = (n \div (Radix * Radix)) \div Radix
    BY <1>1, TwiceDivided
  <2> QED BY <1>5, <2>1
<1>7. to_be(n) = <<c, b % Radix, a % Radix, n % Radix>>
  BY <1>5, <1>6 DEF to_be
<1> HIDE DEF a, b, c
<1>8. /\ to_be(n)[1] = c /\ to_be(n)[2] = b % Radix /\ to_be(n)[3] = a % Radix
      /\ to_be(n)[4] = n % Radix
  BY <1>7
<1>9. /\ to_be(n)[1] * Radix + to_be(n)[2] = b
      /\ b * Radix + to_be(n)[3] = a
      /\ a * Radix + to_be(n)[4] = n
  BY <1>2, <1>3, <1>4, <1>8
<1> QED BY <1>9

(* Part of a sequence of bytes is one. *)
LEMMA BytesPart ==
  ASSUME NEW s \in Seq(Byte), NEW m \in Nat \ {0}, NEW n \in 0 .. Len(s)
  PROVE  /\ SubSeq(s, m, n) \in Seq(Byte)
         /\ Len(SubSeq(s, m, n)) = IF m <= n THEN n - m + 1 ELSE 0
         /\ \A i \in 1 .. n - m + 1 : SubSeq(s, m, n)[i] = s[m + i - 1]
<1>1. m \in Int /\ n \in Int /\ \A i \in m .. n : s[i] \in Byte
  OBVIOUS
<1> QED
  BY ONLY <1>1, SubSeqProperties

(* The types, as facts about numbers. *)
LEMMA Sizes ==
  ASSUME TypeOK
  PROVE  /\ stream \in Seq(Byte) /\ bytes \in Seq(Byte) /\ out \in Seq(Byte)
         /\ writer.bytes \in Seq(Byte) /\ writer.offset \in Nat
         /\ writer = [bytes |-> writer.bytes, offset |-> writer.offset]
         /\ Len(stream) \in Nat /\ Len(bytes) \in Nat /\ Len(out) \in Nat
         /\ Len(writer.bytes) \in Nat
         /\ boundary \in Nat /\ consumed \in Nat /\ fed \in Nat /\ drained \in Nat
         /\ boundary <= consumed /\ consumed <= fed /\ fed <= Len(stream)
         /\ drained <= Len(out)
<1>1. /\ stream \in Seq(Byte) /\ bytes \in Seq(Byte) /\ out \in Seq(Byte)
      /\ writer \in [bytes : Seq(Byte), offset : Nat]
      /\ fed \in 0 .. Len(stream) /\ consumed \in 0 .. fed /\ boundary \in 0 .. consumed
      /\ drained \in 0 .. Len(out)
  BY DEF TypeOK
<1>2. /\ writer.bytes \in Seq(Byte) /\ writer.offset \in Nat
      /\ writer = [bytes |-> writer.bytes, offset |-> writer.offset]
  BY <1>1
<1>3. \A s \in Seq(Byte) : Len(s) \in Nat
  BY LenProperties
<1>4. Len(stream) \in Nat /\ Len(bytes) \in Nat /\ Len(out) \in Nat /\ Len(writer.bytes) \in Nat
  BY <1>1, <1>2, <1>3
<1>5. /\ boundary \in Nat /\ consumed \in Nat /\ fed \in Nat /\ drained \in Nat
      /\ boundary <= consumed /\ consumed <= fed /\ fed <= Len(stream) /\ drained <= Len(out)
  BY <1>1, <1>4
<1> QED
  BY <1>1, <1>2, <1>4, <1>5

-----------------------------------------------------------------------------
(* One read: it asks for no byte past the frame, and appends what arrived. *)
LEMMA ReadMoves ==
  ASSUME TypeOK, NoReadAhead, Read
  PROVE  /\ Moved \in Nat /\ Moved <= Target - Len(bytes)
         /\ consumed' \in consumed .. fed /\ boundary <= consumed'
         /\ Got \in Seq(Byte) /\ Len(Got) = Len(bytes) + Moved /\ Len(Got) <= 4 + MaxFrame
         /\ Got = SubSeq(stream, boundary + 1, consumed')
         /\ Len(Got) <= 4 + (IF Len(Got) >= 4 THEN from_be(Got) ELSE 0)
         /\ Complete(Got) => Framing(Got)
         /\ ~Complete(Got) /\ Len(Got) >= 4 /\ Legal(from_be(Got)) => Len(Got) < 4 + from_be(Got)
<1> USE SizesAssumption
<1>1. /\ stream \in Seq(Byte) /\ bytes \in Seq(Byte)
      /\ Len(stream) \in Nat /\ Len(bytes) \in Nat
      /\ boundary \in Nat /\ consumed \in Nat /\ fed \in Nat
      /\ boundary <= consumed /\ consumed <= fed /\ fed <= Len(stream)
  BY Sizes
<1>2. /\ bytes = SubSeq(stream, boundary + 1, consumed)
      /\ Len(bytes) <= 4 + (IF Len(bytes) >= 4 THEN from_be(bytes) ELSE 0)
  BY DEF NoReadAhead
<1>3. /\ Target \in Nat /\ Target - Len(bytes) \in Nat /\ Target <= 4 + MaxFrame
  <2>1. CASE Headed
    <3>1. from_be(bytes) \in Nat /\ from_be(bytes) <= MaxFrame
      BY <1>1, <2>1, Header DEF Read, Headed, Legal
    <3> HIDE DEF from_be
    <3> QED
      BY <1>1, <1>2, <2>1, <3>1 DEF Headed, Target
  <2>2. CASE ~Headed
    BY <1>1, <2>2 DEF Headed, Target
  <2> QED
    BY <2>1, <2>2
<1>4. Moved \in Nat /\ Moved <= Target - Len(bytes) /\ Moved <= fed - consumed
  BY <1>1, <1>3 DEF Moved, Count, Least, Read
<1>5. consumed' = consumed + Moved
  BY DEF Read
<1> DEFINE more == SubSeq(stream, consumed + 1, consumed + Moved)
<1>6. more \in Seq(Byte) /\ Len(more) = Moved
  BY <1>1, <1>4, BytesPart
<1>7. /\ Got \in Seq(Byte) /\ Len(Got) = Len(bytes) + Moved
      /\ \A i \in 1 .. Len(bytes) : Got[i] = bytes[i]
  BY <1>1, <1>4, <1>6, ConcatProperties DEF Got
<1>8. Got = SubSeq(stream, boundary + 1, consumed')
  <2>1. /\ boundary + 1 \in 1 .. Len(stream) + 1
        /\ consumed \in (boundary + 1) - 1 .. Len(stream)
        /\ consumed + Moved \in consumed .. Len(stream)
    BY <1>1, <1>4
  <2> QED
    BY <1>1, <1>2, <1>5, <2>1, ConcatAdjacentSubSeq DEF Got
<1>9. /\ Len(Got) <= 4 + (IF Len(Got) >= 4 THEN from_be(Got) ELSE 0)
      /\ Complete(Got) => Framing(Got)
      /\ ~Complete(Got) /\ Len(Got) >= 4 /\ Legal(from_be(Got)) => Len(Got) < 4 + from_be(Got)
  <2>1. Len(Got) <= Target /\ Len(Got) \in Nat
    BY <1>1, <1>3, <1>4, <1>7
  <2>2. CASE Headed
    <3>1. Got[1] = bytes[1] /\ Got[2] = bytes[2] /\ Got[3] = bytes[3] /\ Got[4] = bytes[4]
      BY <1>1, <1>7, <2>2 DEF Headed
    <3>2. from_be(Got) = from_be(bytes)
      BY <3>1 DEF from_be
    <3>3. from_be(bytes) \in Nat /\ Target = from_be(bytes) + 4
      BY <1>1, <2>2, Header DEF Headed, Target
    <3>4. Len(Got) \in Nat /\ Len(Got) >= 4
      BY <1>1, <1>4, <1>7, <2>2 DEF Headed
    <3>5. from_be(bytes) # 0 /\ from_be(bytes) <= MaxFrame
      BY <2>2 DEF Read, Legal
    <3> HIDE DEF from_be
    <3> QED
      BY <2>1, <3>2, <3>3, <3>4, <3>5 DEF Complete, Framing
  <2>3. CASE ~Headed
    <3>1. Target = 4
      BY <2>3 DEF Target
    <3>2. Len(Got) >= 4 => from_be(Got) \in Nat
      BY <1>7, Header
    <3>3. ~Complete(Got)
      BY <3>1 DEF Complete
    <3> QED
      BY <2>1, <3>1, <3>2, <3>3 DEF Legal
  <2> QED
    BY <2>2, <2>3
<1>10. Len(Got) <= 4 + MaxFrame
  BY <1>1, <1>3, <1>4, <1>7
<1> QED
  BY <1>1, <1>4, <1>5, <1>7, <1>8, <1>9, <1>10

(* How far the reader has come, in the terms of the type invariant. *)
LEMMA Arrived ==
  ASSUME TypeOK, NoReadAhead, Read
  PROVE  /\ consumed' \in Nat /\ consumed' \in 0 .. fed /\ consumed' \in 0 .. consumed'
         /\ boundary \in 0 .. consumed'
<1>1. consumed' \in consumed .. fed /\ boundary <= consumed'
  BY ReadMoves
<1>2. consumed \in Nat /\ fed \in Nat /\ boundary \in Nat
  BY Sizes
<1> QED
  BY <1>1, <1>2

(* A relayed value fills the writer with bytes. *)
LEMMA FramedBytes ==
  ASSUME NEW v \in Values, Len(Encode[v]) <= MaxFrame
  PROVE  Framed(v) \in Seq(Byte)
<1>1. Encode[v] \in Seq(Byte) /\ Len(Encode[v]) \in 0 .. MaxFrame
  BY JsonAssumption, SizesAssumption
<1> QED
  BY <1>1, Header, ConcatProperties DEF Framed

(* Appending the next n bytes of b to a sequence that ends with its first o. *)
LEMMA Continuation ==
  ASSUME NEW x \in Seq(Byte), NEW b \in Seq(Byte), NEW o \in Nat, NEW n \in Nat \ {0},
         o <= Len(x), o + n <= Len(b),
         SubSeq(x, Len(x) - o + 1, Len(x)) = SubSeq(b, 1, o)
  PROVE  LET y == x \o SubSeq(b, o + 1, o + n)
         IN  /\ y \in Seq(Byte) /\ Len(y) = Len(x) + n
             /\ SubSeq(y, Len(y) - (o + n) + 1, Len(y)) = SubSeq(b, 1, o + n)
<1> DEFINE z == SubSeq(b, o + 1, o + n)
           y == x \o z
           m == Len(x) - o + 1
<1>1. Len(x) \in Nat /\ Len(b) \in Nat
  BY LenProperties
<1>2. z \in Seq(Byte) /\ Len(z) = n /\ \A i \in 1 .. n : z[i] = b[o + i]
  <2>1. o + 1 \in Nat \ {0} /\ o + n \in 0 .. Len(b) /\ o + n - (o + 1) + 1 = n /\ o + 1 <= o + n
    BY <1>1
  <2>2. /\ z \in Seq(Byte) /\ Len(z) = n
        /\ \A i \in 1 .. n : z[i] = b[(o + 1) + i - 1]
    BY <2>1, BytesPart
  <2>3. \A i \in 1 .. n : (o + 1) + i - 1 = o + i
    OBVIOUS
  <2> QED
    BY <2>2, <2>3
<1> HIDE DEF z
<1>3. /\ y \in Seq(Byte) /\ Len(y) = Len(x) + n
      /\ \A i \in 1 .. Len(x) + n : y[i] = IF i <= Len(x) THEN x[i] ELSE z[i - Len(x)]
  BY <1>2, ConcatProperties
<1> HIDE DEF y
<1>4. /\ m \in Nat \ {0} /\ m - 1 + o = Len(x) /\ m <= Len(x) + 1 /\ m <= Len(x) + n
      /\ (Len(x) + n) - (o + n) + 1 = m /\ (Len(x) + n) - m + 1 = o + n
  BY <1>1
<1> DEFINE l == Len(x)
<1>5. \A i \in 1 .. o : x[m + i - 1] = b[i]
  <2>1. \A i \in 1 .. o : SubSeq(x, m, Len(x))[i] = x[m + i - 1]
    BY <1>1, <1>4, BytesPart
  <2>2. \A i \in 1 .. o : SubSeq(b, 1, o)[i] = b[1 + i - 1]
    BY <1>1, BytesPart
  <2>3. \A i \in 1 .. o : 1 + i - 1 = i
    OBVIOUS
  <2> QED
    BY <2>1, <2>2, <2>3
<1> HIDE DEF m
<1>6. ASSUME NEW i \in 1 .. o + n PROVE y[m + i - 1] = b[i]
  <2>1. m + i - 1 \in 1 .. Len(x) + n
    BY <1>1, <1>4
  <2>2. CASE i <= o
    <3>1. m + i - 1 <= Len(x) /\ i \in 1 .. o
      BY <1>1, <1>4, <2>2
    <3> QED
      BY <1>3, <1>5, <2>1, <3>1
  <2>3. CASE ~(i <= o)
    <3>1. /\ ~(m + i - 1 <= Len(x)) /\ (m + i - 1) - Len(x) = i - o
          /\ i - o \in 1 .. n /\ o + (i - o) = i
      <4>1. i \in Int /\ m \in Int /\ l \in Int /\ m = l - o + 1 /\ i > o
        BY <1>1, <1>4, <2>3
      <4> HIDE DEF l
      <4>2. (m + i - 1) - l = i - o /\ ~(m + i - 1 <= l)
        BY ONLY <4>1, o \in Nat
      <4>3. i - o \in 1 .. n /\ o + (i - o) = i
        BY ONLY <4>1, o \in Nat, n \in Nat \ {0}, i \in 1 .. o + n
      <4> QED
        BY <4>2, <4>3 DEF l
    <3>2. y[m + i - 1] = z[i - o]
      BY <1>3, <2>1, <3>1
    <3> QED
      BY <1>2, <3>1, <3>2
  <2> QED
    BY <2>2, <2>3
<1>7. SubSeq(y, m, Len(y)) = SubSeq(b, 1, o + n)
  <2> DEFINE s == SubSeq(y, m, Len(y))
             t == SubSeq(b, 1, o + n)
  <2>1. /\ Len(y) \in 0 .. Len(y) /\ Len(y) - m + 1 = o + n /\ m <= Len(y) /\ o + n \in Nat \ {0}
    <3>1. Len(y) = Len(x) + n /\ Len(y) \in Nat /\ o + n \in Nat \ {0}
      BY <1>1, <1>3
    <3> QED
      BY <1>4, <3>1
  <2>2. s \in Seq(Byte) /\ Len(s) = o + n /\ \A i \in 1 .. o + n : s[i] = y[m + i - 1]
    BY <1>3, <1>4, <2>1, BytesPart
  <2>3. t \in Seq(Byte) /\ Len(t) = o + n /\ \A i \in 1 .. o + n : t[i] = b[1 + i - 1]
    <3>1. 1 \in Nat \ {0} /\ o + n \in 0 .. Len(b) /\ o + n - 1 + 1 = o + n /\ 1 <= o + n
      BY <1>1, <2>1
    <3>2. b \in Seq(Byte)
      OBVIOUS
    <3> QED
      BY ONLY <3>1, <3>2, BytesPart
  <2>4. \A i \in 1 .. o + n : 1 + i - 1 = i
    OBVIOUS
  <2> HIDE DEF s, t
  <2>5. s = t
    BY <1>6, <2>2, <2>3, <2>4, SeqEqual, ZenonT(40)
  <2> QED
    BY <2>5 DEF s, t
<1>8. Len(y) - (o + n) + 1 = m
  <2>1. Len(y) = Len(x) + n
    BY <1>3
  <2> QED
    BY <1>4, <2>1
<1> QED
  BY <1>3, <1>7, <1>8 DEF y, z

(* What was written before stays as it was. *)
LEMMA Prefix ==
  ASSUME NEW x \in Seq(Byte), NEW z \in Seq(Byte), NEW m \in Nat, NEW n \in 0 .. Len(x)
  PROVE  SubSeq(x \o z, m + 1, n) = SubSeq(x, m + 1, n)
<1> DEFINE y == x \o z
<1>1. y \in Seq(Byte) /\ Len(x) \in Nat /\ Len(z) \in Nat /\ n \in Nat
  BY ConcatProperties, LenProperties
<1>2. n \in 0 .. Len(y) /\ \A i \in 1 .. n : y[i] = x[i]
  <2>1. Len(y) = Len(x) + Len(z) /\ \A i \in 1 .. Len(x) + Len(z) : i <= Len(x) => y[i] = x[i]
    BY ConcatProperties
  <2> HIDE DEF y
  <2> QED
    BY <1>1, <2>1
<1> HIDE DEF y
<1>3. CASE m + 1 <= n
  <2>1. m + 1 \in Nat \ {0}
    OBVIOUS
  <2>2. /\ SubSeq(y, m + 1, n) \in Seq(Byte) /\ Len(SubSeq(y, m + 1, n)) = n - (m + 1) + 1
        /\ \A i \in 1 .. n - (m + 1) + 1 : SubSeq(y, m + 1, n)[i] = y[m + 1 + i - 1]
    BY <1>1, <1>2, <1>3, <2>1, BytesPart
  <2>3. /\ SubSeq(x, m + 1, n) \in Seq(Byte) /\ Len(SubSeq(x, m + 1, n)) = n - (m + 1) + 1
        /\ \A i \in 1 .. n - (m + 1) + 1 : SubSeq(x, m + 1, n)[i] = x[m + 1 + i - 1]
    BY <1>3, <2>1, BytesPart
  <2> DEFINE u == SubSeq(y, m + 1, n)
             v == SubSeq(x, m + 1, n)
  <2>4. \A i \in 1 .. n - (m + 1) + 1 : m + 1 + i - 1 \in 1 .. n
    BY <1>1
  <2> HIDE DEF u, v
  <2>5. u = v
    <3>1. \A i \in 1 .. Len(u) : u[i] = v[i]
      BY <1>2, <2>2, <2>3, <2>4 DEF u, v
    <3>2. u \in Seq(Byte) /\ v \in Seq(Byte) /\ Len(u) = Len(v)
      BY <2>2, <2>3 DEF u, v
    <3> QED
      BY ONLY <3>1, <3>2, SeqEqual
  <2> QED
    BY <2>5 DEF u, v, y
<1>4. CASE ~(m + 1 <= n)
  <2>1. m + 1 \in Int /\ n \in Int /\ n < m + 1
    BY <1>1, <1>4
  <2> QED
    BY <2>1, SubSeqEmpty DEF y
<1> QED
  BY <1>3, <1>4

-----------------------------------------------------------------------------
(* A frame underway is not complete: a complete one is returned by the read
   that completes it. *)
Underway ==
  outcome = "running" /\ Headed /\ Legal(from_be(bytes)) => Len(bytes) < 4 + from_be(bytes)

(* Each value's frame begins where the one before ended. *)
Marks ==
  /\ \A k \in 1 .. Len(sent) : sent[k] <= Len(out)
  /\ received # <<>> => Len(out) = sent[Len(received)] + writer.offset

(* The inductive invariant: the types, where both buffers stand in the bytes,
   and what the bytes so far have been made of. *)
IInv == TypeOK /\ NoReadAhead /\ OutputContinues /\ StopsJustly /\ Underway /\ Marks

(* The types of the histories. *)
LEMMA Counts ==
  ASSUME TypeOK
  PROVE  /\ received \in Seq(Values) /\ Len(received) \in Nat
         /\ received = <<>> <=> Len(received) = 0
         /\ cuts \in Seq(Nat) /\ Len(cuts) \in Nat
         /\ sent \in Seq(Nat) /\ Len(sent) \in Nat
         /\ \A k \in 1 .. Len(sent) : sent[k] \in Nat
         /\ \A k \in 1 .. Len(received) : received[k] \in Values
<1>1. received \in Seq(Values) /\ cuts \in Seq(Nat) /\ sent \in Seq(Nat)
  BY DEF TypeOK
<1>2. /\ Len(received) \in Nat /\ Len(cuts) \in Nat /\ Len(sent) \in Nat
      /\ received = <<>> <=> Len(received) = 0
  BY <1>1, LenProperties, EmptySeq
<1> QED
  BY <1>1, <1>2, ElementOfSeq

-----------------------------------------------------------------------------
(* One write: what goes out continues what went before. *)
LEMMA SendContinues ==
  ASSUME TypeOK, OutputContinues, Marks, Send
  PROVE  /\ OutputContinues' /\ Marks' /\ out' \in Seq(Byte) /\ Len(out') >= Len(out)
         /\ writer' \in [bytes : Seq(Byte), offset : Nat]
<1> DEFINE b == writer.bytes
           o == writer.offset
           l == Len(out)
           w == sent[Len(received)]
           free == PipeCapacity - (l - drained)
           room == Least(Least(Len(b) - o, ChunkMax), free)
<1>1. /\ out \in Seq(Byte) /\ b \in Seq(Byte) /\ o \in Nat /\ Len(b) \in Nat
      /\ l \in Nat /\ free \in Int /\ writer = [bytes |-> b, offset |-> o]
      /\ ChunkMax \in Int
  BY Sizes, SizesAssumption
<1>2. Len(sent) = Len(received)
  BY DEF OutputContinues
<1>3. PICK n \in 1 .. room :
        out' = out \o SubSeq(b, o + 1, o + n) /\ writer' = [writer EXCEPT !.offset = o + n]
  BY DEF Send, Advanced
<1>4. UNCHANGED <<received, sent, outcome>> /\ pending(writer)
  BY DEF Send
<1>5. received # <<>>
  <2>1. SUFFICES ASSUME received = <<>> PROVE FALSE
    OBVIOUS
  <2>2. writer.bytes = <<>>
    BY <2>1 DEF OutputContinues
  <2> QED
    BY <1>1, <1>4, <2>2 DEF pending
<1>6. /\ sent[1] = 0 /\ Sent(Len(received)) = SubSeq(b, 1, o)
      /\ b = IF outcome = "outgrown" THEN <<>> ELSE Framed(received[Len(received)])
      /\ \A k \in 1 .. Len(received) : k < Len(received) => Sent(k) = Framed(received[k])
  BY <1>5 DEF OutputContinues
<1>7. /\ Len(received) \in Nat \ {0} /\ w \in Nat /\ l = w + o
      /\ \A k \in 1 .. Len(received) : sent[k] \in Nat /\ sent[k] <= l
  <2>1. Len(received) \in Nat \ {0}
    BY <1>5, Counts
  <2> QED
    BY <1>2, <1>5, <2>1, Counts DEF Marks
<1>8. SubSeq(out, l - o + 1, l) = SubSeq(b, 1, o) /\ o <= l
  <2>1. l - o + 1 = w + 1 /\ o <= l
    BY <1>1, <1>7
  <2>2. Sent(Len(received)) = SubSeq(out, w + 1, l)
    <3>1. ~(Len(received) < Len(sent))
      BY <1>2, <1>7
    <3> QED
      BY <3>1 DEF Sent
  <2> QED
    BY <1>6, <2>1, <2>2
<1> HIDE DEF b, o, w, free
<1>9. room \in Int /\ room <= Len(b) - o
  BY <1>1 DEF Least
<1> HIDE DEF room
<1>10. n \in Nat \ {0} /\ o + n <= Len(b) /\ o + n \in Nat
  BY <1>1, <1>3, <1>9, SMTT(20)
<1>11. writer' = [bytes |-> b, offset |-> o + n]
  BY <1>1, <1>3
<1>12. writer'.bytes = b /\ writer'.offset = o + n
  BY <1>11
<1> DEFINE z == SubSeq(b, o + 1, o + n)
           y == out \o z
<1>13. /\ y \in Seq(Byte) /\ Len(y) = l + n
       /\ SubSeq(y, Len(y) - (o + n) + 1, Len(y)) = SubSeq(b, 1, o + n)
  BY ONLY <1>1, <1>8, <1>10, Continuation
<1>14. out' = y
  BY <1>3
<1>15. /\ out' \in Seq(Byte) /\ Len(out') = l + n /\ Len(out') = w + (o + n)
       /\ SubSeq(out', w + 1, Len(out')) = SubSeq(b, 1, o + n)
  <2> HIDE DEF y, l
  <2>1. Len(y) - (o + n) + 1 = w + 1 /\ l + n = w + (o + n)
    BY <1>1, <1>7, <1>10, <1>13
  <2> QED
    BY <1>13, <1>14, <2>1
<1>16. z \in Seq(Byte)
  <2>1. o + 1 \in Nat \ {0} /\ o + n \in 0 .. Len(b)
    BY <1>1, <1>10
  <2> QED
    BY <1>1, <2>1, BytesPart
<1>17. ASSUME NEW k \in 1 .. Len(received), k < Len(received)
       PROVE  Sent(k)' = Framed(received[k])
  <2>1. k + 1 \in 1 .. Len(received) /\ k < Len(sent)
    BY <1>2, <1>7, <1>17
  <2>2. sent[k] \in Nat /\ sent[k + 1] \in 0 .. Len(out)
    BY <1>7, <2>1
  <2> DEFINE i == sent[k]
             j == sent[k + 1]
  <2> HIDE DEF z, i, j
  <2>3. SubSeq(y, i + 1, j) = SubSeq(out, i + 1, j)
    BY <1>1, <1>16, <2>2, Prefix DEF i, j
  <2>4. Sent(k)' = SubSeq(out', i + 1, j) /\ Sent(k) = SubSeq(out, i + 1, j)
    BY <1>4, <2>1 DEF Sent, i, j
  <2> QED
    BY <1>6, <1>14, <1>17, <2>3, <2>4
<1>18. Sent(Len(received))' = SubSeq(out', w + 1, Len(out'))
  <2> HIDE DEF z, y, l
  <2>1. ~(Len(received) < Len(sent))
    BY <1>2, <1>7
  <2>2. sent' = sent /\ received' = received
    BY <1>4
  <2>3. Sent(Len(received))' = SubSeq(out', sent[Len(received)] + 1, Len(out'))
    BY <2>1, <2>2 DEF Sent
  <2> QED
    BY <2>3 DEF w
<1>19. OutputContinues'
  <2>1. Len(sent') = Len(received') /\ writer'.offset <= Len(writer'.bytes)
    BY <1>2, <1>4, <1>10, <1>12
  <2>2. received' = received
    BY <1>4
  <2>3. /\ sent'[1] = 0 /\ Sent(Len(received))' = SubSeq(writer'.bytes, 1, writer'.offset)
        /\ writer'.bytes = IF outcome' = "outgrown" THEN <<>> ELSE Framed(received'[Len(received')])
    BY <1>4, <1>6, <1>12, <1>15, <1>18
  <2>4. \A k \in 1 .. Len(received') : k < Len(received') => Sent(k)' = Framed(received'[k])
    BY <1>17, <2>2
  <2> QED
    BY <1>5, <2>1, <2>2, <2>3, <2>4 DEF OutputContinues
<1>20. Marks'
  <2> HIDE DEF l
  <2>1. Len(out') = sent'[Len(received')] + writer'.offset
    BY <1>4, <1>12, <1>15 DEF w
  <2>2. ASSUME NEW k \in 1 .. Len(sent') PROVE sent'[k] <= Len(out')
    <3>1. k \in 1 .. Len(received) /\ sent'[k] = sent[k]
      BY <1>2, <1>4
    <3>2. sent[k] \in Nat /\ sent[k] <= l /\ l \in Nat /\ Len(out') = l + n
      BY <1>1, <1>7, <1>15, <3>1
    <3> QED
      BY <1>10, <3>1, <3>2
  <2> QED
    BY <2>1, <2>2 DEF Marks
<1>21. Len(out') >= Len(out)
  BY <1>1, <1>10, <1>15
<1> QED
  BY <1>1, <1>10, <1>11, <1>15, <1>19, <1>20, <1>21

(* What the reader returns is what the frame it has completed says. *)
LEMMA ReceiveReturns ==
  ASSUME TypeOK, NoReadAhead, StopsJustly, Receive
  PROVE  StopsJustly'
<1> DEFINE v == Parse[Payload]
           n == Len(received)
<1>1. Read /\ Complete(Got) /\ Payload \in DOMAIN Parse /\ outcome = "running"
  BY DEF Receive, Read, Reading
<1>2. /\ cuts' = Append(cuts, consumed') /\ received' = Append(received, v)
      /\ stream' = stream
  BY DEF Receive
<1>3. /\ Got = SubSeq(stream, boundary + 1, consumed') /\ Framing(Got)
      /\ consumed' \in Nat
  BY <1>1, ReadMoves, Arrived
<1>4. /\ n \in Nat /\ Len(cuts) = n + 1 /\ cuts[1] = 0 /\ cuts \in Seq(Nat)
      /\ received \in Seq(Values)
      /\ \A k \in 1 .. n :
           LET frame == Between(cuts[k], cuts[k + 1])
           IN  Framing(frame) /\ Text(frame) \in DOMAIN Parse /\ received[k] = Parse[Text(frame)]
      /\ \A k \in 1 .. n : Len(Encode[received[k]]) > MaxFrame => k = n /\ outcome = "outgrown"
  BY Counts DEF StopsJustly, FramesReturned
<1>5. v \in Values
  BY <1>1, JsonAssumption
<1> HIDE DEF n, v
<1>6. /\ Len(cuts') = n + 2 /\ cuts'[n + 2] = consumed'
      /\ \A k \in 1 .. n + 1 : cuts'[k] = cuts[k]
      /\ Len(received') = n + 1 /\ received'[n + 1] = v /\ received' # <<>>
      /\ \A k \in 1 .. n : received'[k] = received[k]
  <2>1. /\ Len(cuts') = Len(cuts) + 1 /\ cuts'[Len(cuts) + 1] = consumed'
        /\ \A k \in 1 .. Len(cuts) : cuts'[k] = cuts[k]
    BY <1>2, <1>3, <1>4, AppendProperties
  <2>2. /\ Len(received') = n + 1 /\ received'[n + 1] = v /\ received' # <<>>
        /\ \A k \in 1 .. n : received'[k] = received[k]
    BY <1>2, <1>4, <1>5, AppendProperties DEF n
  <2>3. n + 1 + 1 = n + 2
    BY <1>4
  <2> QED
    BY <1>4, <2>1, <2>2, <2>3
<1>7. outcome' = IF Len(Encode[v]) <= MaxFrame THEN "running" ELSE "outgrown"
  BY <1>1 DEF Receive, v
<1>8. cuts'[1] = 0 /\ cuts[n + 1] = boundary
  BY <1>4, <1>6 DEF boundary
<1>9. ASSUME NEW k \in 1 .. n + 1
      PROVE  LET frame == Between(cuts[k], cuts[k + 1])'
             IN  Framing(frame) /\ Text(frame) \in DOMAIN Parse /\ received'[k] = Parse[Text(frame)]
  <2>1. CASE k \in 1 .. n
    <3>1. k + 1 \in 1 .. n + 1 /\ k \in 1 .. n + 1
      BY <1>4, <2>1
    <3>2. Between(cuts[k], cuts[k + 1])' = Between(cuts[k], cuts[k + 1])
      BY <1>2, <1>6, <3>1 DEF Between
    <3> QED
      BY <1>4, <1>6, <2>1, <3>2
  <2>2. CASE k = n + 1
    <3>1. cuts'[k] = boundary /\ cuts'[k + 1] = consumed'
      <4>1. n + 1 + 1 = n + 2 /\ n + 1 \in 1 .. n + 1
        BY <1>4
      <4> QED
        BY <1>6, <1>8, <2>2, <4>1
    <3>2. Between(cuts[k], cuts[k + 1])' = Got
      BY <1>2, <1>3, <3>1 DEF Between
    <3>3. received'[k] = v
      BY <1>6, <2>2
    <3> QED
      BY <1>1, <1>3, <3>2, <3>3 DEF Payload, v
  <2> QED
    BY <1>4, <2>1, <2>2
<1>10. ASSUME NEW k \in 1 .. n + 1, Len(Encode[received'[k]]) > MaxFrame
       PROVE  k = n + 1 /\ outcome' = "outgrown"
  <2>1. ~(k \in 1 .. n)
    BY <1>1, <1>4, <1>6, <1>10
  <2>2. k = n + 1
    BY <1>4, <2>1
  <2>3. Len(Encode[v]) \in Nat
    BY <1>5, JsonAssumption
  <2> QED
    BY <1>6, <1>7, <1>10, <2>2, <2>3, SizesAssumption
<1>11. outcome' = "outgrown" => Len(Encode[received'[n + 1]]) > MaxFrame
  <2>1. Len(Encode[v]) \in Nat
    BY <1>5, JsonAssumption
  <2> QED
    BY <1>6, <1>7, <2>1, SizesAssumption
<1>12. FramesReturned'
  <2>1. Len(cuts') = Len(received') + 1
    BY <1>4, <1>6
  <2>2. Len(received') = n + 1 /\ received' # <<>>
    BY <1>6
  <2> QED
    BY <1>8, <1>9, <1>10, <1>11, <2>1, <2>2 DEF FramesReturned
<1>13. outcome' \in {"running", "outgrown"}
  BY <1>7
<1> QED
  BY <1>12, <1>13 DEF StopsJustly

(* Other steps return nothing; they may stop the reader, each for its reason. *)
LEMMA Returns ==
  ASSUME StopsJustly, outcome = "running", outcome' # "outgrown",
         UNCHANGED <<stream, cuts, received>>
  PROVE  FramesReturned' /\ boundary' = boundary /\ Unread' = Unread
<1>1. boundary' = boundary
  BY DEF boundary
<1>2. Unread' = Unread
  BY <1>1 DEF Unread, Between
<1>3. FramesReturned'
  <2>1. \A k \in 1 .. Len(received) :
          Between(cuts[k], cuts[k + 1])' = Between(cuts[k], cuts[k + 1])
    BY DEF Between
  <2> QED
    BY <2>1 DEF StopsJustly, FramesReturned
<1> QED
  BY <1>1, <1>2, <1>3

(* The bytes held are the first of those not yet returned. *)
LEMMA Held ==
  ASSUME TypeOK, NoReadAhead
  PROVE  /\ Unread \in Seq(Byte) /\ Len(Unread) \in Nat /\ Len(bytes) <= Len(Unread)
         /\ Headed => from_be(Unread) = from_be(bytes)
         /\ consumed = Len(stream) => Unread = bytes
<1>1. /\ stream \in Seq(Byte) /\ bytes \in Seq(Byte) /\ Len(stream) \in Nat /\ Len(bytes) \in Nat
      /\ boundary \in Nat /\ consumed \in Nat /\ boundary <= consumed /\ consumed <= Len(stream)
  BY Sizes
<1>2. bytes = SubSeq(stream, boundary + 1, consumed)
  BY DEF NoReadAhead
<1>3. Unread = SubSeq(stream, boundary + 1, Len(stream))
  BY DEF Unread, Between
<1> DEFINE m == boundary + 1
<1>4. m \in Nat \ {0} /\ consumed \in 0 .. Len(stream) /\ Len(stream) \in 0 .. Len(stream)
  BY <1>1
<1>5. /\ Unread \in Seq(Byte)
      /\ Len(Unread) = IF m <= Len(stream) THEN Len(stream) - m + 1 ELSE 0
      /\ \A i \in 1 .. Len(stream) - m + 1 : Unread[i] = stream[m + i - 1]
  BY <1>1, <1>3, <1>4, BytesPart
<1>6. /\ Len(bytes) = IF m <= consumed THEN consumed - m + 1 ELSE 0
      /\ \A i \in 1 .. consumed - m + 1 : bytes[i] = stream[m + i - 1]
  BY <1>1, <1>2, <1>4, BytesPart
<1>7. Len(Unread) \in Nat /\ Len(bytes) <= Len(Unread)
  BY <1>1, <1>5, <1>6
<1>8. ASSUME Headed PROVE from_be(Unread) = from_be(bytes)
  <2>1. \A i \in 1 .. 4 : i \in 1 .. consumed - m + 1 /\ i \in 1 .. Len(stream) - m + 1
    BY <1>1, <1>6, <1>8 DEF Headed
  <2>2. \A i \in 1 .. 4 : Unread[i] = bytes[i]
    BY <1>5, <1>6, <2>1
  <2>3. 1 \in 1 .. 4 /\ 2 \in 1 .. 4 /\ 3 \in 1 .. 4 /\ 4 \in 1 .. 4
    OBVIOUS
  <2> QED
    BY <2>2, <2>3 DEF from_be
<1> QED
  BY <1>2, <1>3, <1>5, <1>7, <1>8

(* A value is relayed only after the one before: the whole of that was sent. *)
LEMMA ReceiveContinues ==
  ASSUME TypeOK, OutputContinues, Marks, Receive
  PROVE  OutputContinues' /\ Marks' /\ writer' \in [bytes : Seq(Byte), offset : Nat]
<1> DEFINE v == Parse[Payload]
           n == Len(received)
           l == Len(out)
<1>1. /\ outcome = "running" /\ ~pending(writer) /\ v \in Values
      /\ out' = out /\ received' = Append(received, v) /\ sent' = Append(sent, l)
  BY JsonAssumption DEF Receive, Read, Reading
<1>2. /\ Len(sent) = n /\ n \in Nat /\ l \in Nat /\ sent \in Seq(Nat) /\ received \in Seq(Values)
      /\ out \in Seq(Byte) /\ writer.bytes \in Seq(Byte) /\ writer.offset \in Nat
      /\ writer.offset <= Len(writer.bytes) /\ Len(writer.bytes) \in Nat
      /\ received = <<>> <=> n = 0
      /\ \A k \in 1 .. n : sent[k] \in Nat /\ sent[k] <= l
  BY Counts, Sizes DEF OutputContinues, Marks
<1>3. received = <<>> => l = 0
  BY DEF OutputContinues
<1>4. received # <<>> =>
        /\ sent[1] = 0 /\ Sent(n) = SubSeq(writer.bytes, 1, writer.offset)
        /\ writer.bytes = Framed(received[n])
  BY <1>1 DEF OutputContinues
<1>5. \A k \in 1 .. n : k < n => Sent(k) = Framed(received[k])
  BY DEF OutputContinues
<1>6. writer.offset = Len(writer.bytes)
  BY <1>1, <1>2 DEF pending
<1>7. SubSeq(writer.bytes, 1, writer.offset) = writer.bytes
  BY <1>2, <1>6, SubSeqFull
<1>8. IF Len(Encode[v]) <= MaxFrame
      THEN writer' = [bytes |-> Framed(v), offset |-> 0] /\ outcome' = "running"
      ELSE writer' = [bytes |-> <<>>, offset |-> 0] /\ outcome' = "outgrown"
  BY <1>1 DEF Receive
<1> HIDE DEF n, v, l
<1>9. /\ Len(sent') = n + 1 /\ sent'[n + 1] = l
      /\ \A k \in 1 .. n : sent'[k] = sent[k]
      /\ Len(received') = n + 1 /\ received'[n + 1] = v /\ received' # <<>>
      /\ \A k \in 1 .. n : received'[k] = received[k]
  BY <1>1, <1>2, AppendProperties DEF n
<1>10. /\ writer' \in [bytes : Seq(Byte), offset : Nat] /\ writer'.offset = 0
       /\ writer'.bytes = IF outcome' = "outgrown" THEN <<>> ELSE Framed(v)
  <2>1. Len(Encode[v]) <= MaxFrame => Framed(v) \in Seq(Byte)
    BY <1>1, FramedBytes
  <2>2. CASE Len(Encode[v]) <= MaxFrame
    <3>1. writer' = [bytes |-> Framed(v), offset |-> 0] /\ outcome' = "running"
      BY <1>8, <2>2
    <3> QED
      BY <2>1, <2>2, <3>1
  <2>3. CASE ~(Len(Encode[v]) <= MaxFrame)
    <3>1. writer' = [bytes |-> <<>>, offset |-> 0] /\ outcome' = "outgrown"
      BY <1>8, <2>3
    <3>2. <<>> \in Seq(Byte)
      OBVIOUS
    <3> QED
      BY <3>1, <3>2
  <2> QED
    BY <2>2, <2>3
<1>11. Len(writer'.bytes) \in Nat
  BY <1>10, LenProperties
<1>12. sent'[1] = 0
  <2>1. CASE n = 0
    BY <1>2, <1>3, <1>9, <2>1
  <2>2. CASE n # 0
    <3>1. 1 \in 1 .. n
      BY <1>2, <2>2
    <3> QED
      BY <1>2, <1>4, <1>9, <2>2, <3>1
  <2> QED
    BY <2>1, <2>2
<1>13. SubSeq(out', sent'[n + 1] + 1, Len(out')) = SubSeq(writer'.bytes, 1, writer'.offset)
  <2>2. SubSeq(out', sent'[n + 1] + 1, Len(out')) = SubSeq(out, l + 1, l)
    BY <1>1, <1>9 DEF l
  <2>3. l + 1 \in Int /\ l \in Int /\ l < l + 1
    BY <1>2
  <2>4. SubSeq(out, l + 1, l) = <<>> /\ SubSeq(writer'.bytes, 1, 0) = <<>>
    BY <2>3, SubSeqEmpty
  <2> QED
    BY <1>10, <2>2, <2>4
<1>14. ASSUME NEW k \in 1 .. n PROVE Sent(k)' = Framed(received[k])
  <2>1. k < Len(sent') /\ sent'[k] = sent[k]
    BY <1>2, <1>9
  <2>2. Sent(k)' = SubSeq(out, sent[k] + 1, sent'[k + 1])
    BY <1>1, <2>1 DEF Sent
  <2>3. CASE k < n
    <3>1. k + 1 \in 1 .. n
      BY <1>2, <2>3
    <3>2. sent'[k + 1] = sent[k + 1]
      BY <1>9, <3>1
    <3>3. Sent(k) = SubSeq(out, sent[k] + 1, sent[k + 1])
      BY <1>2, <2>3 DEF Sent
    <3> QED
      BY <1>5, <2>2, <2>3, <3>2, <3>3
  <2>4. CASE ~(k < n)
    <3>1. k = n /\ n # 0
      BY <1>2, <2>4
    <3>2. ~(n < Len(sent))
      BY <1>2
    <3>3. Sent(n) = SubSeq(out, sent[n] + 1, l)
      BY <3>2 DEF Sent, l
    <3>4. Sent(n) = Framed(received[n])
      BY <1>2, <1>4, <1>7, <3>1
    <3> QED
      BY <1>9, <2>2, <3>1, <3>3, <3>4
  <2> QED
    BY <2>3, <2>4
<1>15. \A k \in 1 .. n + 1 : k < n + 1 => Sent(k)' = Framed(received'[k])
  <2>1. \A k \in 1 .. n + 1 : k < n + 1 => k \in 1 .. n
    BY <1>2
  <2> QED
    BY <1>9, <1>14, <2>1
<1>16. OutputContinues'
  <2>1. Len(sent') = Len(received') /\ writer'.offset <= Len(writer'.bytes)
    BY <1>9, <1>10, <1>11
  <2>2. /\ sent'[1] = 0
        /\ Sent(Len(received))' = SubSeq(writer'.bytes, 1, writer'.offset)
        /\ writer'.bytes = IF outcome' = "outgrown" THEN <<>> ELSE Framed(received'[Len(received')])
    <3>1. ~(Len(received') < Len(sent'))
      BY <1>2, <1>9
    <3>2. Sent(Len(received))' = SubSeq(out', sent'[Len(received')] + 1, Len(out'))
      BY <3>1 DEF Sent
    <3> QED
      BY <1>9, <1>10, <1>12, <1>13, <3>2
  <2> QED
    BY <1>9, <1>15, <2>1, <2>2 DEF OutputContinues
<1>17. Marks'
  <2>1. \A k \in 1 .. Len(sent') : k \in 1 .. n \/ k = n + 1
    BY <1>2, <1>9
  <2>2. \A k \in 1 .. Len(sent') : sent'[k] <= l
    BY <1>2, <1>9, <2>1
  <2>3. l = sent'[Len(received')] + writer'.offset
    BY <1>2, <1>9, <1>10
  <2> QED
    BY <1>1, <2>2, <2>3 DEF Marks, l
<1> QED
  BY <1>10, <1>16, <1>17

(* Steps that leave the output alone. *)
LEMMA OutputStays ==
  ASSUME OutputContinues, Marks, UNCHANGED <<received, writer, out, sent>>,
         outcome' = outcome \/ (outcome = "running" /\ outcome' # "outgrown")
  PROVE  OutputContinues' /\ Marks'
<1>1. Marks'
  BY DEF Marks
<1>2. outcome' = "outgrown" <=> outcome = "outgrown"
  OBVIOUS
<1>3. \A k : Sent(k)' = Sent(k)
  BY DEF Sent
<1>4. OutputContinues'
  BY <1>2, <1>3 DEF OutputContinues
<1> QED
  BY <1>1, <1>4

-----------------------------------------------------------------------------
(* The invariant holds at first ... *)
LEMMA InvInit == Init => IInv
<1> SUFFICES ASSUME Init PROVE IInv
  OBVIOUS
<1>1. stream \in Seq(Byte) /\ <<>> \in Seq(Byte) /\ <<>> \in Seq(Values) /\ Len(<<>>) = 0
  BY JsonAssumption DEF Init
<1>2. /\ cuts \in Seq(Nat) /\ Len(cuts) = 1 /\ cuts # <<>> /\ cuts[1] = 0 /\ boundary = 0
      /\ sent = <<>> /\ sent \in Seq(Nat)
  BY DEF Init, boundary
<1>3. TypeOK
  <2>1. Len(stream) \in Nat
    BY <1>1, LenProperties
  <2>2. 0 \in 0 .. Len(stream) /\ 0 \in 0 .. 0
    BY <2>1
  <2>3. 0 <= 4 + MaxFrame
    BY SizesAssumption
  <2> QED
    BY <1>1, <1>2, <2>2, <2>3 DEF Init, TypeOK
<1>4. SubSeq(stream, 0 + 1, 0) = <<>> /\ SubSeq(<<>>, 1, 0) = <<>>
  BY SubSeqEmpty
<1>5. NoReadAhead
  BY <1>1, <1>2, <1>4 DEF Init, NoReadAhead
<1>6. OutputContinues
  BY <1>1, <1>2 DEF Init, OutputContinues
<1>7. StopsJustly
  BY <1>1, <1>2 DEF Init, StopsJustly, FramesReturned
<1>8. Underway /\ Marks
  BY <1>1, <1>2 DEF Init, Underway, Headed, Marks
<1> QED
  BY <1>3, <1>5, <1>6, <1>7, <1>8 DEF IInv

(* Steps that leave the bytes of both buffers alone. *)
LEMMA Quiet ==
  ASSUME IInv, UNCHANGED <<stream, bytes, received, consumed, cuts, sent, writer, out, outcome>>
  PROVE  NoReadAhead' /\ OutputContinues' /\ StopsJustly' /\ Underway' /\ Marks'
<1>1. boundary' = boundary
  BY DEF boundary
<1>2. Unread' = Unread /\ \A a, b : Between(a, b)' = Between(a, b)
  BY <1>1 DEF Unread, Between
<1>3. NoReadAhead' /\ Underway'
  BY <1>1 DEF IInv, NoReadAhead, Underway, Headed
<1>4. OutputContinues' /\ Marks'
  BY OutputStays DEF IInv
<1>5. FramesReturned'
  BY DEF IInv, StopsJustly, FramesReturned, Between
<1>6. StopsJustly'
  <2>1. StopsJustly
    BY DEF IInv
  <2>2. outcome = "bad json" =>
         \E end \in boundary .. Len(stream) :
           Framing(SubSeq(stream, boundary + 1, end))
             /\ Text(SubSeq(stream, boundary + 1, end)) \notin DOMAIN Parse
    BY <2>1 DEF StopsJustly, Between
  <2> QED
    BY <1>1, <1>2, <1>5, <2>1, <2>2 DEF StopsJustly, Between
<1> QED
  BY <1>3, <1>4, <1>5, <1>6

(* ... and every step keeps it. *)
LEMMA InvStep == IInv /\ [Next]_vars => IInv'
<1> SUFFICES ASSUME IInv, [Next]_vars PROVE IInv'
  OBVIOUS
<1>0. TypeOK /\ NoReadAhead /\ OutputContinues /\ StopsJustly /\ Underway /\ Marks
  BY DEF IInv
<1>1. CASE Feed
  <2>1. /\ fed' \in 0 .. Len(stream) /\ consumed \in 0 .. fed'
        /\ UNCHANGED <<stream, reader, writer, out, sent, drained, outcome>>
    BY <1>0, <1>1, Sizes DEF Feed
  <2>2. boundary' = boundary
    BY <2>1 DEF boundary
  <2>3. TypeOK'
    BY <1>0, <2>1, <2>2 DEF TypeOK
  <2> QED
    BY <2>1, <2>3, Quiet DEF IInv
<1>2. CASE Take
  <2>1. /\ drained' \in 0 .. Len(out)
        /\ UNCHANGED <<stream, fed, reader, writer, out, sent, outcome>>
    BY <1>0, <1>2, Sizes DEF Take
  <2>2. boundary' = boundary
    BY <2>1 DEF boundary
  <2>3. TypeOK'
    BY <1>0, <2>1, <2>2 DEF TypeOK
  <2> QED
    BY <2>1, <2>3, Quiet DEF IInv
<1>3. CASE SizeLimit
  <2>1. /\ outcome = "running" /\ Headed /\ ~Legal(from_be(bytes)) /\ outcome' = "size limit"
        /\ UNCHANGED <<stream, fed, reader, writer, out, sent, drained>>
    BY <1>3 DEF SizeLimit, Reading
  <2>2. FramesReturned' /\ boundary' = boundary /\ Unread' = Unread
    BY <1>0, <2>1, Returns
  <2>3. Len(Unread) >= 4 /\ from_be(Unread) \notin 1 .. MaxFrame
    <3>1. Len(Unread) \in Nat /\ Len(bytes) <= Len(Unread) /\ from_be(Unread) = from_be(bytes)
      BY <1>0, <2>1, Held
    <3>2. Len(bytes) \in Nat /\ bytes \in Seq(Byte)
      BY <1>0, Sizes
    <3>3. from_be(bytes) \in Nat
      BY <2>1, <3>2, Header DEF Headed
    <3>4. Len(bytes) >= 4 /\ ~(from_be(bytes) # 0 /\ from_be(bytes) <= MaxFrame)
      BY <2>1 DEF Headed, Legal
    <3> DEFINE length == from_be(bytes)
    <3> HIDE DEF length
    <3>5. length \notin 1 .. MaxFrame
      BY <3>4, SizesAssumption DEF length
    <3>6. Len(Unread) >= 4
      BY <3>1, <3>2, <3>4
    <3> QED
      BY <3>1, <3>5, <3>6 DEF length
  <2>4. StopsJustly'
    BY <2>1, <2>2, <2>3 DEF StopsJustly
  <2>5. TypeOK' /\ NoReadAhead' /\ Underway'
    BY <1>0, <2>1, <2>2 DEF TypeOK, NoReadAhead, Underway
  <2> QED
    BY <1>0, <2>1, <2>4, <2>5, OutputStays DEF IInv
<1>4. CASE Eof
  <2>1. /\ outcome = "running" /\ (Headed => Legal(from_be(bytes))) /\ outcome' = "eof"
        /\ consumed = Len(stream)
        /\ UNCHANGED <<stream, fed, reader, writer, out, sent, drained>>
    BY <1>4 DEF Eof, Reading
  <2>2. FramesReturned' /\ boundary' = boundary /\ Unread' = Unread
    BY <1>0, <2>1, Returns
  <2>3. Unread = bytes
    BY <1>0, <2>1, Held
  <2>4. Headed => from_be(bytes) \in 1 .. MaxFrame /\ Len(bytes) < 4 + from_be(bytes)
    <3>1. SUFFICES ASSUME Headed
                   PROVE  from_be(bytes) \in 1 .. MaxFrame /\ Len(bytes) < 4 + from_be(bytes)
      OBVIOUS
    <3>2. bytes \in Seq(Byte)
      BY <1>0, Sizes
    <3>3. from_be(bytes) \in Nat
      BY <3>1, <3>2, Header DEF Headed
    <3>4. Legal(from_be(bytes)) /\ Len(bytes) < 4 + from_be(bytes)
      BY <1>0, <2>1, <3>1 DEF Underway
    <3> HIDE DEF from_be
    <3> QED
      BY <3>3, <3>4, SizesAssumption DEF Legal
  <2>5. StopsJustly'
    BY <2>1, <2>2, <2>3, <2>4 DEF StopsJustly, Headed
  <2>6. TypeOK' /\ NoReadAhead' /\ Underway'
    BY <1>0, <2>1, <2>2 DEF TypeOK, NoReadAhead, Underway
  <2> QED
    BY <1>0, <2>1, <2>5, <2>6, OutputStays DEF IInv
<1>5. CASE ReceivePart
  <2>1. /\ Read /\ ~Complete(Got) /\ bytes' = Got /\ outcome = "running"
        /\ UNCHANGED <<stream, fed, received, writer, out, sent, drained, outcome, cuts>>
    BY <1>5 DEF ReceivePart, Read, Reading
  <2>2. FramesReturned' /\ boundary' = boundary
    BY <1>0, <2>1, Returns
  <2>3. NoReadAhead'
    BY <1>0, <2>1, <2>2, ReadMoves DEF NoReadAhead
  <2>4. TypeOK'
    <3>1. consumed' \in 0 .. fed /\ boundary \in 0 .. consumed'
      BY <1>0, <2>1, Arrived
    <3> QED
      BY <1>0, <2>1, <2>2, <3>1, ReadMoves DEF TypeOK
  <2>5. StopsJustly'
    BY <2>1, <2>2 DEF StopsJustly
  <2>6. Underway'
    BY <1>0, <2>1, ReadMoves DEF Underway, Headed
  <2> QED
    BY <1>0, <2>1, <2>3, <2>4, <2>5, <2>6, OutputStays DEF IInv
<1>6. CASE ReceiveBad
  <2>1. /\ Read /\ Complete(Got) /\ bytes' = Got /\ outcome = "running" /\ outcome' = "bad json"
        /\ Text(Got) \notin DOMAIN Parse
        /\ UNCHANGED <<stream, fed, received, writer, out, sent, drained, cuts>>
    BY <1>6 DEF ReceiveBad, Payload, Read, Reading
  <2>2. FramesReturned' /\ boundary' = boundary
    BY <1>0, <2>1, Returns
  <2>3. NoReadAhead'
    BY <1>0, <2>1, <2>2, ReadMoves DEF NoReadAhead
  <2>4. TypeOK'
    <3>1. consumed' \in 0 .. fed /\ boundary \in 0 .. consumed'
      BY <1>0, <2>1, Arrived
    <3> QED
      BY <1>0, <2>1, <2>2, <3>1, ReadMoves DEF TypeOK
  <2>5. StopsJustly'
    <3>1. Got = SubSeq(stream', boundary' + 1, consumed') /\ Framing(Got)
      BY <1>0, <2>1, <2>2, ReadMoves
    <3>2. consumed' \in boundary' .. Len(stream')
      <4>1. consumed' \in consumed .. fed /\ boundary <= consumed'
        BY <1>0, <2>1, ReadMoves
      <4>2. /\ consumed \in Nat /\ fed \in Nat /\ boundary \in Nat /\ Len(stream) \in Nat
            /\ fed <= Len(stream)
        BY <1>0, Sizes
      <4>3. consumed' \in boundary .. Len(stream)
        BY <4>1, <4>2
      <4> QED
        BY <2>1, <2>2, <4>3
    <3>3. \E end \in boundary' .. Len(stream') :
            Framing(SubSeq(stream', boundary' + 1, end))
              /\ Text(SubSeq(stream', boundary' + 1, end)) \notin DOMAIN Parse
      BY <2>1, <3>1, <3>2
    <3> QED
      BY <2>1, <2>2, <3>3 DEF StopsJustly, Between
  <2>6. Underway'
    BY <2>1 DEF Underway
  <2> QED
    BY <1>0, <2>1, <2>3, <2>4, <2>5, <2>6, OutputStays DEF IInv
<1>7. CASE Receive
  <2> DEFINE v == Parse[Payload]
  <2>1. Read /\ v \in Values /\ outcome = "running"
    BY <1>7, JsonAssumption DEF Receive, Read, Reading
  <2>2. /\ bytes' = <<>> /\ received' = Append(received, v)
        /\ cuts' = Append(cuts, consumed') /\ sent' = Append(sent, Len(out))
        /\ UNCHANGED <<stream, fed, out, drained>>
    BY <1>7 DEF Receive
  <2>3. /\ writer' \in [bytes : Seq(Byte), offset : Nat] /\ OutputContinues' /\ Marks'
        /\ StopsJustly'
    BY <1>0, <1>7, ReceiveContinues, ReceiveReturns
  <2>4. outcome' \in {"running", "outgrown"}
    BY <1>7, <2>1 DEF Receive
  <2>5. consumed' \in Nat /\ consumed' \in 0 .. fed /\ consumed' \in 0 .. consumed'
    BY <1>0, <2>1, Arrived
  <2>6. cuts' \in Seq(Nat) /\ cuts' # <<>> /\ boundary' = consumed'
    <3>1. Len(cuts') = Len(cuts) + 1 /\ cuts'[Len(cuts) + 1] = consumed' /\ cuts' \in Seq(Nat)
      BY <1>0, <2>2, <2>5, Counts, AppendProperties
    <3>2. cuts' # <<>>
      <4>1. Len(cuts') # 0
        BY <1>0, <3>1, Counts
      <4> QED
        BY <4>1
    <3> QED
      BY <3>1, <3>2 DEF boundary
  <2>7. TypeOK'
    <3>1. received' \in Seq(Values)
      BY <1>0, <2>1, <2>2, AppendProperties, Counts
    <3>2. <<>> \in Seq(Byte) /\ Len(<<>>) <= 4 + MaxFrame
      BY SizesAssumption
    <3>3. outcome' \in {"running", "eof", "size limit", "bad json", "outgrown"}
      BY <2>4
    <3>4. sent' \in Seq(Nat)
      BY <1>0, <2>2, AppendProperties, Counts, Sizes
    <3> QED
      BY <1>0, <2>2, <2>3, <2>5, <2>6, <3>1, <3>2, <3>3, <3>4 DEF TypeOK
  <2>8. NoReadAhead'
    <3>1. SubSeq(stream', consumed' + 1, consumed') = <<>>
      <4>1. \A k \in Nat : k + 1 \in Int /\ k \in Int /\ k < k + 1
        OBVIOUS
      <4>2. \A k \in Nat : SubSeq(stream', k + 1, k) = <<>>
        BY <4>1, SubSeqEmpty
      <4> QED
        BY <2>5, <4>2
    <3>2. Len(<<>>) <= 4 + (IF Len(<<>>) >= 4 THEN from_be(<<>>) ELSE 0)
      OBVIOUS
    <3> QED
      BY <2>2, <2>6, <3>1, <3>2 DEF NoReadAhead
  <2>9. Underway'
    <3>1. ~(Len(bytes') >= 4)
      BY <2>2
    <3> QED
      BY <3>1 DEF Underway, Headed
  <2> QED
    BY <2>3, <2>7, <2>8, <2>9 DEF IInv
<1>8. CASE Send
  <2>1. UNCHANGED <<stream, fed, reader, sent, drained, outcome>> /\ outcome = "running"
    BY <1>8 DEF Send
  <2>2. drained \in 0 .. Len(out')
    BY <1>0, <1>8, SendContinues, Sizes, LenProperties
  <2>3. FramesReturned' /\ boundary' = boundary
    BY <1>0, <2>1, Returns
  <2>4. TypeOK'
    BY <1>0, <1>8, <2>1, <2>2, <2>3, SendContinues DEF TypeOK
  <2>5. NoReadAhead' /\ StopsJustly' /\ Underway'
    BY <1>0, <2>1, <2>3 DEF NoReadAhead, StopsJustly, Underway, Headed
  <2> QED
    BY <1>0, <1>8, <2>4, <2>5, SendContinues DEF IInv
<1>9. CASE UNCHANGED vars
  <2>1. boundary' = boundary
    BY <1>9 DEF boundary
  <2>2. TypeOK'
    BY <1>0, <1>9, <2>1 DEF TypeOK
  <2> QED
    BY <1>9, <2>2, Quiet DEF IInv
<1> QED
  BY <1>1, <1>2, <1>3, <1>4, <1>5, <1>6, <1>7, <1>8, <1>9 DEF Next, Receiving, Done

(* The invariant holds in every reachable state. *)
THEOREM TransportInvariance == Spec => []IInv
<1> QED
  BY InvInit, InvStep, PTL DEF Spec

(* Neither buffer ever holds anything but bytes, and the reader never more than
   one frame of the largest size, whatever the peer claims in a header. *)
THEOREM TransportTypes == Spec => []TypeOK
<1>1. IInv => TypeOK
  BY DEF IInv
<1> QED
  BY <1>1, TransportInvariance, PTL

(* Reader::receive never takes a byte of the next frame: a reader dropped
   between two frames, as after admission, loses nothing. *)
THEOREM ReaderNeverAhead == Spec => []NoReadAhead
<1>1. IInv => NoReadAhead
  BY DEF IInv
<1> QED
  BY <1>1, TransportInvariance, PTL

(* What Writer::send puts on the pipe is a frame for each value returned, in
   order, however short the writes were. *)
THEOREM WriterContinues == Spec => []OutputContinues
<1>1. IInv => OutputContinues
  BY DEF IInv
<1> QED
  BY <1>1, TransportInvariance, PTL

(* Reader::receive returns exactly the values of the frames in the peer's bytes,
   and fails only where, and as, those bytes say it must. *)
THEOREM ReaderStopsJustly == Spec => []StopsJustly
<1>1. IInv => StopsJustly
  BY DEF IInv
<1> QED
  BY <1>1, TransportInvariance, PTL

-----------------------------------------------------------------------------
(* The frames a sequence of bytes begins with, by their headers alone: where
   each begins, and where the last one ends. *)
Chain(s, d) ==
  /\ d \in Seq(Nat) /\ d # <<>> /\ d[1] = 0
  /\ \A k \in 1 .. Len(d) - 1 :
       d[k + 1] \in 0 .. Len(s) /\ Framing(SubSeq(s, d[k] + 1, d[k + 1]))

(* A set of numbers that is not empty has a least one. *)
LEMMA LeastOf ==
  ASSUME NEW S \in SUBSET Nat, S # {}
  PROVE  \E least \in S : \A k \in S : least <= k
<1>1. PICK least \in S : \A k \in S : ~(<<k, least>> \in OpToRel(<, Nat))
  BY NatLessThanWellFounded, WFMin
<1>2. \A k \in S : least <= k
  <2> SUFFICES ASSUME NEW k \in S PROVE least <= k OBVIOUS
  <2>1. ~(<<k, least>> \in OpToRel(<, Nat)) BY <1>1
  <2>2. ~(k < least) BY <2>1 DEF OpToRel
  <2> QED BY <2>2
<1> QED BY <1>2

(* A frame ends where its header says. *)
Claimed(s, m) == ((s[m + 1] * Radix + s[m + 2]) * Radix + s[m + 3]) * Radix + s[m + 4]

LEMMA FrameSpan ==
  ASSUME NEW s \in Seq(Byte), NEW m \in Nat, NEW n \in 0 .. Len(s)
  PROVE  Framing(SubSeq(s, m + 1, n)) <=>
           m + 5 <= n /\ n <= m + 4 + MaxFrame /\ Claimed(s, m) = n - m - 4
<1> DEFINE t == SubSeq(s, m + 1, n)
<1>0. Len(s) \in Nat /\ n \in Nat /\ MaxFrame \in Nat BY LenProperties, SizesAssumption
<1>1. /\ Len(t) = IF m + 1 <= n THEN n - (m + 1) + 1 ELSE 0
      /\ \A i \in 1 .. n - (m + 1) + 1 : t[i] = s[m + 1 + i - 1]
  BY BytesPart
<1> HIDE DEF t
<1>2. Len(t) = IF m + 1 <= n THEN n - m ELSE 0
  BY <1>0, <1>1
<1>3. ASSUME m + 5 <= n PROVE from_be(t) = Claimed(s, m)
  <2>1. \A i \in 1 .. 4 : t[i] = s[m + i]
    <3> SUFFICES ASSUME NEW i \in 1 .. 4 PROVE t[i] = s[m + i] OBVIOUS
    <3>1. i \in 1 .. n - (m + 1) + 1 /\ m + 1 + i - 1 = m + i BY <1>0, <1>3
    <3> QED BY <1>1, <3>1
  <2>2. t[1] = s[m + 1] /\ t[2] = s[m + 2] /\ t[3] = s[m + 3] /\ t[4] = s[m + 4]
    BY <2>1
  <2> QED BY <2>2 DEF from_be, Claimed
<1>4. Len(t) \in 5 .. 4 + MaxFrame <=> m + 5 <= n /\ n <= m + 4 + MaxFrame
  BY <1>0, <1>2
<1>5. ASSUME m + 5 <= n PROVE Len(t) - 4 = n - m - 4
  BY <1>0, <1>2, <1>5
<1> QED BY <1>3, <1>4, <1>5 DEF Framing, t

LEMMA ChainFacts ==
  ASSUME NEW s \in Seq(Byte), NEW d, Chain(s, d)
  PROVE  /\ d \in Seq(Nat) /\ Len(d) \in Nat \ {0} /\ d[1] = 0 /\ Len(s) \in Nat
         /\ \A k \in 1 .. Len(d) : d[k] \in 0 .. Len(s)
         /\ \A k \in 1 .. Len(d) - 1 :
              d[k] + 5 <= d[k + 1] /\ d[k + 1] = d[k] + 4 + Claimed(s, d[k])
<1>1. d \in Seq(Nat) /\ Len(d) \in Nat \ {0} /\ d[1] = 0 /\ Len(s) \in Nat
  BY LenProperties, EmptySeq DEF Chain
<1>2. \A k \in 1 .. Len(d) : d[k] \in Nat
  BY <1>1, ElementOfSeq
<1>3. \A k \in 1 .. Len(d) : d[k] \in 0 .. Len(s)
  <2> SUFFICES ASSUME NEW k \in 1 .. Len(d) PROVE d[k] \in 0 .. Len(s) OBVIOUS
  <2>1. CASE k = 1 BY <1>1, <2>1
  <2>2. CASE k # 1
    <3>1. k - 1 \in 1 .. Len(d) - 1 /\ k - 1 + 1 = k BY <1>1, <2>2
    <3> QED BY <3>1 DEF Chain
  <2> QED BY <2>1, <2>2
<1>4. ASSUME NEW k \in 1 .. Len(d) - 1
      PROVE  d[k] + 5 <= d[k + 1] /\ d[k + 1] = d[k] + 4 + Claimed(s, d[k])
  <2>1. k \in 1 .. Len(d) BY <1>1
  <2>2. d[k + 1] \in 0 .. Len(s) /\ Framing(SubSeq(s, d[k] + 1, d[k + 1])) BY DEF Chain
  <2>3. d[k] \in Nat /\ d[k + 1] \in Nat BY <1>1, <1>2, <2>1, <2>2
  <2>4. d[k] + 5 <= d[k + 1] /\ Claimed(s, d[k]) = d[k + 1] - d[k] - 4
    BY <2>2, <2>3, FrameSpan
  <2> QED BY <2>3, <2>4
<1> QED BY <1>1, <1>3, <1>4

(* Two chains of the same bytes agree as far as both go. *)
LEMMA ChainsAgree ==
  ASSUME NEW s \in Seq(Byte), NEW d, Chain(s, d), NEW e, Chain(s, e)
  PROVE  \A k \in 1 .. Len(d) : k <= Len(e) => d[k] = e[k]
<1> DEFINE S == {k \in 1 .. Len(d) : k <= Len(e) /\ d[k] # e[k]}
<1>1. SUFFICES ASSUME S # {} PROVE FALSE OBVIOUS
<1>2. Len(d) \in Nat /\ Len(e) \in Nat /\ d[1] = 0 /\ e[1] = 0 BY ChainFacts
<1>3. PICK k \in S : \A i \in S : k <= i
  <2>1. S \subseteq Nat BY <1>2
  <2> HIDE DEF S
  <2> QED BY <1>1, <2>1, LeastOf
<1>4. k \in 1 .. Len(d) /\ k <= Len(e) /\ d[k] # e[k] /\ k # 1 BY <1>2, <1>3
<1>5. k - 1 \in 1 .. Len(d) - 1 /\ k - 1 \in 1 .. Len(e) - 1 /\ k - 1 + 1 = k BY <1>2, <1>4
<1>6. d[k - 1] = e[k - 1]
  <2>1. k - 1 \notin S BY <1>3, <1>4
  <2> QED BY <1>2, <1>4, <1>5, <2>1
<1>7. d[k] = d[k - 1] + 4 + Claimed(s, d[k - 1]) /\ e[k] = e[k - 1] + 4 + Claimed(s, e[k - 1])
  BY <1>5, ChainFacts
<1> QED BY <1>4, <1>6, <1>7

(* What FrameEnds computes from the place m on, for every place from l. *)
Walk(s, f, m) == IF Following(s, m) = {} THEN <<m>> ELSE <<m>> \o f[CHOOSE n \in Following(s, m) : TRUE]
Walks(s, f, l) == f = [m \in l .. Len(s) |-> Walk(s, f, m)]

LEMMA FollowingFacts ==
  ASSUME NEW s \in Seq(Byte), NEW m \in 0 .. Len(s)
  PROVE  /\ Len(s) \in Nat /\ m \in Nat
         /\ \A n \in Following(s, m) : n \in m + 5 .. Len(s) /\ Framing(SubSeq(s, m + 1, n))
<1>1. Len(s) \in Nat /\ m \in Nat BY LenProperties
<1>2. ASSUME NEW n \in Following(s, m) PROVE n \in m + 5 .. Len(s) /\ Framing(SubSeq(s, m + 1, n))
  <2>1. n \in m .. Len(s) /\ Framing(SubSeq(s, m + 1, n)) BY DEF Following
  <2>2. n \in 0 .. Len(s) BY <1>1, <2>1
  <2>3. m + 5 <= n BY <1>1, <2>1, <2>2, FrameSpan
  <2> QED BY <1>1, <2>1, <2>2, <2>3
<1> QED BY <1>1, <1>2

LEMMA WalksExist == ASSUME NEW s \in Seq(Byte) PROVE \E f : Walks(s, f, 0)
<1> DEFINE L == Len(s)
           Without == {j \in 0 .. L : \A f : ~Walks(s, f, L - j)}
<1>1. L \in Nat BY LenProperties
<1>2. Without = {}
  <2> SUFFICES ASSUME Without # {} PROVE FALSE OBVIOUS
  <2>1. PICK j \in Without : \A i \in Without : j <= i
    <3>1. Without \subseteq Nat BY <1>1
    <3> HIDE DEF Without
    <3> QED BY <3>1, LeastOf
  <2>2. j \in 0 .. L /\ \A f : ~Walks(s, f, L - j) BY <2>1
  <2> DEFINE l == L - j
  <2>3. l \in 0 .. L /\ l \in Nat BY <1>1, <2>2
  <2>4. \E g : \A m \in l + 1 .. L : g[m] = Walk(s, g, m)
    <3>1. CASE j = 0
      <4>1. l + 1 .. L = {} BY <1>1, <3>1
      <4> QED BY <4>1
    <3>2. CASE j # 0
      <4>1. j - 1 \in 0 .. L /\ ~(j <= j - 1) /\ L - (j - 1) = l + 1 BY <1>1, <2>2, <3>2
      <4>2. j - 1 \notin Without BY <2>1, <4>1
      <4>3. PICK g : Walks(s, g, l + 1) BY <4>1, <4>2
      <4> HIDE DEF l, L, Without
      <4>4. \A m \in l + 1 .. L : g[m] = Walk(s, g, m) BY <4>3, Zenon DEF Walks, L
      <4> QED BY <4>4
    <3> QED BY <3>1, <3>2
  <2>5. PICK g : \A m \in l + 1 .. L : g[m] = Walk(s, g, m) BY <2>4
  <2> DEFINE f == [m \in l .. L |-> IF m = l THEN Walk(s, g, m) ELSE g[m]]
  <2>6. ASSUME NEW m \in l .. L PROVE f[m] = Walk(s, f, m)
    <3>1. m \in 0 .. L BY <2>3
    <3>2. f[m] = Walk(s, g, m)
      <4>1. m = l \/ m \in l + 1 .. L BY <2>3
      <4> QED BY <2>5, <4>1
    <3>3. CASE Following(s, m) = {} BY <3>2, <3>3 DEF Walk
    <3>4. CASE Following(s, m) # {}
      <4> DEFINE n == CHOOSE n \in Following(s, m) : TRUE
      <4>1. n \in Following(s, m) BY <3>4
      <4> HIDE DEF n
      <4>2. n \in m + 5 .. L BY <3>1, <4>1, FollowingFacts
      <4>3. n \in l .. L /\ n # l /\ n \in l + 1 .. L BY <2>3, <3>1, <4>2
      <4>4. f[n] = g[n] BY <4>3
      <4> HIDE DEF f
      <4> QED BY <3>2, <4>4 DEF Walk, n
    <3> QED BY <3>3, <3>4
  <2>7. Walks(s, f, l)
    <3>1. f = [m \in l .. L |-> f[m]] OBVIOUS
    <3> HIDE DEF f, l
    <3> QED BY <2>6, <3>1, Zenon DEF Walks, L
  <2> HIDE DEF f
  <2> QED BY <2>2, <2>7
<1>3. 0 \in 0 .. L /\ L \in 0 .. L /\ L - L = 0 BY <1>1
<1> QED BY <1>2, <1>3

LEMMA FrameEndsWalk ==
  ASSUME NEW s \in Seq(Byte)
  PROVE  \E f : /\ FrameEnds(s) = f[0]
                /\ \A m \in 0 .. Len(s) : f[m] = Walk(s, f, m)
<1> DEFINE f == CHOOSE g : Walks(s, g, 0)
<1>1. Walks(s, f, 0) BY WalksExist
<1>2. FrameEnds(s) = f[0] BY Zenon DEF FrameEnds, Walks, Walk
<1> HIDE DEF f
<1>3. \A m \in 0 .. Len(s) : f[m] = Walk(s, f, m) BY <1>1, Zenon DEF Walks
<1> QED BY <1>2, <1>3

(* It is a chain from m on, and no frame follows it. *)
ChainFrom(s, m, d) ==
  /\ d \in Seq(Nat) /\ d # <<>> /\ d[1] = m
  /\ \A k \in 1 .. Len(d) - 1 :
       d[k + 1] \in 0 .. Len(s) /\ Framing(SubSeq(s, d[k] + 1, d[k + 1]))
  /\ Following(s, d[Len(d)]) = {}

LEMMA OneBefore ==
  ASSUME NEW s \in Seq(Byte), NEW m \in 0 .. Len(s), NEW n \in Following(s, m), NEW d, ChainFrom(s, n, d)
  PROVE  ChainFrom(s, m, <<m>> \o d)
<1> DEFINE e == <<m>> \o d
<1>1. m \in Nat /\ n \in 0 .. Len(s) /\ Framing(SubSeq(s, m + 1, n)) BY FollowingFacts
<1>2. d \in Seq(Nat) /\ Len(d) \in Nat \ {0} /\ d[1] = n BY EmptySeq, LenProperties DEF ChainFrom
<1>3. <<m>> \in Seq(Nat) /\ Len(<<m>>) = 1 /\ <<m>>[1] = m BY <1>1
<1>4. /\ e \in Seq(Nat) /\ Len(e) = Len(d) + 1
      /\ \A k \in 1 .. 1 + Len(d) : e[k] = IF k <= 1 THEN <<m>>[k] ELSE d[k - 1]
  BY <1>2, <1>3, ConcatProperties
<1> HIDE DEF e
<1>5. e[1] = m BY <1>2, <1>3, <1>4
<1>6. \A k \in 1 .. Len(d) : e[k + 1] = d[k]
  <2> SUFFICES ASSUME NEW k \in 1 .. Len(d) PROVE e[k + 1] = d[k] OBVIOUS
  <2>1. k + 1 \in 1 .. 1 + Len(d) /\ ~(k + 1 <= 1) /\ (k + 1) - 1 = k BY <1>2
  <2> QED BY <1>4, <2>1
<1>7. ASSUME NEW k \in 1 .. Len(e) - 1
      PROVE  e[k + 1] \in 0 .. Len(s) /\ Framing(SubSeq(s, e[k] + 1, e[k + 1]))
  <2>1. k \in 1 .. Len(d) /\ e[k + 1] = d[k] BY <1>2, <1>4, <1>6
  <2>2. CASE k = 1 BY <1>1, <1>2, <1>5, <2>1, <2>2
  <2>3. CASE k # 1
    <3>1. k - 1 \in 1 .. Len(d) - 1 /\ k - 1 \in 1 .. Len(d) /\ (k - 1) + 1 = k BY <1>2, <2>1, <2>3
    <3>2. e[k] = d[k - 1] BY <1>6, <3>1
    <3>3. d[k] \in 0 .. Len(s) /\ Framing(SubSeq(s, d[k - 1] + 1, d[k])) BY <3>1 DEF ChainFrom
    <3> QED BY <2>1, <3>2, <3>3
  <2> QED BY <2>2, <2>3
<1>8. e[Len(e)] = d[Len(d)]
  <2>1. Len(d) \in 1 .. Len(d) BY <1>2
  <2> QED BY <1>4, <1>6, <2>1
<1>9. e # <<>> BY <1>2, <1>4, EmptySeq
<1> QED BY <1>4, <1>5, <1>7, <1>8, <1>9 DEF ChainFrom, e

LEMMA WalkIsChain ==
  ASSUME NEW s \in Seq(Byte), NEW f, \A m \in 0 .. Len(s) : f[m] = Walk(s, f, m)
  PROVE  \A m \in 0 .. Len(s) : ChainFrom(s, m, f[m])
<1> DEFINE L == Len(s)
           Astray == {j \in 0 .. L : ~ChainFrom(s, L - j, f[L - j])}
<1>1. L \in Nat BY LenProperties
<1>2. Astray = {}
  <2> SUFFICES ASSUME Astray # {} PROVE FALSE OBVIOUS
  <2>1. PICK j \in Astray : \A i \in Astray : j <= i
    <3>1. Astray \subseteq Nat BY <1>1
    <3> HIDE DEF Astray
    <3> QED BY <3>1, LeastOf
  <2> DEFINE m == L - j
  <2>2. j \in 0 .. L /\ ~ChainFrom(s, m, f[m]) BY <2>1
  <2>3. m \in 0 .. L /\ m \in Nat BY <1>1, <2>2
  <2>4. f[m] = Walk(s, f, m) BY <2>3
  <2>5. CASE Following(s, m) = {}
    <3>1. f[m] = <<m>> BY <2>4, <2>5 DEF Walk
    <3>2. <<m>> \in Seq(Nat) /\ <<m>> # <<>> /\ <<m>>[1] = m /\ Len(<<m>>) = 1 BY <2>3
    <3>3. 1 .. Len(<<m>>) - 1 = {} BY <3>2
    <3> HIDE DEF m
    <3> QED BY <2>2, <2>5, <3>1, <3>2, <3>3 DEF ChainFrom
  <2>6. CASE Following(s, m) # {}
    <3> DEFINE n == CHOOSE n \in Following(s, m) : TRUE
    <3>1. n \in Following(s, m) BY <2>6
    <3>2. f[m] = <<m>> \o f[n] BY <2>4, <2>6 DEF Walk
    <3> HIDE DEF n
    <3>3. n \in m + 5 .. L BY <2>3, <3>1, FollowingFacts
    <3>4. L - n \in 0 .. L /\ ~(j <= L - n) /\ L - (L - n) = n BY <1>1, <2>2, <2>3, <3>3
    <3>5. L - n \notin Astray BY <2>1, <3>4
    <3>6. ChainFrom(s, n, f[n]) BY <3>4, <3>5
    <3> HIDE DEF m
    <3> QED BY <2>2, <2>3, <3>1, <3>2, <3>6, OneBefore
  <2> QED BY <2>5, <2>6
<1>3. ASSUME NEW m \in 0 .. L PROVE ChainFrom(s, m, f[m])
  <2>1. L - m \in 0 .. L /\ L - (L - m) = m BY <1>1
  <2> QED BY <1>2, <2>1
<1> QED BY <1>3

(* So it is the longest chain. *)
LEMMA LongestChain ==
  ASSUME NEW s \in Seq(Byte)
  PROVE  Chain(s, FrameEnds(s)) /\ \A e : Chain(s, e) => Len(e) <= Len(FrameEnds(s))
<1> DEFINE d == FrameEnds(s)
<1>1. ChainFrom(s, 0, d)
  <2>1. PICK f : FrameEnds(s) = f[0] /\ \A m \in 0 .. Len(s) : f[m] = Walk(s, f, m) BY FrameEndsWalk
  <2>2. 0 \in 0 .. Len(s) BY LenProperties
  <2> QED BY <2>1, <2>2, WalkIsChain
<1> HIDE DEF d
<1>2. Chain(s, d) BY <1>1 DEF ChainFrom, Chain
<1>3. ASSUME NEW e, Chain(s, e) PROVE Len(e) <= Len(d)
  <2>1. Len(d) \in Nat \ {0} /\ Len(e) \in Nat BY <1>2, <1>3, ChainFacts
  <2> SUFFICES ASSUME Len(d) < Len(e) PROVE FALSE BY <2>1
  <2>2. Len(d) \in 1 .. Len(d) /\ Len(d) <= Len(e) /\ Len(d) \in 1 .. Len(e) - 1 BY <2>1
  <2>3. d[Len(d)] = e[Len(d)] BY <1>2, <1>3, <2>2, ChainsAgree
  <2>4. /\ e[Len(d) + 1] \in 0 .. Len(s) /\ Framing(SubSeq(s, e[Len(d)] + 1, e[Len(d) + 1]))
        /\ e[Len(d)] + 5 <= e[Len(d) + 1] /\ Len(s) \in Nat
    <3>1. e[Len(d)] + 5 <= e[Len(d) + 1] /\ Len(s) \in Nat BY <1>3, <2>2, ChainFacts
    <3> QED BY <1>3, <2>2, <3>1 DEF Chain
  <2>5. d[Len(d)] \in 0 .. Len(s) BY <1>2, <2>2, ChainFacts
  <2>6. e[Len(d) + 1] \in d[Len(d)] .. Len(s) BY <2>3, <2>4, <2>5
  <2>7. e[Len(d) + 1] \in Following(s, d[Len(d)]) BY <2>3, <2>4, <2>6 DEF Following
  <2> QED BY <1>1, <2>7 DEF ChainFrom
<1> QED BY <1>2, <1>3 DEF d

(* A chain behind which no frame follows is the longest. *)
LEMMA EndOfChain ==
  ASSUME NEW s \in Seq(Byte), NEW d, Chain(s, d),
         \A n \in 0 .. Len(s) : ~Framing(SubSeq(s, d[Len(d)] + 1, n))
  PROVE  FrameEnds(s) = d
<1> DEFINE f == FrameEnds(s)
           l == Len(d)
<1>1. Chain(s, f) /\ l <= Len(f) BY LongestChain
<1> HIDE DEF f
<1>2. /\ l \in Nat \ {0} /\ Len(f) \in Nat /\ d \in Seq(Nat) /\ f \in Seq(Nat)
  BY <1>1, ChainFacts
<1>3. \A k \in 1 .. l : d[k] = f[k] BY <1>1, <1>2, ChainsAgree
<1>4. Len(f) = l
  <2> SUFFICES ASSUME l < Len(f) PROVE FALSE BY <1>1, <1>2
  <2>1. l \in 1 .. Len(f) - 1 /\ l \in 1 .. l BY <1>2
  <2>2. f[l + 1] \in 0 .. Len(s) /\ Framing(SubSeq(s, f[l] + 1, f[l + 1]))
    BY <1>1, <2>1 DEF Chain
  <2>3. f[l] = d[l] BY <1>3, <2>1
  <2> QED BY <2>2, <2>3
<1>5. f = d BY ONLY <1>2, <1>3, <1>4, SeqEqual
<1> QED BY <1>5 DEF f

-----------------------------------------------------------------------------
(* What write_frame makes of a value is a frame of its text. *)
LEMMA FramedFrames ==
  ASSUME NEW v \in Values, Len(Encode[v]) <= MaxFrame
  PROVE  /\ Framed(v) \in Seq(Byte) /\ Len(Encode[v]) \in 1 .. MaxFrame
         /\ Len(Framed(v)) = 4 + Len(Encode[v]) /\ from_be(Framed(v)) = Len(Encode[v])
         /\ Framing(Framed(v)) /\ Text(Framed(v)) = Encode[v]
<1> DEFINE t == Encode[v]
           h == to_be(Len(t))
           f == Framed(v)
<1>1. t \in Seq(Byte) /\ Len(t) \in 1 .. MaxFrame /\ Len(t) \in Nat
  BY JsonAssumption, SizesAssumption
<1>2. Len(t) \in 0 .. MaxFrame BY <1>1
<1> HIDE DEF t
<1>3. h \in Seq(Byte) /\ Len(h) = 4 BY <1>2, Header
<1>4. ((h[1] * Radix + h[2]) * Radix + h[3]) * Radix + h[4] = Len(t) BY <1>2, HeaderTells
<1> HIDE DEF h
<1>5. f = h \o t BY DEF Framed, f, h, t
<1>6. /\ f \in Seq(Byte) /\ Len(f) = 4 + Len(t)
      /\ \A i \in 1 .. 4 + Len(t) : f[i] = IF i <= 4 THEN h[i] ELSE t[i - 4]
  <2>1. /\ h \o t \in Seq(Byte) /\ Len(h \o t) = Len(h) + Len(t)
        /\ \A i \in 1 .. Len(h) + Len(t) : (h \o t)[i] = IF i <= Len(h) THEN h[i] ELSE t[i - Len(h)]
    BY <1>1, <1>3, ConcatProperties
  <2> HIDE DEF f
  <2> QED BY ONLY <1>3, <1>5, <2>1
<1> HIDE DEF f
<1>7. f[1] = h[1] /\ f[2] = h[2] /\ f[3] = h[3] /\ f[4] = h[4]
  <2>1. 1 \in 1 .. 4 + Len(t) /\ 2 \in 1 .. 4 + Len(t) /\ 3 \in 1 .. 4 + Len(t) /\ 4 \in 1 .. 4 + Len(t)
    BY <1>1
  <2> QED BY <1>6, <2>1
<1>8. from_be(f) = Len(t) BY <1>4, <1>7 DEF from_be
<1>9. Text(f) = t
  <2>1. 5 \in Nat \ {0} /\ Len(f) \in 0 .. Len(f) /\ 5 <= Len(f) /\ Len(f) - 5 + 1 = Len(t)
    BY <1>1, <1>6
  <2>2. /\ Text(f) \in Seq(Byte) /\ Len(Text(f)) = Len(t)
        /\ \A i \in 1 .. Len(t) : Text(f)[i] = f[5 + i - 1]
    BY <1>6, <2>1, BytesPart DEF Text
  <2>3. \A i \in 1 .. Len(t) : Text(f)[i] = t[i]
    <3> SUFFICES ASSUME NEW i \in 1 .. Len(t) PROVE Text(f)[i] = t[i] OBVIOUS
    <3>1. 5 + i - 1 = i + 4 /\ i + 4 \in 1 .. 4 + Len(t) /\ ~(i + 4 <= 4) /\ i + 4 - 4 = i
      BY <1>1
    <3> QED BY <1>6, <2>2, <3>1
  <2> QED BY ONLY <1>1, <2>2, <2>3, SeqEqual
<1>10. Framing(f) BY <1>1, <1>6, <1>8, SizesAssumption DEF Framing
<1> QED BY <1>1, <1>6, <1>8, <1>9, <1>10 DEF f, t

(* The frame of the last value has been written to its end. *)
Whole == received = <<>> \/ (outcome # "outgrown" /\ ~pending(writer))

(* Until then the frames before it have been. *)
LEMMA Written ==
  ASSUME IInv, NEW k \in 1 .. Len(received), k < Len(received) \/ Whole
  PROVE  /\ received[k] \in Values /\ Len(Encode[received[k]]) <= MaxFrame
         /\ Sent(k) = Framed(received[k])
<1> DEFINE n == Len(received)
<1>1. /\ TypeOK /\ OutputContinues /\ FramesReturned BY DEF IInv, StopsJustly
<1>2. n \in Nat /\ received[k] \in Values /\ received # <<>> BY <1>1, Counts
<1>3. k < n \/ (k = n /\ outcome # "outgrown" /\ ~pending(writer)) BY <1>2 DEF Whole
<1>4. Len(Encode[received[k]]) \in Nat BY <1>2, JsonAssumption
<1>5. Len(Encode[received[k]]) <= MaxFrame
  BY <1>1, <1>2, <1>3, <1>4, SizesAssumption DEF FramesReturned
<1>6. CASE k < n BY <1>1, <1>2, <1>5, <1>6 DEF OutputContinues
<1>7. CASE k = n /\ outcome # "outgrown" /\ ~pending(writer)
  <2>1. Sent(n) = SubSeq(writer.bytes, 1, writer.offset) /\ writer.bytes = Framed(received[n])
        /\ writer.offset <= Len(writer.bytes)
    BY <1>1, <1>2, <1>7 DEF OutputContinues
  <2>2. writer.offset \in Nat /\ writer.bytes \in Seq(Byte) /\ Len(writer.bytes) \in Nat BY <1>1, Sizes
  <2>3. writer.offset = Len(writer.bytes) BY <1>7, <2>1, <2>2 DEF pending
  <2>4. SubSeq(writer.bytes, 1, writer.offset) = writer.bytes BY <2>2, <2>3, SubSeqFull
  <2> QED BY <1>2, <1>5, <1>7, <2>1, <2>4
<1> QED BY <1>3, <1>6, <1>7

(* Where the values' frames begin, and the last whole one ends. *)
WrittenEnds == IF received = <<>> THEN <<0>> ELSE IF Whole THEN Append(sent, Len(out)) ELSE sent

WholeFrames == IF Whole THEN Len(received) ELSE Len(received) - 1

(* They are a chain of the output. *)
LEMMA WrittenChain ==
  ASSUME IInv
  PROVE  /\ WrittenEnds \in Seq(Nat) /\ Len(WrittenEnds) = WholeFrames + 1 /\ WrittenEnds[1] = 0
         /\ WholeFrames \in 0 .. Len(received)
         /\ \A k \in 1 .. WholeFrames :
              /\ WrittenEnds[k + 1] \in 0 .. Len(out)
              /\ SubSeq(out, WrittenEnds[k] + 1, WrittenEnds[k + 1]) = Framed(received[k])
         /\ Chain(out, WrittenEnds)
<1> DEFINE n == Len(received)
           l == Len(out)
           w == WrittenEnds
<1>1. TypeOK /\ OutputContinues /\ Marks BY DEF IInv
<1>2. /\ n \in Nat /\ (received = <<>> <=> n = 0) /\ l \in Nat
      /\ sent \in Seq(Nat) /\ Len(sent) = n /\ \A k \in 1 .. n : sent[k] \in 0 .. l
      /\ n # 0 => sent[1] = 0
  <2>1. /\ n \in Nat /\ (received = <<>> <=> n = 0) /\ l \in Nat /\ sent \in Seq(Nat)
        /\ \A k \in 1 .. Len(sent) : sent[k] \in Nat
    BY <1>1, Counts, Sizes
  <2>2. Len(sent) = n /\ (n # 0 => sent[1] = 0) BY <1>1, <2>1 DEF OutputContinues
  <2>3. \A k \in 1 .. n : sent[k] <= l BY <1>1, <2>2 DEF Marks
  <2> QED BY <2>1, <2>2, <2>3
<1>3. /\ Append(sent, l) \in Seq(Nat) /\ Len(Append(sent, l)) = n + 1 /\ Append(sent, l)[n + 1] = l
      /\ \A k \in 1 .. n : Append(sent, l)[k] = sent[k]
  BY <1>2, AppendProperties
<1>4. WholeFrames \in 0 .. n /\ (Whole => WholeFrames = n) /\ (~Whole => WholeFrames = n - 1 /\ n # 0)
  BY <1>2 DEF WholeFrames, Whole
<1>5. w \in Seq(Nat) /\ Len(w) = WholeFrames + 1 /\ w[1] = 0
  <2>1. CASE n = 0
    <3>1. w = <<0>> /\ WholeFrames = 0 BY <1>2, <1>4, <2>1 DEF WrittenEnds
    <3> QED BY <3>1
  <2>2. CASE n # 0 /\ Whole
    <3>1. w = Append(sent, l) /\ WholeFrames = n BY <1>2, <1>4, <2>2 DEF WrittenEnds
    <3>2. 1 \in 1 .. n BY <1>2, <2>2
    <3> QED BY <1>2, <1>3, <2>2, <3>1, <3>2
  <2>3. CASE n # 0 /\ ~Whole
    <3>1. w = sent /\ WholeFrames = n - 1 BY <1>2, <1>4, <2>3 DEF WrittenEnds
    <3> QED BY <1>2, <2>3, <3>1
  <2> QED BY <2>1, <2>2, <2>3
<1>6. ASSUME NEW k \in 1 .. WholeFrames
      PROVE  w[k + 1] \in 0 .. l /\ SubSeq(out, w[k] + 1, w[k + 1]) = Framed(received[k])
  <2>1. k \in 1 .. n /\ (k < n \/ Whole) /\ n # 0 BY <1>2, <1>4
  <2>2. Sent(k) = Framed(received[k]) BY <2>1, Written
  <2>3. w[k] = sent[k] BY <1>2, <1>3, <2>1 DEF WrittenEnds
  <2>4. CASE k < n
    <3>1. k + 1 \in 1 .. n BY <1>2, <2>1, <2>4
    <3>2. w[k + 1] = sent[k + 1] BY <1>2, <1>3, <2>1, <3>1 DEF WrittenEnds
    <3> QED BY <1>2, <2>2, <2>3, <2>4, <3>1, <3>2 DEF Sent
  <2>5. CASE ~(k < n)
    <3>1. k = n /\ Whole BY <1>2, <2>1, <2>5
    <3>2. w[k + 1] = l BY <1>2, <1>3, <2>1, <3>1 DEF WrittenEnds
    <3> QED BY <1>2, <2>2, <2>3, <2>5, <3>1, <3>2 DEF Sent
  <2> QED BY <2>4, <2>5
<1>7. ASSUME NEW k \in 1 .. WholeFrames PROVE Framing(Framed(received[k]))
  <2>1. k \in 1 .. n /\ (k < n \/ Whole) BY <1>2, <1>4
  <2> QED BY <2>1, Written, FramedFrames
<1>8. Len(w) - 1 = WholeFrames /\ w # <<>> BY <1>4, <1>5
<1> HIDE DEF w
<1>9. Chain(out, w) BY <1>5, <1>6, <1>7, <1>8 DEF Chain
<1> QED BY <1>4, <1>5, <1>6, <1>9 DEF w

-----------------------------------------------------------------------------
(* What has been written of a value is no frame before all of it is. *)
LEMMA NoneUnderway ==
  ASSUME NEW v \in Values, Len(Encode[v]) <= MaxFrame, NEW s \in Seq(Byte), NEW m \in Nat, NEW o \in Nat,
         Len(s) = m + o, o < Len(Framed(v)), SubSeq(s, m + 1, Len(s)) = SubSeq(Framed(v), 1, o),
         NEW end \in 0 .. Len(s)
  PROVE  ~Framing(SubSeq(s, m + 1, end))
<1> SUFFICES ASSUME Framing(SubSeq(s, m + 1, end)) PROVE FALSE OBVIOUS
<1> DEFINE f == Framed(v)
           c == Len(Encode[v])
<1>1. f \in Seq(Byte) /\ c \in 1 .. MaxFrame /\ Len(f) = 4 + c /\ from_be(f) = c /\ MaxFrame \in Nat
  BY FramedFrames, SizesAssumption
<1> HIDE DEF f, c
<1>2. m + 5 <= end /\ Claimed(s, m) = end - m - 4 BY FrameSpan
<1>3. Len(s) \in Nat /\ end \in Nat /\ end <= Len(s) /\ 5 <= o BY <1>2, LenProperties
<1>4. ASSUME NEW i \in 1 .. 4 PROVE s[m + i] = f[i]
  <2>1. SubSeq(s, m + 1, Len(s))[i] = s[m + 1 + i - 1]
    <3>1. m + 1 \in Nat \ {0} /\ Len(s) \in 0 .. Len(s) /\ i \in 1 .. Len(s) - (m + 1) + 1
      BY <1>3
    <3> QED BY <3>1, BytesPart
  <2>2. SubSeq(f, 1, o)[i] = f[1 + i - 1]
    <3>1. 1 \in Nat \ {0} /\ o \in 0 .. Len(f) /\ i \in 1 .. o - 1 + 1
      BY <1>1, <1>3 DEF f
    <3> QED BY <1>1, <3>1, BytesPart
  <2>3. m + 1 + i - 1 = m + i /\ 1 + i - 1 = i OBVIOUS
  <2> QED BY <2>1, <2>2, <2>3 DEF f
<1>5. Claimed(s, m) = c
  <2>1. s[m + 1] = f[1] /\ s[m + 2] = f[2] /\ s[m + 3] = f[3] /\ s[m + 4] = f[4] BY <1>4
  <2> QED BY <1>1, <2>1 DEF Claimed, from_be
<1>6. o < 4 + c BY <1>1 DEF f
<1> QED BY <1>1, <1>2, <1>3, <1>5, <1>6

(* The output is the frames written whole, and then less than a frame. *)
LEMMA OutputEnds == IInv => FrameEnds(out) = WrittenEnds
<1> SUFFICES ASSUME IInv PROVE FrameEnds(out) = WrittenEnds OBVIOUS
<1> DEFINE n == Len(received)
           l == Len(out)
           m == WrittenEnds[Len(WrittenEnds)]
<1>1. /\ TypeOK /\ OutputContinues /\ Marks /\ FramesReturned BY DEF IInv, StopsJustly
<1>2. out \in Seq(Byte) /\ l \in Nat /\ n \in Nat /\ (received = <<>> <=> n = 0) BY <1>1, Counts, Sizes
<1>3. Chain(out, WrittenEnds) BY WrittenChain
<1>4. \/ m = l
      \/ /\ n # 0 /\ outcome # "outgrown" /\ pending(writer) /\ m = sent[n] /\ l = m + writer.offset
         /\ m \in Nat
  <2>1. CASE n = 0
    <3>1. WrittenEnds = <<0>> /\ l = 0 BY <1>1, <1>2, <2>1 DEF WrittenEnds, OutputContinues
    <3> QED BY <3>1
  <2>2. CASE n # 0 /\ Whole
    <3>1. WrittenEnds = Append(sent, l) BY <1>2, <2>2 DEF WrittenEnds
    <3>2. sent \in Seq(Nat) BY <1>1, Counts
    <3> QED BY <1>2, <3>1, <3>2, AppendProperties
  <2>3. CASE n # 0 /\ ~Whole
    <3>1. WrittenEnds = sent /\ received # <<>> /\ (outcome = "outgrown" \/ pending(writer))
      BY <1>2, <2>3 DEF WrittenEnds, Whole
    <3>2. Len(sent) = n /\ l = sent[n] + writer.offset /\ writer.offset <= Len(writer.bytes)
      BY <1>1, <3>1 DEF OutputContinues, Marks
    <3>3. m = sent[n] /\ m \in Nat /\ writer.offset \in Nat
      BY <1>1, <1>2, <2>3, <3>1, <3>2, Counts, Sizes
    <3>4. ASSUME outcome = "outgrown" PROVE m = l
      <4>1. Len(writer.bytes) = 0 BY <1>1, <3>1, <3>4 DEF OutputContinues
      <4> QED BY <3>2, <3>3, <4>1
    <3> QED BY <2>3, <3>1, <3>2, <3>3, <3>4
  <2> QED BY <2>1, <2>2, <2>3
<1> HIDE DEF m
<1>5. ASSUME NEW end \in 0 .. l PROVE ~Framing(SubSeq(out, m + 1, end))
  <2>1. CASE m = l
    <3>1. ~(l + 5 <= end) BY <1>2
    <3> QED BY <1>2, <2>1, <3>1, FrameSpan
  <2>2. CASE /\ n # 0 /\ outcome # "outgrown" /\ pending(writer) /\ m = sent[n]
             /\ l = m + writer.offset /\ m \in Nat
    <3> DEFINE v == received[n]
    <3>1. received # <<>> /\ n \in 1 .. n /\ Len(sent) = n
      BY <1>1, <1>2, <2>2 DEF OutputContinues
    <3>2. /\ writer.bytes = Framed(v) /\ SubSeq(out, m + 1, l) = SubSeq(Framed(v), 1, writer.offset)
          /\ writer.offset < Len(Framed(v)) /\ writer.offset \in Nat
      <4>1. writer.bytes = Framed(v) /\ Sent(n) = SubSeq(writer.bytes, 1, writer.offset)
            /\ writer.offset <= Len(writer.bytes)
        BY <1>1, <2>2, <3>1 DEF OutputContinues
      <4>2. Sent(n) = SubSeq(out, m + 1, l)
        <5>1. ~(n < Len(sent)) BY <1>2, <3>1
        <5> QED BY <2>2, <5>1 DEF Sent
      <4>3. writer.offset \in Nat /\ writer.offset < Len(writer.bytes)
        BY <1>1, <2>2, Sizes DEF pending
      <4> QED BY <4>1, <4>2, <4>3
    <3>3. v \in Values /\ Len(Encode[v]) <= MaxFrame
      <4>1. v \in Values BY <1>1, <3>1, Counts
      <4>2. Len(Encode[v]) \in Nat BY <4>1, JsonAssumption
      <4> QED BY <1>1, <2>2, <3>1, <4>1, <4>2, SizesAssumption DEF FramesReturned
    <3> HIDE DEF v
    <3> QED BY <1>2, <2>2, <3>2, <3>3, NoneUnderway
  <2> QED BY <1>4, <2>1, <2>2
<1> QED BY <1>2, <1>3, <1>5, EndOfChain DEF m

-----------------------------------------------------------------------------
(* The texts written whole are those of the first values. *)
LEMMA WhatIsGiven ==
  ASSUME IInv
  PROVE  Given = [k \in 1 .. WholeFrames |-> Encode[received[k]]]
<1> DEFINE w == WrittenEnds
<1>1. FrameEnds(out) = w BY OutputEnds
<1>2. /\ Len(w) = WholeFrames + 1 /\ WholeFrames \in 0 .. Len(received)
      /\ \A k \in 1 .. WholeFrames : SubSeq(out, w[k] + 1, w[k + 1]) = Framed(received[k])
  BY WrittenChain
<1>3. TypeOK /\ Len(received) \in Nat BY Counts DEF IInv
<1> HIDE DEF w
<1>4. Given = [k \in 1 .. WholeFrames |-> Text(SubSeq(out, w[k] + 1, w[k + 1]))]
  <2>1. Len(w) - 1 = WholeFrames BY <1>2, <1>3
  <2> QED BY <1>1, <2>1 DEF Given, TextsIn
<1>5. ASSUME NEW k \in 1 .. WholeFrames
      PROVE  Text(SubSeq(out, w[k] + 1, w[k + 1])) = Encode[received[k]]
  <2>1. k \in 1 .. Len(received) /\ (k < Len(received) \/ Whole) BY <1>2, <1>3 DEF WholeFrames
  <2>2. received[k] \in Values /\ Len(Encode[received[k]]) <= MaxFrame BY <2>1, Written
  <2> QED BY <1>2, <2>2, FramedFrames
<1> QED BY <1>4, <1>5

-----------------------------------------------------------------------------
(* A function on the first numbers is a sequence of that length. *)
LEMMA Lengths ==
  ASSUME NEW n \in Nat, NEW S, NEW f \in [1 .. n -> S]
  PROVE  f \in Seq(S) /\ Len(f) = n
<1>1. f \in Seq(S) BY SeqDef
<1>2. DOMAIN f = 1 .. Len(f) /\ Len(f) \in Nat BY <1>1, LenProperties
<1>3. Len(f) = n BY <1>2
<1> QED BY <1>1, <1>3

(* The texts taken are those of the values returned, and those given the first of them. *)
Shaped ==
  /\ Taken \in Seq(Seq(Byte)) /\ Len(Taken) = Len(received) /\ Len(received) \in Nat
  /\ Given \in Seq(Seq(Byte)) /\ Len(Given) = WholeFrames /\ WholeFrames \in 0 .. Len(received)
  /\ \A k \in 1 .. Len(received) : Taken[k] = Encode[received[k]]
  /\ \A k \in 1 .. WholeFrames : Given[k] = Encode[received[k]]

LEMMA Shapes == IInv => Shaped
<1> SUFFICES ASSUME IInv PROVE Shaped OBVIOUS
<1>1. TypeOK BY DEF IInv
<1>2. Len(received) \in Nat /\ \A k \in 1 .. Len(received) : Encode[received[k]] \in Seq(Byte)
  BY <1>1, Counts, JsonAssumption
<1>3. WholeFrames \in 0 .. Len(received) BY WrittenChain
<1>4. Taken \in [1 .. Len(received) -> Seq(Byte)] BY <1>2 DEF Taken
<1>5. Given \in [1 .. WholeFrames -> Seq(Byte)] /\ \A k \in 1 .. WholeFrames : Given[k] = Encode[received[k]]
  BY <1>2, <1>3, WhatIsGiven
<1>6. WholeFrames \in Nat BY <1>2, <1>3
<1> QED BY <1>2, <1>3, <1>4, <1>5, <1>6, Lengths DEF Taken, Shaped

LEMMA ShapesNext == IInv' => Shaped'
BY Shapes, PTL

(* Where the frames returned begin is a chain of the peer's bytes. *)
Chained == Chain(stream, cuts)

LEMMA ChainedStep == IInv /\ IInv' /\ Chained /\ [Next]_vars => Chained'
<1> SUFFICES ASSUME IInv, IInv', Chained, [Next]_vars PROVE Chained' OBVIOUS
<1>1. CASE Receive
  <2> DEFINE n == Len(received)
  <2>1. /\ stream' = stream /\ cuts' = Append(cuts, consumed') /\ received' = Append(received, Parse[Payload])
    BY <1>1 DEF Receive
  <2>2. /\ cuts \in Seq(Nat) /\ Len(cuts) \in Nat /\ Len(received) \in Nat /\ Len(stream) \in Nat
        /\ stream \in Seq(Byte)
    BY Counts, Sizes DEF IInv
  <2>3. consumed' \in 0 .. Len(stream)
    <3>1. consumed' \in 0 .. fed BY <1>1, Arrived DEF IInv, Receive
    <3>2. fed \in Nat /\ fed <= Len(stream) BY Sizes DEF IInv
    <3> QED BY <2>2, <3>1, <3>2
  <2>4. /\ cuts' \in Seq(Nat) /\ Len(cuts') = Len(cuts) + 1 /\ cuts'[Len(cuts) + 1] = consumed'
        /\ \A k \in 1 .. Len(cuts) : cuts'[k] = cuts[k]
    BY <2>1, <2>2, <2>3, AppendProperties
  <2>5. Len(cuts) = n + 1 /\ Len(received') = n + 1
    <3>1. received \in Seq(Values) /\ Parse[Payload] \in Values
      BY <1>1, JsonAssumption DEF IInv, TypeOK, Receive
    <3>2. Len(received') = n + 1 BY <2>1, <3>1, AppendProperties
    <3> QED BY <3>2 DEF IInv, StopsJustly, FramesReturned
  <2>6. ASSUME NEW k \in 1 .. Len(cuts)
        PROVE  cuts'[k + 1] \in 0 .. Len(stream) /\ Framing(SubSeq(stream, cuts'[k] + 1, cuts'[k + 1]))
    <3>1. CASE k \in 1 .. n
      <4>1. k \in 1 .. Len(cuts) - 1 /\ k + 1 \in 1 .. Len(cuts) BY <2>2, <2>5, <3>1
      <4> QED BY <2>4, <4>1 DEF Chained, Chain
    <3>2. CASE k = n + 1
      <4>1. k \in 1 .. Len(received') BY <2>2, <2>5, <3>2
      <4>2. Framing(SubSeq(stream', cuts'[k] + 1, cuts'[k + 1]))
        BY <4>1 DEF IInv, StopsJustly, FramesReturned, Between
      <4> QED BY <2>1, <2>3, <2>4, <2>5, <3>2, <4>2
    <3> QED BY <2>2, <2>5, <3>1, <3>2
  <2>7. cuts'[1] = 0 /\ cuts' # <<>>
    <3>1. cuts # <<>> /\ cuts[1] = 0 BY DEF Chained, Chain
    <3>2. 1 \in 1 .. Len(cuts) BY <2>2, <2>5
    <3> QED BY <2>2, <2>4, <3>1, <3>2, EmptySeq
  <2>8. Len(cuts') - 1 = Len(cuts) BY <2>2, <2>4
  <2> QED BY <2>1, <2>4, <2>6, <2>7, <2>8 DEF Chained, Chain
<1>2. CASE ~Receive
  <2>1. stream' = stream /\ cuts' = cuts
    BY <1>2 DEF Next, Feed, Take, Receiving, SizeLimit, Eof, ReceivePart, ReceiveBad, Send, Done
  <2> QED BY <2>1 DEF Chained
<1> QED BY <1>1, <1>2

(* The frame that completes is the next of those offered. *)
LEMMA NextOffered ==
  ASSUME IInv', Chained', stream' = stream, NEW n \in Nat, Len(received') = n + 1
  PROVE  n < Len(Offered) /\ Offered[n + 1] = Encode[received'[n + 1]]
<1> DEFINE f == FrameEnds(stream)
           c == cuts'
           l == Len(f)
<1>1. stream \in Seq(Byte) /\ Chain(stream, c) /\ FramesReturned'
  BY DEF IInv, TypeOK, StopsJustly, Chained
<1>2. Chain(stream, f) /\ Len(c) <= l BY <1>1, LongestChain
<1>3. Len(c) = n + 2
  <2>1. Len(cuts') = Len(received') + 1 BY <1>1 DEF FramesReturned
  <2> QED BY <2>1
<1>4. l \in Nat /\ \A k \in 1 .. Len(c) : c[k] = f[k]
  <2>1. l \in Nat BY <1>1, <1>2, ChainFacts
  <2>2. \A k \in 1 .. Len(c) : k <= Len(f) => c[k] = f[k] BY <1>1, <1>2, ChainsAgree
  <2> HIDE DEF f, c
  <2> QED BY <1>2, <1>3, <2>1, <2>2
<1>5. n + 1 \in 1 .. l - 1 /\ f[n + 1] = c[n + 1] /\ f[n + 2] = c[n + 2] BY <1>2, <1>3, <1>4
<1>6. /\ Text(SubSeq(stream, c[n + 1] + 1, c[n + 2])) \in DOMAIN Parse
      /\ received'[n + 1] = Parse[Text(SubSeq(stream, c[n + 1] + 1, c[n + 2]))]
  <2>1. n + 1 \in 1 .. Len(received') /\ n + 1 + 1 = n + 2 OBVIOUS
  <2> QED BY <1>1, <2>1 DEF FramesReturned, Between
<1> HIDE DEF f, c
<1> DEFINE t == TextsIn(stream)
<1>7. t = [k \in 1 .. l - 1 |-> Text(SubSeq(stream, f[k] + 1, f[k + 1]))] BY DEF TextsIn, f
<1> HIDE DEF t
<1>8. Len(t) = l - 1
  <2> DEFINE S == {Text(SubSeq(stream, f[k] + 1, f[k + 1])) : k \in 1 .. l - 1}
  <2>1. t \in [1 .. l - 1 -> S] /\ l - 1 \in Nat BY <1>4, <1>5, <1>7
  <2> HIDE DEF S
  <2> QED BY <2>1, Lengths
<1>9. t[n + 1] = Text(SubSeq(stream, c[n + 1] + 1, c[n + 2]))
  <2>1. n + 1 + 1 = n + 2 OBVIOUS
  <2> QED BY <1>5, <1>7, <2>1
<1>10. Offered = [k \in 1 .. l - 1 |-> Rewritten(t[k])] BY <1>8 DEF Offered, t
<1>11. Len(Offered) = l - 1
  <2> DEFINE S == {Rewritten(t[k]) : k \in 1 .. l - 1}
  <2>1. Offered \in [1 .. l - 1 -> S] /\ l - 1 \in Nat BY <1>4, <1>5, <1>10
  <2> HIDE DEF S
  <2> QED BY <2>1, Lengths
<1>12. Offered[n + 1] = Encode[received'[n + 1]] BY <1>5, <1>6, <1>9, <1>10 DEF c, Rewritten
<1> QED BY <1>4, <1>5, <1>11, <1>12

-----------------------------------------------------------------------------
(* A sequence that is another and one more element. *)
LEMMA OneMore ==
  ASSUME NEW S, NEW s \in Seq(S), NEW t \in Seq(S), Len(t) = Len(s) + 1,
         \A k \in 1 .. Len(s) : t[k] = s[k]
  PROVE  t = Append(s, t[Len(s) + 1])
<1>1. Len(s) \in Nat /\ t[Len(s) + 1] \in S
  <2>1. Len(s) \in Nat BY LenProperties
  <2>2. Len(s) + 1 \in 1 .. Len(t) BY <2>1
  <2> QED BY <2>1, <2>2, ElementOfSeq
<1> DEFINE u == Append(s, t[Len(s) + 1])
<1>2. /\ u \in Seq(S) /\ Len(u) = Len(s) + 1 /\ u[Len(s) + 1] = t[Len(s) + 1]
      /\ \A k \in 1 .. Len(s) : u[k] = s[k]
  BY <1>1, AppendProperties
<1> HIDE DEF u
<1>3. \A k \in 1 .. Len(t) : t[k] = u[k] BY <1>1, <1>2
<1>4. t = u BY ONLY <1>2, <1>3, SeqEqual, t \in Seq(S), Len(t) = Len(s) + 1
<1> QED BY <1>4 DEF u

(* Each step relays a frame, or none. *)
LEMMA RelayStep == IInv /\ IInv' /\ Chained' /\ [Next]_vars => [Relayed!Accept \/ Relayed!Give]_Relayed!vars
<1> SUFFICES ASSUME IInv, IInv', Chained', [Next]_vars
             PROVE  Relayed!Accept \/ Relayed!Give \/ UNCHANGED Relayed!vars
  OBVIOUS
<1> DEFINE n == Len(received)
<1>1. Shaped /\ Shaped' /\ n \in Nat BY Shapes, ShapesNext DEF Shaped
<1>2. CASE Receive
  <2>1. /\ stream' = stream /\ out' = out /\ received' = Append(received, Parse[Payload])
        /\ Whole
    BY <1>2 DEF Receive, Read, Reading, Whole
  <2>2. Offered' = Offered /\ Given' = Given BY <2>1 DEF Offered, Given
  <2>3. Given = Taken BY <1>1, <2>1, SeqEqual DEF Shaped, WholeFrames
  <2>4. /\ Len(received') = n + 1 /\ \A k \in 1 .. n : received'[k] = received[k]
    <3>1. received \in Seq(Values) /\ Parse[Payload] \in Values
      BY <1>2, JsonAssumption DEF IInv, TypeOK, Receive
    <3> QED BY <2>1, <3>1, AppendProperties
  <2>5. n < Len(Offered) /\ Offered[n + 1] = Encode[received'[n + 1]] BY <1>1, <2>1, <2>4, NextOffered
  <2>6. Taken' = Append(Taken, Taken'[n + 1])
    <3>1. \A k \in 1 .. n : Taken[k] = Encode[received[k]] BY <1>1 DEF Shaped
    <3>2. \A k \in 1 .. n + 1 : Taken'[k] = Encode[received'[k]] BY <1>1, <2>4 DEF Shaped
    <3>3. \A k \in 1 .. n : Taken'[k] = Taken[k] BY <1>1, <2>4, <3>1, <3>2
    <3>4. /\ Taken \in Seq(Seq(Byte)) /\ Taken' \in Seq(Seq(Byte))
          /\ Len(Taken) = n /\ Len(Taken') = n + 1
      BY <1>1, <2>4 DEF Shaped
    <3> QED BY ONLY <3>3, <3>4, OneMore
  <2>7. Taken'[n + 1] = Offered[n + 1] BY <1>1, <2>4, <2>5 DEF Shaped
  <2>8. Len(Taken) = n BY <1>1 DEF Shaped
  <2> QED BY <2>2, <2>3, <2>5, <2>6, <2>7, <2>8 DEF Relayed!Accept
<1>3. CASE Send
  <2>1. /\ stream' = stream /\ received' = received /\ ~Whole
    <3>1. received # <<>>
      <4>1. received = <<>> => writer.bytes = <<>> BY DEF IInv, OutputContinues
      <4>2. writer.offset \in Nat BY Sizes DEF IInv
      <4> QED BY <1>3, <4>1, <4>2 DEF Send, pending
    <3> QED BY <1>3, <3>1 DEF Send, Whole
  <2>2. Offered' = Offered /\ Taken' = Taken BY <2>1 DEF Offered, Taken
  <2>3. WholeFrames = n - 1 /\ WholeFrames' \in {n - 1, n} BY <2>1 DEF WholeFrames
  <2>4. \A k \in 1 .. n - 1 : Given'[k] = Given[k]
    <3>1. \A k \in 1 .. n - 1 : Given[k] = Encode[received[k]] BY <1>1, <2>3 DEF Shaped
    <3>2. \A k \in 1 .. WholeFrames' : Given'[k] = Encode[received[k]] BY <1>1, <2>1 DEF Shaped
    <3> QED BY <1>1, <2>3, <3>1, <3>2
  <2>5. Len(Given) = n - 1 /\ Len(Taken) = n /\ n - 1 \in Nat BY <1>1, <2>3 DEF Shaped
  <2>6. CASE WholeFrames' = n - 1
    <3>1. Given' = Given BY <1>1, <2>4, <2>5, <2>6, SeqEqual DEF Shaped
    <3> QED BY <2>2, <3>1 DEF Relayed!vars
  <2>7. CASE WholeFrames' = n
    <3>1. Given' = Append(Given, Given'[n - 1 + 1])
      <4>1. /\ Given \in Seq(Seq(Byte)) /\ Given' \in Seq(Seq(Byte))
            /\ Len(Given) = n - 1 /\ Len(Given') = n
        BY <1>1, <2>5, <2>7 DEF Shaped
      <4>2. Len(Given') = Len(Given) + 1 BY <1>1, <4>1
      <4> QED BY ONLY <2>4, <4>1, <4>2, OneMore
    <3>2. n - 1 + 1 = n /\ n \in 1 .. n BY <2>5
    <3>3. Given'[n] = Taken[n] BY <1>1, <2>1, <2>7, <3>2 DEF Shaped
    <3> QED BY <2>2, <2>5, <3>1, <3>2, <3>3 DEF Relayed!Give
  <2> QED BY <2>3, <2>6, <2>7
<1>4. CASE ~Receive /\ ~Send
  <2>1. UNCHANGED <<stream, received, out>>
    BY <1>4 DEF Next, Feed, Take, Receiving, SizeLimit, Eof, ReceivePart, ReceiveBad, Done
  <2> QED BY <2>1 DEF Relayed!vars, Offered, Taken, Given
<1> QED BY <1>2, <1>3, <1>4

LEMMA RelayInit == Init => Relayed!Init /\ Chained
<1> SUFFICES ASSUME Init PROVE Relayed!Init /\ Chained OBVIOUS
<1>1. IInv BY InvInit
<1>2. received = <<>> /\ cuts = <<0>> BY DEF Init
<1>3. Chained
  <2>1. <<0>> \in Seq(Nat) /\ <<0>> # <<>> /\ <<0>>[1] = 0 /\ Len(<<0>>) = 1 OBVIOUS
  <2> QED BY <1>2, <2>1 DEF Chained, Chain
<1>4. Shaped /\ Len(received) = 0 /\ WholeFrames = 0 BY <1>1, <1>2, Shapes DEF WholeFrames, Whole
<1>5. Taken = <<>> /\ Given = <<>> BY <1>4, EmptySeq DEF Shaped
<1> QED BY <1>3, <1>5 DEF Relayed!Init

(* The reader, the loop that holds it back and the writer are a relay of frames: for
   any bytes, sizes, chunks and JSON, what leaves is written of what came, frame by
   frame and in order, and none is taken while one is not written to its end
   (transport.rs:15-125, supervisor.rs:128). *)
THEOREM TransportImplementsRelay == Spec => ImplementsRelay
<1>1. Spec => []Chained
  <2>1. Init => Chained BY RelayInit
  <2> QED BY <2>1, ChainedStep, TransportInvariance, PTL DEF Spec
<1> QED BY <1>1, RelayInit, RelayStep, TransportInvariance, PTL DEF Spec, ImplementsRelay, Relayed!Spec
=============================================================================
