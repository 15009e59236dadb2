---------------------------- MODULE RoutingProofs ----------------------------
(***************************************************************************)
(* Proofs about GraphQLWebSocket, for the calls whose ids are read back    *)
(* (IdsReadBack): every result goes to the subscription that asked for it, *)
(* and what was completed is not asked for again.  Before them, what is    *)
(* read back of an id, for every u64: of its hexadecimal form that id, of  *)
(* the decimal form of an id of two or more digits a greater number.       *)
(***************************************************************************)
EXTENDS GraphQLWebSocketProofs, NumberFacts

-----------------------------------------------------------------------------
(* The digits of a number, and the number they make.                       *)

Bases == {10, 16}

LEMMA QuotientsAre ==
    ASSUME NEW n \in Nat, NEW base \in Bases
    PROVE  /\ \A k \in 0 .. 16 : Quotients(n, base)[k] \in Nat
           /\ Quotients(n, base)[0] = n
           /\ \A k \in 1 .. 16 : Quotients(n, base)[k] = Quotients(n, base)[k - 1] \div base
  <1> DEFINE step == [p \in Nat \X Nat |-> p[2] \div base]
             Left(f) == f = [k \in 0 .. 16 |-> IF k = 0 THEN n ELSE f[k - 1] \div base]
             q == Quotients(n, base)
  <1>1. \A m \in Nat : m \div base \in Nat
    BY DEF Bases
  <1>2. step \in [Nat \X Nat -> Nat] /\ \A k, m \in Nat : step[<<k, m>>] = m \div base
    BY <1>1
  <1> HIDE DEF step
  <1>3. PICK f : Steps(f, n, step, 16, Nat)
    BY <1>2, StepsExist
  <1>4. \A k \in 1 .. 16 : k - 1 \in 0 .. 16 /\ k \in Nat
    OBVIOUS
  <1>5. /\ f \in [0 .. 16 -> Nat] /\ f[0] = n
        /\ \A k \in 1 .. 16 : f[k] = f[k - 1] \div base
    BY <1>2, <1>3, <1>4 DEF Steps
  <1>6. Left(f)
    BY <1>5
  <1>7. Left(q)
    BY <1>6 DEF Quotients, MaxWidth
  <1>8. q[0] = n /\ \A k \in 1 .. 16 : q[k] = q[k - 1] \div base
    BY <1>7
  <1> HIDE DEF q
  <1>9. \A k \in 0 .. 16 : q[k] \in Nat
    <2> DEFINE P == {k \in 0 .. 16 : q[k] \in Nat}
    <2>1. 0 \in P
      BY <1>8
    <2>2. ASSUME NEW k \in 0 .. 16 - 1, k \in P
          PROVE  k + 1 \in P
      BY <1>1, <1>8, <2>2
    <2>3. 0 .. 16 \subseteq P
      <3> HIDE DEF P
      <3> QED
        BY <2>1, <2>2, IntervalInduction
    <2> QED
      BY <2>3
  <1> QED
    BY <1>8, <1>9 DEF q

LEMMA ValuesAre ==
    ASSUME NEW s \in Seq(Nat), NEW radix \in Bases
    PROVE  /\ \A i \in 0 .. Len(s) : Values(s, radix)[i] \in Nat
           /\ Values(s, radix)[0] = 0
           /\ \A i \in 1 .. Len(s) : Values(s, radix)[i] = Values(s, radix)[i - 1] * radix + s[i]
  <1> DEFINE digit(i) == IF i \in 1 .. Len(s) THEN s[i] ELSE 0
             step == [p \in Nat \X Nat |-> p[2] * radix + digit(p[1])]
             Made(f) == f = [i \in 0 .. Len(s) |-> IF i = 0 THEN 0 ELSE f[i - 1] * radix + s[i]]
             v == Values(s, radix)
  <1>1. \A m, d \in Nat : m * radix + d \in Nat
    BY DEF Bases
  <1>2. Len(s) \in Nat /\ \A i \in 1 .. Len(s) : s[i] \in Nat
    OBVIOUS
  <1>3. /\ step \in [Nat \X Nat -> Nat]
        /\ \A i \in 1 .. Len(s), m \in Nat : step[<<i, m>>] = m * radix + s[i]
    <2>1. /\ \A i \in Nat : digit(i) \in Nat
          /\ \A i \in 1 .. Len(s) : digit(i) = s[i]
      BY <1>2
    <2> HIDE DEF digit
    <2>2. \A k, m \in Nat : m * radix + digit(k) \in Nat
      BY <1>1, <2>1
    <2>3. step \in [Nat \X Nat -> Nat]
      BY <2>2
    <2>4. ASSUME NEW i \in 1 .. Len(s), NEW m \in Nat
          PROVE  step[<<i, m>>] = m * radix + s[i]
      <3>1. i \in Nat /\ <<i, m>> \in Nat \X Nat /\ <<i, m>>[1] = i /\ <<i, m>>[2] = m
        BY <1>2
      <3>2. step[<<i, m>>] = m * radix + digit(i)
        BY <3>1
      <3>3. digit(i) = s[i]
        BY <2>1
      <3> HIDE DEF step
      <3> QED
        BY <3>2, <3>3
    <2> QED
      BY <2>3, <2>4
  <1> HIDE DEF step
  <1>4. PICK f : Steps(f, 0, step, Len(s), Nat)
    BY <1>2, <1>3, StepsExist
  <1>5. /\ f \in [0 .. Len(s) -> Nat] /\ f[0] = 0
        /\ \A i \in 1 .. Len(s) : f[i] = f[i - 1] * radix + s[i]
    <2>1. \A i \in 1 .. Len(s) : i - 1 \in 0 .. Len(s)
      BY <1>2
    <2> QED
      BY <1>3, <1>4, <2>1 DEF Steps
  <1>6. Made(f)
    BY <1>5
  <1>7. Made(v)
    BY <1>6 DEF Values
  <1>8. v[0] = 0 /\ \A i \in 1 .. Len(s) : v[i] = v[i - 1] * radix + s[i]
    BY <1>2, <1>7
  <1> HIDE DEF v
  <1>9. \A i \in 0 .. Len(s) : v[i] \in Nat
    <2> DEFINE P == {i \in 0 .. Len(s) : v[i] \in Nat}
    <2>1. 0 \in P
      BY <1>2, <1>8
    <2>2. ASSUME NEW i \in 0 .. Len(s) - 1, i \in P
          PROVE  i + 1 \in P
      <3>1. i + 1 \in 1 .. Len(s) /\ i + 1 - 1 = i /\ v[i] \in Nat
        BY <1>2, <2>2
      <3>2. v[i + 1] = v[i] * radix + s[i + 1]
        BY <1>8, <3>1
      <3>3. v[i] * radix + s[i + 1] \in Nat
        BY <1>1, <1>2, <3>1
      <3>4. v[i + 1] \in Nat
        BY <3>2, <3>3
      <3> QED
        BY <1>2, <3>1, <3>4
    <2>3. 0 .. Len(s) \subseteq P
      <3> HIDE DEF P
      <3> QED
        BY <1>2, <2>1, <2>2, IntervalInduction
    <2> QED
      BY <2>3
  <1> QED
    BY <1>8, <1>9 DEF v

\* Sixteen divisions leave nothing of a u64, nor of a number of sixteen decimal digits.
HexHalf == 256 * 256 * 256 * 256
U64End == HexHalf * HexHalf
DecimalHalf == 100 * 100 * 100 * 100
DecimalEnd == DecimalHalf * DecimalHalf

LEMMA HexEnds ==
    ASSUME NEW n \in Nat, n < U64End
    PROVE  Quotients(n, 16)[16] = 0
  <1> DEFINE q == Quotients(n, 16)
  <1>1. /\ \A k \in 0 .. 16 : q[k] \in Nat
        /\ q[0] = n
        /\ \A k \in 1 .. 16 : q[k] = q[k - 1] \div 16
    BY QuotientsAre DEF Bases
  <1> HIDE DEF q
  <1>2. \A k \in 1 .. 16 : 16 * q[k] <= q[k - 1]
    BY <1>1
  <1>3. /\ 16 * q[1] <= n /\ 16 * q[2] <= q[1] /\ 16 * q[3] <= q[2] /\ 16 * q[4] <= q[3]
        /\ 16 * q[5] <= q[4] /\ 16 * q[6] <= q[5] /\ 16 * q[7] <= q[6] /\ 16 * q[8] <= q[7]
        /\ 16 * q[9] <= q[8] /\ 16 * q[10] <= q[9] /\ 16 * q[11] <= q[10] /\ 16 * q[12] <= q[11]
        /\ 16 * q[13] <= q[12] /\ 16 * q[14] <= q[13] /\ 16 * q[15] <= q[14] /\ 16 * q[16] <= q[15]
    BY <1>1, <1>2
  <1>4. HexHalf * q[8] <= n
    BY <1>1, <1>3 DEF HexHalf
  <1>5. HexHalf * q[16] <= q[8]
    BY <1>1, <1>3 DEF HexHalf
  <1>6. q[16] = 0
    BY <1>1, <1>4, <1>5 DEF HexHalf, U64End
  <1> QED
    BY <1>6 DEF q

LEMMA DecimalEnds ==
    ASSUME NEW n \in Nat, n < DecimalEnd
    PROVE  Quotients(n, 10)[16] = 0
  <1> DEFINE q == Quotients(n, 10)
  <1>1. /\ \A k \in 0 .. 16 : q[k] \in Nat
        /\ q[0] = n
        /\ \A k \in 1 .. 16 : q[k] = q[k - 1] \div 10
    BY QuotientsAre DEF Bases
  <1> HIDE DEF q
  <1>2. \A k \in 1 .. 16 : 10 * q[k] <= q[k - 1]
    BY <1>1
  <1>3. /\ 10 * q[1] <= n /\ 10 * q[2] <= q[1] /\ 10 * q[3] <= q[2] /\ 10 * q[4] <= q[3]
        /\ 10 * q[5] <= q[4] /\ 10 * q[6] <= q[5] /\ 10 * q[7] <= q[6] /\ 10 * q[8] <= q[7]
        /\ 10 * q[9] <= q[8] /\ 10 * q[10] <= q[9] /\ 10 * q[11] <= q[10] /\ 10 * q[12] <= q[11]
        /\ 10 * q[13] <= q[12] /\ 10 * q[14] <= q[13] /\ 10 * q[15] <= q[14] /\ 10 * q[16] <= q[15]
    BY <1>1, <1>2
  <1>4. DecimalHalf * q[8] <= n
    BY <1>1, <1>3 DEF DecimalHalf
  <1>5. DecimalHalf * q[16] <= q[8]
    BY <1>1, <1>3 DEF DecimalHalf
  <1>6. q[16] = 0
    BY <1>1, <1>4, <1>5 DEF DecimalHalf, DecimalEnd
  <1> QED
    BY <1>6 DEF q

LEMMA DigitsAre ==
    ASSUME NEW n \in Nat, NEW base \in Bases, Quotients(n, base)[16] = 0
    PROVE  /\ Width(n, base) \in 1 .. 16 /\ Quotients(n, base)[Width(n, base)] = 0
           /\ \A j \in 1 .. Width(n, base) - 1 : Quotients(n, base)[j] # 0
           /\ Digits(n, base) \in Seq(Nat) /\ Len(Digits(n, base)) = Width(n, base)
           /\ \A i \in 1 .. Width(n, base) :
                /\ Digits(n, base)[i] = Quotients(n, base)[Width(n, base) - i] % base
                /\ Digits(n, base)[i] < base
  <1> DEFINE q == Quotients(n, base)
             w == Width(n, base)
             T == {k \in 1 .. 16 : q[k] = 0}
  <1>1. PICK k \in T : \A j \in T : k <= j
    <2>1. T \subseteq Nat /\ T # {}
      OBVIOUS
    <2> HIDE DEF T
    <2> QED
      BY <2>1, LeastNumber
  <1>2. k \in 1 .. MaxWidth /\ q[k] = 0 /\ \A j \in 1 .. k - 1 : q[j] # 0
    BY <1>1 DEF MaxWidth
  <1>3. w \in 1 .. 16 /\ q[w] = 0 /\ \A j \in 1 .. w - 1 : q[j] # 0
    <2> HIDE DEF q
    <2> QED
      BY <1>2 DEF Width, MaxWidth, q
  <1>4. \A i \in 0 .. 16 : q[i] \in Nat
    BY QuotientsAre
  <1>5. \A i \in 0 .. 16 : q[i] % base \in Nat /\ q[i] % base < base
    BY <1>4 DEF Bases
  <1>6. \A i \in 1 .. w : w - i \in 0 .. 16
    BY <1>3
  <1>7. Digits(n, base) = [i \in 1 .. w |-> q[w - i] % base]
    BY DEF Digits
  <1> HIDE DEF q, w
  <1>8. \A i \in 1 .. w : q[w - i] % base \in Nat /\ q[w - i] % base < base
    BY <1>5, <1>6
  <1>9. [i \in 1 .. w |-> q[w - i] % base] \in Seq(Nat)
    BY <1>3, <1>8
  <1>10. Len([i \in 1 .. w |-> q[w - i] % base]) = w
    BY <1>3
  <1> QED
    <2>1. /\ Digits(n, base) \in Seq(Nat) /\ Len(Digits(n, base)) = w
          /\ \A i \in 1 .. w : /\ Digits(n, base)[i] = q[w - i] % base
                             /\ Digits(n, base)[i] < base
      BY <1>7, <1>8, <1>9, <1>10
    <2> QED
      BY <1>3, <2>1 DEF q, w

-----------------------------------------------------------------------------
(* What is read of what is written.                                        *)

\* What is left of a number after one division more, and the digit divided off.
LEMMA OneDivision ==
    ASSUME NEW n \in Nat, NEW base \in Bases, NEW w \in 1 .. 16, NEW i \in 1 .. w
    PROVE  LET q == Quotients(n, base) IN
           /\ q[w - i] \in Nat /\ q[w - (i - 1)] \in Nat
           /\ q[w - i] = q[w - (i - 1)] * base + (q[w - i] % base)
  <1> DEFINE q == Quotients(n, base)
             k == w - i
  <1>1. k \in 0 .. 16 /\ k + 1 \in 1 .. 16 /\ k + 1 \in 0 .. 16 /\ k + 1 - 1 = k /\ w - (i - 1) = k + 1
    OBVIOUS
  <1> HIDE DEF k
  <1>2. q[k] \in Nat /\ q[k + 1] \in Nat /\ q[k + 1] = q[k] \div base
    BY <1>1, QuotientsAre
  <1> HIDE DEF q
  <1>3. q[k] = q[k + 1] * base + (q[k] % base)
    BY <1>2 DEF Bases
  <1> QED
    BY <1>1, <1>2, <1>3 DEF k, q

\* The id `subscribe` writes, of any u64, is read as that number: MessageId and UpperHex
\* agree on the base, the digits and their order.
THEOREM HexReadsBack ==
    ASSUME NEW n \in Nat, n < U64End
    PROVE  MessageId(UpperHex(n)) = n
  <1> DEFINE q == Quotients(n, 16)
             w == Width(n, 16)
             s == Digits(n, 16)
             v == Values(s, 16)
  <1>1. 16 \in Bases
    BY DEF Bases
  <1>2. /\ w \in 1 .. 16 /\ q[w] = 0 /\ s \in Seq(Nat) /\ Len(s) = w
        /\ \A i \in 1 .. w : s[i] = q[w - i] % 16 /\ s[i] < 16
    BY <1>1, HexEnds, DigitsAre
  <1>3. v[0] = 0 /\ \A i \in 1 .. w : v[i] = v[i - 1] * 16 + s[i]
    BY <1>1, <1>2, ValuesAre
  <1>4. \A i \in 1 .. w : q[w - i] = q[w - (i - 1)] * 16 + (q[w - i] % 16)
    <2>1. w \in 1 .. 16
      BY <1>2
    <2> HIDE DEF w
    <2> QED
      BY <1>1, <2>1, OneDivision
  <1>5. q[0] = n
    BY <1>1, QuotientsAre
  <1>6. MessageId(UpperHex(n)) = v[w]
    <2>1. s # <<>> /\ \A i \in DOMAIN s : s[i] < 16
      BY <1>2
    <2> QED
      BY <1>2, <2>1 DEF MessageId, UpperHex, FromStrRadix
  <1> HIDE DEF q, w, s, v
  <1> DEFINE P == {i \in 0 .. w : v[i] = q[w - i]}
  <1>7. 0 \in P
    BY <1>2, <1>3
  <1>8. ASSUME NEW i \in 0 .. w - 1, i \in P
        PROVE  i + 1 \in P
    <2>1. i + 1 \in 1 .. w /\ i + 1 - 1 = i /\ i + 1 \in 0 .. w
      BY <1>2
    <2>2. v[i + 1] = v[i] * 16 + s[i + 1] /\ s[i + 1] = q[w - (i + 1)] % 16
      BY <1>2, <1>3, <2>1
    <2>3. q[w - (i + 1)] = q[w - i] * 16 + (q[w - (i + 1)] % 16)
      BY <1>4, <2>1
    <2> QED
      BY <1>8, <2>1, <2>2, <2>3
  <1>9. w \in P
    <2>1. w \in Nat /\ w \in 0 .. w
      BY <1>2
    <2> HIDE DEF P
    <2> QED
      BY <1>7, <1>8, <2>1, IntervalInduction
  <1> QED
    BY <1>2, <1>5, <1>6, <1>9

\* The id the resend loop writes, of a call from the tenth on, is read as a greater number:
\* ServerMessage::id takes the decimal digits for hexadecimal ones.
THEOREM DecimalReadsMore ==
    ASSUME NEW n \in Nat, 10 <= n, n < DecimalEnd
    PROVE  MessageId(Decimal(n)) > n
  <1> DEFINE q == Quotients(n, 10)
             w == Width(n, 10)
             s == Digits(n, 10)
             v == Values(s, 16)
  <1>1. 10 \in Bases /\ 16 \in Bases
    BY DEF Bases
  <1>2. /\ w \in 1 .. 16 /\ q[w] = 0 /\ s \in Seq(Nat) /\ Len(s) = w
        /\ \A j \in 1 .. w - 1 : q[j] # 0
        /\ \A i \in 1 .. w : s[i] = q[w - i] % 10 /\ s[i] < 10
    BY <1>1, DecimalEnds, DigitsAre
  <1>3. /\ v[0] = 0 /\ \A i \in 1 .. w : v[i] = v[i - 1] * 16 + s[i]
        /\ \A i \in 0 .. w : v[i] \in Nat
    BY <1>1, <1>2, ValuesAre
  <1>4. \A i \in 1 .. w : /\ q[w - i] \in Nat /\ q[w - (i - 1)] \in Nat
                          /\ q[w - i] = q[w - (i - 1)] * 10 + (q[w - i] % 10)
    <2>1. w \in 1 .. 16
      BY <1>2
    <2> HIDE DEF w
    <2> QED
      BY <1>1, <2>1, OneDivision
  <1>5. q[0] = n /\ q[1] = n \div 10
    BY <1>1, QuotientsAre
  <1>6. MessageId(Decimal(n)) = v[w]
    <2>1. DOMAIN s = 1 .. w /\ s # <<>> /\ \A i \in DOMAIN s : s[i] \in Nat /\ s[i] < 10
      BY <1>2
    <2>2. \A d \in Nat : d < 10 => d < 16
      OBVIOUS
    <2>3. \A i \in DOMAIN s : s[i] < 16
      BY <2>1, <2>2
    <2> QED
      BY <1>2, <2>1, <2>3 DEF MessageId, Decimal, FromStrRadix
  <1> HIDE DEF q, w, s, v
  <1>7. w >= 2
    <2>1. q[1] # 0
      BY <1>5
    <2> QED
      BY <1>2, <2>1
  <1>0. \A i \in 1 .. w : s[i] \in Nat /\ s[i] = q[w - i] % 10
    <2>1. \A i \in 1 .. w : s[i] \in Nat
      BY <1>2
    <2>2. \A i \in 1 .. w : s[i] = q[w - i] % 10
      BY <1>2
    <2> QED
      BY <2>1, <2>2
  <1> DEFINE P == {i \in 0 .. w : v[i] >= q[w - i] /\ (i >= 2 => v[i] > q[w - i])}
  <1>8. 0 \in P
    BY <1>2, <1>3
  <1>9. ASSUME NEW i \in 0 .. w - 1, i \in P
        PROVE  i + 1 \in P
    <2>1. i + 1 \in 1 .. w /\ i + 1 - 1 = i /\ i + 1 \in 0 .. w /\ i \in 0 .. w
      BY <1>2
    <2>2. v[i + 1] = v[i] * 16 + s[i + 1] /\ s[i + 1] = q[w - (i + 1)] % 10
      BY <1>0, <1>3, <2>1
    <2>3. /\ q[w - (i + 1)] = q[w - i] * 10 + (q[w - (i + 1)] % 10)
          /\ q[w - i] \in Nat /\ q[w - (i + 1)] \in Nat
      BY <1>4, <2>1
    <2>4. v[i] \in Nat /\ s[i + 1] \in Nat
      BY <1>0, <1>3, <2>1
    <2>5. v[i] >= q[w - i]
      BY <1>9
    <2>6. v[i + 1] >= q[w - (i + 1)]
      BY <2>2, <2>3, <2>4, <2>5
    <2>7. i + 1 >= 2 => v[i + 1] > q[w - (i + 1)]
      <3> SUFFICES ASSUME i + 1 >= 2
                   PROVE  v[i + 1] > q[w - (i + 1)]
        OBVIOUS
      <3>1. w - i \in 1 .. w - 1
        BY <1>2
      <3>2. q[w - i] # 0
        BY <1>2, <3>1
      <3>3. ASSUME NEW a \in Nat, NEW b \in Nat, NEW d \in Nat, a >= b, b # 0
            PROVE  a * 16 + d > b * 10 + d
        BY <3>3
      <3> QED
        BY <2>2, <2>3, <2>4, <2>5, <3>2, <3>3
    <2> QED
      BY <2>1, <2>6, <2>7
  <1>10. w \in P
    <2>1. w \in Nat /\ w \in 0 .. w
      BY <1>2
    <2> HIDE DEF P
    <2> QED
      BY <1>8, <1>9, <2>1, IntervalInduction
  <1>11. v[w] > q[0]
    BY <1>2, <1>7, <1>10
  <1> QED
    BY <1>5, <1>6, <1>11

\* A number of one digit is written alike in either base.
THEOREM OneDigitAlike ==
    ASSUME NEW n \in 0 .. 9
    PROVE  Decimal(n) = UpperHex(n)
  <1>1. ASSUME NEW base \in Bases
        PROVE  Digits(n, base) = [i \in 1 .. 1 |-> n]
    <2> DEFINE q == Quotients(n, base)
               w == Width(n, base)
    <2>1. q[16] = 0
      <3>1. n \in Nat /\ n < U64End /\ n < DecimalEnd
        <4>1. HexHalf \in Nat /\ HexHalf > 9 /\ DecimalHalf \in Nat /\ DecimalHalf > 9
          BY DEF HexHalf, DecimalHalf
        <4>2. \A h \in Nat : h > 9 => h * h > 9
          OBVIOUS
        <4>3. U64End > 9 /\ DecimalEnd > 9
          BY <4>1, <4>2 DEF U64End, DecimalEnd
        <4> QED
          BY <4>1, <4>3 DEF U64End, DecimalEnd
      <3> QED
        BY <3>1, HexEnds, DecimalEnds DEF Bases
    <2>2. q[0] = n /\ q[1] = n \div base
      BY QuotientsAre
    <2>3. q[1] = 0 /\ n % base = n
      BY <2>2 DEF Bases
    <2>4. w \in 1 .. 16 /\ \A j \in 1 .. w - 1 : q[j] # 0
      <3>1. n \in Nat
        OBVIOUS
      <3> QED
        BY <2>1, <3>1, DigitsAre
    <2>5. w = 1
      BY <2>3, <2>4
    <2>6. Digits(n, base) = [i \in 1 .. w |-> q[w - i] % base]
      BY DEF Digits
    <2> HIDE DEF q, w
    <2> QED
      BY <2>2, <2>3, <2>5, <2>6
  <1> QED
    BY <1>1 DEF Decimal, UpperHex, Bases

-----------------------------------------------------------------------------
(* The results and the requests.                                           *)

USE ConnsAssumption, IdsAssumption, LivenessAssumption DEF Conn, SubId

\* NoId names no subscription.
LEMMA NoIdIsNone == NoId \notin SubId
  BY DEF NoId

\* The string of a resent Start is that of the first: with one connection nothing is
\* resent, for every handle bears its liveness.
LEMMA ResentId ==
    ASSUME IdsReadBack, TypeOK, NEW g \in Conn, NEW n \in SubId,
           Liveness(stamp[n]) # Liveness(g)
    PROVE  Decimal(n) = UpperHex(n)
  <1>1. stamp[n] \in Conn
    BY DEF TypeOK
  <1>2. MaxConns # 1
    <2> SUFFICES ASSUME MaxConns = 1 PROVE FALSE
      OBVIOUS
    <2>1. g = 0 /\ stamp[n] = 0
      BY <1>1
    <2> QED
      BY <2>1
  <1> QED
    BY <1>2 DEF IdsReadBack

-----------------------------------------------------------------------------
\* What the server of a connection may come to run: what it ran, or the request of a
\* Start that the sender of that connection puts on its sink.
Asked(m) == [id |-> m.id, payload |-> m.payload]

LEMMA PutOps ==
    ASSUME TypeOK, NEW g \in Conn, NEW m \in ClientMessage, Put(g, m),
           NEW h \in Conn, NEW o \in ops'[h]
    PROVE  o \in ops[h] \/ (h = g /\ m.type = "start" /\ o = Asked(m))
  <1>0. ops \in [Conn -> SUBSET Operation]
    BY DEF TypeOK
  <1>1. CASE h # g
    BY <1>0, <1>1 DEF Put
  <1>2. CASE h = g
    <2>1. o \in ops[g] \/ o \in After(ops[g], m)
      BY <1>0, <1>2 DEF Put
    <2>2. m.type \in {"start", "stop", "connection_terminate"}
      BY DEF ClientMessage
    <2>3. \/ m.type = "start" /\ After(ops[g], m) = Without(ops[g], m.id) \cup {Asked(m)}
          \/ m.type = "stop" /\ After(ops[g], m) = Without(ops[g], m.id)
          \/ After(ops[g], m) = {}
      BY <2>2 DEF After, Asked
    <2> QED
      BY <1>2, <2>1, <2>3 DEF Without
  <1> QED
    BY <1>1, <1>2

LEMMA OpsNext ==
    ASSUME TypeOK, [Next]_vars, NEW h \in Conn, NEW o \in ops'[h]
    PROVE  \/ o \in ops[h]
           \/ \E n \in SubId : /\ SenderResend(h, n) /\ Liveness(stamp[n]) # Liveness(h)
                               /\ o = Asked(Start(Decimal(n), n))
           \/ /\ SenderSend(h) /\ outq[h] # <<>> /\ Head(outq[h]).type = "start"
              /\ o = Asked(Head(outq[h]))
  <1>0. /\ ops \in [Conn -> SUBSET Operation] /\ outq \in [Conn -> Seq(ClientMessage)]
        /\ link \in [Conn -> {"up", "reset", "closed"}]
    BY DEF TypeOK
  <1>1. ASSUME NEW g \in Conn, NEW how, Disconnect(g, how)
        PROVE  o \in ops[h]
    BY <1>0, <1>1 DEF Disconnect
  <1>2. ASSUME NEW g \in Conn, NEW f, Emit(g, f)
        PROVE  o \in ops[h]
    BY <1>0, <1>2 DEF Emit, Without
  <1>3. ASSUME NEW g \in Conn, ReceiverStep(g)
        PROVE  o \in ops[h]
    <2>1. CASE ReceiverDie(g)
      BY <1>1, <2>1 DEF ReceiverDie
    <2>2. CASE ReceiverKeepAlive(g) \/ ReceiverUndecodable(g) \/ ReceiverMessage(g)
      BY <1>2, <2>2 DEF ReceiverKeepAlive, ReceiverUndecodable, ReceiverMessage
    <2>3. CASE ReceiverEnd(g) \/ ReceiverDispatch(g) \/ ReceiverBroadcast(g) \/ ReceiverCleanup(g)
      BY <2>3 DEF ReceiverEnd, ReceiverDispatch, ReceiverBroadcast, ReceiverCleanup, netVars
    <2> QED
      BY <1>3, <2>1, <2>2, <2>3 DEF ReceiverStep
  <1>4. ASSUME NEW g \in Conn, NEW n \in SubId, SenderResend(g, n), o \notin ops[h]
        PROVE  /\ SenderResend(h, n) /\ Liveness(stamp[n]) # Liveness(h)
               /\ o = Asked(Start(Decimal(n), n))
    <2>1. Liveness(stamp[n]) # Liveness(g) /\ Put(g, Start(Decimal(n), n))
      BY <1>4 DEF SenderResend
    <2>2. h = g /\ o = Asked(Start(Decimal(n), n))
      BY <1>4, <2>1, StartType, PutOps
    <2> QED
      BY <1>4, <2>1, <2>2
  <1>5. ASSUME NEW g \in Conn, SenderSend(g), o \notin ops[h]
        PROVE  /\ SenderSend(h) /\ outq[h] # <<>> /\ Head(outq[h]).type = "start"
               /\ o = Asked(Head(outq[h]))
    <2>1. outq[g] # <<>> /\ Put(g, Head(outq[g])) /\ Head(outq[g]) \in ClientMessage
      BY <1>0, <1>5 DEF SenderSend
    <2>2. h = g /\ Head(outq[g]).type = "start" /\ o = Asked(Head(outq[g]))
      BY <1>5, <2>1, PutOps
    <2> QED
      BY <1>5, <2>1, <2>2
  <1>6. ASSUME NEW g \in Conn, \/ SenderInit(g) \/ SenderPanic(g) \/ SenderLock(g) \/ SenderClosed(g)
                               \/ SenderPing(g) \/ SenderTimer(g) \/ SenderTimeout(g) \/ SenderEnd(g)
        PROVE  o \in ops[h]
    BY <1>6 DEF SenderInit, SenderPanic, SenderLock, SenderClosed, SenderPing, SenderTimer, SenderTimeout,
                SenderEnd, netVars
  <1>7. ASSUME NEW g \in Conn, LinkDown(g)
        PROVE  o \in ops[h]
    BY <1>1, <1>7 DEF LinkDown
  <1>8. ASSUME \/ ReconnectSwap \/ SubscribeStep \/ UNCHANGED vars
               \/ \E g \in Conn : ReconnectNew(g)
               \/ \E n \in SubId : TaskItem(n) \/ TaskEnd(n)
        PROVE  o \in ops[h]
    BY <1>8, SubscribeFrame DEF ReconnectSwap, ReconnectNew, TaskItem, TaskEnd, vars, netVars
  <1> QED
    BY <1>3, <1>4, <1>5, <1>6, <1>7, <1>8 DEF Next, SenderStep

\* What a frame is about: an operation the server runs, or no subscription at all.
LEMMA DecodeId ==
    ASSUME TypeOK, NEW g \in Conn, NEW f \in Frames(g)
    PROVE  \/ IdOf(Decode(f)) = NoId /\ Decode(f).variant # "Data"
           \/ \E o \in ops[g] :
                 /\ IdOf(Decode(f)) = MessageId(o.id)
                 /\ Decode(f).variant = "Data" =>
                       Decode(f).id = o.id /\ Decode(f).payload = o.payload
  <1>2. CASE \E o \in ops[g] : f = DataFrame(o)
    <2>1. PICK o \in ops[g] : f = DataFrame(o)
      BY <1>2
    <2>2. Decode(f) = [variant |-> "Data", id |-> o.id, payload |-> o.payload]
      BY <2>1 DEF DataFrame, Decode
    <2> QED
      BY <2>2 DEF IdOf
  <1>3. CASE f \in [type : {"error", "complete"}, id : {o.id : o \in ops[g]}]
    <2>1. PICK o \in ops[g] : f.id = o.id
      BY <1>3
    <2>2. Decode(f) = IF f.type = "complete" THEN [variant |-> "Complete", id |-> f.id]
                      ELSE [variant |-> "ConnectionError"]
      BY <1>3 DEF Decode
    <2> QED
      BY <2>1, <2>2 DEF IdOf
  <1>4. CASE \E t \in {"connection_ack", "ka", "unknown", "pong"} : f = [type |-> t]
    BY <1>4 DEF Decode, IdOf, Undecodable
  <1>5. ASSUME NEW T, f \in [type : T], T \subseteq {"connection_ack", "ka", "unknown", "pong"}
        PROVE  \E t \in {"connection_ack", "ka", "unknown", "pong"} : f = [type |-> t]
    BY <1>5
  <1> QED
    BY <1>2, <1>3, <1>4, <1>5 DEF Frames

\* The message in a receiver's hands is the one it had, or a frame that just came.
LEMMA MessageNext ==
    ASSUME TypeOK, [Next]_vars, NEW g \in Conn
    PROVE  \/ message'[g] = message[g] /\ (receiver'[g] \in {"read", "write"} => InHand(g))
           \/ message'[g] = NoMessage /\ receiver'[g] = "select"
           \/ ReceiverMessage(g) /\ \E f \in Frames(g) : message'[g] = Decode(f)
  <1>0. /\ receiver \in [Conn -> {"none", "select", "read", "write", "reconnect", "stopped"}]
        /\ message \in [Conn -> ServerMessage \cup {NoMessage}]
    BY DEF TypeOK
  <1>1. CASE message'[g] = message[g] /\ receiver'[g] = receiver[g]
    BY <1>1 DEF InHand
  <1>2. CASE ReceiverStep(g)
    <2>1. CASE ReceiverMessage(g)
      BY <1>0, <2>1 DEF ReceiverMessage
    <2>2. CASE NextIteration(g)
      BY <1>0, <2>2 DEF NextIteration
    <2>3. CASE ReceiverDie(g) \/ ReceiverEnd(g)
      BY <1>0, <2>3 DEF ReceiverDie, ReceiverEnd, Return
    <2>4. CASE ReceiverDispatch(g) /\ message' = message /\ receiver[g] = "read"
      BY <2>4 DEF InHand
    <2> QED
      BY <1>2, <2>1, <2>2, <2>3, <2>4 DEF ReceiverStep, ReceiverKeepAlive, ReceiverUndecodable,
         ReceiverDispatch, ReceiverBroadcast, ReceiverCleanup
  <1>3. ASSUME NEW h \in Conn, h # g, ReceiverStep(h)
        PROVE  receiver'[g] = receiver[g] /\ message'[g] = message[g]
    BY <1>0, <1>3 DEF ReceiverStep, ReceiverDie, ReceiverEnd, ReceiverKeepAlive,
                ReceiverUndecodable, ReceiverMessage, ReceiverDispatch, ReceiverBroadcast,
                ReceiverCleanup, Return, NextIteration
  <1>4. ASSUME NEW h \in Conn, ReconnectNew(h)
        PROVE  message' = message /\ (receiver'[g] = receiver[g] \/ receiver'[g] = "select")
    BY <1>0, <1>4 DEF ReconnectNew
  <1>5. ASSUME \/ \E h \in Conn : SenderStep(h) \/ LinkDown(h)
               \/ ReconnectSwap \/ SubscribeStep \/ UNCHANGED vars
               \/ \E n \in SubId : TaskItem(n) \/ TaskEnd(n)
        PROVE  UNCHANGED <<receiver, message>>
    BY <1>5, SenderFrame, SubscribeFrame, TaskFrame DEF LinkDown, ReconnectSwap, vars, receiverVars
  <1> QED
    BY <1>1, <1>2, <1>3, <1>4, <1>5 DEF Next

-----------------------------------------------------------------------------
\* The Starts in a queue bear the ids of their requests.
Own(q) == \A i \in DOMAIN q : q[i].type = "start" => q[i].id = UpperHex(q[i].payload)

LEMMA OwnAppend ==
    ASSUME NEW q \in Seq(ClientMessage), Own(q), NEW m \in ClientMessage,
           m.type = "start" => m.id = UpperHex(m.payload)
    PROVE  Own(Append(q, m))
  <1> SUFFICES ASSUME NEW i \in DOMAIN Append(q, m), Append(q, m)[i].type = "start"
               PROVE  Append(q, m)[i].id = UpperHex(Append(q, m)[i].payload)
    BY DEF Own
  <1>1. \/ i \in DOMAIN q /\ Append(q, m)[i] = q[i]
        \/ Append(q, m)[i] = m
    OBVIOUS
  <1> QED
    BY <1>1 DEF Own

LEMMA OwnTail ==
    ASSUME NEW q \in Seq(ClientMessage), q # <<>>, Own(q)
    PROVE  Own(Tail(q))
  <1>1. \A i \in DOMAIN Tail(q) : i + 1 \in DOMAIN q /\ Tail(q)[i] = q[i + 1]
    BY HeadTailProperties
  <1> QED
    BY <1>1 DEF Own

LEMMA QueuesOwn ==
    ASSUME TypeOK, CallerInv, [Next]_vars, \A h \in Conn : Own(outq[h]), NEW g \in Conn
    PROVE  Own(outq'[g])
  <1>0. /\ outq \in [Conn -> Seq(ClientMessage)]
        /\ current \in Conn /\ txOf \in [SubId -> Conn]
    BY DEF TypeOK
  <1>1. CASE outq' = outq
    BY <1>1
  <1>2. ASSUME NEW h \in Conn, NEW m \in ClientMessage,
               m.type = "start" => m.id = UpperHex(m.payload),
               outq' = [outq EXCEPT ![h] = Append(@, m)]
        PROVE  Own(outq'[g])
    BY <1>0, <1>2, OwnAppend
  <1>3. ASSUME NEW h \in Conn, SenderStep(h)
        PROVE  Own(outq'[g])
    <2>1. CASE SenderSend(h)
      <3>1. outq[h] # <<>> /\ outq' = [outq EXCEPT ![h] = Tail(@)]
        BY <2>1 DEF SenderSend
      <3> QED
        BY <1>0, <3>1, OwnTail
    <2>2. CASE SenderPanic(h) \/ SenderEnd(h)
      <3>1. outq' = [outq EXCEPT ![h] = <<>>]
        BY <2>2 DEF SenderPanic, SenderEnd
      <3>2. Own(<<>>)
        BY DEF Own
      <3> QED
        BY <1>0, <3>1, <3>2
    <2>3. CASE \/ SenderInit(h) \/ SenderLock(h) \/ SenderClosed(h) \/ SenderPing(h)
               \/ SenderTimer(h) \/ SenderTimeout(h) \/ \E k \in SubId : SenderResend(h, k)
      BY <1>1, <2>3 DEF SenderInit, SenderLock, SenderClosed, SenderPing, SenderTimer, SenderTimeout,
                        SenderResend, senderVars
    <2> QED
      BY <1>3, <2>1, <2>2, <2>3 DEF SenderStep
  <1>4. CASE ReconnectSwap
    <2>1. \/ outq' = outq
          \/ outq' = [outq EXCEPT ![current] = Append(@, ConnectionTerminate)]
      BY <1>4 DEF ReconnectSwap
    <2>2. ConnectionTerminate.type # "start"
      BY DEF ConnectionTerminate
    <2> QED
      BY <1>0, <1>1, <1>2, <2>1, <2>2, TerminateType
  <1>5. CASE SubscribeStep
    <2>1. CASE SubscribeStart
      <3>1. idCount \in SubId
        BY <2>1 DEF SubscribeStart, CallerInv
      <3>2. outq' = [outq EXCEPT ![current] = Append(@, Start(UpperHex(idCount), idCount))]
        BY <2>1 DEF SubscribeStart
      <3>3. Start(UpperHex(idCount), idCount).id = UpperHex(Start(UpperHex(idCount), idCount).payload)
        BY DEF Start
      <3> QED
        BY <1>0, <1>2, <3>1, <3>2, <3>3, StartType
    <2>2. CASE ~SubscribeStart
      BY <1>1, <1>5, <2>2 DEF SubscribeStep, SubscribeCall, SubscribeCancel, SubscribeInsert,
                        SubscribePanic, senderVars
    <2> QED
      BY <2>1, <2>2
  <1>6. ASSUME NEW k \in SubId, TaskItem(k) \/ TaskEnd(k)
        PROVE  Own(outq'[g])
    <2>1. \/ outq' = outq
          \/ outq' = [outq EXCEPT ![txOf[k]] = Append(@, Stop(UpperHex(k)))]
      BY <1>6 DEF TaskItem, TaskEnd, Drop, senderVars
    <2>2. Stop(UpperHex(k)).type # "start"
      BY DEF Stop
    <2> QED
      BY <1>0, <1>1, <1>2, <2>1, <2>2, StartType
  <1>7. ASSUME \/ \E h \in Conn : ReceiverStep(h) \/ LinkDown(h) \/ ReconnectNew(h)
               \/ UNCHANGED vars
        PROVE  outq' = outq
    BY <1>7 DEF ReceiverStep, ReceiverDie, ReceiverEnd, ReceiverKeepAlive, ReceiverUndecodable,
                ReceiverMessage, ReceiverDispatch, ReceiverBroadcast, ReceiverCleanup,
                LinkDown, ReconnectNew, senderVars, vars
  <1> QED
    BY <1>1, <1>3, <1>4, <1>5, <1>6, <1>7 DEF Next

\* One id per request, all the way to the server and back.
LEMMA OwnIdsNext ==
    ASSUME IdsReadBack, TypeOK, CallerInv, Stamped, OwnIds, [Next]_vars
    PROVE  OwnIds'
  <1> SUFFICES ASSUME NEW g \in Conn
               PROVE  /\ Own(outq'[g])
                      /\ \A o \in ops'[g] : o.id = UpperHex(o.payload)
                      /\ message'[g].variant = "Data" =>
                             message'[g].id = UpperHex(message'[g].payload)
    BY DEF OwnIds, Own
  <1>0. \A h \in Conn : Own(outq[h])
    BY DEF OwnIds, Own
  <1>1. Own(outq'[g])
    BY <1>0, QueuesOwn
  <1>2. ASSUME NEW o \in ops'[g]
        PROVE  o.id = UpperHex(o.payload)
    <2>1. CASE o \in ops[g]
      BY <2>1 DEF OwnIds
    <2>2. ASSUME NEW n \in SubId, Liveness(stamp[n]) # Liveness(g), o = Asked(Start(Decimal(n), n))
          PROVE  o.id = UpperHex(o.payload)
      <3>1. o.id = Decimal(n) /\ o.payload = n
        BY <2>2 DEF Asked, Start
      <3> QED
        BY <2>2, <3>1, ResentId
    <2>3. CASE /\ outq[g] # <<>> /\ Head(outq[g]).type = "start"
               /\ o = Asked(Head(outq[g]))
      <3>1. outq[g] \in Seq(ClientMessage)
        BY DEF TypeOK
      <3>2. 1 \in DOMAIN outq[g] /\ Head(outq[g]) = outq[g][1]
        BY <2>3, <3>1
      <3>3. o.id = outq[g][1].id /\ o.payload = outq[g][1].payload
        BY <2>3, <3>2 DEF Asked
      <3> QED
        BY <1>0, <2>3, <3>2, <3>3 DEF Own
    <2> QED
      BY <2>1, <2>2, <2>3, OpsNext
  <1>3. ASSUME message'[g].variant = "Data"
        PROVE  message'[g].id = UpperHex(message'[g].payload)
    <2>1. CASE message'[g] = message[g]
      BY <1>3, <2>1 DEF OwnIds
    <2>2. CASE message'[g] = NoMessage
      BY <1>3, <2>2 DEF NoMessage
    <2>3. ASSUME NEW f \in Frames(g), message'[g] = Decode(f)
          PROVE  message'[g].id = UpperHex(message'[g].payload)
      <3>1. PICK o \in ops[g] : Decode(f).id = o.id /\ Decode(f).payload = o.payload
        BY <1>3, <2>3, DecodeId
      <3> QED
        BY <2>3, <3>1 DEF OwnIds
    <2> QED
      BY <2>1, <2>2, <2>3, MessageNext
  <1> QED
    BY <1>1, <1>2, <1>3

\* process_server_message sends a Data to the handle of the number its id is read as,
\* which is the number of the request it answers; no Data is sent to every handle.
LEMMA DataNext ==
    ASSUME IdsReadBack, TypeOK, CleanupInv, OwnIds, EveryDataIsOurs, [Next]_vars
    PROVE  EveryDataIsOurs'
  <1> DEFINE OursAt(m, n) == m.variant = "Data" => m.id = UpperHex(m.payload) /\ m.payload = n
             Ours(c, n) == \A i \in DOMAIN c : OursAt(c[i], n)
  <1> SUFFICES ASSUME NEW n \in SubId
               PROVE  Ours(channel'[n], n)
    BY DEF EveryDataIsOurs
  <1>0. /\ channel \in [SubId -> Seq(ServerMessage)] /\ channel[n] \in Seq(ServerMessage)
        /\ Ours(channel[n], n)
    <2>1. channel \in [SubId -> Seq(ServerMessage)]
      BY DEF TypeOK
    <2>2. \A k \in SubId : Ours(channel[k], k)
      BY DEF EveryDataIsOurs
    <2> QED
      BY <2>1, <2>2
  <1>1. CASE channel'[n] = channel[n]
    BY <1>0, <1>1
  <1>2. CASE channel'[n] = <<>>
    BY <1>2
  <1>3. CASE channel[n] # <<>> /\ channel'[n] = Tail(channel[n])
    <2>1. \A i \in DOMAIN Tail(channel[n]) :
             i + 1 \in DOMAIN channel[n] /\ Tail(channel[n])[i] = channel[n][i + 1]
      BY <1>0, <1>3, HeadTailProperties
    <2> QED
      BY <1>0, <1>3, <2>1
  <1>4. ASSUME NEW m \in ServerMessage, OursAt(m, n), channel'[n] = Append(channel[n], m)
        PROVE  Ours(channel'[n], n)
    <2>1. \A i \in DOMAIN channel'[n] :
              \/ i \in DOMAIN channel[n] /\ channel'[n][i] = channel[n][i]
              \/ channel'[n][i] = m
      BY <1>0, <1>4
    <2> QED
      BY <1>0, <1>4, <2>1
  <1>5. ASSUME NEW g \in Conn, ReceiverStep(g)
        PROVE  Ours(channel'[n], n)
    <2>1. CASE ReceiverDispatch(g)
      <3>1. message[g] \in ServerMessage
        BY <2>1 DEF ReceiverDispatch, CleanupInv
      <3>2. \/ channel'[n] = channel[n]
            \/ n = IdOf(message[g]) /\ channel'[n] = Append(channel[n], message[g])
        BY <2>1 DEF ReceiverDispatch, SendTo
      <3>3. ASSUME n = IdOf(message[g]), message[g].variant = "Data"
            PROVE  message[g].id = UpperHex(message[g].payload) /\ message[g].payload = n
        <4>1. message[g].payload \in SubId
          BY <3>1, <3>3 DEF ServerMessage
        <4>2. message[g].id = UpperHex(message[g].payload)
          BY <3>3 DEF OwnIds
        <4>3. n = MessageId(message[g].id)
          BY <3>3 DEF IdOf
        <4> QED
          BY <4>1, <4>2, <4>3 DEF IdsReadBack
      <3> QED
        BY <1>1, <1>4, <3>1, <3>2, <3>3
    <2>2. CASE ReceiverBroadcast(g)
      <3>1. message[g] \in ServerMessage
        BY <2>2 DEF ReceiverBroadcast, CleanupInv
      <3>2. \/ channel'[n] = channel[n]
            \/ channel'[n] = Append(channel[n], message[g])
        BY <2>2 DEF ReceiverBroadcast, SendTo
      <3>3. message[g].variant # "Data"
        <4> SUFFICES ASSUME message[g].variant = "Data" PROVE FALSE
          OBVIOUS
        <4>1. message[g].payload \in SubId
          BY <3>1 DEF ServerMessage
        <4>2. MessageId(message[g].id) = NoId
          BY <2>2 DEF ReceiverBroadcast, IdOf
        <4>3. MessageId(message[g].id) = message[g].payload
          BY <4>1 DEF OwnIds, IdsReadBack
        <4> QED
          BY <4>1, <4>2, <4>3, NoIdIsNone
      <3> QED
        BY <1>1, <1>4, <3>1, <3>2, <3>3
    <2>3. CASE ~ReceiverDispatch(g) /\ ~ReceiverBroadcast(g)
      BY <1>1, <1>5, <2>3 DEF ReceiverStep, ReceiverDie, ReceiverEnd, ReceiverKeepAlive,
         ReceiverUndecodable, ReceiverMessage, ReceiverCleanup, taskVars
    <2> QED
      BY <2>1, <2>2, <2>3
  <1>6. CASE SubscribeStep
    <2>1. \/ channel' = channel
          \/ channel' = [channel EXCEPT ![idCount] = <<>>]
      BY <1>6 DEF SubscribeStep, SubscribeCall, SubscribeCancel, SubscribeInsert,
                  SubscribeStart, SubscribePanic, taskVars
    <2> QED
      BY <1>0, <1>1, <1>2, <2>1
  <1>7. ASSUME NEW k \in SubId, TaskItem(k) \/ TaskEnd(k)
        PROVE  Ours(channel'[n], n)
    <2>1. \/ channel[k] # <<>> /\ channel' = [channel EXCEPT ![k] = Tail(@)]
          \/ channel' = [channel EXCEPT ![k] = <<>>]
      BY <1>7 DEF TaskItem, TaskEnd, Drop
    <2> QED
      BY <1>0, <1>1, <1>2, <1>3, <2>1
  <1>8. ASSUME \/ \E g \in Conn : SenderStep(g) \/ LinkDown(g) \/ ReconnectNew(g)
               \/ ReconnectSwap \/ UNCHANGED vars
        PROVE  channel' = channel
    BY <1>8, SenderFrame, ReconnectFrame DEF vars, taskVars
  <1> QED
    BY <1>1, <1>5, <1>6, <1>7, <1>8 DEF Next

-----------------------------------------------------------------------------
\* A connection that is replaced had lost its socket before its receiver returned.
LEMMA LinkGoneNext ==
    ASSUME TypeOK, ConnInv, LinkGone, [Next]_vars
    PROVE  LinkGone'
  <1> SUFFICES ASSUME NEW g \in Conn, g < spawned' \/ receiver'[g] = "reconnect",
                      link'[g] = "up"
               PROVE  FALSE
    BY DEF LinkGone
  <1>0. /\ receiver \in [Conn -> {"none", "select", "read", "write", "reconnect", "stopped"}]
        /\ link \in [Conn -> {"up", "reset", "closed"}] /\ spawned \in Conn
    BY DEF TypeOK
  <1>1. link[g] = "up" /\ g >= spawned /\ receiver[g] # "reconnect"
    BY <1>0, NetNext DEF LinkGone
  <1>2. CASE spawned' = spawned /\ receiver'[g] = receiver[g]
    BY <1>0, <1>1, <1>2
  <1>3. ASSUME NEW h \in Conn, ReceiverStep(h)
        PROVE  FALSE
    <2>1. spawned' = spawned
      BY <1>3, ReceiverFrame
    <2>2. CASE ReceiverDie(h) /\ h = g
      BY <1>0, <1>1, <2>2 DEF ReceiverDie, Disconnect
    <2>3. CASE ReceiverEnd(h) /\ h = g
      BY <1>1, <2>3 DEF ReceiverEnd
    <2>4. receiver'[g] = "reconnect" => (ReceiverDie(h) \/ ReceiverEnd(h)) /\ h = g
      BY <1>0, <1>1, <1>3 DEF ReceiverStep, ReceiverDie, ReceiverEnd, ReceiverKeepAlive,
         ReceiverUndecodable, ReceiverMessage, ReceiverDispatch, ReceiverBroadcast,
         ReceiverCleanup, Return, NextIteration
    <2> QED
      BY <1>0, <1>1, <2>1, <2>2, <2>3, <2>4
  <1>4. ASSUME NEW h \in Conn, ReconnectNew(h)
        PROVE  FALSE
    <2>1. receiver[h] = "reconnect" /\ spawned = h /\ spawned' = h + 1
      BY <1>4 DEF ReconnectNew
    <2>2. receiver'[g] # "reconnect"
      BY <1>0, <1>1, <1>4 DEF ReconnectNew
    <2>3. g = h
      BY <1>0, <1>1, <2>1, <2>2
    <2> QED
      BY <1>1, <2>1, <2>3
  <1>5. ASSUME \/ \E h \in Conn : SenderStep(h) \/ LinkDown(h)
               \/ ReconnectSwap \/ SubscribeStep \/ UNCHANGED vars
               \/ \E n \in SubId : TaskItem(n) \/ TaskEnd(n)
        PROVE  UNCHANGED <<spawned, receiver>>
    BY <1>5, SenderFrame, SubscribeFrame, TaskFrame
    DEF LinkDown, ReconnectSwap, vars, receiverVars, connVars
  <1> QED
    BY <1>2, <1>3, <1>4, <1>5 DEF Next

\* How the resend loop of a connection goes: it begins with what the table holds, and
\* ends with the last handle it visits.
LEMMA TodoNext ==
    ASSUME TypeOK, ConnInv, [Next]_vars, NEW g \in Conn
    PROVE  \/ todo'[g] = todo[g] /\ (sender'[g] = sender[g] \/ sender[g] # "resend")
                 /\ (sender'[g] \in {"none", "init", "lock"} =>
                        sender[g] \in {"none", "init", "lock"})
           \/ \E n \in SubId : /\ SenderResend(g, n) /\ todo'[g] = todo[g] \ {n}
                               /\ sender'[g] = IF todo[g] = {n} THEN "loop" ELSE "resend"
           \/ /\ SenderLock(g) /\ todo'[g] = subs
              /\ sender'[g] = IF subs = {} THEN "loop" ELSE "resend"
  <1>0. /\ sender \in [Conn -> {"none", "init", "lock", "resend", "loop", "timedout",
                                "closing", "ended", "panicked"}]
        /\ todo \in [Conn -> SUBSET SubId]
    BY DEF TypeOK
  <1>1. CASE UNCHANGED <<sender, todo>>
    BY <1>1
  <1>2. ASSUME NEW h \in Conn, h # g, SenderStep(h)
        PROVE  sender'[g] = sender[g] /\ todo'[g] = todo[g]
    BY <1>0, <1>2 DEF SenderStep, SenderInit, SenderPanic, SenderLock, SenderResend, SenderSend,
                SenderClosed, SenderPing, SenderTimer, SenderTimeout, SenderEnd
  <1>3. CASE SenderStep(g)
    <2>1. ASSUME NEW n \in SubId, SenderResend(g, n)
          PROVE  /\ todo'[g] = todo[g] \ {n}
                 /\ sender'[g] = IF todo[g] = {n} THEN "loop" ELSE "resend"
      BY <1>0, <2>1 DEF SenderResend
    <2>2. CASE SenderLock(g)
      BY <1>0, <2>2 DEF SenderLock
    <2>3. CASE \/ SenderInit(g) \/ SenderPanic(g) \/ SenderSend(g) \/ SenderClosed(g)
               \/ SenderPing(g) \/ SenderTimer(g) \/ SenderTimeout(g) \/ SenderEnd(g)
      BY <1>0, <2>3 DEF SenderInit, SenderPanic, SenderSend, SenderClosed, SenderPing, SenderTimer,
                        SenderTimeout, SenderEnd
    <2> QED
      BY <1>3, <2>1, <2>2, <2>3 DEF SenderStep
  <1>4. ASSUME NEW h \in Conn, ReconnectNew(h)
        PROVE  /\ todo' = todo
               /\ \/ sender'[g] = sender[g]
                  \/ g = h + 1 /\ spawned = h /\ sender'[g] = "init"
    BY <1>0, <1>4 DEF ReconnectNew
  <1>5. spawned < g => sender[g] = "none"
    BY DEF ConnInv
  <1>6. ASSUME \/ \E h \in Conn : ReceiverStep(h) \/ LinkDown(h)
               \/ ReconnectSwap \/ SubscribeStep \/ UNCHANGED vars
               \/ \E n \in SubId : TaskItem(n) \/ TaskEnd(n)
        PROVE  UNCHANGED <<sender, todo>>
    BY <1>6 DEF ReceiverStep, ReceiverDie, ReceiverEnd, ReceiverKeepAlive, ReceiverUndecodable,
       ReceiverMessage, ReceiverDispatch, ReceiverBroadcast, ReceiverCleanup, LinkDown,
       ReconnectSwap, SubscribeStep, SubscribeCall, SubscribeCancel, SubscribeInsert,
       SubscribeStart, SubscribePanic, TaskItem, TaskEnd, Drop, vars, senderVars
  <1> QED
    BY <1>1, <1>2, <1>3, <1>4, <1>5, <1>6 DEF Next

\* Before its resend loop begins a connection has been asked of nothing.
LEMMA NotBegunNext ==
    ASSUME TypeOK, ConnInv, NotBegun, [Next]_vars
    PROVE  NotBegun'
  <1> SUFFICES ASSUME NEW g \in Conn, sender'[g] \in {"none", "init", "lock"}
               PROVE  /\ ops'[g] = {}
                      /\ receiver'[g] \in {"read", "write"} => IdOf(message'[g]) = NoId
    BY DEF NotBegun, InHand, IdOf, MessageId, NoId
  <1>1. sender[g] \in {"none", "init", "lock"}
    <2>1. ASSUME SenderLock(g)
          PROVE  sender[g] = "lock"
      BY <2>1 DEF SenderLock
    <2> QED
      BY <2>1, TodoNext
  <1>2. ops[g] = {} /\ (InHand(g) => IdOf(message[g]) = NoId)
    BY <1>1 DEF NotBegun
  <1>3. ops'[g] = {}
    <2> SUFFICES ASSUME NEW o \in ops'[g] PROVE FALSE
      OBVIOUS
    <2>1. ~SenderSend(g) /\ \A n \in SubId : ~SenderResend(g, n)
      BY <1>1 DEF SenderSend, SenderResend
    <2> QED
      BY <1>2, <2>1, OpsNext
  <1>4. ASSUME receiver'[g] \in {"read", "write"}
        PROVE  IdOf(message'[g]) = NoId
    <2>1. \A f \in Frames(g) : IdOf(Decode(f)) = NoId
      BY <1>2, DecodeId
    <2> QED
      BY <1>2, <1>4, <2>1, MessageNext
  <1> QED
    BY <1>3, <1>4

\* The server of a connection has not heard, and its receiver holds nothing, of a handle
\* that its resend loop has still to visit.
LEMMA UnvisitedNext ==
    ASSUME IdsReadBack, TypeOK, ConnInv, Stamped, NotBegun, Unvisited, [Next]_vars
    PROVE  Unvisited'
  <1> SUFFICES ASSUME NEW g \in Conn
               PROVE  /\ sender'[g] # "resend" => todo'[g] = {}
                      /\ \A o \in ops'[g] : MessageId(o.id) \notin todo'[g]
                      /\ receiver'[g] \in {"read", "write"} => IdOf(message'[g]) \notin todo'[g]
    BY DEF Unvisited, InHand, IdOf, MessageId, NoId
  <1>0. todo[g] \in SUBSET SubId /\ subs \in SUBSET SubId
    BY SubsType DEF TypeOK
  <1>1. sender'[g] # "resend" => todo'[g] = {}
    BY TodoNext DEF Unvisited
  <1>2. todo'[g] \subseteq todo[g] \/ (SenderLock(g) /\ todo'[g] = subs)
    BY TodoNext
  <1>3. ASSUME SenderLock(g)
        PROVE  ops[g] = {} /\ (InHand(g) => IdOf(message[g]) = NoId)
    BY <1>3 DEF SenderLock, NotBegun
  <1>4. ASSUME NEW o \in ops'[g]
        PROVE  MessageId(o.id) \notin todo'[g]
    <2>1. CASE o \in ops[g]
      BY <1>2, <1>3, <2>1 DEF Unvisited
    <2>2. ASSUME NEW n \in SubId, SenderResend(g, n), Liveness(stamp[n]) # Liveness(g),
                 o = Asked(Start(Decimal(n), n))
          PROVE  MessageId(o.id) \notin todo'[g]
      <3>1. o.id = UpperHex(n)
        BY <2>2, ResentId DEF Asked, Start
      <3>2. MessageId(o.id) = n
        BY <3>1 DEF IdsReadBack
      <3>3. todo'[g] = todo[g] \ {n}
        BY <2>2 DEF SenderResend, TypeOK
      <3> QED
        BY <3>2, <3>3
    <2>3. CASE SenderSend(g)
      <3>1. sender[g] = "loop" /\ todo' = todo
        BY <2>3 DEF SenderSend
      <3> QED
        BY <3>1 DEF Unvisited
    <2> QED
      BY <2>1, <2>2, <2>3, OpsNext
  <1>5. ASSUME receiver'[g] \in {"read", "write"}
        PROVE  IdOf(message'[g]) \notin todo'[g]
    <2>1. CASE message'[g] = message[g] /\ InHand(g)
      BY <1>0, <1>2, <1>3, <2>1, NoIdIsNone DEF Unvisited
    <2>2. ASSUME ReceiverMessage(g), NEW f \in Frames(g), message'[g] = Decode(f)
          PROVE  IdOf(message'[g]) \notin todo'[g]
      <3>1. todo' = todo
        BY <2>2 DEF ReceiverMessage, senderVars
      <3>2. IdOf(Decode(f)) = NoId \/ \E o \in ops[g] : IdOf(Decode(f)) = MessageId(o.id)
        BY DecodeId
      <3> QED
        BY <1>0, <2>2, <3>1, <3>2, NoIdIsNone DEF Unvisited
    <2> QED
      BY <1>5, <2>1, <2>2, MessageNext
  <1> QED
    BY <1>1, <1>4, <1>5

-----------------------------------------------------------------------------
\* Which subscriptions are completed, and by whom.
LEMMA CompletedNext ==
    ASSUME TypeOK, CleanupInv, [Next]_vars, NEW n \in completed'
    PROVE  \/ n \in completed
           \/ \E g \in Conn : /\ ReceiverDispatch(g) /\ n = IdOf(message[g]) /\ n \in subs
                             /\ receiver'[g] = "write" /\ message' = message
  <1>1. ASSUME NEW g \in Conn, ReceiverDispatch(g), n \notin completed
        PROVE  /\ n = IdOf(message[g]) /\ n \in subs
               /\ receiver'[g] = "write" /\ message' = message
    <2>1. n = IdOf(message[g]) /\ n \in subs /\ message[g].variant = "Complete"
      BY <1>1 DEF ReceiverDispatch
    <2>2. receiver \in [Conn -> {"none", "select", "read", "write", "reconnect", "stopped"}]
      BY DEF TypeOK
    <2>3. EndsSubscription(message[g])
      BY <2>1 DEF EndsSubscription
    <2> QED
      BY <1>1, <2>1, <2>2, <2>3 DEF ReceiverDispatch
  <1>2. ASSUME NEW g \in Conn, ReceiverStep(g), ~ReceiverDispatch(g)
        PROVE  completed' = completed
    BY <1>2 DEF ReceiverStep, ReceiverDie, ReceiverEnd, ReceiverKeepAlive, ReceiverUndecodable,
       ReceiverMessage, ReceiverBroadcast, ReceiverCleanup, taskVars
  <1>3. ASSUME \/ \E g \in Conn : SenderStep(g) \/ LinkDown(g) \/ ReconnectNew(g)
               \/ ReconnectSwap \/ SubscribeStep \/ UNCHANGED vars
               \/ \E k \in SubId : TaskItem(k) \/ TaskEnd(k)
        PROVE  completed' = completed
    BY <1>3, SenderFrame, ReconnectFrame, SubscribeFrame, TaskFrame DEF vars, taskVars
  <1> QED
    BY <1>1, <1>2, <1>3 DEF Next

\* A number that has a task keeps it; a handle new in the table has a number that had none.
LEMMA TaskNext ==
    ASSUME TypeOK, CallerInv, [Next]_vars, NEW n \in SubId, task[n] # "none"
    PROVE  task'[n] # "none" /\ (n \in subs' => n \in subs)
  <1>0. task \in [SubId -> {"none", "pending", "running", "ended", "panicked"}]
    BY DEF TypeOK
  <1>1. ASSUME NEW g \in Conn, ReceiverStep(g) \/ SenderStep(g)
        PROVE  task' = task /\ subs' \subseteq subs
    BY <1>1, ReceiverFrame, SenderFrame DEF taskVars
  <1>2. ASSUME \/ ReconnectSwap
               \/ \E g \in Conn : LinkDown(g) \/ ReconnectNew(g)
        PROVE  task' = task /\ subs' = subs
    BY <1>2, ReconnectFrame DEF taskVars, tableVars
  <1>3. CASE SubscribeStep
    BY <1>0, <1>3 DEF SubscribeStep, SubscribeCall, SubscribeCancel, SubscribeInsert,
       SubscribeStart, SubscribePanic, CallerInv, taskVars, tableVars
  <1>4. ASSUME NEW k \in SubId, TaskItem(k) \/ TaskEnd(k)
        PROVE  task'[n] # "none" /\ subs' = subs
    BY <1>0, <1>4, TaskFrame DEF tableVars
  <1>5. CASE UNCHANGED vars
    BY <1>5 DEF vars, taskVars, tableVars
  <1> QED
    BY <1>1, <1>2, <1>3, <1>4, <1>5 DEF Next

\* The receiver that handed on a Complete removes the handle before it does anything
\* else, and before it returns there is no other receiver.
LEMMA LastNext ==
    ASSUME TypeOK, CallerInv, ConnInv, CleanupInv, CompletedLast, [Next]_vars
    PROVE  CompletedLast'
  <1> SUFFICES ASSUME NEW n \in completed'
               PROVE  /\ task'[n] # "none"
                      /\ n \in subs' => /\ receiver'[spawned'] = "write"
                                        /\ IdOf(message'[spawned']) = n
    BY DEF CompletedLast, IdOf, MessageId, NoId
  <1>0. /\ completed \subseteq SubId /\ subs \subseteq SubId /\ spawned \in Conn
        /\ receiver \in [Conn -> {"none", "select", "read", "write", "reconnect", "stopped"}]
    BY SubsType DEF TypeOK
  <1>1. ASSUME NEW g \in Conn, ReceiverDispatch(g), n = IdOf(message[g]), n \in subs,
               receiver'[g] = "write", message' = message
        PROVE  /\ task'[n] # "none"
               /\ receiver'[spawned'] = "write" /\ IdOf(message'[spawned']) = n
    <2>1. g = spawned /\ spawned' = spawned /\ task' = task
      BY <1>1 DEF ReceiverDispatch, ConnInv, Receiving, connVars
    <2>2. task[n] # "none"
      BY <1>1 DEF CallerInv
    <2> QED
      BY <1>1, <2>1, <2>2
  <1>2. ASSUME n \in completed
        PROVE  /\ task'[n] # "none"
               /\ n \in subs' => /\ receiver'[spawned'] = "write"
                                 /\ IdOf(message'[spawned']) = n
    <2>1. task'[n] # "none" /\ (n \in subs' => n \in subs)
      BY <1>0, <1>2, TaskNext DEF CompletedLast
    <2> SUFFICES ASSUME n \in subs'
                 PROVE  receiver'[spawned'] = "write" /\ IdOf(message'[spawned']) = n
      BY <2>1
    <2>2. receiver[spawned] = "write" /\ IdOf(message[spawned]) = n
      BY <1>2, <2>1 DEF CompletedLast
    <2>3. ASSUME NEW g \in Conn, ReceiverStep(g)
          PROVE  FALSE
      <3>1. g = spawned
        BY <2>3 DEF ReceiverStep, ReceiverDie, ReceiverEnd, ReceiverKeepAlive,
           ReceiverUndecodable, ReceiverMessage, ReceiverDispatch, ReceiverBroadcast,
           ReceiverCleanup, ConnInv, Receiving
      <3>2. ReceiverCleanup(g)
        BY <2>2, <2>3, <3>1 DEF ReceiverStep, ReceiverDie, ReceiverEnd, ReceiverKeepAlive,
           ReceiverUndecodable, ReceiverMessage, ReceiverDispatch, ReceiverBroadcast
      <3> QED
        BY <2>2, <3>1, <3>2 DEF ReceiverCleanup
    <2>4. ASSUME NEW g \in Conn, ReconnectNew(g)
          PROVE  FALSE
      BY <2>2, <2>4 DEF ReconnectNew
    <2>5. UNCHANGED <<spawned, receiver, message>>
      BY <2>3, <2>4, SenderFrame, SubscribeFrame, TaskFrame
      DEF Next, LinkDown, ReconnectSwap, vars, receiverVars, connVars
    <2> QED
      BY <2>2, <2>5
  <1> QED
    BY <1>1, <1>2, CompletedNext

\* A resend loop begins when the lock is its own: what the table then holds is either not
\* completed, or about to be removed by the receiver of a later connection.
LEMMA NeverResentNext ==
    ASSUME TypeOK, ConnInv, CleanupInv, LinkGone, NotBegun, Unvisited, CompletedLast,
           CompletedNeverResent, [Next]_vars
    PROVE  CompletedNeverResent'
  <1> SUFFICES ASSUME NEW g \in Conn, link'[g] = "up", NEW n \in todo'[g], n \in completed'
               PROVE  FALSE
    BY DEF CompletedNeverResent
  <1>0. spawned \in Conn /\ subs \in SUBSET SubId /\ todo[g] \in SUBSET SubId
    BY SubsType DEF TypeOK
  <1>1. link[g] = "up" /\ g >= spawned
    BY <1>0, NetNext DEF LinkGone
  <1>2. n \in todo[g] \/ (SenderLock(g) /\ n \in subs)
    BY TodoNext
  <1>3. sender[g] # "none"
    <2>1. ASSUME SenderLock(g)
          PROVE  sender[g] = "lock"
      BY <2>1 DEF SenderLock
    <2>2. n \in todo[g] => sender[g] = "resend"
      BY DEF Unvisited
    <2> QED
      BY <1>2, <2>1, <2>2
  <1>4. g = spawned
    BY <1>0, <1>1, <1>3 DEF ConnInv
  <1>5. CASE n \in completed
    <2>1. n \notin todo[g]
      BY <1>1, <1>5 DEF CompletedNeverResent
    <2>2. SenderLock(g) /\ n \in subs
      BY <1>2, <2>1
    <2>3. InHand(g) /\ IdOf(message[g]) = n
      BY <1>4, <1>5, <2>2 DEF CompletedLast, InHand
    <2>4. IdOf(message[g]) = NoId
      BY <2>2, <2>3 DEF SenderLock, NotBegun
    <2> QED
      BY <1>0, <2>2, <2>3, <2>4, NoIdIsNone
  <1>6. ASSUME NEW h \in Conn, ReceiverDispatch(h), n = IdOf(message[h])
        PROVE  FALSE
    <2>1. h = g /\ InHand(h) /\ todo' = todo
      BY <1>4, <1>6 DEF ReceiverDispatch, ConnInv, Receiving, InHand, senderVars
    <2> QED
      BY <1>6, <2>1 DEF Unvisited
  <1> QED
    BY <1>5, <1>6, CompletedNext

-----------------------------------------------------------------------------
LEMMA RouteInit == Init => OwnIds /\ EveryDataIsOurs /\ LinkGone /\ NotBegun /\ Unvisited
                           /\ CompletedLast /\ CompletedNeverResent
  BY DEF Init, OwnIds, NoMessage, EveryDataIsOurs, LinkGone, NotBegun, InHand, Unvisited,
         CompletedLast, CompletedNeverResent

LEMMA RouteInvariance ==
    ASSUME IdsReadBack
    PROVE  Spec => []RouteInv
  <1>1. Init => RouteInv
    BY RouteInit, ResumeInit DEF RouteInv
  <1>2. RouteInv /\ [Next]_vars => RouteInv'
    BY ResumeNext, OwnIdsNext, DataNext, LinkGoneNext, NotBegunNext, UnvisitedNext, LastNext,
       NeverResentNext DEF RouteInv, ResumeInv, IInv
  <1> QED
    BY <1>1, <1>2, PTL DEF Spec

\* Where that is: with one connection for every u64, with several before the tenth call,
\* from which on the resend loop writes what is read as another number (DecimalReadsMore).
SmallIds == FirstId + MaxSubs < IF MaxConns = 1 THEN U64End ELSE 10

LEMMA SmallIdsReadBack ==
    ASSUME SmallIds
    PROVE  IdsReadBack
  <1>1. U64End \in Nat /\ U64End > 9
    <2>1. HexHalf \in Nat /\ HexHalf > 9
      BY DEF HexHalf
    <2>2. \A h \in Nat : h > 9 => h * h \in Nat /\ h * h > 9
      OBVIOUS
    <2> QED
      BY <2>1, <2>2 DEF U64End
  <1>2. \A n \in SubId : n \in Nat /\ n < U64End /\ (MaxConns # 1 => n \in 0 .. 9)
    BY <1>1 DEF SmallIds
  <1> QED
    BY <1>2, HexReadsBack, OneDigitAlike DEF IdsReadBack

\* Where ids are small, a Subscription is handed only results of its own request,
\* under its own id: what process_server_message routes by number, its task accepts by
\* string.
THEOREM ResultsAreOurs ==
    ASSUME SmallIds
    PROVE  Spec => []EveryDataIsOurs
  <1>1. RouteInv => EveryDataIsOurs
    BY DEF RouteInv
  <1> QED
    BY <1>1, SmallIdsReadBack, RouteInvariance, PTL

\* Where ids are small, the resend loop of a connection that works never asks again
\* for what the server has completed.
THEOREM NoneAskedTwice ==
    ASSUME SmallIds
    PROVE  Spec => []CompletedNeverResent
  <1>1. RouteInv => CompletedNeverResent
    BY DEF RouteInv
  <1> QED
    BY <1>1, SmallIdsReadBack, RouteInvariance, PTL
=============================================================================
