---------------------------- MODULE LiteralsProofs ---------------------------
(***************************************************************************)
(* Proofs about Literals, for texts of any length: the numbers that are    *)
(* read are GraphQL's, but for the exponents turned down, and a string     *)
(* written on one line is read as it was unless an escape of it is lost.   *)
(***************************************************************************)
EXTENDS Literals, NumberFacts, SequenceTheorems, TLAPS

-----------------------------------------------------------------------------
(* The parts of a text, by the places of their characters.                   *)

DigitsIn(s, a, b) == \A k \in a .. b : IsDigit(s[k])

\* A text that is not empty has a character.
LEMMA Emptiness ==
    ASSUME NEW t \in Seq(Nat)
    PROVE  Len(t) \in Nat /\ (t # <<>> <=> Len(t) >= 1)
  BY LenProperties, EmptySeq

\* What is in a part of a text, and when it is a number's digits.
LEMMA Part ==
    ASSUME NEW s \in Seq(Nat), NEW a \in 1 .. Len(s) + 1, NEW b \in 0 .. Len(s)
    PROVE  /\ SubSeq(s, a, b) \in Seq(Nat)
           /\ Len(SubSeq(s, a, b)) = IF a <= b THEN b - a + 1 ELSE 0
           /\ \A k \in 1 .. b - a + 1 : SubSeq(s, a, b)[k] = s[a + k - 1]
           /\ AllDigits(SubSeq(s, a, b)) <=> DigitsIn(s, a, b)
           /\ check_dec(SubSeq(s, a, b)) <=> a <= b /\ DigitsIn(s, a, b)
  <1> DEFINE t == SubSeq(s, a, b)
  <1>1. \A k \in a .. b : s[k] \in Nat
    <2>1. \A k \in a .. b : k \in 1 .. Len(s)
      OBVIOUS
    <2> QED
      BY <2>1, ElementOfSeq
  <1>2. /\ t \in Seq(Nat)
        /\ Len(t) = IF a <= b THEN b - a + 1 ELSE 0
        /\ \A k \in 1 .. b - a + 1 : t[k] = s[a + k - 1]
    BY <1>1, SubSeqProperties
  <1> HIDE DEF t
  <1>3. DOMAIN t = 1 .. b - a + 1
    BY <1>2, LenProperties
  <1>4. AllDigits(t) <=> DigitsIn(s, a, b)
    <2>1. ASSUME AllDigits(t), NEW k \in a .. b
          PROVE  IsDigit(s[k])
      <3>1. k - a + 1 \in 1 .. b - a + 1 /\ a + (k - a + 1) - 1 = k
        OBVIOUS
      <3> QED
        BY <1>2, <1>3, <2>1, <3>1 DEF AllDigits
    <2>2. ASSUME DigitsIn(s, a, b), NEW k \in 1 .. b - a + 1
          PROVE  IsDigit(t[k])
      <3>1. a + k - 1 \in a .. b
        OBVIOUS
      <3> QED
        BY <1>2, <2>2, <3>1 DEF DigitsIn
    <2> QED
      BY <1>3, <2>1, <2>2 DEF AllDigits, DigitsIn
  <1>5. t # <<>> <=> a <= b
    BY <1>2, EmptySeq
  <1> QED
    BY <1>2, <1>4, <1>5 DEF check_dec, t

\* What check_int and GraphQL call an integer, of the first b characters.
IsInt(s, b) ==
    LET start == IF s[1] = Minus THEN 2 ELSE 1
    IN  start <= b /\ DigitsIn(s, start, b) /\ (s[start] = 48 => b = start)

Begun(s) == s \in Seq(Nat) /\ s # <<>> /\ (s[1] = Minus \/ IsDigit(s[1]))

\* check_int, by the places of the digits.
LEMMA WholeInt ==
    ASSUME NEW s, Begun(s)
    PROVE  (check_int(s) <=> IsInt(s, Len(s))) /\ (IntegerPart(s) <=> IsInt(s, Len(s)))
  <1> DEFINE n == Len(s)
  <1>1. s \in Seq(Nat) /\ n \in Nat /\ n >= 1 /\ DOMAIN s = 1 .. n /\ s[1] \in Nat
    BY LenProperties, EmptySeq DEF Begun
  <1>2. /\ AllDigits(From(s, 2)) <=> DigitsIn(s, 2, n)
        /\ check_dec(SubSeq(s, 2, n)) <=> 2 <= n /\ DigitsIn(s, 2, n)
        /\ Len(SubSeq(s, 2, n)) = n - 1
        /\ n >= 2 => SubSeq(s, 2, n)[1] = s[2]
    BY <1>1, Part DEF From
  <1>3. check_dec(s) <=> DigitsIn(s, 1, n)
    BY <1>1 DEF check_dec, AllDigits, DigitsIn, Begun
  <1>4. Minus = 45 /\ Digit(0) = 48 /\ \A c \in Nat : IsDigit(c) <=> 48 <= c /\ c <= 57
    BY DEF Minus, Digit, IsDigit
  <1>5. DigitsIn(s, 1, n) <=> IsDigit(s[1]) /\ DigitsIn(s, 2, n)
    BY <1>1 DEF DigitsIn
  <1>6. IsPrefix(<<Minus, Digit(0)>>, s) <=> n >= 2 /\ s[1] = Minus /\ s[2] = 48
    <2>1. CASE n >= 2
      <3>1. /\ SubSeq(s, 1, 2) \in Seq(Nat) /\ Len(SubSeq(s, 1, 2)) = 2
            /\ SubSeq(s, 1, 2)[1] = s[1] /\ SubSeq(s, 1, 2)[2] = s[2]
        BY <1>1, <2>1, Part
      <3> DEFINE p == <<45, 48>>
      <3>2. p \in Seq(Nat) /\ Len(p) = 2 /\ p[1] = 45 /\ p[2] = 48
        OBVIOUS
      <3>3. SubSeq(p, 1, 2) = p
        BY <3>2, SubSeqFull
      <3>4. SubSeq(s, 1, 2) = p <=> s[1] = 45 /\ s[2] = 48
        <4> HIDE DEF p
        <4>1. \A i \in 1 .. 2 : i = 1 \/ i = 2
          OBVIOUS
        <4>2. s[1] = 45 /\ s[2] = 48 => \A i \in 1 .. 2 : SubSeq(s, 1, 2)[i] = p[i]
          BY <3>1, <3>2, <4>1
        <4>3. s[1] = 45 /\ s[2] = 48 => SubSeq(s, 1, 2) = p
          BY <3>1, <3>2, <4>2, SeqEqual
        <4> QED
          BY <3>1, <3>2, <4>3
      <3> QED
        BY <1>1, <1>4, <2>1, <3>2, <3>3, <3>4 DEF IsPrefix
    <2>2. CASE n < 2
      <3>1. Len(<<Minus, Digit(0)>>) = 2
        OBVIOUS
      <3> QED
        BY <1>1, <2>2, <3>1 DEF IsPrefix
    <2> QED
      BY <1>1, <2>1, <2>2
  <1>7. /\ s = <<Digit(0)>> <=> n = 1 /\ s[1] = 48
        /\ s = <<Minus>> <=> n = 1 /\ s[1] = 45
        /\ s = <<Minus, Digit(0)>> <=> n = 2 /\ s[1] = 45 /\ s[2] = 48
    <2>1. \A c \in Nat : /\ <<c>> \in Seq(Nat) /\ Len(<<c>>) = 1 /\ <<c>>[1] = c
                         /\ s = <<c>> <=> n = 1 /\ s[1] = c
      <3> SUFFICES ASSUME NEW c \in Nat PROVE s = <<c>> <=> n = 1 /\ s[1] = c
        OBVIOUS
      <3>1. n = 1 /\ s[1] = c => s = <<c>>
        <4>1. <<c>> \in Seq(Nat) /\ Len(<<c>>) = 1 /\ <<c>>[1] = c
          OBVIOUS
        <4> QED
          BY <1>1, <4>1, SeqEqual
      <3> QED
        BY <3>1
    <2>2. n = 2 /\ s[1] = 45 /\ s[2] = 48 => s = <<45, 48>>
      <3>1. <<45, 48>> \in Seq(Nat) /\ Len(<<45, 48>>) = 2 /\ <<45, 48>>[1] = 45 /\ <<45, 48>>[2] = 48
        OBVIOUS
      <3> QED
        BY <1>1, <3>1, SeqEqual
    <2>3. s = <<45, 48>> => n = 2 /\ s[1] = 45 /\ s[2] = 48
      OBVIOUS
    <2> QED
      BY <1>4, <2>1, <2>2, <2>3
  <1>8. IntegerPart(s) <=> IsInt(s, n)
    <2>1. CASE s[1] = Minus
      <3>1. Tail(s) = SubSeq(s, 2, n)
        BY <1>1, TailIsSubSeq DEF Begun
      <3>2. IntegerPart(s) <=>
              check_dec(Tail(s)) /\ (Tail(s)[1] = 48 => Len(Tail(s)) = 1)
        BY <1>4, <2>1 DEF IntegerPart, Begun
      <3>3. IsInt(s, n) <=> 2 <= n /\ DigitsIn(s, 2, n) /\ (s[2] = 48 => n = 2)
        BY <2>1 DEF IsInt
      <3> DEFINE t == SubSeq(s, 2, n)
      <3>4. /\ check_dec(t) <=> 2 <= n /\ DigitsIn(s, 2, n)
            /\ Len(t) = n - 1 /\ (n >= 2 => t[1] = s[2])
        BY <1>2
      <3>5. IntegerPart(s) <=> check_dec(t) /\ (t[1] = 48 => Len(t) = 1)
        BY <3>1, <3>2
      <3> HIDE DEF t, n
      <3>6. CASE n >= 2
        BY <1>1, <3>3, <3>4, <3>5, <3>6
      <3>7. CASE n < 2
        BY <1>1, <3>3, <3>4, <3>5, <3>7
      <3> QED
        BY <1>1, <3>6, <3>7
    <2>2. CASE s[1] # Minus
      BY <1>1, <1>3, <1>4, <2>2 DEF IntegerPart, IsInt, Begun
    <2> QED
      BY <2>1, <2>2
  <1>9. check_int(s) <=> IsInt(s, n)
    <2>1. check_int(s) <=> \/ n = 1 /\ s[1] = 48
                           \/ n = 2 /\ s[1] = 45 /\ s[2] = 48
                           \/ /\ s[1] # 48 /\ ~(n = 1 /\ s[1] = 45)
                              /\ ~(n >= 2 /\ s[1] = 45 /\ s[2] = 48)
                              /\ DigitsIn(s, 2, n)
      BY <1>2, <1>4, <1>6, <1>7 DEF check_int
    <2>2. n = 1 => DigitsIn(s, 2, n)
      BY DEF DigitsIn
    <2>3. n = 2 /\ s[2] = 48 => DigitsIn(s, 2, n)
      BY <1>4 DEF DigitsIn
    <2>4. CASE s[1] = 45
      BY <1>1, <1>4, <2>1, <2>2, <2>3, <2>4 DEF IsInt
    <2>5. CASE s[1] # 45
      BY <1>1, <1>4, <1>5, <2>1, <2>2, <2>5 DEF IsInt, Begun
    <2> QED
      BY <2>4, <2>5
  <1> QED
    BY <1>8, <1>9

\* The integral part that a text begins with.
LEMMA FirstInt ==
    ASSUME NEW s, Begun(s), NEW b \in 0 .. Len(s)
    PROVE  /\ IntegerPart(SubSeq(s, 1, b)) <=> b >= 1 /\ IsInt(s, b)
           /\ b >= 1 => (check_int(SubSeq(s, 1, b)) <=> IsInt(s, b))
  <1> DEFINE t == SubSeq(s, 1, b)
  <1>1. s \in Seq(Nat) /\ Len(s) \in Nat /\ Len(s) >= 1
    BY LenProperties, EmptySeq DEF Begun
  <1>2. /\ t \in Seq(Nat) /\ Len(t) = b
        /\ \A k \in 1 .. b : t[k] = s[k]
    BY <1>1, Part
  <1> HIDE DEF t
  <1>3. CASE b = 0
    <2>1. t = <<>>
      BY <1>2, <1>3, EmptySeq
    <2>2. ~IntegerPart(t)
      BY <2>1 DEF IntegerPart, check_dec
    <2> QED
      BY <1>3, <2>2 DEF t
  <1>4. CASE b >= 1
    <2>1. t # <<>> /\ t[1] = s[1]
      BY <1>2, <1>4, EmptySeq
    <2>2. Begun(t)
      BY <1>2, <2>1 DEF Begun
    <2>3. IsInt(t, b) <=> IsInt(s, b)
      BY <1>2, <1>4, <2>1 DEF IsInt, DigitsIn
    <2> QED
      BY <1>2, <1>4, <2>2, <2>3, WholeInt DEF t
  <1> QED
    BY <1>3, <1>4

\* A dot and digits to the end of a part.
LEMMA FractionIs ==
    ASSUME NEW s \in Seq(Nat), NEW i \in 1 .. Len(s), NEW j \in i .. Len(s)
    PROVE  Fraction(SubSeq(s, i, j)) <=> s[i] = 46 /\ i < j /\ DigitsIn(s, i + 1, j)
  <1> DEFINE t == SubSeq(s, i, j)
  <1>1. Len(s) \in Nat /\ j \in 0 .. Len(s) /\ i + 1 \in 1 .. Len(s) + 1
    BY Emptiness
  <1>2. t \in Seq(Nat) /\ Len(t) = j - i + 1 /\ t[1] = s[i]
    BY <1>1, Part
  <1>3. Tail(t) = SubSeq(s, i + 1, j)
    BY HeadTailOfSubSeq
  <1>4. check_dec(SubSeq(s, i + 1, j)) <=> i + 1 <= j /\ DigitsIn(s, i + 1, j)
    BY <1>1, Part
  <1> HIDE DEF t
  <1>5. t # <<>>
    BY <1>1, <1>2, Emptiness
  <1>6. Fraction(t) <=> s[i] = 46 /\ check_dec(SubSeq(s, i + 1, j))
    BY <1>2, <1>3, <1>5 DEF Fraction, Dot
  <1>7. i + 1 <= j <=> i < j
    BY <1>1
  <1> QED
    BY <1>4, <1>6, <1>7 DEF t

\* The end of a text, and the end of that.
LEMMA LastPart ==
    ASSUME NEW s \in Seq(Nat), NEW j \in 1 .. Len(s), NEW t, t = From(s, j)
    PROVE  /\ t \in Seq(Nat) /\ t # <<>> /\ Len(t) = Len(s) - j + 1
           /\ \A k \in 1 .. Len(t) : t[k] = s[j + k - 1]
  <1>1. Len(s) \in Nat /\ Len(s) \in 0 .. Len(s) /\ j \in 1 .. Len(s) + 1
    BY Emptiness
  <1>2. t \in Seq(Nat) /\ Len(t) = Len(s) - j + 1 /\ \A k \in 1 .. Len(s) - j + 1 : t[k] = s[j + k - 1]
    BY <1>1, Part DEF From
  <1>3. t # <<>>
    BY <1>1, <1>2, Emptiness
  <1> QED
    BY <1>2, <1>3

\* The digits at the end of the last part of a text, by their places in the text.
LEMMA LastDigits ==
    ASSUME NEW s \in Seq(Nat), NEW j \in 1 .. Len(s), NEW t, t = From(s, j),
           NEW d \in 1 .. Len(t) + 1
    PROVE  /\ AllDigits(From(t, d)) <=> DigitsIn(s, j + d - 1, Len(s))
           /\ check_dec(From(t, d)) <=> j + d - 1 <= Len(s) /\ DigitsIn(s, j + d - 1, Len(s))
  <1> DEFINE n == Len(s)
             m == Len(t)
  <1>1. n \in Nat
    BY Emptiness
  <1>2. t \in Seq(Nat) /\ m = n - j + 1 /\ \A k \in 1 .. m : t[k] = s[j + k - 1]
    BY LastPart
  <1>3. m \in Nat /\ m >= 1 /\ m \in 0 .. m /\ d \in 1 .. m + 1
    BY <1>1, <1>2
  <1>5. /\ AllDigits(From(t, d)) <=> DigitsIn(t, d, m)
        /\ check_dec(From(t, d)) <=> d <= m /\ DigitsIn(t, d, m)
    BY <1>2, <1>3, Part DEF From
  <1>4. j \in Nat /\ d \in Nat /\ m = n - j + 1
    BY <1>2, <1>3
  <1> HIDE DEF n, m
  <1>6. DigitsIn(t, d, m) <=> DigitsIn(s, j + d - 1, n)
    <2>1. ASSUME DigitsIn(t, d, m), NEW k \in j + d - 1 .. n
          PROVE  IsDigit(s[k])
      <3>1. k - j + 1 \in d .. m /\ k - j + 1 \in 1 .. m /\ j + (k - j + 1) - 1 = k
        BY <1>1, <1>2, <1>3
      <3> QED
        BY <1>2, <2>1, <3>1 DEF DigitsIn
    <2>2. ASSUME DigitsIn(s, j + d - 1, n), NEW k \in d .. m
          PROVE  IsDigit(t[k])
      <3>1. j + k - 1 \in j + d - 1 .. n /\ k \in 1 .. m
        BY <1>1, <1>2, <1>3
      <3> QED
        BY <1>2, <2>2, <3>1 DEF DigitsIn
    <2> QED
      BY <2>1, <2>2 DEF DigitsIn
  <1>7. d <= m <=> j + d - 1 <= n
    BY <1>1, <1>4
  <1> QED
    BY <1>5, <1>6, <1>7 DEF n, m

\* Where the digits of an exponent begin.
Mantle(s, j) == IF j < Len(s) /\ s[j + 1] \in {43, 45} THEN j + 2 ELSE j + 1

\* An exponent of GraphQL, by the places of its digits.
LEMMA ExponentIs ==
    ASSUME NEW s \in Seq(Nat), NEW j \in 1 .. Len(s)
    PROVE  Exponent(From(s, j)) <=> /\ s[j] \in {69, 101}
                                    /\ Mantle(s, j) <= Len(s)
                                    /\ DigitsIn(s, Mantle(s, j), Len(s))
  <1> DEFINE n == Len(s)
             t == From(s, j)
  <1>1. n \in Nat
    BY Emptiness
  <1>2. /\ t \in Seq(Nat) /\ t # <<>> /\ Len(t) = n - j + 1
        /\ \A k \in 1 .. Len(t) : t[k] = s[j + k - 1]
        /\ \A d \in 1 .. Len(t) + 1 :
             check_dec(From(t, d)) <=> j + d - 1 <= n /\ DigitsIn(s, j + d - 1, n)
    <2> HIDE DEF t, n
    <2>2. t = From(s, j) /\ n = Len(s)
      BY DEF t, n
    <2>3. /\ t \in Seq(Nat) /\ t # <<>> /\ Len(t) = n - j + 1
          /\ \A k \in 1 .. Len(t) : t[k] = s[j + k - 1]
      BY <2>2, LastPart, ZenonT(40)
    <2>4. ASSUME NEW d \in 1 .. Len(t) + 1
          PROVE  check_dec(From(t, d)) <=> j + d - 1 <= n /\ DigitsIn(s, j + d - 1, n)
      BY <2>2, LastDigits
    <2> QED
      BY <2>3, <2>4
  <1> HIDE DEF t, n
  <1>3. 1 \in 1 .. Len(t) /\ t[1] = s[j]
    BY <1>1, <1>2 DEF n
  <1>4. check_dec(Tail(t)) <=> j + 1 <= n /\ DigitsIn(s, j + 1, n)
    <2>1. Tail(t) = From(t, 2)
      BY <1>2, TailIsSubSeq DEF From
    <2>2. 2 \in 1 .. Len(t) + 1 /\ j + 2 - 1 = j + 1
      BY <1>1, <1>2 DEF n
    <2> QED
      BY <1>2, <2>1, <2>2
  <1>5. CASE j < n
    <2>1. 2 \in 1 .. Len(t) /\ 3 \in 1 .. Len(t) + 1 /\ j + 3 - 1 = j + 2 /\ j + 2 - 1 = j + 1
      BY <1>1, <1>2, <1>5
    <2>2. Len(t) > 1 /\ t[2] = s[j + 1]
      BY <1>1, <1>2, <1>5, <2>1
    <2>3. check_dec(From(t, 3)) <=> j + 2 <= n /\ DigitsIn(s, j + 2, n)
      BY <1>2, <2>1
    <2>4. CASE s[j + 1] \in {43, 45}
      <3>1. ExponentDigits(t) = From(t, 3) /\ Mantle(s, j) = j + 2
        BY <1>5, <2>2, <2>4 DEF ExponentDigits, Plus, Minus, Mantle, n
      <3> QED
        <4>1. t # <<>>
          BY <1>2
        <4> QED
          BY <1>3, <2>3, <3>1, <4>1 DEF Exponent, t, n
    <2>5. CASE s[j + 1] \notin {43, 45}
      <3>1. ExponentDigits(t) = Tail(t) /\ Mantle(s, j) = j + 1
        BY <1>5, <2>2, <2>5 DEF ExponentDigits, Plus, Minus, Mantle, n
      <3> QED
        BY <1>2, <1>3, <1>4, <3>1 DEF Exponent, t, n
    <2> QED
      BY <2>4, <2>5
  <1>6. CASE ~(j < n)
    <2>1. ~(Len(t) > 1)
      BY <1>1, <1>2, <1>6
    <2>2. ExponentDigits(t) = Tail(t) /\ Mantle(s, j) = j + 1
      BY <1>6, <2>1 DEF ExponentDigits, Mantle, n
    <2> QED
      BY <1>2, <1>3, <1>4, <2>2 DEF Exponent, t, n
  <1> QED
    BY <1>5, <1>6

\* An exponent that check_exp takes, by the places of its digits.
LEMMA ExponentIsChecked ==
    ASSUME NEW s \in Seq(Nat), NEW j \in 1 .. Len(s)
    PROVE  check_exp(From(s, j + 1)) <=> /\ j < Len(s)
                                         /\ s[j + 1] \in {43, 45} \cup 49 .. 56
                                         /\ DigitsIn(s, j + 2, Len(s))
  <1> DEFINE n == Len(s)
             u == From(s, j + 1)
  <1>1. n \in Nat
    BY Emptiness
  <1>2. CASE j < n
    <2>1. j + 1 \in 1 .. n /\ j + 1 + 2 - 1 = j + 2 /\ j + 1 + 1 - 1 = j + 1
      BY <1>1, <1>2
    <2>2. Len(u) = n - (j + 1) + 1
      BY <1>1, <2>1, Part DEF From
    <2>3. 2 \in 1 .. Len(u) + 1 /\ 1 \in 1 .. Len(u)
      BY <1>1, <1>2, <2>1, <2>2
    <2> HIDE DEF u, n
    <2>4. u = From(s, j + 1) /\ n = Len(s)
      BY DEF u, n
    <2>5. /\ u # <<>> /\ u[1] = s[j + 1]
          /\ AllDigits(From(u, 2)) <=> DigitsIn(s, j + 2, n)
      <3> DEFINE i == j + 1
      <3>1. i \in 1 .. Len(s) /\ u = From(s, i) /\ i + 2 - 1 = j + 2 /\ i + 1 - 1 = j + 1
        BY <2>1, <2>4
      <3> HIDE DEF i
      <3>2. i \in 1 .. Len(s) /\ u = From(s, i)
        BY <3>1
      <3>3. /\ u # <<>> /\ \A k \in 1 .. Len(u) : u[k] = s[i + k - 1]
        BY <3>2, LastPart, ZenonT(40)
      <3>4. AllDigits(From(u, 2)) <=> DigitsIn(s, i + 2 - 1, Len(s))
        BY <2>3, <3>1, LastDigits
      <3>5. u[1] = s[i + 1 - 1]
        BY <2>3, <3>3
      <3> QED
        BY <2>4, <3>1, <3>3, <3>5, <3>4
    <2>6. {Minus, Plus} \cup Digit(1) .. Digit(8) = {43, 45} \cup 49 .. 56
      BY DEF Minus, Plus, Digit
    <2>7. check_exp(u) <=> s[j + 1] \in {43, 45} \cup 49 .. 56 /\ DigitsIn(s, j + 2, n)
      BY <2>5, <2>6 DEF check_exp
    <2> QED
      BY <1>2, <2>4, <2>7
  <1>3. CASE ~(j < n)
    <2>1. u = <<>>
      BY <1>1, <1>3, SubSeqEmpty DEF From
    <2> QED
      BY <1>3, <2>1 DEF check_exp
  <1> QED
    BY <1>2, <1>3

\* The last place of a character is a place of it, and none is later.
LEMMA LastOfIs ==
    ASSUME NEW s \in Seq(Nat), NEW cs
    PROVE  LET l == LastOf(s, cs) IN
           \/ l = 0 /\ \A k \in 1 .. Len(s) : s[k] \notin cs
           \/ /\ l \in 1 .. Len(s) /\ s[l] \in cs
              /\ \A k \in 1 .. Len(s) : s[k] \in cs => k <= l
  <1> DEFINE at == {i \in DOMAIN s : s[i] \in cs}
  <1>1. DOMAIN s = 1 .. Len(s) /\ Len(s) \in Nat
    BY LenProperties
  <1>2. CASE at = {}
    BY <1>1, <1>2 DEF LastOf
  <1>3. CASE at # {}
    <2>1. at \subseteq 0 .. Len(s)
      BY <1>1
    <2> DEFINE l == CHOOSE i \in at : \A j \in at : j <= i
    <2>2. l \in at /\ \A j \in at : j <= l
      <3>1. \E i \in at : \A j \in at : j <= i
        <4> HIDE DEF at
        <4> QED
          BY <1>1, <1>3, <2>1, GreatestNumber
      <3> QED
        BY <3>1
    <2>3. LastOf(s, cs) = l
      BY <1>3 DEF LastOf
    <2> HIDE DEF l
    <2> QED
      BY <1>1, <2>2, <2>3
  <1> QED
    BY <1>2, <1>3

\* A number with a fraction, an exponent or both, the first beginning at i and the second
\* at j.
Shape(s, i, j) ==
    /\ 2 <= i /\ i <= j /\ i <= Len(s) /\ IsInt(s, i - 1)
    /\ i = j \/ (s[i] = 46 /\ i + 1 < j /\ DigitsIn(s, i + 1, j - 1))
    /\ \/ j = Len(s) + 1
       \/ s[j] \in {69, 101} /\ Mantle(s, j) <= Len(s) /\ DigitsIn(s, Mantle(s, j), Len(s))

\* A fraction and an exponent, an exponent alone, a fraction alone.
LEMMA BothShape ==
    ASSUME NEW s, NEW i \in Nat, NEW j \in Nat, 2 <= i, i <= j, i # j, i <= Len(s), j # Len(s) + 1,
           s[i] = 46, s[j] \in {69, 101}
    PROVE  Shape(s, i, j) <=> /\ IsInt(s, i - 1) /\ i + 1 < j /\ DigitsIn(s, i + 1, j - 1)
                              /\ Mantle(s, j) <= Len(s) /\ DigitsIn(s, Mantle(s, j), Len(s))
  BY DEF Shape

\* A number with an exponent and no fraction.
LEMMA ExponentShape ==
    ASSUME NEW s, NEW j \in Nat, 2 <= j, j <= Len(s), j # Len(s) + 1, s[j] \in {69, 101}
    PROVE  Shape(s, j, j) <=> /\ IsInt(s, j - 1)
                              /\ Mantle(s, j) <= Len(s) /\ DigitsIn(s, Mantle(s, j), Len(s))
  BY DEF Shape

\* A number with a fraction and no exponent.
LEMMA FractionShape ==
    ASSUME NEW s, NEW i \in Nat, NEW j \in Nat, 2 <= i, i <= j, i # j, i <= Len(s), j = Len(s) + 1, s[i] = 46
    PROVE  Shape(s, i, j) <=> IsInt(s, i - 1) /\ i + 1 < j /\ DigitsIn(s, i + 1, j - 1)
  BY DEF Shape

\* GraphQL's grammar of a number, by the places where its parts begin.
LEMMA ShapeIs ==
    ASSUME NEW s, Begun(s), NEW i \in 1 .. Len(s) + 1, NEW j \in 1 .. Len(s) + 1
    PROVE  (/\ i <= j /\ i <= Len(s)
            /\ IntegerPart(Until(s, i))
            /\ i = j \/ Fraction(SubSeq(s, i, j - 1))
            /\ j = Len(s) + 1 \/ Exponent(From(s, j))) <=> Shape(s, i, j)
  <1> DEFINE n == Len(s)
  <1>1. s \in Seq(Nat) /\ n \in Nat
    BY Emptiness DEF Begun
  <1>2. IntegerPart(Until(s, i)) <=> 2 <= i /\ IsInt(s, i - 1)
    <2>1. i - 1 \in 0 .. n
      BY <1>1
    <2>2. IntegerPart(SubSeq(s, 1, i - 1)) <=> i - 1 >= 1 /\ IsInt(s, i - 1)
      BY <2>1, FirstInt
    <2> QED
      BY <1>1, <2>2 DEF Until
  <1>3. i <= n /\ i < j => (Fraction(SubSeq(s, i, j - 1)) <=>
                             s[i] = 46 /\ i < j - 1 /\ DigitsIn(s, i + 1, j - 1))
    <2>1. i <= n /\ i < j => i \in 1 .. n /\ j - 1 \in i .. n
      BY <1>1
    <2> QED
      BY <1>1, <2>1, FractionIs
  <1>4. j # n + 1 => (Exponent(From(s, j)) <=>
          s[j] \in {69, 101} /\ Mantle(s, j) <= n /\ DigitsIn(s, Mantle(s, j), n))
    <2>1. j # n + 1 => j \in 1 .. n
      BY <1>1
    <2> QED
      BY <1>1, <2>1, ExponentIs
  <1>5. i < j - 1 <=> i + 1 < j
    BY <1>1
  <1>6. i <= j /\ i # j => i < j
    BY <1>1
  <1> QED
    BY <1>2, <1>3, <1>4, <1>5, <1>6 DEF Shape

\* Which characters may be where in a number of that shape.
LEMMA ShapeHas ==
    ASSUME NEW s, Begun(s), NEW i \in 1 .. Len(s) + 1, NEW j \in 1 .. Len(s) + 1, Shape(s, i, j)
    PROVE  /\ \A k \in 1 .. Len(s) : s[k] = 46 <=> k = i /\ i # j
           /\ \A k \in 1 .. Len(s) : s[k] \in {69, 101} <=> k = j
           /\ IsDigit(s[Len(s)])
  <1> DEFINE n == Len(s)
  <1>1. s \in Seq(Nat) /\ n \in Nat /\ \A k \in 1 .. n : s[k] \in Nat
    BY Emptiness, ElementOfSeq DEF Begun
  <1>2. \A c \in Nat : IsDigit(c) <=> 48 <= c /\ c <= 57
    BY DEF IsDigit
  <1>3. ASSUME NEW k \in 1 .. i - 1
        PROVE  s[k] = 45 \/ IsDigit(s[k])
    BY <1>1, <1>3 DEF Shape, IsInt, DigitsIn, Minus
  <1>4. ASSUME NEW k \in i + 1 .. j - 1
        PROVE  IsDigit(s[k])
    BY <1>1, <1>4 DEF Shape, DigitsIn
  <1>5. ASSUME NEW k \in j + 1 .. n
        PROVE  s[k] \in {43, 45} \/ IsDigit(s[k])
    <2>1. j <= n /\ Mantle(s, j) <= n /\ DigitsIn(s, Mantle(s, j), n)
      BY <1>1, <1>5 DEF Shape
    <2>2. CASE s[j + 1] \in {43, 45}
      <3>1. Mantle(s, j) = j + 2
        BY <1>1, <1>5, <2>2 DEF Mantle
      <3>2. k = j + 1 \/ k \in j + 2 .. n
        BY <1>1, <1>5
      <3> QED
        BY <2>1, <2>2, <3>1, <3>2 DEF DigitsIn
    <2>3. CASE s[j + 1] \notin {43, 45}
      <3>1. Mantle(s, j) = j + 1
        BY <2>3 DEF Mantle
      <3> QED
        BY <1>5, <2>1, <3>1 DEF DigitsIn
    <2> QED
      BY <2>2, <2>3
  <1>6. i # j => s[i] = 46
    BY DEF Shape
  <1>7. j <= n => s[j] \in {69, 101}
    BY <1>1 DEF Shape
  <1>8. \A k \in 1 .. n : k \in 1 .. i - 1 \/ k = i \/ k \in i + 1 .. j - 1 \/ k = j \/ k \in j + 1 .. n
    BY <1>1 DEF Shape
  <1>9. IsDigit(s[n])
    <2>1. CASE j = n + 1
      <3>1. i # j
        BY <1>1, <2>1 DEF Shape
      <3>2. n \in i + 1 .. j - 1
        BY <1>1, <2>1, <3>1 DEF Shape
      <3> QED
        BY <1>4, <3>2
    <2>2. CASE j # n + 1
      <3>1. Mantle(s, j) <= n /\ DigitsIn(s, Mantle(s, j), n) /\ Mantle(s, j) \in Nat
        BY <1>1, <2>2 DEF Shape, Mantle
      <3> QED
        BY <1>1, <3>1 DEF DigitsIn
    <2> QED
      BY <2>1, <2>2
  <1>10. ASSUME NEW k \in 1 .. n
         PROVE  (s[k] = 46 <=> k = i /\ i # j) /\ (s[k] \in {69, 101} <=> k = j)
    <2>1. CASE k = i /\ i # j
      BY <1>6, <2>1
    <2>2. CASE k = j
      <3>1. s[k] \in {69, 101}
        BY <1>1, <1>7, <2>2
      <3> QED
        BY <2>2, <3>1
    <2>3. CASE k # j /\ ~(k = i /\ i # j)
      <3>1. s[k] \in {43, 45} \/ IsDigit(s[k])
        BY <1>3, <1>4, <1>5, <1>8, <2>3
      <3> QED
        BY <1>1, <1>2, <2>3, <3>1
    <2> QED
      BY <2>1, <2>2, <2>3
  <1> QED
    BY <1>9, <1>10

\* What check_exp takes of GraphQL's exponents: those that do not begin with 0 or 9.
LEMMA ExponentsAgree ==
    ASSUME NEW s \in Seq(Nat), NEW j \in 1 .. Len(s), IsDigit(s[Len(s)]), s[j] \in {69, 101}
    PROVE  check_exp(From(s, j + 1)) <=>
             /\ Mantle(s, j) <= Len(s) /\ DigitsIn(s, Mantle(s, j), Len(s))
             /\ s[j + 1] \notin {48, 57}
  <1> DEFINE n == Len(s)
  <1>1. n \in Nat /\ \A k \in 1 .. n : s[k] \in Nat
    BY Emptiness, ElementOfSeq
  <1>2. \A c \in Nat : IsDigit(c) <=> 48 <= c /\ c <= 57
    BY DEF IsDigit
  <1>3. j < n
    <2>1. s[n] # s[j]
      BY <1>1, <1>2
    <2> QED
      BY <1>1, <2>1
  <1>4. check_exp(From(s, j + 1)) <=> s[j + 1] \in {43, 45} \cup 49 .. 56 /\ DigitsIn(s, j + 2, n)
    BY <1>3, ExponentIsChecked
  <1>5. s[j + 1] \in Nat
    BY <1>1, <1>3
  <1> HIDE DEF n
  <1>6. CASE s[j + 1] \in {43, 45}
    <2>1. Mantle(s, j) = j + 2
      BY <1>3, <1>6 DEF Mantle, n
    <2>2. j + 2 <= n
      <3>1. j + 1 # n
        BY <1>2, <1>5, <1>6 DEF n
      <3> QED
        BY <1>1, <1>3, <3>1
    <2> QED
      BY <1>4, <1>6, <2>1, <2>2 DEF n
  <1>7. CASE s[j + 1] \notin {43, 45}
    <2>1. Mantle(s, j) = j + 1
      BY <1>7 DEF Mantle
    <2>2. DigitsIn(s, j + 1, n) <=> IsDigit(s[j + 1]) /\ DigitsIn(s, j + 2, n)
      <3>1. \A k \in j + 1 .. n : k = j + 1 \/ k \in j + 2 .. n
        BY <1>1
      <3>2. j + 1 \in j + 1 .. n /\ \A k \in j + 2 .. n : k \in j + 1 .. n
        BY <1>1, <1>3
      <3>3. ASSUME IsDigit(s[j + 1]), DigitsIn(s, j + 2, n)
            PROVE  DigitsIn(s, j + 1, n)
        <4> SUFFICES ASSUME NEW k \in j + 1 .. n PROVE IsDigit(s[k])
          BY DEF DigitsIn
        <4>1. CASE k = j + 1
          BY <3>3, <4>1
        <4>2. CASE k \in j + 2 .. n
          BY <3>3, <4>2 DEF DigitsIn
        <4> QED
          BY <3>1, <4>1, <4>2
      <3>4. ASSUME DigitsIn(s, j + 1, n)
            PROVE  IsDigit(s[j + 1]) /\ DigitsIn(s, j + 2, n)
        BY <3>2, <3>4 DEF DigitsIn
      <3> QED
        BY <3>3, <3>4
    <2>3. s[j + 1] \in {43, 45} \cup 49 .. 56 <=> IsDigit(s[j + 1]) /\ s[j + 1] \notin {48, 57}
      <3>1. \A c \in Nat : c \in 49 .. 56 <=> IsDigit(c) /\ c # 48 /\ c # 57
        BY <1>2
      <3>2. s[j + 1] \in 49 .. 56 <=> IsDigit(s[j + 1]) /\ s[j + 1] # 48 /\ s[j + 1] # 57
        BY <1>5, <3>1
      <3> QED
        BY <1>7, <3>2
    <2>4. j + 1 <= n
      BY <1>1, <1>3
    <2> QED
      BY <1>4, <2>1, <2>2, <2>3, <2>4 DEF n
  <1> QED
    BY <1>6, <1>7

\* What take_token checks of a float, and GraphQL's shape of one.
LEMMA FloatsAgree ==
    ASSUME NEW s, Begun(s), NEW e, NEW r, e = LastOf(s, {69, 101}), r = LastOf(s, {Dot}),
           ~(e = 0 /\ r = 0)
    PROVE  check_float(s, e, r) /\ IsDigit(s[Len(s)]) <=>
             /\ \E i, j \in 1 .. Len(s) + 1 : Shape(s, i, j)
             /\ ~ExponentIsTurnedDown(s)
  <1> DEFINE n == Len(s)
             i0 == IF r = 0 THEN e ELSE r
             j0 == IF e = 0 THEN n + 1 ELSE e
  <1>1. s \in Seq(Nat) /\ n \in Nat /\ n >= 1 /\ \A k \in 1 .. n : s[k] \in Nat
    BY Emptiness, ElementOfSeq DEF Begun
  <1>2. /\ e \in 0 .. n /\ (e # 0 => s[e] \in {69, 101})
        /\ \A k \in 1 .. n : s[k] \in {69, 101} => k <= e /\ e # 0
    BY <1>1, LastOfIs
  <1>3. /\ r \in 0 .. n /\ (r # 0 => s[r] = 46)
        /\ \A k \in 1 .. n : s[k] = 46 => k <= r /\ r # 0
    BY <1>1, LastOfIs DEF Dot
  <1>4. e # 1 /\ r # 1
    <2>1. s[1] \notin {46, 69, 101}
      BY DEF Begun, IsDigit, Minus
    <2> QED
      BY <1>2, <1>3, <2>1
  <1>5. \A b \in 2 .. n : check_int(Until(s, b)) <=> IsInt(s, b - 1)
    <2> SUFFICES ASSUME NEW b \in 2 .. n PROVE check_int(Until(s, b)) <=> IsInt(s, b - 1)
      OBVIOUS
    <2>1. b - 1 \in 0 .. n /\ b - 1 >= 1
      BY <1>1
    <2> QED
      BY <2>1, FirstInt DEF Until
  <1>6. IsDigit(s[n]) /\ e # 0 =>
          (check_exp(From(s, e + 1)) <=> /\ Mantle(s, e) <= n /\ DigitsIn(s, Mantle(s, e), n)
                                         /\ s[e + 1] \notin {48, 57})
    BY <1>1, <1>2, ExponentsAgree
  <1>7. r # 0 => (check_dec(SubSeq(s, r + 1, j0 - 1)) <=> r + 1 < j0 /\ DigitsIn(s, r + 1, j0 - 1))
    <2> HIDE DEF n
    <2>1. r # 0 => r + 1 \in 1 .. n + 1 /\ j0 - 1 \in 0 .. n
      BY <1>1, <1>2, <1>3
    <2>2. r + 1 <= j0 - 1 <=> r + 1 < j0
      BY <1>1, <1>2, <1>3
    <2> HIDE DEF j0
    <2> QED
      BY <1>1, <2>1, <2>2, Part DEF n
  <1>8. e # r
    BY <1>2, <1>3
  <1>9. ASSUME NEW i \in 1 .. n + 1, NEW j \in 1 .. n + 1, Shape(s, i, j)
        PROVE  i = i0 /\ j = j0 /\ IsDigit(s[n])
    <2>1. /\ \A k \in 1 .. n : s[k] = 46 <=> k = i /\ i # j
          /\ \A k \in 1 .. n : s[k] \in {69, 101} <=> k = j
          /\ IsDigit(s[n])
      BY <1>9, ShapeHas
    <2>2. i <= n /\ i <= j /\ i >= 2
      BY <1>9 DEF Shape
    <2>3. j = j0
      <3>1. CASE j = n + 1
        BY <1>1, <1>2, <2>1, <3>1
      <3>2. CASE j # n + 1
        <4>1. j \in 1 .. n
          BY <1>1, <3>2
        <4> QED
          BY <1>1, <1>2, <2>1, <4>1
      <3> QED
        BY <3>1, <3>2
    <2>4. i = i0
      <3>1. CASE i = j
        BY <1>1, <1>3, <2>1, <2>2, <2>3, <3>1
      <3>2. CASE i # j
        <4>1. i \in 1 .. n
          BY <1>1, <2>2
        <4>2. r # 0 /\ r \in 1 .. n /\ s[r] = 46
          <5>1. s[i] = 46
            BY <2>1, <3>2, <4>1
          <5>2. r # 0
            BY <1>3, <4>1, <5>1
          <5> QED
            BY <1>1, <1>3, <5>2
        <4>3. r = i
          BY <2>1, <4>2
        <4> QED
          BY <4>2, <4>3
      <3> QED
        BY <3>1, <3>2
    <2> QED
      BY <2>1, <2>3, <2>4
  <1>10. check_float(s, e, r) /\ IsDigit(s[n]) <=>
           Shape(s, i0, j0) /\ IsDigit(s[n]) /\ (e # 0 => s[e + 1] \notin {48, 57})
    <2>1. CASE e # 0 /\ r # 0 /\ e < r
      <3>1. ~check_float(s, e, r)
        <4>1. ~(e > r)
          BY <1>2, <1>3, <2>1
        <4> QED
          BY <2>1, <4>1 DEF check_float
      <3>2. ~Shape(s, i0, j0)
        BY <1>1, <2>1, <1>2, <1>3 DEF Shape
      <3> QED
        BY <3>1, <3>2
    <2>2. CASE e # 0 /\ r # 0 /\ e > r
      <3>1. check_float(s, e, r) <=> /\ check_int(Until(s, r)) /\ check_dec(SubSeq(s, r + 1, e - 1))
                                     /\ check_exp(From(s, e + 1))
        <4>1. ~(e < r)
          BY <1>2, <1>3, <2>2
        <4> QED
          BY <2>2, <4>1 DEF check_float
      <3>2. check_int(Until(s, r)) <=> IsInt(s, r - 1)
        BY <1>1, <1>3, <1>4, <1>5, <2>2
      <3>3. Shape(s, i0, j0) <=> /\ IsInt(s, r - 1) /\ r + 1 < e /\ DigitsIn(s, r + 1, e - 1)
                                 /\ Mantle(s, e) <= n /\ DigitsIn(s, Mantle(s, e), n)
        <4>1. i0 = r /\ j0 = e
          BY <2>2
        <4>2. /\ r \in Nat /\ e \in Nat
              /\ 2 <= r /\ r <= e /\ r # e /\ r <= n /\ e # n + 1
          BY <1>1, <1>2, <1>3, <1>4, <2>2
        <4>3. s[r] = 46 /\ s[e] \in {69, 101}
          BY <1>2, <1>3, <2>2
        <4> HIDE DEF i0, j0
        <4> QED
          BY <4>1, <4>2, <4>3, BothShape
      <3>4. check_dec(SubSeq(s, r + 1, e - 1)) <=> r + 1 < e /\ DigitsIn(s, r + 1, e - 1)
        <4>1. j0 = e
          BY <2>2
        <4> HIDE DEF j0
        <4> QED
          BY <1>7, <2>2, <4>1
      <3>5. IsDigit(s[n]) =>
              (check_exp(From(s, e + 1)) <=> /\ Mantle(s, e) <= n /\ DigitsIn(s, Mantle(s, e), n)
                                             /\ s[e + 1] \notin {48, 57})
        BY <1>6, <2>2
      <3> HIDE DEF n, i0, j0
      <3> QED
        BY <2>2, <3>1, <3>2, <3>3, <3>4, <3>5
    <2>3. CASE e # 0 /\ r = 0
      <3>1. check_float(s, e, r) <=> check_int(Until(s, e)) /\ check_exp(From(s, e + 1))
        BY <2>3 DEF check_float
      <3>2. check_int(Until(s, e)) <=> IsInt(s, e - 1)
        BY <1>1, <1>2, <1>4, <1>5, <2>3
      <3>3. Shape(s, i0, j0) <=> /\ IsInt(s, e - 1)
                                 /\ Mantle(s, e) <= n /\ DigitsIn(s, Mantle(s, e), n)
        <4>1. i0 = e /\ j0 = e
          BY <2>3
        <4>2. e \in Nat /\ 2 <= e /\ e <= n /\ e # n + 1 /\ s[e] \in {69, 101}
          BY <1>1, <1>2, <1>4, <2>3
        <4> HIDE DEF i0, j0
        <4> QED
          BY <4>1, <4>2, ExponentShape
      <3> HIDE DEF n, i0, j0
      <3> QED
        BY <1>6, <2>3, <3>1, <3>2, <3>3
    <2>4. CASE e = 0 /\ r # 0
      <3>1. check_float(s, e, r) <=> check_int(Until(s, r)) /\ check_dec(SubSeq(s, r + 1, n))
        BY <2>4 DEF check_float, From
      <3>2. check_int(Until(s, r)) <=> IsInt(s, r - 1)
        BY <1>1, <1>3, <1>4, <1>5, <2>4
      <3>3. Shape(s, i0, j0) <=> IsInt(s, r - 1) /\ r + 1 < n + 1 /\ DigitsIn(s, r + 1, n)
        <4>1. i0 = r /\ j0 = n + 1 /\ j0 - 1 = n
          BY <1>1, <2>4
        <4>2. /\ r \in Nat /\ n + 1 \in Nat /\ s[r] = 46
              /\ 2 <= r /\ r <= n + 1 /\ r # n + 1 /\ r <= n
          BY <1>1, <1>3, <1>4, <2>4
        <4> HIDE DEF i0, j0
        <4> QED
          BY <4>1, <4>2, FractionShape
      <3>4. j0 = n + 1 /\ j0 - 1 = n
        BY <1>1, <2>4
      <3> QED
        BY <1>7, <2>4, <3>1, <3>2, <3>3, <3>4
    <2> QED
      BY <1>2, <1>3, <1>8, <2>1, <2>2, <2>3, <2>4
  <1>11. i0 \in 1 .. n + 1 /\ j0 \in 1 .. n + 1
    BY <1>1, <1>2, <1>3
  <1>12. ASSUME Shape(s, i0, j0)
         PROVE  ExponentIsTurnedDown(s) <=> e # 0 /\ s[e + 1] \in {48, 57}
    <2>1. \A k \in 1 .. n : s[k] \in {69, 101} <=> k = j0
      BY <1>11, <1>12, ShapeHas
    <2>2. Digit(0) = 48 /\ Digit(9) = 57
      BY DEF Digit
    <2>3. e # 0 => e < n
      <3>1. e # 0 => Mantle(s, e) <= n /\ Mantle(s, e) >= e + 1
        BY <1>1, <1>2, <1>12 DEF Shape, Mantle
      <3> QED
        BY <1>1, <1>2, <3>1 DEF Mantle
    <2>4. \A k \in 1 .. n - 1 : s[k] \in {69, 101} <=> e # 0 /\ k = e
      BY <1>1, <1>2, <2>1
    <2> HIDE DEF n
    <2>5. e # 0 => e \in 1 .. n - 1
      BY <1>1, <1>2, <2>3
    <2> QED
      BY <2>2, <2>4, <2>5 DEF ExponentIsTurnedDown, n
  <1> HIDE DEF i0, j0
  <1> QED
    BY <1>9, <1>10, <1>11, <1>12

\* take_token reads GraphQL's numbers and no other, whatever the text, except that it
\* refuses an exponent of no sign that begins with 0 or 9: a text that a digit or a minus
\* begins is an integer, a float or refused as GraphQL has it.
LEMMA NumbersAreReadAsGraphQL ==
    ASSUME NEW s \in Seq(Nat), s # <<>>, s[1] = Minus \/ IsDigit(s[1])
    PROVE  NumberKind(s) = IF ExponentIsTurnedDown(s) THEN "refused" ELSE NumberOf(s)
  <1> DEFINE n == Len(s)
             e == LastOf(s, {69, 101})
             r == LastOf(s, {Dot})
             F == \E i, j \in 1 .. n + 1 : Shape(s, i, j)
  <1>1. Begun(s)
    BY DEF Begun
  <1>2. n \in Nat /\ n >= 1
    BY Emptiness
  <1>3. NumberOf(s) = IF IsInt(s, n) THEN "IntValue" ELSE IF F THEN "FloatValue" ELSE "refused"
    <2>1. IntegerPart(s) <=> IsInt(s, n)
      BY <1>1, WholeInt
    <2>2. (\E i, j \in 1 .. Len(s) + 1 :
             /\ i <= j /\ i <= Len(s)
             /\ IntegerPart(Until(s, i))
             /\ i = j \/ Fraction(SubSeq(s, i, j - 1))
             /\ j = Len(s) + 1 \/ Exponent(From(s, j))) <=> F
      BY <1>1, ShapeIs
    <2> DEFINE G == \E i, j \in 1 .. Len(s) + 1 :
             /\ i <= j /\ i <= Len(s)
             /\ IntegerPart(Until(s, i))
             /\ i = j \/ Fraction(SubSeq(s, i, j - 1))
             /\ j = Len(s) + 1 \/ Exponent(From(s, j))
    <2>3. NumberOf(s) = CASE IntegerPart(s) -> "IntValue" [] G -> "FloatValue" [] OTHER -> "refused"
      BY DEF NumberOf
    <2>4. ~(IsInt(s, n) /\ F)
      <3> SUFFICES ASSUME IsInt(s, n), NEW i \in 1 .. n + 1, NEW j \in 1 .. n + 1, Shape(s, i, j)
                   PROVE  FALSE
        OBVIOUS
      <3>1. i \in 2 .. n /\ IsDigit(s[i])
        BY <1>2 DEF Shape, IsInt, DigitsIn
      <3>2. s[i] = 46 \/ s[i] \in {69, 101}
        BY <1>2, <3>1 DEF Shape
      <3>3. ~IsDigit(46) /\ ~IsDigit(69) /\ ~IsDigit(101)
        BY DEF IsDigit
      <3> QED
        BY <3>1, <3>2, <3>3
    <2> HIDE DEF F, G
    <2> QED
      BY <2>1, <2>2, <2>3, <2>4 DEF G
  <1>4. CASE e = 0 /\ r = 0
    <2>1. \A k \in 1 .. n : s[k] \notin {69, 101} /\ s[k] # 46
      <3>1. 0 \notin 1 .. n
        BY <1>2
      <3>2. \A k \in 1 .. n : s[k] \notin {69, 101}
        BY <1>4, <3>1, LastOfIs
      <3>3. \A k \in 1 .. n : s[k] \notin {Dot}
        BY <1>4, <3>1, LastOfIs
      <3> QED
        BY <3>2, <3>3 DEF Dot
    <2>2. ~F
      <3> SUFFICES ASSUME NEW i \in 1 .. n + 1, NEW j \in 1 .. n + 1, Shape(s, i, j)
                   PROVE  FALSE
        OBVIOUS
      <3>1. i \in 1 .. n /\ (s[i] = 46 \/ s[i] \in {69, 101})
        BY <1>2 DEF Shape
      <3> QED
        BY <2>1, <3>1
    <2>3. ~ExponentIsTurnedDown(s)
      <3>1. \A k \in 1 .. n - 1 : k \in 1 .. n
        BY <1>2
      <3> QED
        BY <2>1, <3>1 DEF ExponentIsTurnedDown
    <2>4. NumberKind(s) = IF check_int(s) THEN "IntValue" ELSE "refused"
      BY <1>4 DEF NumberKind
    <2>5. check_int(s) <=> IsInt(s, n)
      BY <1>1, WholeInt
    <2> HIDE DEF F
    <2> QED
      BY <1>3, <2>2, <2>3, <2>4, <2>5
  <1>5. CASE ~(e = 0 /\ r = 0)
    <2>1. NumberKind(s) =
            IF check_float(s, e, r) /\ IsDigit(s[n]) THEN "FloatValue" ELSE "refused"
      BY <1>5 DEF NumberKind
    <2>2. check_float(s, e, r) /\ IsDigit(s[n]) <=> F /\ ~ExponentIsTurnedDown(s)
      BY <1>1, <1>5, FloatsAgree
    <2>3. ~IsInt(s, n)
      <3>1. PICK k \in 1 .. n : s[k] \in {46, 69, 101}
        <4>1. \/ e \in 1 .. n /\ s[e] \in {69, 101}
              \/ r \in 1 .. n /\ s[r] \in {Dot}
          BY <1>5, LastOfIs
        <4> QED
          BY <4>1 DEF Dot
      <3>2. k # 1
        BY <3>1 DEF IsDigit, Minus
      <3>3. k \in 2 .. n /\ ~IsDigit(s[k])
        <4>1. ~IsDigit(46) /\ ~IsDigit(69) /\ ~IsDigit(101)
          BY DEF IsDigit
        <4>2. ~IsDigit(s[k])
          BY <3>1, <4>1
        <4>3. k \in 2 .. n
          BY <1>2, <3>2
        <4> QED
          BY <4>2, <4>3
      <3> QED
        BY <3>3 DEF IsInt, DigitsIn
    <2> HIDE DEF F, e, r
    <2> QED
      BY <1>3, <2>1, <2>2, <2>3
  <1> QED
    BY <1>4, <1>5

-----------------------------------------------------------------------------
(* The digits of a char, in base 10, and what base 16 makes of them.         *)

\* A number of seven digits at most, as a char is.
Short(n) == n < 10000000

\* A char has seven decimal digits at most.
LEMMA CharIsShort ==
    ASSUME NEW c, IsChar(c)
    PROVE  c \in Nat /\ Short(c)
  <1>1. MaxChar \in Nat /\ Short(MaxChar)
    BY SMT DEF MaxChar, Short
  <1>2. c \in 0 .. MaxChar
    BY SMT, <1>1 DEF IsChar
  <1>3. ASSUME NEW M \in Nat, Short(M), c \in 0 .. M
        PROVE  c \in Nat /\ Short(c)
    BY SMT, <1>3 DEF Short
  <1> QED
    BY Zenon, <1>1, <1>2, <1>3

\* How many digits a number of seven at most has; one below a hundred is written with four.
LEMMA WidthIs ==
    ASSUME NEW n \in Nat, Short(n)
    PROVE  DecimalWidth(n) \in 4 .. 7 /\ (n < 100 => DecimalWidth(n) = 4)
  <1> DEFINE Fits(w) == /\ w < 7 => n < Tens[w + 1]
                        /\ w > 4 => n >= Tens[w]
  <1>1. /\ Tens[1] = 1 /\ Tens[2] = 10 /\ Tens[3] = 100 /\ Tens[4] = 1000 /\ Tens[5] = 10000
        /\ Tens[6] = 100000 /\ Tens[7] = 1000000
    BY SMT DEF Tens
  <1>2. \E w \in 4 .. 7 : Fits(w)
    <2>1. n < 10000 => Fits(4)
      BY SMT, <1>1
    <2>2. n >= 10000 /\ n < 100000 => Fits(5)
      BY SMT, <1>1
    <2>3. n >= 100000 /\ n < 1000000 => Fits(6)
      BY SMT, <1>1
    <2>4. n >= 1000000 => Fits(7)
      BY SMT, <1>1
    <2> HIDE DEF Fits
    <2> QED
      BY SMT, <2>1, <2>2, <2>3, <2>4
  <1>3. DecimalWidth(n) \in 4 .. 7 /\ Fits(DecimalWidth(n))
    BY Zenon, <1>2 DEF DecimalWidth
  <1>4. ASSUME NEW w \in 4 .. 7, Fits(w), n < 100
        PROVE  w = 4
    <2>1. w = 4 \/ w = 5 \/ w = 6 \/ w = 7
      OBVIOUS
    <2> QED
      BY SMT, <1>1, <1>4, <2>1
  <1> QED
    BY Zenon, <1>3, <1>4

\* The digits of a char, and those of one below a hundred.
LEMMA DecimalIs ==
    ASSUME NEW n \in Nat, Short(n)
    PROVE  /\ Decimal(n) \in Seq(Nat) /\ Len(Decimal(n)) \in 4 .. 7
           /\ \A i \in 1 .. Len(Decimal(n)) : IsDigit(Decimal(n)[i])
           /\ n < 100 => /\ Len(Decimal(n)) = 4
                         /\ Decimal(n)[1] = 48 /\ Decimal(n)[2] = 48
                         /\ Decimal(n)[3] = 48 + (n \div 10) /\ Decimal(n)[4] = 48 + (n % 10)
  <1> DEFINE w == DecimalWidth(n)
             s == Decimal(n)
  <1>1. w \in 4 .. 7 /\ (n < 100 => w = 4)
    BY WidthIs, Zenon
  <1>2. s = [i \in 1 .. w |-> Digit((n \div Tens[w + 1 - i]) % 10)]
    BY DEF Decimal
  <1>3. ASSUME NEW i \in 1 .. w
        PROVE  /\ Digit((n \div Tens[w + 1 - i]) % 10) \in Nat
               /\ IsDigit(Digit((n \div Tens[w + 1 - i]) % 10))
    <2> DEFINE T == Tens[w + 1 - i]
    <2>1. w + 1 - i \in 1 .. 7
      BY <1>1
    <2>2. T \in Nat /\ T > 0
      <3> HIDE DEF w
      <3>1. \A k \in 1 .. 7 : k = 1 \/ k = 2 \/ k = 3 \/ k = 4 \/ k = 5 \/ k = 6 \/ k = 7
        OBVIOUS
      <3>2. \A k \in 1 .. 7 : Tens[k] \in Nat /\ Tens[k] > 0
        BY SMT, <3>1 DEF Tens
      <3> QED
        BY Zenon, <2>1, <3>2
    <2> HIDE DEF T
    <2>3. n \div T \in Nat
      BY SMT, <2>2
    <2>4. (n \div T) % 10 \in 0 .. 9
      BY SMT, <2>3
    <2>5. \A d \in 0 .. 9 : Digit(d) \in Nat /\ IsDigit(Digit(d))
      BY DEF Digit, IsDigit
    <2> QED
      BY Zenon, <2>4, <2>5 DEF T
  <1> HIDE DEF w, s
  <1>4. s \in Seq(Nat) /\ Len(s) = w /\ \A i \in 1 .. w : IsDigit(s[i])
    <2>1. w \in Nat
      BY <1>1
    <2> QED
      BY <1>2, <1>3, <2>1
  <1>5. ASSUME n < 100
        PROVE  s[1] = 48 /\ s[2] = 48 /\ s[3] = 48 + (n \div 10) /\ s[4] = 48 + (n % 10)
    <2>1. w = 4
      BY <1>1, <1>5
    <2>2. /\ s[1] = Digit((n \div 1000) % 10) /\ s[2] = Digit((n \div 100) % 10)
          /\ s[3] = Digit((n \div 10) % 10) /\ s[4] = Digit((n \div 1) % 10)
      BY SMT, <1>2, <2>1 DEF Tens
    <2>3. /\ (n \div 1000) % 10 = 0 /\ (n \div 100) % 10 = 0
          /\ (n \div 10) % 10 = n \div 10 /\ (n \div 1) % 10 = n % 10
      BY SMT, <1>5
    <2> QED
      BY SMT, <2>2, <2>3 DEF Digit
  <1> QED
    BY <1>1, <1>4, <1>5 DEF s

\* The characters of u are those of t from i on.
Stands(t, i, u) == i + Len(u) - 1 <= Len(t) /\ \A k \in 1 .. Len(u) : t[i + k - 1] = u[k]

Reading == [at : Nat, read : Seq(Nat)]

\* What is written for a character is one character long at least, and stands for a char.
LEMMA CharAtIs ==
    ASSUME NEW t \in Seq(Nat), NEW i \in 1 .. Len(t)
    PROVE  /\ CharAt(t, i)[1] \in Nat
           /\ CharAt(t, i)[2] # -1 => CharAt(t, i)[2] \in Nat
  <1>1. Len(t) \in Nat /\ \A k \in 1 .. Len(t) : t[k] \in Nat
    BY Emptiness, ElementOfSeq
  <1>2. CASE t[i] # Backslash
    <2>1. CharAt(t, i) = <<1, t[i]>>
      BY <1>2 DEF CharAt
    <2> QED
      BY <1>1, <2>1
  <1>3. CASE t[i] = Backslash /\ i < Len(t) /\ t[i + 1] = LetterU
    <2>1. CharAt(t, i) = <<6, Code(t, i + 2)>>
      BY <1>3 DEF CharAt
    <2>2. \A c : IsChar(c) => c \in Nat
      BY CharIsShort
    <2>3. Code(t, i + 2) # -1 => IsChar(Code(t, i + 2))
      BY DEF Code
    <2> QED
      BY <2>1, <2>2, <2>3
  <1>4. CASE t[i] = Backslash /\ i < Len(t) /\ t[i + 1] # LetterU
    <2>1. CharAt(t, i) = <<2, Unescaped(t[i + 1])>>
      BY <1>4 DEF CharAt
    <2>2. \A c : Unescaped(c) # -1 => Unescaped(c) \in {c, 16, 12, 10, 13, 9}
      BY DEF Unescaped, Newline, Return, Quote, Backslash
    <2>3. t[i + 1] \in Nat
      BY <1>1, <1>4
    <2>4. Unescaped(t[i + 1]) # -1 => Unescaped(t[i + 1]) \in Nat
      BY <2>2, <2>3
    <2> QED
      BY <2>1, <2>4
  <1>5. CASE t[i] = Backslash /\ ~(i < Len(t))
    <2>1. CharAt(t, i) = <<1, -1>>
      BY <1>5 DEF CharAt
    <2> QED
      BY <2>1
  <1> QED
    BY <1>2, <1>3, <1>4, <1>5

\* Whatever a turn makes of the text, it reads one character at most, and goes back on none.
LEMMA TurnReads ==
    ASSUME NEW t \in Seq(Nat), NEW p \in Reading
    PROVE  /\ Turn(t, p) \in Reading
           /\ \/ Turn(t, p).read = p.read
              \/ \E d \in Nat : Turn(t, p).read = Append(p.read, d)
           /\ p.at \notin 1 .. Len(t) => Turn(t, p) = p
  <1> DEFINE c == CharAt(t, p.at)
  <1>1. p.at \in Nat /\ p.read \in Seq(Nat) /\ p = [at |-> p.at, read |-> p.read]
    BY DEF Reading
  <1>2. CASE p.at \notin 1 .. Len(t)
    BY <1>2 DEF Turn
  <1>3. CASE p.at \in 1 .. Len(t) /\ c[2] = -1
    <2>1. Turn(t, p) = [at |-> 0, read |-> p.read]
      BY <1>1, <1>3 DEF Turn
    <2> QED
      BY <1>1, <1>3, <2>1 DEF Reading
  <1>4. CASE p.at \in 1 .. Len(t) /\ c[2] # -1
    <2>1. Turn(t, p) = [at |-> p.at + c[1], read |-> Append(p.read, c[2])]
      BY <1>4 DEF Turn
    <2>2. c[1] \in Nat /\ c[2] \in Nat
      BY <1>4, CharAtIs
    <2> HIDE DEF c
    <2>3. Append(p.read, c[2]) \in Seq(Nat) /\ p.at + c[1] \in Nat
      BY <1>1, <2>2, AppendProperties
    <2> QED
      BY <1>4, <2>1, <2>2, <2>3 DEF Reading
  <1> QED
    BY <1>2, <1>3, <1>4

-----------------------------------------------------------------------------
(* A character is read from what is written for it, or another is.           *)

\* At most what 9999 is in base 16.
ShortCode(n) == n <= 39321

\* What the bounds on characters have to do with each other.
LEMMA Planes ==
    /\ LastOfPlane \in Nat /\ LastOfPlane > 100
    /\ \A code \in Nat : ShortCode(code) => IsChar(code) /\ code <= LastOfPlane
  <1>1. LastOfPlane \in Nat /\ LastOfPlane > 100
    BY SMT DEF LastOfPlane
  <1> SUFFICES ASSUME NEW code \in Nat, ShortCode(code)
               PROVE  IsChar(code) /\ code <= LastOfPlane
    BY SMT, <1>1
  <1>2. code <= LastOfPlane
    BY SMT DEF LastOfPlane, ShortCode
  <1>3. code <= MaxChar /\ MaxChar \in Nat
    BY SMT DEF MaxChar, ShortCode
  <1>4. code \notin Surrogates
    BY SMT DEF Surrogates, ShortCode
  <1> QED
    BY SMT, <1>2, <1>3, <1>4 DEF IsChar

\* A character that is not escaped, one escaped by a letter, and one by four digits.
LEMMA OneIsRead ==
    ASSUME NEW t \in Seq(Nat), NEW i \in 1 .. Len(t), NEW c, c # Backslash, Stands(t, i, <<c>>)
    PROVE  CharAt(t, i) = <<1, c>>
  <1>1. t[i] = c
    BY DEF Stands
  <1> QED
    BY <1>1 DEF CharAt

\* A backslash and a character that is no u are read as the character they stand for.
LEMMA PairIsRead ==
    ASSUME NEW t \in Seq(Nat), NEW i \in 1 .. Len(t), NEW e, e # LetterU,
           Stands(t, i, <<Backslash, e>>)
    PROVE  CharAt(t, i) = <<2, Unescaped(e)>>
  <1>1. Len(t) \in Nat
    BY Emptiness
  <1>2. i < Len(t) /\ t[i] = Backslash /\ t[i + 1] = e
    <2>1. Len(<<Backslash, e>>) = 2 /\ <<Backslash, e>>[1] = Backslash /\ <<Backslash, e>>[2] = e
      OBVIOUS
    <2>2. i + 2 - 1 = i + 1 /\ i + 1 - 1 = i /\ 1 \in 1 .. 2 /\ 2 \in 1 .. 2
      OBVIOUS
    <2> QED
      BY <1>1, <2>1, <2>2 DEF Stands
  <1> QED
    BY <1>2 DEF CharAt

\* A decimal digit is the same digit in base 16.
LEMMA HexIs ==
    ASSUME NEW d, IsDigit(d)
    PROVE  d # Plus /\ Hex(d) = d - 48 /\ Hex(d) \in 0 .. 9
  <1>1. d \in 48 .. 57
    BY DEF IsDigit
  <1>2. Hex(d) = d - 48
    BY <1>1 DEF Hex
  <1> QED
    BY <1>1, <1>2 DEF Plus

\* What four decimal digits are as hexadecimal ones.
Read16(a, b, c, d) == ((a * 16 + b) * 16 + c) * 16 + d

\* Four decimal digits stand for a number that from_str_radix and char::from_u32 take.
LEMMA FourDigits ==
    ASSUME NEW a \in 0 .. 9, NEW b \in 0 .. 9, NEW c \in 0 .. 9, NEW d \in 0 .. 9
    PROVE  /\ Read16(a, b, c, d) \in Nat /\ ShortCode(Read16(a, b, c, d))
           /\ a # -1 /\ b # -1 /\ c # -1 /\ d # -1
  <1>1. /\ a \in Nat /\ b \in Nat /\ c \in Nat /\ d \in Nat
        /\ a <= 9 /\ b <= 9 /\ c <= 9 /\ d <= 9
    OBVIOUS
  <1> QED
    BY SMT, <1>1 DEF Read16, ShortCode

\* Four characters after two.
LEMMA SixStand ==
    ASSUME NEW t \in Seq(Nat), NEW i \in 1 .. Len(t), NEW v \in Seq(Nat), Len(v) = 2,
           NEW D \in Seq(Nat), Len(D) >= 4, Stands(t, i, v \o D)
    PROVE  /\ i + 5 <= Len(t) /\ t[i] = v[1] /\ t[i + 1] = v[2]
           /\ t[i + 2] = D[1] /\ t[i + 3] = D[2] /\ t[i + 4] = D[3] /\ t[i + 5] = D[4]
  <1>1. Len(t) \in Nat /\ Len(D) \in Nat
    BY Emptiness
  <1>2. PICK u : u = v \o D
    OBVIOUS
  <1>3. /\ Len(u) = Len(D) + 2 /\ u[1] = v[1] /\ u[2] = v[2]
        /\ u[3] = D[1] /\ u[4] = D[2] /\ u[5] = D[3] /\ u[6] = D[4]
        /\ 1 \in 1 .. Len(u) /\ 2 \in 1 .. Len(u) /\ 3 \in 1 .. Len(u)
        /\ 4 \in 1 .. Len(u) /\ 5 \in 1 .. Len(u) /\ 6 \in 1 .. Len(u)
    <2>1. Len(D) \in Nat /\ Len(v) \in Nat
      BY Emptiness
    <2>2. /\ u \in Seq(Nat) /\ Len(u) = Len(v) + Len(D)
          /\ \A k \in 1 .. Len(v) + Len(D) :
                u[k] = IF k <= Len(v) THEN v[k] ELSE D[k - Len(v)]
      BY <1>2, ConcatProperties, Zenon
    <2>3. /\ Len(u) = Len(D) + 2
          /\ \A k \in 1 .. Len(D) + 2 : u[k] = IF k <= 2 THEN v[k] ELSE D[k - 2]
      <3>1. Len(v) + Len(D) = Len(D) + 2
        BY <2>1
      <3> QED
        BY <2>2, <3>1, Zenon
    <2>4. ASSUME NEW L \in Nat, L >= 6
          PROVE  /\ 1 \in 1 .. L /\ 2 \in 1 .. L /\ 3 \in 1 .. L
                 /\ 4 \in 1 .. L /\ 5 \in 1 .. L /\ 6 \in 1 .. L
      BY <2>4
    <2>5. Len(u) \in Nat /\ Len(u) >= 6
      BY <2>1, <2>3
    <2>6. /\ 1 \in 1 .. Len(u) /\ 2 \in 1 .. Len(u) /\ 3 \in 1 .. Len(u)
          /\ 4 \in 1 .. Len(u) /\ 5 \in 1 .. Len(u) /\ 6 \in 1 .. Len(u)
      BY Zenon, <2>4, <2>5
    <2>7. /\ u[1] = v[1] /\ u[2] = v[2]
          /\ u[3] = D[3 - 2] /\ u[4] = D[4 - 2] /\ u[5] = D[5 - 2] /\ u[6] = D[6 - 2]
      BY <2>3, <2>6
    <2>8. 3 - 2 = 1 /\ 4 - 2 = 2 /\ 5 - 2 = 3 /\ 6 - 2 = 4
      OBVIOUS
    <2> QED
      BY <2>2, <2>3, <2>6, <2>7, <2>8
  <1>4. i + Len(u) - 1 <= Len(t) /\ \A k \in 1 .. Len(u) : t[i + k - 1] = u[k]
    BY <1>2 DEF Stands
  <1>5. /\ i + 1 - 1 = i /\ i + 2 - 1 = i + 1 /\ i + 3 - 1 = i + 2
        /\ i + 4 - 1 = i + 3 /\ i + 5 - 1 = i + 4 /\ i + 6 - 1 = i + 5
    OBVIOUS
  <1>6. i + 5 <= Len(t)
    BY <1>1, <1>3, <1>4
  <1>7. /\ t[i + 1 - 1] = u[1] /\ t[i + 2 - 1] = u[2] /\ t[i + 3 - 1] = u[3]
        /\ t[i + 4 - 1] = u[4] /\ t[i + 5 - 1] = u[5] /\ t[i + 6 - 1] = u[6]
    BY <1>3, <1>4, Zenon
  <1> QED
    BY <1>3, <1>5, <1>6, <1>7

\* Four decimal digits after a backslash and a u are read as hexadecimal ones.
LEMMA CodeIsRead ==
    ASSUME NEW t \in Seq(Nat), NEW i \in 1 .. Len(t), NEW D \in Seq(Nat), Len(D) >= 4,
           \A k \in 1 .. Len(D) : IsDigit(D[k]),
           Stands(t, i, <<Backslash, LetterU>> \o D)
    PROVE  /\ CharAt(t, i) = <<6, Read16(D[1] - 48, D[2] - 48, D[3] - 48, D[4] - 48)>>
           /\ Read16(D[1] - 48, D[2] - 48, D[3] - 48, D[4] - 48) \in Nat
           /\ ShortCode(Read16(D[1] - 48, D[2] - 48, D[3] - 48, D[4] - 48))
  <1>1. Len(t) \in Nat /\ Len(D) \in Nat
    BY Emptiness
  <1>2. PICK v \in Seq(Nat) : /\ v = <<Backslash, LetterU>>
                              /\ Len(v) = 2 /\ v[1] = Backslash /\ v[2] = LetterU
    <2>1. <<Backslash, LetterU>> \in Seq(Nat)
      BY DEF Backslash, LetterU
    <2>2. /\ Len(<<Backslash, LetterU>>) = 2
          /\ <<Backslash, LetterU>>[1] = Backslash /\ <<Backslash, LetterU>>[2] = LetterU
      OBVIOUS
    <2> QED
      BY <2>1, <2>2, Zenon
  <1>3. /\ i + 5 <= Len(t) /\ t[i] = Backslash /\ t[i + 1] = LetterU
        /\ t[i + 2] = D[1] /\ t[i + 3] = D[2] /\ t[i + 4] = D[3] /\ t[i + 5] = D[4]
    <2>1. v \in Seq(Nat) /\ Stands(t, i, v \o D) /\ Len(v) = 2 /\ v[1] = Backslash /\ v[2] = LetterU
      BY <1>2
    <2>2. /\ i + 5 <= Len(t) /\ t[i] = v[1] /\ t[i + 1] = v[2]
          /\ t[i + 2] = D[1] /\ t[i + 3] = D[2] /\ t[i + 4] = D[3] /\ t[i + 5] = D[4]
      BY <2>1, SixStand, Zenon
    <2> QED
      BY <2>1, <2>2
  <1> DEFINE a == D[1] - 48
             b == D[2] - 48
             c == D[3] - 48
             d == D[4] - 48
             code == Read16(a, b, c, d)
  <1>4. /\ D[1] # Plus /\ Hex(D[1]) = a /\ a \in 0 .. 9
        /\ Hex(D[2]) = b /\ b \in 0 .. 9
        /\ Hex(D[3]) = c /\ c \in 0 .. 9
        /\ Hex(D[4]) = d /\ d \in 0 .. 9
    <2>1. 1 \in 1 .. Len(D) /\ 2 \in 1 .. Len(D) /\ 3 \in 1 .. Len(D) /\ 4 \in 1 .. Len(D)
      BY <1>1
    <2>2. IsDigit(D[1]) /\ IsDigit(D[2]) /\ IsDigit(D[3]) /\ IsDigit(D[4])
      BY <2>1
    <2> QED
      BY <2>2, HexIs
  <1> HIDE DEF a, b, c, d
  <1>5. code \in Nat /\ ShortCode(code) /\ a # -1 /\ b # -1 /\ c # -1 /\ d # -1
    BY Zenon, <1>4, FourDigits
  <1>6. IsChar(code)
    BY <1>5, Planes
  <1>7. Code(t, i + 2) = code
    <2> DEFINE s1 == i + 2
               first == IF t[s1] = Plus THEN 0 ELSE Hex(t[s1])
    <2>1. first = a /\ Hex(t[s1 + 1]) = b /\ Hex(t[s1 + 2]) = c /\ Hex(t[s1 + 3]) = d
      <3>1. s1 + 1 = i + 3 /\ s1 + 2 = i + 4 /\ s1 + 3 = i + 5
        OBVIOUS
      <3>2. t[s1] = D[1]
        BY <1>3
      <3> HIDE DEF s1
      <3> QED
        BY <1>3, <1>4, <3>1, <3>2
    <2>2. s1 + 3 <= Len(t) /\ first # -1 /\ \A j \in 1 .. 3 : Hex(t[s1 + j]) # -1
      <3>1. \A j \in 1 .. 3 : j = 1 \/ j = 2 \/ j = 3
        OBVIOUS
      <3>2. s1 + 3 <= Len(t)
        BY <1>1, <1>3
      <3> HIDE DEF s1, first
      <3> QED
        BY <1>5, <2>1, <3>1, <3>2
    <2>3. ((first * 16 + Hex(t[s1 + 1])) * 16 + Hex(t[s1 + 2])) * 16 + Hex(t[s1 + 3]) = code
      <3> HIDE DEF s1, first
      <3> QED
        BY <2>1 DEF Read16
    <2> HIDE DEF code
    <2> QED
      BY <1>6, <2>2, <2>3 DEF Code
  <1> HIDE DEF code
  <1>8. CharAt(t, i) = <<6, code>>
    <2>1. t[i] = Backslash /\ i < Len(t) /\ t[i + 1] = LetterU
      BY <1>1, <1>3
    <2> QED
      BY <1>7, <2>1 DEF CharAt
  <1> QED
    BY <1>5, <1>8 DEF code, a, b, c, d

\* A character stands for itself, after a backslash or not, or its code is written.
LEMMA EscapedIs ==
    ASSUME NEW c, IsChar(c)
    PROVE  \/ /\ Printable(c)
              /\ \E e \in Nat : e # LetterU /\ Unescaped(e) = c /\ Escaped(c) = <<Backslash, e>>
           \/ Printable(c) /\ c # Backslash /\ Escaped(c) = <<c>>
           \/ /\ ~Printable(c) /\ (c < 32 \/ c > LastOfPlane)
              /\ Escaped(c) = <<Backslash, LetterU>> \o Decimal(c)
  <1>1. c \in Nat /\ LastOfPlane \in Nat /\ LastOfPlane > 100
    BY CharIsShort, Planes
  <1>2. CASE c = Return
    <2>1. Escaped(c) = <<Backslash, 114>> /\ Unescaped(114) = c /\ 114 # LetterU
      BY <1>2 DEF Escaped, Unescaped, Return, Newline, Quote, Backslash, LetterU
    <2> QED
      BY <1>2, <2>1 DEF Printable
  <1>3. CASE c = Newline
    <2>1. Escaped(c) = <<Backslash, 110>> /\ Unescaped(110) = c /\ 110 # LetterU
      BY <1>3 DEF Escaped, Unescaped, Return, Newline, Quote, Backslash, LetterU
    <2> QED
      BY <1>3, <2>1 DEF Printable
  <1>4. CASE c = 9
    <2>1. Escaped(c) = <<Backslash, 116>> /\ Unescaped(116) = c /\ 116 # LetterU
      BY <1>4 DEF Escaped, Unescaped, Return, Newline, Quote, Backslash, LetterU
    <2> QED
      BY <1>4, <2>1 DEF Printable
  <1>5. CASE c = Quote \/ c = Backslash
    <2>1. Escaped(c) = <<Backslash, c>> /\ Unescaped(c) = c /\ c # LetterU
      BY <1>5 DEF Escaped, Unescaped, Return, Newline, Quote, Backslash, LetterU
    <2>2. c \in 32 .. LastOfPlane
      BY <1>1, <1>5 DEF Quote, Backslash
    <2> QED
      BY <1>1, <2>1, <2>2 DEF Printable
  <1>6. CASE c \notin {Return, Newline, 9, Quote, Backslash} /\ c \in 32 .. LastOfPlane
    <2>1. Escaped(c) = <<c>>
      BY <1>6 DEF Escaped
    <2> QED
      BY <1>6, <2>1 DEF Printable
  <1>7. CASE c \notin {Return, Newline, 9, Quote, Backslash} /\ c \notin 32 .. LastOfPlane
    <2>1. Escaped(c) = <<Backslash, LetterU>> \o Decimal(c)
      BY <1>7 DEF Escaped
    <2>2. c < 32 \/ c > LastOfPlane
      BY <1>1, <1>7
    <2> QED
      BY <1>7, <2>1, <2>2 DEF Printable
  <1> QED
    BY <1>2, <1>3, <1>4, <1>5, <1>6, <1>7

\* Ten and more are not the same in base 16.
LEMMA TwoDigits ==
    ASSUME NEW c \in Nat, c < 32
    PROVE  /\ Read16(0, 0, c \div 10, c % 10) = c <=> c < 10
  <1>1. c \div 10 \in Nat /\ c % 10 \in Nat /\ c = 10 * (c \div 10) + (c % 10) /\ c % 10 < 10
    OBVIOUS
  <1> QED
    BY SMT, <1>1 DEF Read16

\* The escape of a character is read as that character if it survives, else as another.
LEMMA EscapeIsRead ==
    ASSUME NEW t \in Seq(Nat), NEW i \in 1 .. Len(t), NEW c, IsChar(c),
           Stands(t, i, Escaped(c))
    PROVE  /\ EscapeSurvives(c) => CharAt(t, i) = <<Len(Escaped(c)), c>>
           /\ ~EscapeSurvives(c) => \E d \in Nat : d # c /\ CharAt(t, i) = <<6, d>>
  <1>1. c \in Nat /\ Short(c) /\ LastOfPlane \in Nat /\ LastOfPlane > 100
    BY CharIsShort, Planes
  <1>2. ASSUME Printable(c), NEW e \in Nat, e # LetterU, Unescaped(e) = c,
               Escaped(c) = <<Backslash, e>>
        PROVE  CharAt(t, i) = <<Len(Escaped(c)), c>> /\ EscapeSurvives(c)
    <2>1. Stands(t, i, <<Backslash, e>>) /\ Len(Escaped(c)) = 2
      BY <1>2
    <2> QED
      BY <1>2, <2>1, PairIsRead DEF EscapeSurvives
  <1>3. ASSUME Printable(c), c # Backslash, Escaped(c) = <<c>>
        PROVE  CharAt(t, i) = <<Len(Escaped(c)), c>> /\ EscapeSurvives(c)
    <2>1. Stands(t, i, <<c>>) /\ Len(Escaped(c)) = 1
      BY <1>3
    <2> QED
      BY <1>3, <2>1, OneIsRead DEF EscapeSurvives
  <1>4. ASSUME ~Printable(c), c < 32 \/ c > LastOfPlane,
               Escaped(c) = <<Backslash, LetterU>> \o Decimal(c)
        PROVE  /\ EscapeSurvives(c) => CharAt(t, i) = <<Len(Escaped(c)), c>>
               /\ ~EscapeSurvives(c) => \E d \in Nat : d # c /\ CharAt(t, i) = <<6, d>>
    <2> DEFINE D == Decimal(c)
               code == Read16(D[1] - 48, D[2] - 48, D[3] - 48, D[4] - 48)
    <2>1. /\ D \in Seq(Nat) /\ Len(D) \in 4 .. 7
          /\ \A k \in 1 .. Len(D) : IsDigit(D[k])
          /\ c < 100 => /\ Len(D) = 4 /\ D[1] = 48 /\ D[2] = 48
                        /\ D[3] = 48 + (c \div 10) /\ D[4] = 48 + (c % 10)
      BY <1>1, DecimalIs
    <2>2. EscapeSurvives(c) <=> c < 10
      BY <1>4 DEF EscapeSurvives
    <2> HIDE DEF D
    <2>3. CharAt(t, i) = <<6, code>> /\ code \in Nat /\ ShortCode(code)
      <3>1. Len(D) >= 4
        <4>1. \A w \in 4 .. 7 : w >= 4
          OBVIOUS
        <4> QED
          BY <2>1, <4>1, Zenon
      <3>2. Stands(t, i, <<Backslash, LetterU>> \o D)
        BY <1>4 DEF D
      <3> QED
        BY <2>1, <3>1, <3>2, CodeIsRead, ZenonT(40)
    <2>4. CASE c < 32
      <3>1. c \div 10 \in Nat /\ c % 10 \in Nat
        BY <1>1
      <3>2. D[1] - 48 = 0 /\ D[2] - 48 = 0 /\ D[3] - 48 = c \div 10 /\ D[4] - 48 = c % 10
        <4>1. c < 100
          BY <1>1, <2>4
        <4>2. D[1] = 48 /\ D[2] = 48 /\ D[3] = 48 + (c \div 10) /\ D[4] = 48 + (c % 10)
          BY <2>1, <4>1, Zenon
        <4>3. \A d \in Nat : (48 + d) - 48 = d
          OBVIOUS
        <4>4. 48 - 48 = 0
          OBVIOUS
        <4> QED
          BY <3>1, <4>2, <4>3, <4>4, Zenon
      <3>3. code = c <=> c < 10
        BY <1>1, <2>4, <3>2, TwoDigits
      <3>4. Len(Escaped(c)) = 6
        <4>1. <<Backslash, LetterU>> \in Seq(Nat) /\ Len(<<Backslash, LetterU>>) = 2
          BY DEF Backslash, LetterU
        <4>2. Len(D) = 4
          BY <1>1, <2>1, <2>4
        <4>3. Len(<<Backslash, LetterU>> \o D) = Len(<<Backslash, LetterU>>) + Len(D)
          BY <2>1, <4>1, ConcatProperties
        <4> QED
          BY <1>4, <4>1, <4>2, <4>3 DEF D
      <3> HIDE DEF code
      <3> QED
        BY <2>2, <2>3, <3>3, <3>4
    <2>5. CASE c > LastOfPlane
      <3> HIDE DEF code
      <3>1. code <= LastOfPlane
        BY <2>3, Planes
      <3>2. code # c /\ ~(c < 10)
        BY <1>1, <2>3, <2>5, <3>1
      <3> QED
        BY <2>2, <2>3, <3>2
    <2> QED
      BY <1>4, <2>4, <2>5
  <1> QED
    BY <1>2, <1>3, <1>4, EscapedIs

\* What is written for a character is not empty, and does not begin with a quote.
LEMMA EscapedIsText ==
    ASSUME NEW c, IsChar(c)
    PROVE  Escaped(c) \in Seq(Nat) /\ Len(Escaped(c)) >= 1 /\ Escaped(c)[1] # Quote
  <1>1. c \in Nat /\ Short(c)
    BY CharIsShort
  <1>2. ASSUME NEW e \in Nat, Escaped(c) = <<Backslash, e>>
        PROVE  Escaped(c) \in Seq(Nat) /\ Len(Escaped(c)) >= 1 /\ Escaped(c)[1] # Quote
    BY <1>2 DEF Backslash, Quote
  <1>3. ASSUME Escaped(c) = <<c>>
        PROVE  Escaped(c) \in Seq(Nat) /\ Len(Escaped(c)) >= 1 /\ Escaped(c)[1] # Quote
    <2>1. c # Quote
      <3>1. SUFFICES ASSUME c = Quote
                     PROVE  Escaped(c) = <<Backslash, c>>
        <4>1. <<Backslash, c>> # <<c>>
          OBVIOUS
        <4> QED
          BY <1>3, <3>1, <4>1
      <3> QED
        BY <3>1 DEF Escaped, Quote, Return, Newline
    <2> QED
      BY <1>1, <1>3, <2>1
  <1>4. ASSUME Escaped(c) = <<Backslash, LetterU>> \o Decimal(c)
        PROVE  Escaped(c) \in Seq(Nat) /\ Len(Escaped(c)) >= 1 /\ Escaped(c)[1] # Quote
    <2>1. PICK v : /\ v = <<Backslash, LetterU>>
                   /\ v \in Seq(Nat) /\ Len(v) = 2 /\ v[1] = Backslash
      <3>1. <<Backslash, LetterU>> \in Seq(Nat)
        BY DEF Backslash, LetterU
      <3>2. Len(<<Backslash, LetterU>>) = 2 /\ <<Backslash, LetterU>>[1] = Backslash
        OBVIOUS
      <3> QED
        BY <3>1, <3>2, Zenon
    <2>2. PICK D : D = Decimal(c)
      OBVIOUS
    <2>3. D \in Seq(Nat) /\ Len(D) \in Nat
      BY <1>1, <2>2, DecimalIs
    <2>4. /\ v \o D \in Seq(Nat) /\ Len(v \o D) = Len(v) + Len(D)
          /\ \A k \in 1 .. Len(v) + Len(D) :
                (v \o D)[k] = IF k <= Len(v) THEN v[k] ELSE D[k - Len(v)]
      BY ZenonT(30), <2>1, <2>3, ConcatProperties
    <2>5. 1 \in 1 .. Len(v) + Len(D) /\ 1 <= Len(v) /\ Len(v) + Len(D) >= 1
      BY <2>1, <2>3
    <2>6. (v \o D)[1] = Backslash /\ Len(v \o D) >= 1
      BY <2>1, <2>4, <2>5
    <2>7. Backslash # Quote
      BY DEF Backslash, Quote
    <2> QED
      BY <1>4, <2>1, <2>2, <2>4, <2>6, <2>7
  <1> QED
    BY <1>2, <1>3, <1>4, EscapedIs

-----------------------------------------------------------------------------
(* Texts one after the other, and the turns of the loop over one.            *)

\* Texts are joined one after the other, from none.
LEMMA JoinedIs ==
    ASSUME NEW N \in Nat, NEW ss \in [1 .. N -> Seq(Nat)]
    PROVE  /\ \A k \in 0 .. N : Joined(ss)[k] \in Seq(Nat)
           /\ Joined(ss)[0] = <<>>
           /\ \A k \in 1 .. N : Joined(ss)[k] = Joined(ss)[k - 1] \o ss[k]
  <1> DEFINE part(k) == IF k \in 1 .. N THEN ss[k] ELSE <<>>
             step == [x \in Nat \X Seq(Nat) |-> x[2] \o part(x[1])]
             Made(f) == f = [k \in 0 .. N |-> IF k = 0 THEN <<>> ELSE f[k - 1] \o ss[k]]
             J == Joined(ss)
  <1>1. Len(ss) = N
    OBVIOUS
  <1>2. /\ step \in [Nat \X Seq(Nat) -> Seq(Nat)]
        /\ \A k \in 1 .. N, u \in Seq(Nat) : step[<<k, u>>] = u \o ss[k]
    <2>1. /\ \A k \in Nat : part(k) \in Seq(Nat)
          /\ \A k \in 1 .. N : part(k) = ss[k]
      OBVIOUS
    <2> HIDE DEF part
    <2>2. \A k \in Nat, u \in Seq(Nat) : u \o part(k) \in Seq(Nat)
      BY <2>1, ConcatProperties
    <2>3. step \in [Nat \X Seq(Nat) -> Seq(Nat)]
      BY <2>2
    <2>4. ASSUME NEW k \in 1 .. N, NEW u \in Seq(Nat)
          PROVE  step[<<k, u>>] = u \o ss[k]
      <3>1. k \in Nat /\ <<k, u>> \in Nat \X Seq(Nat) /\ <<k, u>>[1] = k /\ <<k, u>>[2] = u
        OBVIOUS
      <3>2. step[<<k, u>>] = u \o part(k)
        BY <3>1
      <3>3. part(k) = ss[k]
        BY <2>1
      <3> HIDE DEF step
      <3> QED
        BY <3>2, <3>3
    <2> QED
      BY <2>3, <2>4
  <1>3. <<>> \in Seq(Nat)
    OBVIOUS
  <1> HIDE DEF step
  <1>4. PICK f : Steps(f, <<>>, step, N, Seq(Nat))
    BY <1>2, <1>3, StepsExist
  <1>5. /\ f \in [0 .. N -> Seq(Nat)] /\ f[0] = <<>>
        /\ \A k \in 1 .. N : f[k] = f[k - 1] \o ss[k]
    <2>1. \A k \in 1 .. N : k - 1 \in 0 .. N
      OBVIOUS
    <2> QED
      BY <1>2, <1>4, <2>1 DEF Steps
  <1>6. Made(f)
    <2>1. \A k \in 0 .. N : k # 0 => k \in 1 .. N
      OBVIOUS
    <2>2. \A k \in 0 .. N : f[k] = IF k = 0 THEN <<>> ELSE f[k - 1] \o ss[k]
      BY <1>5, <2>1, Zenon
    <2>3. f = [k \in 0 .. N |-> f[k]]
      BY <1>5
    <2> QED
      BY <2>2, <2>3, Zenon
  <1>7. Made(J)
    BY <1>1, <1>6 DEF Joined
  <1>8. J[0] = <<>> /\ \A k \in 1 .. N : J[k] = J[k - 1] \o ss[k]
    BY <1>7
  <1> HIDE DEF J
  <1>9. \A k \in 1 .. N : J[k - 1] \in Seq(Nat) => J[k] \in Seq(Nat)
    <2>1. \A k \in 1 .. N : ss[k] \in Seq(Nat)
      OBVIOUS
    <2> QED
      BY <1>8, <2>1, ConcatProperties
  <1>10. \A k \in 0 .. N : J[k] \in Seq(Nat)
    BY <1>3, <1>8, <1>9, StepsStay
  <1> QED
    BY <1>8, <1>10 DEF J

\* What is joined to a text is not disturbed by what is joined later.
LEMMA JoinedStands ==
    ASSUME NEW N \in Nat, NEW ss \in [1 .. N -> Seq(Nat)], NEW k \in 1 .. N
    PROVE  /\ Stands(Joined(ss)[N], Len(Joined(ss)[k - 1]) + 1, ss[k])
           /\ Len(Joined(ss)[k]) = Len(Joined(ss)[k - 1]) + Len(ss[k])
           /\ Len(Joined(ss)[k]) <= Len(Joined(ss)[N])
  <1> DEFINE J == Joined(ss)
             at == Len(J[k - 1])
             P == {m \in 0 .. N : m >= k => Stands(J[m], at + 1, ss[k]) /\ Len(J[k]) <= Len(J[m])}
  <1>1. /\ \A m \in 0 .. N : J[m] \in Seq(Nat)
        /\ \A m \in 1 .. N : J[m] = J[m - 1] \o ss[m]
    BY JoinedIs
  <1> HIDE DEF J
  <1>2. \A m \in 0 .. N : Len(J[m]) \in Nat
    BY <1>1, Emptiness
  <1>3. \A m \in 1 .. N : m \in 0 .. N /\ m - 1 \in 0 .. N /\ ss[m] \in Seq(Nat) /\ Len(ss[m]) \in Nat
    BY Emptiness
  <1>4. ASSUME NEW m \in 1 .. N
        PROVE  /\ Len(J[m]) = Len(J[m - 1]) + Len(ss[m])
               /\ \A j \in 1 .. Len(J[m - 1]) : J[m][j] = J[m - 1][j]
               /\ \A j \in 1 .. Len(ss[m]) : J[m][Len(J[m - 1]) + j] = ss[m][j]
    <2>1. PICK u \in Seq(Nat) : u = J[m - 1]
      BY <1>1, <1>3
    <2>2. PICK v \in Seq(Nat) : v = ss[m]
      BY <1>3
    <2>3. Len(u) \in Nat /\ Len(v) \in Nat
      BY <2>1, <2>2, Emptiness
    <2>4. /\ Len(u \o v) = Len(u) + Len(v)
          /\ \A j \in 1 .. Len(u) + Len(v) :
                (u \o v)[j] = IF j <= Len(u) THEN u[j] ELSE v[j - Len(u)]
      BY <2>1, <2>2, ConcatProperties
    <2>5. \A j \in 1 .. Len(u) : (u \o v)[j] = u[j]
      BY <2>3, <2>4
    <2>6. ASSUME NEW j \in 1 .. Len(v)
          PROVE  (u \o v)[Len(u) + j] = v[j]
      <3>1. PICK x : x = Len(u) + j
        OBVIOUS
      <3>3. x \in 1 .. Len(u) + Len(v) /\ ~(x <= Len(u)) /\ x - Len(u) = j
        BY <2>3, <3>1
      <3>2. (u \o v)[x] = IF x <= Len(u) THEN u[x] ELSE v[x - Len(u)]
        BY <2>4, <3>3, Zenon
      <3> QED
        BY <3>1, <3>2, <3>3
    <2>7. J[m] = u \o v
      BY <1>1, <2>1, <2>2
    <2> QED
      BY <2>1, <2>2, <2>4, <2>5, <2>6, <2>7
  <1>5. Stands(J[k], at + 1, ss[k])
    <2>1. at \in Nat
      BY <1>2, <1>3
    <2>2. at + 1 + Len(ss[k]) - 1 <= Len(J[k])
      BY <1>3, <1>4, <2>1
    <2>3. ASSUME NEW j \in 1 .. Len(ss[k])
          PROVE  J[k][at + 1 + j - 1] = ss[k][j]
      <3>1. at + 1 + j - 1 = at + j
        BY <1>3, <2>1
      <3> QED
        BY <1>4, <3>1
    <2> QED
      BY <2>2, <2>3 DEF Stands
  <1>6. 0 \in P
    OBVIOUS
  <1>7. ASSUME NEW m \in 0 .. N - 1, m \in P
        PROVE  m + 1 \in P
    <2>1. PICK n \in 1 .. N : n = m + 1 /\ n - 1 = m /\ n \in 0 .. N
      OBVIOUS
    <2>2. CASE n < k
      <3>1. ~(n >= k)
        BY <2>1, <2>2
      <3> QED
        BY <2>1, <3>1
    <2>3. CASE n = k
      <3>1. Len(J[k]) \in Nat
        BY <1>2, <2>1, <2>3
      <3>2. Len(J[k]) <= Len(J[n])
        BY <2>3, <3>1
      <3> QED
        BY <1>5, <2>1, <2>3, <3>2
    <2>4. CASE m >= k
      <3>1. Stands(J[m], at + 1, ss[k]) /\ Len(J[k]) <= Len(J[m])
        BY <1>7, <2>4
      <3>2. /\ Len(J[n]) = Len(J[m]) + Len(ss[n])
            /\ \A j \in 1 .. Len(J[m]) : J[n][j] = J[m][j]
        <4>1. /\ Len(J[n]) = Len(J[n - 1]) + Len(ss[n])
              /\ \A j \in 1 .. Len(J[n - 1]) : J[n][j] = J[n - 1][j]
          BY <1>4, Zenon
        <4> QED
          BY <2>1, <4>1
      <3>3. /\ Len(J[m]) \in Nat /\ Len(J[n]) \in Nat /\ Len(J[k]) \in Nat
            /\ Len(ss[n]) \in Nat /\ Len(ss[k]) \in Nat /\ at \in Nat
        BY <1>2, <1>3, <2>1
      <3>4. Len(J[k]) <= Len(J[n]) /\ Len(J[m]) <= Len(J[n])
        <4>1. \A x, y, z, w \in Nat : x <= y /\ z = y + w => x <= z /\ y <= z
          OBVIOUS
        <4> QED
          BY <3>1, <3>2, <3>3, <4>1, Zenon
      <3>5. Stands(J[n], at + 1, ss[k])
        <4> HIDE DEF at
        <4>1. /\ at + 1 + Len(ss[k]) - 1 <= Len(J[m])
              /\ \A j \in 1 .. Len(ss[k]) : J[m][at + 1 + j - 1] = ss[k][j]
          BY <3>1 DEF Stands
        <4>2. at + 1 + Len(ss[k]) - 1 <= Len(J[n])
          BY SMTT(30), <3>3, <3>4, <4>1
        <4>3. \A j \in 1 .. Len(ss[k]) : at + 1 + j - 1 \in 1 .. Len(J[m])
          BY SMTT(30), <3>3, <4>1
        <4>4. \A j \in 1 .. Len(ss[k]) : J[n][at + 1 + j - 1] = ss[k][j]
          BY <3>2, <4>1, <4>3, Zenon
        <4> QED
          BY <4>2, <4>4 DEF Stands
      <3> QED
        BY <2>1, <3>4, <3>5
    <2>5. n < k \/ n = k \/ m >= k
      BY <2>1
    <2> QED
      BY <2>2, <2>3, <2>4, <2>5
  <1>8. N \in P
    <2>1. 0 .. N \subseteq P
      <3> HIDE DEF P
      <3> QED
        BY <1>6, <1>7, IntervalInduction
    <2>2. N \in 0 .. N
      OBVIOUS
    <2> QED
      BY <2>1, <2>2, Zenon
  <1> QED
    BY <1>4, <1>8 DEF J

\* The loop starts before the first character with nothing read, and takes one turn after
\* another.
LEMMA TurnsAre ==
    ASSUME NEW t \in Seq(Nat)
    PROVE  /\ \A k \in 0 .. Len(t) : Turns(t)[k] \in Reading
           /\ Turns(t)[0] = [at |-> 1, read |-> <<>>]
           /\ \A k \in 1 .. Len(t) : Turns(t)[k] = Turn(t, Turns(t)[k - 1])
  <1> DEFINE N == Len(t)
             first == [at |-> 1, read |-> <<>>]
             step == [x \in Nat \X Reading |-> Turn(t, x[2])]
             Made(f) == f = [k \in 0 .. N |-> IF k = 0 THEN first ELSE Turn(t, f[k - 1])]
             T == Turns(t)
  <1>1. N \in Nat
    BY Emptiness
  <1>2. first \in Reading
    BY DEF Reading
  <1>3. \A p \in Reading : Turn(t, p) \in Reading
    BY TurnReads
  <1>4. /\ step \in [Nat \X Reading -> Reading]
        /\ \A k \in Nat, p \in Reading : step[<<k, p>>] = Turn(t, p)
    BY <1>3
  <1>5. T = CHOOSE f : Made(f)
    BY DEF Turns
  <1> HIDE DEF step, first, N, T
  <1>6. PICK f : Steps(f, first, step, N, Reading)
    BY <1>1, <1>2, <1>4, StepsExist
  <1>7. /\ f \in [0 .. N -> Reading] /\ f[0] = first
        /\ \A k \in 1 .. N : f[k] = Turn(t, f[k - 1])
    <2>1. \A k \in 1 .. N : k - 1 \in 0 .. N /\ k \in Nat
      BY <1>1
    <2> QED
      BY <1>4, <1>6, <2>1 DEF Steps
  <1>8. Made(f)
    BY <1>1, <1>7
  <1>9. Made(T)
    <2> HIDE DEF Made
    <2> QED
      BY <1>5, <1>8, Zenon
  <1>10. T[0] = first /\ \A k \in 1 .. N : T[k] = Turn(t, T[k - 1])
    BY <1>1, <1>9
  <1>11. \A k \in 1 .. N : T[k - 1] \in Reading => T[k] \in Reading
    BY <1>3, <1>10
  <1>12. \A k \in 0 .. N : T[k] \in Reading
    BY <1>1, <1>2, <1>10, <1>11, StepsStay
  <1> QED
    BY <1>10, <1>12 DEF T, first, N

-----------------------------------------------------------------------------
(* A string between its quotes: where its characters stand, and what the     *)
(* turns make of them.                                                       *)

Written(s) == Concat([i \in DOMAIN s |-> Escaped(s[i])])

\* In t the characters of s are written one after the other, the k-th up to at[k].
Layout(s, t, at) ==
    /\ t \in Seq(Nat) /\ at \in [0 .. Len(s) -> Nat]
    /\ at[0] = 0 /\ at[Len(s)] = Len(t) /\ Len(s) <= Len(t)
    /\ \A k \in 1 .. Len(s) : /\ at[k] = at[k - 1] + Len(Escaped(s[k]))
                              /\ at[k - 1] + 1 \in 1 .. Len(t)
                              /\ Stands(t, at[k - 1] + 1, Escaped(s[k]))

\* What is written between the quotes is laid out so.
LEMMA WrittenIsLaidOut ==
    ASSUME NEW s, IsText(s)
    PROVE  \E at : Layout(s, Written(s), at)
  <1> DEFINE N == Len(s)
             ss == [i \in 1 .. N |-> Escaped(s[i])]
             J == Joined(ss)
             at == [k \in 0 .. N |-> Len(J[k])]
             t == J[N]
  <1>1. s \in Seq(Nat) /\ N \in Nat /\ DOMAIN s = 1 .. N /\ \A i \in 1 .. N : IsChar(s[i])
    BY Emptiness DEF IsText
  <1>2. \A i \in 1 .. N : Escaped(s[i]) \in Seq(Nat) /\ Len(Escaped(s[i])) >= 1
    BY <1>1, EscapedIsText
  <1>3. ss \in [1 .. N -> Seq(Nat)] /\ Len(ss) = N /\ \A k \in 1 .. N : ss[k] = Escaped(s[k])
    BY <1>1, <1>2
  <1>4. Written(s) = t
    BY <1>1, <1>3 DEF Written, Concat
  <1> HIDE DEF ss
  <1>5. /\ \A k \in 0 .. N : J[k] \in Seq(Nat)
        /\ J[0] = <<>>
    BY <1>1, <1>3, JoinedIs
  <1>6. \A k \in 1 .. N : /\ Stands(J[N], Len(J[k - 1]) + 1, ss[k])
                          /\ Len(J[k]) = Len(J[k - 1]) + Len(ss[k])
                          /\ Len(J[k]) <= Len(J[N])
    BY <1>1, <1>3, JoinedStands
  <1> HIDE DEF J
  <1>7. \A k \in 0 .. N : Len(J[k]) \in Nat
    BY <1>5, Emptiness
  <1>8. at \in [0 .. N -> Nat] /\ \A k \in 0 .. N : at[k] = Len(J[k])
    BY <1>7
  <1>9. at[0] = 0 /\ at[N] = Len(t) /\ t \in Seq(Nat)
    <2>1. 0 \in 0 .. N /\ N \in 0 .. N /\ Len(<<>>) = 0
      BY <1>1
    <2> QED
      BY <1>5, <1>8, <2>1
  <1> HIDE DEF at
  <1>10. \A k \in 1 .. N : k \in 0 .. N /\ k - 1 \in 0 .. N
    BY <1>1
  <1>11. ASSUME NEW k \in 1 .. N
         PROVE  /\ at[k] = at[k - 1] + Len(Escaped(s[k]))
                /\ at[k - 1] + 1 \in 1 .. Len(t)
                /\ Stands(t, at[k - 1] + 1, Escaped(s[k]))
                /\ at[k] >= at[k - 1] + 1
    <2>1. at[k] = Len(J[k]) /\ at[k - 1] = Len(J[k - 1]) /\ ss[k] = Escaped(s[k])
      BY <1>3, <1>8, <1>10
    <2>2. at[k] = at[k - 1] + Len(Escaped(s[k])) /\ Stands(t, at[k - 1] + 1, Escaped(s[k]))
      BY <1>6, <2>1
    <2>3. PICK a \in Nat, b \in Nat, l \in Nat, w \in Nat :
            a = at[k] /\ b = at[k - 1] /\ l = Len(t) /\ w = Len(Escaped(s[k]))
      <3>1. Len(t) \in Nat
        BY <1>9, Emptiness
      <3>2. Len(Escaped(s[k])) \in Nat
        BY <1>2, Emptiness
      <3> QED
        BY <1>8, <1>10, <3>1, <3>2, Zenon
    <2>4. a = b + w /\ a <= l /\ w >= 1
      BY <1>2, <1>6, <2>1, <2>2, <2>3
    <2>5. a >= b + 1 /\ b + 1 \in 1 .. l
      BY <2>3, <2>4
    <2> QED
      BY <2>2, <2>3, <2>5
  <1>12. N <= Len(t)
    <2> DEFINE P == {k \in 0 .. N : at[k] >= k}
    <2>1. 0 \in P
      BY <1>1, <1>9
    <2>2. ASSUME NEW k \in 0 .. N - 1, k \in P
          PROVE  k + 1 \in P
      <3>1. PICK n \in 1 .. N : n = k + 1 /\ n - 1 = k /\ n \in 0 .. N
        BY <1>1
      <3>2. at[n] >= at[k] + 1 /\ at[k] >= k /\ at[k] \in Nat /\ at[n] \in Nat
        <4>1. at[n] >= at[n - 1] + 1
          BY <1>11
        <4>2. k \in 0 .. N
          BY <1>1
        <4> QED
          BY <1>8, <2>2, <3>1, <4>1, <4>2
      <3>3. at[n] >= n
        BY <3>1, <3>2
      <3> QED
        BY <3>1, <3>3
    <2>3. 0 .. N \subseteq P
      <3> HIDE DEF P
      <3> QED
        BY <1>1, <2>1, <2>2, IntervalInduction
    <2>4. N \in P
      BY <1>1, <2>3
    <2> QED
      BY <1>9, <2>4
  <1>13. Layout(s, t, at)
    BY <1>8, <1>9, <1>11, <1>12 DEF Layout
  <1> QED
    BY <1>4, <1>13

\* The first k characters of s.
First(s, k) == [j \in 1 .. k |-> s[j]]

\* The first characters of a text are a text, and with the next one are one more.
LEMMA FirstIs ==
    ASSUME NEW s \in Seq(Nat), NEW k \in 0 .. Len(s)
    PROVE  /\ First(s, k) \in Seq(Nat) /\ Len(First(s, k)) = k
           /\ k = Len(s) => First(s, k) = s
           /\ k < Len(s) => Append(First(s, k), s[k + 1]) = First(s, k + 1)
           /\ \A d \in Nat : /\ Len(Append(First(s, k), d)) = k + 1
                             /\ Append(First(s, k), d)[k + 1] = d
  <1>1. Len(s) \in Nat /\ \A j \in 1 .. Len(s) : s[j] \in Nat
    BY Emptiness, ElementOfSeq
  <1>2. \A m \in 0 .. Len(s) : First(s, m) \in Seq(Nat) /\ Len(First(s, m)) = m
    BY <1>1 DEF First
  <1>3. k = Len(s) => First(s, k) = s
    BY <1>1 DEF First
  <1>4. ASSUME NEW d \in Nat
        PROVE  /\ Append(First(s, k), d) \in Seq(Nat)
               /\ Len(Append(First(s, k), d)) = k + 1
               /\ Append(First(s, k), d)[k + 1] = d
               /\ \A j \in 1 .. k : Append(First(s, k), d)[j] = s[j]
    <2>1. First(s, k) \in Seq(Nat) /\ Len(First(s, k)) = k
      BY <1>2
    <2>2. /\ Append(First(s, k), d) \in Seq(Nat)
          /\ Len(Append(First(s, k), d)) = Len(First(s, k)) + 1
          /\ \A j \in 1 .. Len(First(s, k)) : Append(First(s, k), d)[j] = First(s, k)[j]
          /\ Append(First(s, k), d)[Len(First(s, k)) + 1] = d
      BY <2>1, AppendProperties
    <2>3. \A j \in 1 .. k : First(s, k)[j] = s[j]
      BY DEF First
    <2> QED
      BY <2>1, <2>2, <2>3
  <1>5. ASSUME k < Len(s)
        PROVE  Append(First(s, k), s[k + 1]) = First(s, k + 1)
    <2>1. PICK a : a = Append(First(s, k), s[k + 1])
      OBVIOUS
    <2>2. k + 1 \in 1 .. Len(s) /\ k + 1 \in 0 .. Len(s) /\ s[k + 1] \in Nat
      BY <1>1, <1>5
    <2>3. /\ a \in Seq(Nat) /\ Len(a) = k + 1 /\ a[k + 1] = s[k + 1]
          /\ \A j \in 1 .. k : a[j] = s[j]
      BY <1>4, <2>1, <2>2
    <2>4. \A j \in 1 .. k + 1 : j \in 1 .. k \/ j = k + 1
      OBVIOUS
    <2>5. \A j \in 1 .. k + 1 : a[j] = s[j]
      BY <2>3, <2>4
    <2>6. a = [j \in 1 .. k + 1 |-> a[j]]
      BY <2>3
    <2> QED
      BY <2>1, <2>5, <2>6 DEF First
  <1> QED
    BY <1>2, <1>3, <1>4, <1>5

\* A turn at what is written for a character.
LEMMA TurnAtSurvivor ==
    ASSUME NEW t \in Seq(Nat), NEW p \in Reading, p.at \in 1 .. Len(t),
           NEW c, IsChar(c), EscapeSurvives(c), Stands(t, p.at, Escaped(c))
    PROVE  Turn(t, p) = [at |-> p.at + Len(Escaped(c)), read |-> Append(p.read, c)]
  <1>1. c \in Nat
    BY CharIsShort
  <1>2. CharAt(t, p.at) = <<Len(Escaped(c)), c>>
    BY EscapeIsRead
  <1>3. CharAt(t, p.at)[1] = Len(Escaped(c)) /\ CharAt(t, p.at)[2] = c /\ c # -1
    BY <1>1, <1>2
  <1> QED
    BY <1>3 DEF Turn

ReadAsAnother(t, p, c) == \E d \in Nat : d # c /\ Turn(t, p).read = Append(p.read, d)

\* The turn of the loop that meets an escape that is lost reads another character.
LEMMA TurnAtLost ==
    ASSUME NEW t \in Seq(Nat), NEW p \in Reading, p.at \in 1 .. Len(t),
           NEW c, IsChar(c), ~EscapeSurvives(c), Stands(t, p.at, Escaped(c))
    PROVE  ReadAsAnother(t, p, c)
  <1>1. PICK d \in Nat : d # c /\ CharAt(t, p.at) = <<6, d>>
    BY EscapeIsRead
  <1>2. CharAt(t, p.at)[1] = 6 /\ CharAt(t, p.at)[2] = d /\ d # -1
    BY <1>1
  <1>3. Turn(t, p) = [at |-> p.at + 6, read |-> Append(p.read, d)]
    BY <1>2 DEF Turn
  <1> QED
    BY <1>1, <1>3 DEF ReadAsAnother

\* As long as the escapes survive, every turn reads the next character.
LEMMA SurvivorsAreRead ==
    ASSUME NEW s, IsText(s), NEW t, NEW at, Layout(s, t, at),
           NEW K \in 0 .. Len(s), \A i \in 1 .. K : EscapeSurvives(s[i])
    PROVE  Turns(t)[K] = [at |-> at[K] + 1, read |-> First(s, K)]
  <1> DEFINE T == Turns(t)
             P == {k \in 0 .. K : T[k] = [at |-> at[k] + 1, read |-> First(s, k)]}
  <1>1. /\ s \in Seq(Nat) /\ Len(s) \in Nat /\ \A i \in 1 .. Len(s) : IsChar(s[i])
        /\ t \in Seq(Nat) /\ Len(t) \in Nat
    BY SMTT(30), Emptiness DEF IsText, Layout
  <1>2. /\ T[0] = [at |-> 1, read |-> <<>>]
        /\ \A k \in 1 .. Len(t) : T[k] = Turn(t, T[k - 1])
    BY <1>1, TurnsAre
  <1> HIDE DEF T
  <1>3. 0 \in P
    <2>1. at[0] + 1 = 1
      BY DEF Layout
    <2>2. First(s, 0) = <<>>
      BY DEF First
    <2> QED
      BY <1>2, <2>1, <2>2
  <1>4. ASSUME NEW k \in 0 .. K - 1, k \in P
        PROVE  k + 1 \in P
    <2>1. PICK n \in 1 .. K : /\ n = k + 1 /\ n - 1 = k /\ n \in 1 .. Len(s) /\ n \in 1 .. Len(t)
                              /\ n \in 0 .. K /\ k < Len(s) /\ k \in 0 .. Len(s) /\ n \in 0 .. Len(s)
      BY <1>1 DEF Layout
    <2> DEFINE p == [at |-> at[k] + 1, read |-> First(s, k)]
    <2>2. T[k] = p
      BY <1>4
    <2>3. /\ at[k] \in Nat /\ at[n] = at[k] + Len(Escaped(s[n])) /\ at[k] + 1 \in 1 .. Len(t)
          /\ Stands(t, at[k] + 1, Escaped(s[n])) /\ at[n] \in Nat
      <3>1. /\ at[n] = at[n - 1] + Len(Escaped(s[n])) /\ at[n - 1] + 1 \in 1 .. Len(t)
            /\ Stands(t, at[n - 1] + 1, Escaped(s[n]))
        BY <2>1, Zenon DEF Layout
      <3>2. at[k] \in Nat /\ at[n] \in Nat
        BY <2>1 DEF Layout
      <3> QED
        BY <2>1, <3>1, <3>2
    <2>4. p \in Reading /\ p.at = at[k] + 1 /\ p.read = First(s, k)
      <3>1. First(s, k) \in Seq(Nat)
        BY <1>1, <2>1, FirstIs
      <3> QED
        BY <2>3, <3>1 DEF Reading
    <2>5. IsChar(s[n]) /\ EscapeSurvives(s[n]) /\ Append(First(s, k), s[n]) = First(s, n)
      <3>1. Append(First(s, k), s[k + 1]) = First(s, k + 1)
        BY <1>1, <2>1, FirstIs
      <3> QED
        BY <1>1, <2>1, <3>1
    <2> HIDE DEF p
    <2>6. Turn(t, p) = [at |-> p.at + Len(Escaped(s[n])), read |-> Append(p.read, s[n])]
      <3>1. p.at \in 1 .. Len(t) /\ Stands(t, p.at, Escaped(s[n]))
        BY <2>3, <2>4
      <3>2. p \in Reading /\ t \in Seq(Nat) /\ IsChar(s[n]) /\ EscapeSurvives(s[n])
        BY <1>1, <2>4, <2>5
      <3> QED
        BY <3>1, <3>2, TurnAtSurvivor
    <2>7. T[n] = Turn(t, p)
      BY <1>2, <2>1, <2>2
    <2>8. p.at + Len(Escaped(s[n])) = at[n] + 1
      <3>1. Len(Escaped(s[n])) \in Nat
        BY <2>5, EscapedIsText, Emptiness
      <3> QED
        BY <2>3, <2>4, <3>1
    <2>9. T[n] = [at |-> at[n] + 1, read |-> First(s, n)]
      BY <2>4, <2>5, <2>6, <2>7, <2>8, Zenon
    <2> QED
      BY <2>1, <2>9
  <1>5. 0 .. K \subseteq P
    <2> HIDE DEF P
    <2>1. K \in Nat
      BY <1>1
    <2> QED
      BY <1>3, <1>4, <2>1, IntervalInduction
  <1>6. K \in P
    BY <1>1, <1>5
  <1> QED
    BY <1>6 DEF T

\* When all survive, the text is read to its end, and is the string.
LEMMA AllAreRead ==
    ASSUME NEW s, IsText(s), NEW t, NEW at, Layout(s, t, at),
           \A i \in 1 .. Len(s) : EscapeSurvives(s[i])
    PROVE  Turns(t)[Len(t)] = [at |-> Len(t) + 1, read |-> s]
  <1> DEFINE T == Turns(t)
             N == Len(s)
             p == [at |-> Len(t) + 1, read |-> s]
             P == {k \in 0 .. Len(t) : k >= N => T[k] = p}
  <1>1. s \in Seq(Nat) /\ N \in Nat /\ t \in Seq(Nat) /\ Len(t) \in Nat /\ N <= Len(t)
    BY Emptiness DEF IsText, Layout
  <1>2. T[N] = p
    <2>1. N \in 0 .. N
      BY <1>1
    <2>2. T[N] = [at |-> at[N] + 1, read |-> First(s, N)]
      BY <2>1, SurvivorsAreRead
    <2>3. First(s, N) = s
      BY <1>1, <2>1, FirstIs
    <2>4. at[N] = Len(t)
      BY DEF Layout
    <2> QED
      BY <2>2, <2>3, <2>4
  <1>3. Turn(t, p) = p
    <2>1. p.at \notin 1 .. Len(t)
      BY <1>1
    <2> HIDE DEF p
    <2> QED
      BY <2>1 DEF Turn
  <1>4. \A k \in 1 .. Len(t) : T[k] = Turn(t, T[k - 1])
    BY <1>1, TurnsAre
  <1> HIDE DEF T, p
  <1>5. 0 \in P
    <2>1. 0 >= N => N = 0
      BY <1>1
    <2> QED
      BY <1>1, <1>2, <2>1
  <1>6. ASSUME NEW k \in 0 .. Len(t) - 1, k \in P
        PROVE  k + 1 \in P
    <2>1. PICK n \in 1 .. Len(t) : n = k + 1 /\ n - 1 = k /\ n \in 0 .. Len(t)
      BY <1>1
    <2>2. n >= N => n = N \/ k >= N
      BY <1>1, <2>1
    <2>3. k >= N => T[n] = p
      BY <1>3, <1>4, <1>6, <2>1
    <2> QED
      BY <1>2, <2>1, <2>2, <2>3
  <1>7. 0 .. Len(t) \subseteq P
    <2> HIDE DEF P
    <2> QED
      BY <1>1, <1>5, <1>6, IntervalInduction
  <1>8. Len(t) \in P
    BY <1>1, <1>7
  <1> QED
    BY <1>1, <1>8 DEF T, p

\* The first that does not survive is read as another character, and stays one.
LEMMA OneIsLost ==
    ASSUME NEW s, IsText(s), NEW t, NEW at, Layout(s, t, at),
           \E i \in 1 .. Len(s) : ~EscapeSurvives(s[i])
    PROVE  Turns(t)[Len(t)].read # s
  <1> DEFINE T == Turns(t)
             Lost == {i \in 1 .. Len(s) : ~EscapeSurvives(s[i])}
  <1>1. /\ s \in Seq(Nat) /\ Len(s) \in Nat /\ t \in Seq(Nat) /\ Len(t) \in Nat /\ Len(s) <= Len(t)
        /\ \A i \in 1 .. Len(s) : IsChar(s[i])
    <2>1. s \in Seq(Nat) /\ t \in Seq(Nat) /\ Len(s) <= Len(t) /\ \A i \in DOMAIN s : IsChar(s[i])
      BY DEF IsText, Layout
    <2>2. DOMAIN s = 1 .. Len(s)
      BY <2>1
    <2> QED
      BY <2>1, <2>2, Emptiness
  <1>2. PICK j \in Lost : \A i \in Lost : j <= i
    <2>1. Lost \subseteq 1 .. Len(s) /\ Lost # {}
      OBVIOUS
    <2>2. 1 .. Len(s) \subseteq Nat
      BY <1>1
    <2>3. Lost \subseteq Nat
      BY <2>1, <2>2
    <2> HIDE DEF Lost
    <2> QED
      BY <2>1, <2>3, LeastNumber
  <1>3. j \in 1 .. Len(s) /\ ~EscapeSurvives(s[j])
    BY <1>2
  <1>4. PICK m \in 0 .. Len(s) : m = j - 1 /\ m + 1 = j /\ m < Len(s)
    BY <1>1, <1>3
  <1>5. \A i \in 1 .. m : EscapeSurvives(s[i])
    <2> SUFFICES ASSUME NEW i \in 1 .. m
                 PROVE  EscapeSurvives(s[i])
      OBVIOUS
    <2>1. i \in 1 .. Len(s) /\ ~(j <= i)
      BY <1>1, <1>3, <1>4
    <2> QED
      BY <1>2, <2>1
  <1>6. T[m] = [at |-> at[m] + 1, read |-> First(s, m)]
    BY <1>5, SurvivorsAreRead
  <1>7. /\ \A k \in 0 .. Len(t) : T[k] \in Reading
        /\ \A k \in 1 .. Len(t) : T[k] = Turn(t, T[k - 1])
    BY <1>1, TurnsAre
  <1> HIDE DEF T
  <1>8. j \in 1 .. Len(t) /\ m \in 0 .. Len(t)
    BY SMTT(30), <1>1, <1>3, <1>4
  <1>9. PICK d \in Nat : d # s[j] /\ T[j].read = Append(First(s, m), d)
    <2>1. T[j] = Turn(t, T[m])
      BY <1>4, <1>7, <1>8
    <2>2. at[m] + 1 \in 1 .. Len(t) /\ Stands(t, at[m] + 1, Escaped(s[j]))
      BY <1>3, <1>4 DEF Layout
    <2>3. T[m] \in Reading /\ T[m].at = at[m] + 1 /\ T[m].read = First(s, m)
      BY <1>6, <1>7, <1>8
    <2>4. IsChar(s[j])
      BY <1>1, <1>3
    <2>5. PICK q \in Reading : q = T[m]
      BY <2>3
    <2>6. PICK c : c = s[j]
      OBVIOUS
    <2>7. q.at \in 1 .. Len(t) /\ Stands(t, q.at, Escaped(c)) /\ IsChar(c) /\ ~EscapeSurvives(c)
      BY <1>3, <2>2, <2>3, <2>4, <2>5, <2>6
    <2>8. ReadAsAnother(t, q, c)
      BY <1>1, <2>5, <2>7, TurnAtLost
    <2> QED
      BY <2>1, <2>3, <2>5, <2>6, <2>8 DEF ReadAsAnother
  <1> DEFINE Holds(r) == Len(r) >= j /\ r[j] = d
             P == {k \in 0 .. Len(t) : k >= j => Holds(T[k].read)}
  <1>10. Holds(T[j].read)
    <2>1. Len(Append(First(s, m), d)) = m + 1 /\ Append(First(s, m), d)[m + 1] = d
      <3>1. s \in Seq(Nat) /\ m \in 0 .. Len(s) /\ d \in Nat
        BY <1>1
      <3>2. \A e \in Nat : /\ Len(Append(First(s, m), e)) = m + 1
                           /\ Append(First(s, m), e)[m + 1] = e
        BY <3>1, FirstIs, ZenonT(40)
      <3> QED
        BY <3>1, <3>2, Zenon
    <2>2. j >= j
      BY <1>8
    <2> QED
      BY <1>4, <1>9, <2>1, <2>2
  <1>11. ASSUME NEW k \in 1 .. Len(t), Holds(T[k - 1].read)
         PROVE  Holds(T[k].read)
    <2>1. PICK q \in Reading : q = T[k - 1]
      <3>1. k - 1 \in 0 .. Len(t)
        BY <1>1
      <3> QED
        BY <1>7, <3>1
    <2>2. T[k] = Turn(t, q)
      BY <1>7, <2>1
    <2>3. q.read \in Seq(Nat) /\ Len(q.read) \in Nat /\ Len(q.read) >= j /\ q.read[j] = d
      BY <1>11, <2>1, Emptiness DEF Reading
    <2>4. CASE Turn(t, q).read = q.read
      BY <2>2, <2>3, <2>4
    <2>5. CASE \E e \in Nat : Turn(t, q).read = Append(q.read, e)
      <3>1. PICK e \in Nat : Turn(t, q).read = Append(q.read, e)
        BY <2>5
      <3>2. /\ Len(Append(q.read, e)) = Len(q.read) + 1
            /\ \A i \in 1 .. Len(q.read) : Append(q.read, e)[i] = q.read[i]
        BY <2>3, <3>1, AppendProperties
      <3>3. j \in 1 .. Len(q.read) /\ Len(q.read) + 1 >= j
        BY <1>8, <2>3
      <3>4. T[k].read = Append(q.read, e)
        BY <2>2, <3>1
      <3> QED
        BY <2>3, <3>2, <3>3, <3>4
    <2> QED
      BY <1>1, <2>1, <2>4, <2>5, TurnReads
  <1> HIDE DEF Holds
  <1>12. 0 \in P
    <2>1. ~(0 >= j)
      BY <1>8
    <2> QED
      BY <1>1, <2>1
  <1>13. ASSUME NEW k \in 0 .. Len(t) - 1, k \in P
         PROVE  k + 1 \in P
    <2>1. PICK n \in 1 .. Len(t) : n = k + 1 /\ n - 1 = k /\ n \in 0 .. Len(t)
      BY <1>1
    <2>2. n >= j => n = j \/ k >= j
      BY <1>8, <2>1
    <2>3. k >= j => Holds(T[n].read)
      BY <1>11, <1>13, <2>1
    <2> QED
      BY <1>10, <2>1, <2>2, <2>3
  <1>14. 0 .. Len(t) \subseteq P
    <2> HIDE DEF P
    <2> QED
      BY <1>1, <1>12, <1>13, IntervalInduction
  <1>15. Holds(T[Len(t)].read)
    <2>1. Len(t) \in 0 .. Len(t) /\ Len(t) >= j
      BY <1>1, <1>8
    <2> QED
      BY <1>14, <2>1
  <1> QED
    BY <1>9, <1>15 DEF Holds, T

-----------------------------------------------------------------------------
(* A string with its quotes is read without them.                            *)

\* A text between quotes, and what is between them.
LEMMA QuotedIs ==
    ASSUME NEW t \in Seq(Nat), NEW l, l = <<Quote>> \o t \o <<Quote>>
    PROVE  /\ l \in Seq(Nat) /\ Len(l) = Len(t) + 2
           /\ \A k \in 1 .. Len(t) : l[k + 1] = t[k]
           /\ SubSeq(l, 2, Len(l) - 1) = t
  <1>1. Len(t) \in Nat
    BY Emptiness
  <1>2. PICK q \in Seq(Nat) : q = <<Quote>> /\ Len(q) = 1
    <2>1. <<Quote>> \in Seq(Nat) /\ Len(<<Quote>>) = 1
      BY DEF Quote
    <2> QED
      BY <2>1, Zenon
  <1>3. PICK h \in Seq(Nat) : /\ h = q \o t /\ Len(h) = Len(t) + 1
                              /\ \A k \in 1 .. Len(t) : h[k + 1] = t[k]
    <2>1. PICK h : h = q \o t
      OBVIOUS
    <2>2. /\ h \in Seq(Nat) /\ Len(h) = Len(q) + Len(t)
          /\ \A k \in 1 .. Len(q) + Len(t) : h[k] = IF k <= Len(q) THEN q[k] ELSE t[k - Len(q)]
      BY <1>2, <2>1, ConcatProperties
    <2>3. Len(h) = Len(t) + 1
      BY <1>1, <1>2, <2>2
    <2>4. ASSUME NEW k \in 1 .. Len(t)
          PROVE  h[k + 1] = t[k]
      <3>1. PICK x : x = k + 1
        OBVIOUS
      <3>2. x \in 1 .. Len(q) + Len(t) /\ ~(x <= Len(q)) /\ x - Len(q) = k
        BY <1>1, <1>2, <3>1
      <3>3. h[x] = IF x <= Len(q) THEN q[x] ELSE t[x - Len(q)]
        BY <2>2, <3>2, Zenon
      <3> QED
        BY <3>1, <3>2, <3>3
    <2> QED
      BY <2>1, <2>2, <2>3, <2>4
  <1>4. l = h \o q
    BY <1>2, <1>3
  <1>5. /\ l \in Seq(Nat) /\ Len(l) = Len(t) + 2
        /\ \A k \in 1 .. Len(h) : l[k] = h[k]
    <2>1. /\ h \o q \in Seq(Nat) /\ Len(h \o q) = Len(h) + Len(q)
          /\ \A k \in 1 .. Len(h) + Len(q) :
                (h \o q)[k] = IF k <= Len(h) THEN h[k] ELSE q[k - Len(h)]
      BY <1>2, <1>3, ConcatProperties
    <2>2. Len(l) = Len(t) + 2
      BY <1>1, <1>2, <1>3, <1>4, <2>1
    <2>3. ASSUME NEW k \in 1 .. Len(h)
          PROVE  l[k] = h[k]
      <3>1. k \in 1 .. Len(h) + Len(q) /\ k <= Len(h)
        BY <1>1, <1>2, <1>3
      <3> QED
        BY <1>4, <2>1, <3>1, Zenon
    <2> QED
      BY <1>4, <2>1, <2>2, <2>3
  <1>6. \A k \in 1 .. Len(t) : l[k + 1] = t[k]
    <2>1. \A k \in 1 .. Len(t) : k + 1 \in 1 .. Len(h)
      BY <1>1, <1>3
    <2> QED
      BY <1>3, <1>5, <2>1, Zenon
  <1>7. SubSeq(l, 2, Len(l) - 1) = t
    <2>1. 2 \in 1 .. Len(l) + 1 /\ Len(l) - 1 \in 0 .. Len(l)
      BY <1>1, <1>5
    <2>2. PICK u : u = SubSeq(l, 2, Len(l) - 1)
      OBVIOUS
    <2>3. /\ u \in Seq(Nat)
          /\ Len(u) = IF 2 <= Len(l) - 1 THEN Len(l) - 1 - 2 + 1 ELSE 0
          /\ \A k \in 1 .. Len(l) - 1 - 2 + 1 : u[k] = l[2 + k - 1]
      BY <1>5, <2>1, <2>2, Part, Zenon
    <2>4. Len(u) = Len(t) /\ Len(l) - 1 - 2 + 1 = Len(t)
      BY <1>1, <1>5, <2>3
    <2>5. \A k \in 1 .. Len(t) : 2 + k - 1 = k + 1
      OBVIOUS
    <2>6. \A k \in 1 .. Len(t) : u[k] = t[k]
      BY <1>6, <2>3, <2>4, <2>5
    <2>7. u = t
      BY <2>3, <2>4, <2>6, SeqEqual
    <2> QED
      BY <2>2, <2>7
  <1> QED
    BY <1>5, <1>6, <1>7

\* What is written on one line is not read as a block.
LEMMA NotABlock ==
    ASSUME NEW s, IsText(s), NEW l, l = <<Quote>> \o Written(s) \o <<Quote>>
    PROVE  unquote(l) = unquote_string(l)
  <1>1. PICK at : Layout(s, Written(s), at)
    BY WrittenIsLaidOut
  <1>2. PICK t : t = Written(s)
    OBVIOUS
  <1>3. /\ t \in Seq(Nat) /\ Len(t) \in Nat /\ Len(s) \in Nat
        /\ \A i \in 1 .. Len(s) : IsChar(s[i])
    <2>1. t \in Seq(Nat) /\ s \in Seq(Nat) /\ \A i \in DOMAIN s : IsChar(s[i])
      BY <1>1, <1>2 DEF Layout, IsText
    <2>2. DOMAIN s = 1 .. Len(s)
      BY <2>1
    <2> QED
      BY <2>1, <2>2, Emptiness
  <1>4. /\ l \in Seq(Nat) /\ Len(l) = Len(t) + 2
        /\ \A k \in 1 .. Len(t) : l[k + 1] = t[k]
    BY <1>2, <1>3, QuotedIs
  <1> SUFFICES ASSUME Len(l) >= 6, SubSeq(l, 1, 3) = Triple
               PROVE  FALSE
    BY DEF unquote
  <1>5. l[2] = Quote
    <2>1. 1 \in 1 .. Len(l) + 1 /\ 3 \in 0 .. Len(l)
      BY SMTT(30), <1>3, <1>4
    <2>2. \A k \in 1 .. 3 - 1 + 1 : SubSeq(l, 1, 3)[k] = l[1 + k - 1]
      BY <1>4, <2>1, Part, Zenon
    <2>3. 2 \in 1 .. 3 - 1 + 1 /\ 1 + 2 - 1 = 2
      OBVIOUS
    <2>4. Triple[2] = Quote
      BY DEF Triple
    <2> QED
      BY <2>2, <2>3, <2>4
  <1>6. Len(t) >= 4
    BY <1>3, <1>4
  <1>7. t[1] = Quote
    <2>1. 1 \in 1 .. Len(t) /\ 1 + 1 = 2
      BY <1>3, <1>6
    <2> QED
      BY <1>4, <1>5, <2>1
  <1>8. 1 \in 1 .. Len(s)
    <2>1. Len(s) # 0
      BY <1>1, <1>2, <1>6 DEF Layout
    <2> QED
      BY <1>3, <2>1
  <1>9. Stands(t, 1, Escaped(s[1]))
    <2>1. at[1 - 1] + 1 = 1
      BY <1>1 DEF Layout
    <2>2. Stands(t, at[1 - 1] + 1, Escaped(s[1]))
      BY <1>1, <1>2, <1>8, Zenon DEF Layout
    <2> QED
      BY <2>1, <2>2
  <1>10. Escaped(s[1]) \in Seq(Nat) /\ Len(Escaped(s[1])) >= 1 /\ Escaped(s[1])[1] # Quote
    BY <1>3, <1>8, EscapedIsText
  <1>11. t[1] = Escaped(s[1])[1]
    <2>1. 1 \in 1 .. Len(Escaped(s[1])) /\ 1 + 1 - 1 = 1
      BY <1>10, Emptiness
    <2> QED
      BY <1>9, <2>1 DEF Stands
  <1> QED
    BY <1>7, <1>10, <1>11

\* What is made of a string that is written on one line.
LEMMA LineIsRead ==
    ASSUME NEW s, IsText(s), ~AsBlock(s), NEW indent
    PROVE  unquote(write_quoted(s, indent, Style)) = s
             <=> \A i \in DOMAIN s : EscapeSurvives(s[i])
  <1>1. PICK l : l = <<Quote>> \o Written(s) \o <<Quote>>
    OBVIOUS
  <1>2. write_quoted(s, indent, Style) = l
    BY <1>1 DEF write_quoted, Written
  <1>3. PICK t : t = Written(s)
    OBVIOUS
  <1>4. PICK at : Layout(s, t, at)
    BY <1>3, WrittenIsLaidOut
  <1>5. t \in Seq(Nat) /\ Len(t) \in Nat /\ s \in Seq(Nat) /\ DOMAIN s = 1 .. Len(s)
    <2>1. t \in Seq(Nat) /\ s \in Seq(Nat)
      BY <1>4 DEF Layout, IsText
    <2> QED
      BY <2>1, Emptiness
  <1>6. SubSeq(l, 2, Len(l) - 1) = t
    BY <1>1, <1>3, <1>5, QuotedIs
  <1> DEFINE end == Turns(t)[Len(t)]
  <1>7. unquote(l) = IF end.at = 0 THEN Refusal ELSE end.read
    <2>1. unquote(l) = unquote_string(l)
      BY <1>1, NotABlock
    <2> QED
      BY <1>6, <2>1 DEF unquote_string
  <1>8. ASSUME \A i \in 1 .. Len(s) : EscapeSurvives(s[i])
        PROVE  unquote(l) = s
    <2>1. end = [at |-> Len(t) + 1, read |-> s]
      BY <1>4, <1>8, AllAreRead
    <2> HIDE DEF end
    <2>2. end.at # 0 /\ end.read = s
      BY <1>5, <2>1
    <2> QED
      BY <1>7, <2>2
  <1>9. ASSUME ~(\A i \in 1 .. Len(s) : EscapeSurvives(s[i]))
        PROVE  unquote(l) # s
    <2>1. end.read # s
      BY <1>4, <1>9, OneIsLost
    <2>2. Refusal # s
      <3>1. Refusal[1] = -1 /\ Len(Refusal) = 1
        BY DEF Refusal
      <3>2. ASSUME Len(s) = 1
            PROVE  s[1] # -1
        <4>1. 1 \in 1 .. Len(s)
          BY <3>2
        <4>2. s[1] \in Nat
          BY <1>5, <4>1, ElementOfSeq
        <4> QED
          BY <4>2
      <3> QED
        BY <3>1, <3>2
    <2> HIDE DEF end
    <2> QED
      BY <1>7, <2>1, <2>2
  <1> QED
    BY <1>2, <1>5, <1>8, <1>9

-----------------------------------------------------------------------------
\* The text is what is written for the subject, the result what is read of it.
LiteralInv ==
    /\ subject \in Literals
    /\ text # <<>> => text = IF subject[1] = "string"
                             THEN write_quoted(subject[2], subject[3], Style) ELSE subject[2]
    /\ result # <<>> => /\ text # <<>>
                        /\ result = <<IF subject[1] = "string" THEN unquote(text)
                                      ELSE NumberKind(text)>>

\* What is written is the literal of the subject, and what is read is what it is read as.
LEMMA LiteralInvariance == LiteralSpec => []LiteralInv
  <1>1. LiteralInit => LiteralInv
    BY DEF LiteralInit, LiteralInv
  <1>2. LiteralInv /\ [LiteralNext]_lvars => LiteralInv'
    <2> SUFFICES ASSUME LiteralInv, [LiteralNext]_lvars
                 PROVE  LiteralInv'
      OBVIOUS
    <2>1. CASE WriteQuoted
      <3>1. result = <<>>
        BY <2>1 DEF LiteralInv, WriteQuoted
      <3> QED
        BY <2>1, <3>1 DEF LiteralInv, WriteQuoted
    <2>2. CASE WriteNumber
      <3>1. result = <<>>
        BY <2>2 DEF LiteralInv, WriteNumber
      <3> QED
        BY <2>2, <3>1 DEF LiteralInv, WriteNumber
    <2>3. CASE Unquote
      BY <2>3 DEF LiteralInv, Unquote
    <2>4. CASE ReadNumber
      BY <2>4 DEF LiteralInv, ReadNumber
    <2>5. CASE UNCHANGED lvars
      BY <2>5 DEF LiteralInv, lvars
    <2> QED
      BY <2>1, <2>2, <2>3, <2>4, <2>5 DEF LiteralNext
  <1> QED
    BY <1>1, <1>2, PTL DEF LiteralSpec

\* A string of any length written on one line is read as it was if and only if it has no
\* character whose escape is lost.
THEOREM StringsSurvive == LiteralSpec => []StringsReadBack
  <1>1. LiteralInv => StringsReadBack
    <2> SUFFICES ASSUME LiteralInv, subject[1] = "string", result # <<>>, ~AsBlock(subject[2])
                 PROVE  result[1] = subject[2]
                          <=> \A i \in DOMAIN subject[2] : EscapeSurvives(subject[2][i])
      BY DEF StringsReadBack
    <2>1. subject[2] \in Strings
      BY DEF LiteralInv, Literals
    <2>2. IsText(subject[2])
      BY <2>1, LiteralsAssumption
    <2>3. result[1] = unquote(write_quoted(subject[2], subject[3], Style))
      BY DEF LiteralInv
    <2> QED
      BY <2>2, <2>3, LineIsRead
  <1> QED
    BY <1>1, LiteralInvariance, PTL

\* Of the texts of any length that begin as a number, those are read that are GraphQL's
\* numbers, and as the kind they are, but for the exponents turned down.
THEOREM NumbersAreGraphQL == LiteralSpec => []NumbersAreRead
  <1>1. LiteralInv => NumbersAreRead
    <2> SUFFICES ASSUME LiteralInv, subject[1] = "number", result # <<>>
                 PROVE  result[1] = IF ExponentIsTurnedDown(subject[2])
                                    THEN "refused" ELSE NumberOf(subject[2])
      BY DEF NumbersAreRead
    <2>1. subject[2] \in Numbers
      BY DEF LiteralInv, Literals
    <2>2. /\ subject[2] \in Seq(Nat) /\ subject[2] # <<>>
          /\ subject[2][1] = Minus \/ IsDigit(subject[2][1])
      BY <2>1, LiteralsAssumption DEF IsText
    <2>3. result[1] = NumberKind(subject[2])
      BY DEF LiteralInv
    <2> QED
      BY <2>2, <2>3, NumbersAreReadAsGraphQL
  <1> QED
    BY <1>1, LiteralInvariance, PTL
==============================================================================
