---------------------------- MODULE LoggerProofs ----------------------------
(***************************************************************************)
(* Theorems about Thread, LogStream and Logger, for any threads, any       *)
(* statements, any size of the buffer and any integers.                    *)
(***************************************************************************)
EXTENDS Logger, FiniteSetTheorems, SequenceTheorems, Induction

-----------------------------------------------------------------------------
(* Numbers.                                                                  *)

\* The characters of digits.
DigitChars == {digitsHex[k] : k \in 1..16}

LEMMA DigitIs ==
    ASSUME NEW d \in 0..15
    PROVE  Digit(digitsHex[1 + d]) = d /\ digitsHex[1 + d] \in DigitChars
<1>1. \A e, f \in 0..15 : digitsHex[e + 1] = digitsHex[f + 1] => e = f
  BY DEF digitsHex
<1>2. digitsHex[1 + d] = digitsHex[d + 1] /\ 1 + d \in 1..16
  OBVIOUS
<1> HIDE DEF digitsHex
<1>3. Digit(digitsHex[1 + d]) \in 0..15
      /\ digitsHex[Digit(digitsHex[1 + d]) + 1] = digitsHex[1 + d]
  BY <1>2 DEF Digit
<1> QED
  BY <1>1, <1>2, <1>3 DEF DigitChars

LEMMA SignedDigitIs ==
    ASSUME NEW r \in -9..9
    PROVE  digits[10 + r] = digitsHex[1 + (IF r < 0 THEN -r ELSE r)]
BY DEF digits, digitsHex

\* A loop that writes the digits of a number, the least significant first: the digit
\* of i is d[i], and it goes on with next[i] if i is in more.
DigitsFrom(g, i, d, next, more) ==
    <<digitsHex[1 + d[i]]>> \o (IF i \in more THEN g[next[i]] ELSE <<>>)

Writes(D, g, d, next, more) == g = [i \in D |-> DigitsFrom(g, i, d, next, more)]

\* The numbers are those of D, size[i] without its sign is at most M, and the loop goes
\* on with the quotient.
Loop(D, M, size, d, next, more, base) ==
    /\ M \in Nat /\ base \in Nat
    /\ size \in [D -> 0..M] /\ next \in [D -> D] /\ d \in [D -> 0..15] /\ more \in SUBSET D
    /\ \A i \in more : /\ size[next[i]] < size[i] /\ size[next[i]] # 0
                       /\ size[i] = size[next[i]] * base + d[i]
    /\ \A i \in D \ more : size[i] = d[i]

\* A loop that goes on with a smaller number ends.
LEMMA LoopEnds ==
    ASSUME NEW D, NEW M, NEW size, NEW d, NEW next, NEW more, NEW base,
           Loop(D, M, size, d, next, more, base)
    PROVE  \E g : Writes(D, g, d, next, more)
<1> SUFFICES ASSUME M \in Nat, size \in [D -> 0..M], next \in [D -> D], d \in [D -> 0..15],
                    more \in SUBSET D, \A i \in more : size[next[i]] < size[i]
             PROVE  \E g : Writes(D, g, d, next, more)
  BY DEF Loop
<1> DEFINE Is(g, n) == \A i \in D : size[i] <= n => g[i] = DigitsFrom(g, i, d, next, more)
           T == {n \in 0..M : \E g \in [D -> Seq(DigitChars)] : Is(g, n)}
<1>0. ASSUME NEW g \in [D -> Seq(DigitChars)], NEW i \in D
      PROVE  DigitsFrom(g, i, d, next, more) \in Seq(DigitChars)
  <2>1. digitsHex[1 + d[i]] \in DigitChars
    BY DigitIs
  <2>2. <<digitsHex[1 + d[i]]>> \in Seq(DigitChars)
    BY <2>1
  <2>3. (IF i \in more THEN g[next[i]] ELSE <<>>) \in Seq(DigitChars)
    OBVIOUS
  <2> QED
    BY <2>2, <2>3, ConcatProperties DEF DigitsFrom
<1>1. 0 \in T
  <2> DEFINE g == [i \in D |-> <<digitsHex[1 + d[i]]>>]
  <2>1. g \in [D -> Seq(DigitChars)]
    <3>1. ASSUME NEW i \in D PROVE <<digitsHex[1 + d[i]]>> \in Seq(DigitChars)
      <4>1. digitsHex[1 + d[i]] \in DigitChars
        BY DigitIs
      <4> QED
        BY <4>1
    <3> QED
      BY <3>1
  <2>2. ASSUME NEW i \in D, size[i] <= 0 PROVE g[i] = DigitsFrom(g, i, d, next, more)
    <3>1. i \notin more
      <4> SUFFICES ASSUME i \in more PROVE FALSE
        OBVIOUS
      <4>1. size[next[i]] < size[i] /\ size[next[i]] \in 0..M /\ size[i] \in 0..M
        OBVIOUS
      <4> QED
        BY <2>2, <4>1
    <3>2. g[i] = <<digitsHex[1 + d[i]]>> /\ g[i] \in Seq(DigitChars)
      BY <2>1
    <3> HIDE DEF g
    <3>3. g[i] \o <<>> = g[i]
      BY <3>2, ConcatEmptySeq
    <3> QED
      BY <3>1, <3>2, <3>3 DEF DigitsFrom
  <2> HIDE DEF g
  <2>3. Is(g, 0)
    BY <2>2
  <2> HIDE DEF Is
  <2>4. 0 \in 0..M
    OBVIOUS
  <2> QED
    BY <2>1, <2>3, <2>4
<1>2. ASSUME NEW n \in 0..(M - 1), n \in T PROVE n + 1 \in T
  <2>1. PICK f \in [D -> Seq(DigitChars)] : Is(f, n)
    BY <1>2
  <2> DEFINE g == [i \in D |-> IF size[i] <= n THEN f[i] ELSE DigitsFrom(f, i, d, next, more)]
  <2>2. g \in [D -> Seq(DigitChars)]
    <3>1. ASSUME NEW i \in D
          PROVE  (IF size[i] <= n THEN f[i] ELSE DigitsFrom(f, i, d, next, more)) \in Seq(DigitChars)
      <4>1. f[i] \in Seq(DigitChars) /\ DigitsFrom(f, i, d, next, more) \in Seq(DigitChars)
        BY <1>0
      <4> QED
        BY <4>1
    <3> QED
      BY <3>1
  <2>3. \A i \in D : g[i] = IF size[i] <= n THEN f[i] ELSE DigitsFrom(f, i, d, next, more)
    OBVIOUS
  <2> HIDE DEF g
  <2>4. ASSUME NEW i \in D, size[i] <= n + 1 PROVE g[i] = DigitsFrom(g, i, d, next, more)
    <3>1. g[i] = DigitsFrom(f, i, d, next, more)
      BY <2>1, <2>3
    <3>2. CASE i \in more
      <4>1. next[i] \in D /\ size[next[i]] < size[i] /\ size[next[i]] \in 0..M /\ size[i] \in 0..M
        BY <3>2
      <4>2. size[next[i]] <= n
        BY <2>4, <4>1
      <4>3. g[next[i]] = f[next[i]]
        BY <2>3, <4>1, <4>2
      <4> QED
        BY <3>1, <4>3 DEF DigitsFrom
    <3>3. CASE i \notin more
      BY <3>1, <3>3 DEF DigitsFrom
    <3> QED
      BY <3>2, <3>3
  <2>5. Is(g, n + 1)
    BY <2>4
  <2>6. n + 1 \in 0..M
    OBVIOUS
  <2> HIDE DEF Is
  <2> QED
    BY <2>2, <2>5, <2>6
<1>3. M \in T
  <2> HIDE DEF T
  <2>1. \A n \in 0..M : n \in T
    BY <1>1, <1>2, UpTo
  <2> QED
    BY <2>1
<1>4. PICK g \in [D -> Seq(DigitChars)] : Is(g, M)
  BY <1>3
<1>5. \A i \in D : g[i] = DigitsFrom(g, i, d, next, more)
  BY <1>4
<1>6. g = [i \in D |-> DigitsFrom(g, i, d, next, more)]
  BY <1>5
<1> QED
  BY <1>6 DEF Writes

\* The values that the first of chars have to the base, 0, 1 and so on up to all of them.
Values(chars, base) ==
    { w \in [0..Len(chars) -> Nat] :
        /\ w[0] = 0
        /\ \A n \in 1..Len(chars) : w[n] = w[n - 1] * base + Digit(chars[n]) }

\* text, read backwards, is the numeral of v to the base.
IsNumeral(text, base, v) ==
    /\ text \in Seq(DigitChars) /\ Len(text) >= 1
    /\ \E w \in Values(Reverse(text), base) : w[Len(text)] = v
    /\ v # 0 => Digit(text[Len(text)]) # 0
    /\ v = 0 => Len(text) = 1

\* ValueOf is well defined.
LEMMA ValueIs ==
    ASSUME NEW chars, Len(chars) \in Nat, NEW base, NEW w \in Values(chars, base)
    PROVE  ValueOf(chars, base) = w[Len(chars)]
<1> DEFINE n == Len(chars)
           F(g) == [i \in 0..n |-> IF i = 0 THEN 0 ELSE g[i - 1] * base + Digit(chars[i])]
           h == CHOOSE g : g = F(g)
<1>0. n \in Nat
  OBVIOUS
<1>1. /\ w \in [0..n -> Nat] /\ w[0] = 0
      /\ \A i \in 1..n : w[i] = w[i - 1] * base + Digit(chars[i])
  BY DEF Values
<1>2. w = F(w)
  <2>1. \A i \in 0..n : w[i] = IF i = 0 THEN 0 ELSE w[i - 1] * base + Digit(chars[i])
    <3>1. \A i \in 0..n : i # 0 => i \in 1..n
      BY <1>0
    <3> HIDE DEF n
    <3> QED
      BY <1>1, <3>1
  <2>2. w = [i \in 0..n |-> w[i]]
    BY <1>1
  <2> HIDE DEF n
  <2> QED
    BY <2>1, <2>2
<1>3. h = F(h)
  BY <1>2, Zenon
<1>4. ValueOf(chars, base) = h[n]
  BY DEF ValueOf
<1> HIDE DEF h
<1>5. \A i \in 0..n : h[i] = IF i = 0 THEN 0 ELSE h[i - 1] * base + Digit(chars[i])
  BY <1>3
<1> DEFINE T == {m \in 0..n : h[m] = w[m]}
<1>6. 0 \in T
  BY <1>0, <1>1, <1>5
<1>7. ASSUME NEW m \in 0..(n - 1), m \in T PROVE m + 1 \in T
  <2>1. m + 1 \in 1..n /\ m + 1 \in 0..n /\ m + 1 # 0 /\ m + 1 - 1 = m
    BY <1>0
  <2>2. h[m] = w[m]
    BY <1>7
  <2> HIDE DEF n
  <2>3. h[m + 1] = h[m] * base + Digit(chars[m + 1])
    BY <1>5, <2>1
  <2>4. w[m + 1] = w[m] * base + Digit(chars[m + 1])
    BY <1>1, <2>1
  <2> QED
    BY <2>1, <2>2, <2>3, <2>4
<1>8. n \in T
  <2> HIDE DEF T
  <2>1. \A m \in 0..n : m \in T
    BY <1>0, <1>6, <1>7, UpTo
  <2> QED
    BY <1>0, <2>1
<1> QED
  BY <1>4, <1>8

LEMMA BackwardsIs ==
    ASSUME NEW C, NEW text \in Seq(C)
    PROVE  /\ Reverse(text) \in Seq(C) /\ Len(Reverse(text)) = Len(text) /\ Len(text) \in Nat
           /\ \A n \in 1..Len(text) : Reverse(text)[n] = text[Len(text) - n + 1]
<1>1. Len(text) \in Nat /\ \A k \in 1..Len(text) : text[k] \in C
  OBVIOUS
<1>2. \A n \in 1..Len(text) : Len(text) - n + 1 \in 1..Len(text)
  BY <1>1
<1>3. Reverse(text) \in [1..Len(text) -> C]
  BY <1>1, <1>2 DEF Reverse
<1>4. Reverse(text) \in Seq(C) /\ Len(Reverse(text)) = Len(text)
  BY <1>1, <1>3
<1>5. \A n \in 1..Len(text) : Reverse(text)[n] = text[Len(text) - n + 1]
  BY DEF Reverse
<1> QED
  BY <1>1, <1>4, <1>5

\* One digit.
LEMMA DigitReads ==
    ASSUME NEW d \in 0..15, NEW base \in Nat
    PROVE  IsNumeral(<<digitsHex[1 + d]>>, base, d)
<1> DEFINE c == digitsHex[1 + d]
           text == <<c>>
           w == [n \in 0..1 |-> IF n = 0 THEN 0 ELSE d]
<1>1. c \in DigitChars /\ Digit(c) = d
  BY DigitIs
<1> HIDE DEF c
<1>2. text \in Seq(DigitChars) /\ Len(text) = 1 /\ text[1] = c
  BY <1>1
<1> HIDE DEF text
<1>3. Len(Reverse(text)) = 1 /\ Reverse(text)[1] = c
  <2>1. 1 \in 1..Len(text) /\ Len(text) - 1 + 1 = 1
    BY <1>2
  <2> QED
    BY <1>2, <2>1, BackwardsIs
<1>4. w \in [0..1 -> Nat] /\ w[0] = 0 /\ w[1] = d
  OBVIOUS
<1> HIDE DEF w
<1>5. w \in Values(Reverse(text), base)
  <2>1. 0 * base + d = d /\ \A n \in 1..1 : n = 1 /\ n - 1 = 0
    OBVIOUS
  <2>2. \A n \in 1..1 : w[n] = w[n - 1] * base + Digit(Reverse(text)[n])
    BY <1>1, <1>3, <1>4, <2>1
  <2> QED
    BY <1>3, <1>4, <2>2 DEF Values
<1>6. IsNumeral(text, base, d)
  BY <1>1, <1>2, <1>4, <1>5 DEF IsNumeral
<1> QED
  BY <1>6 DEF text, c

\* One digit more.
LEMMA DigitsRead ==
    ASSUME NEW d \in 0..15, NEW base \in Nat, NEW rest, NEW v \in Nat \ {0}, IsNumeral(rest, base, v),
           v * base + d # 0
    PROVE  IsNumeral(<<digitsHex[1 + d]>> \o rest, base, v * base + d)
<1> DEFINE c == digitsHex[1 + d]
           one == <<c>>
           text == one \o rest
           k == Len(rest)
           new == v * base + d
<1>1. c \in DigitChars /\ Digit(c) = d
  BY DigitIs
<1> HIDE DEF c
<1>2. one \in Seq(DigitChars) /\ Len(one) = 1 /\ one[1] = c
  BY <1>1
<1> HIDE DEF one
<1>3. /\ rest \in Seq(DigitChars) /\ k \in Nat \ {0} /\ Digit(rest[k]) # 0
      /\ \E w \in Values(Reverse(rest), base) : w[k] = v
  BY DEF IsNumeral
<1>4. /\ text \in Seq(DigitChars) /\ Len(text) = k + 1 /\ text[1] = c
      /\ \A j \in 1..k : text[j + 1] = rest[j]
  <2>1. one \in Seq(DigitChars) /\ rest \in Seq(DigitChars) /\ Len(one) = 1 /\ k \in Nat
    BY <1>2, <1>3
  <2>2. /\ text \in Seq(DigitChars)
        /\ Len(text) = Len(one) + Len(rest)
        /\ \A i \in 1..(Len(one) + Len(rest)) :
              text[i] = IF i <= Len(one) THEN one[i] ELSE rest[i - Len(one)]
    BY <2>1, ConcatProperties, Zenon
  <2> HIDE DEF text
  <2>3. ASSUME NEW j \in 1..k PROVE text[j + 1] = rest[j]
    <3>1. j + 1 \in 1..(Len(one) + Len(rest)) /\ ~ (j + 1 <= Len(one)) /\ j + 1 - Len(one) = j
      BY <2>1
    <3> QED
      BY <2>2, <3>1
  <2>4. 1 \in 1..(Len(one) + Len(rest)) /\ 1 <= Len(one)
    BY <2>1
  <2> QED
    BY <1>2, <2>1, <2>2, <2>3, <2>4
<1>5. PICK w \in Values(Reverse(rest), base) : w[k] = v
  BY <1>3
<1>6. /\ Len(Reverse(rest)) = k
      /\ \A n \in 1..k : Reverse(rest)[n] = rest[k - n + 1]
  BY <1>3, BackwardsIs
<1>7. /\ w \in [0..k -> Nat] /\ w[0] = 0
      /\ \A n \in 1..k : w[n] = w[n - 1] * base + Digit(Reverse(rest)[n])
  BY <1>5, <1>6 DEF Values
<1>8. new \in Nat
  OBVIOUS
<1> HIDE DEF text, k, new
<1>9. /\ Len(Reverse(text)) = k + 1 /\ Reverse(text)[k + 1] = c
      /\ \A n \in 1..k : Reverse(text)[n] = Reverse(rest)[n]
  <2>1. /\ Len(Reverse(text)) = k + 1
        /\ \A n \in 1..(k + 1) : Reverse(text)[n] = text[k + 1 - n + 1]
    <3>1. /\ Len(Reverse(text)) = Len(text)
          /\ \A n \in 1..Len(text) : Reverse(text)[n] = text[Len(text) - n + 1]
      BY <1>4, BackwardsIs
    <3>2. Len(text) = k + 1
      BY <1>4
    <3>3. ASSUME NEW n \in 1..(k + 1) PROVE Reverse(text)[n] = text[k + 1 - n + 1]
      <4>1. n \in 1..Len(text)
        BY <3>2
      <4>2. Reverse(text)[n] = text[Len(text) - n + 1]
        BY <3>1, <4>1
      <4> QED
        BY <1>3, <3>2, <4>2
    <3>4. Len(Reverse(text)) = k + 1
      BY <3>1, <3>2
    <3> QED
      BY <3>3, <3>4
  <2>2. k + 1 \in 1..(k + 1) /\ k + 1 - (k + 1) + 1 = 1
    BY <1>3
  <2>3. Reverse(text)[k + 1] = c
    BY <1>4, <2>1, <2>2
  <2>4. ASSUME NEW n \in 1..k PROVE Reverse(text)[n] = Reverse(rest)[n]
    <3>1. n \in 1..(k + 1) /\ k - n + 1 \in 1..k /\ k + 1 - n + 1 = (k - n + 1) + 1
      BY <1>3
    <3>2. Reverse(text)[n] = text[(k - n + 1) + 1]
      BY <2>1, <3>1
    <3>3. text[(k - n + 1) + 1] = rest[k - n + 1]
      BY <1>4, <3>1, Zenon
    <3>4. Reverse(rest)[n] = rest[k - n + 1]
      BY <1>6
    <3> QED
      BY <3>2, <3>3, <3>4, Zenon
  <2> QED
    BY <2>1, <2>3, <2>4
<1> DEFINE x == [n \in 0..(k + 1) |-> IF n = k + 1 THEN new ELSE w[n]]
<1>10. /\ x \in [0..(k + 1) -> Nat] /\ x[k + 1] = new
       /\ \A n \in 0..k : x[n] = w[n]
  <2>1. k + 1 \in 0..(k + 1) /\ \A n \in 0..k : n \in 0..(k + 1) /\ n # k + 1
    BY <1>3
  <2>2. ASSUME NEW n \in 0..(k + 1), n # k + 1 PROVE w[n] \in Nat
    <3>1. n \in 0..k
      BY <1>3, <2>2
    <3> QED
      BY <1>7, <3>1
  <2>3. \A n \in 0..(k + 1) : (IF n = k + 1 THEN new ELSE w[n]) \in Nat
    BY <1>8, <2>2
  <2>4. x \in [0..(k + 1) -> Nat]
    BY <2>3, Zenon
  <2>5. \A n \in 0..(k + 1) : x[n] = IF n = k + 1 THEN new ELSE w[n]
    BY Zenon
  <2> HIDE DEF x
  <2> QED
    BY <2>1, <2>4, <2>5
<1> HIDE DEF x
<1>11. ASSUME NEW n \in 1..(k + 1)
       PROVE  x[n] = x[n - 1] * base + Digit(Reverse(text)[n])
  <2>1. CASE n = k + 1
    <3>1. n - 1 = k /\ k \in 0..k
      BY <1>3, <2>1
    <3>2. x[n - 1] = v /\ x[n] = new /\ Digit(Reverse(text)[n]) = d
      BY <1>1, <1>5, <1>9, <1>10, <2>1, <3>1
    <3> QED
      BY <3>2 DEF new
  <2>2. CASE n # k + 1
    <3>1. n \in 1..k /\ n \in 0..k /\ n - 1 \in 0..k
      BY <1>3, <2>2
    <3> QED
      BY <1>7, <1>9, <1>10, <3>1
  <2> QED
    BY <2>1, <2>2
<1>12. x[0] = 0
  BY <1>3, <1>7, <1>10
<1>13. x \in Values(Reverse(text), base)
  BY <1>9, <1>10, <1>11, <1>12 DEF Values
<1>14. text[k + 1] = rest[k] /\ k + 1 >= 1
  BY <1>3, <1>4
<1>15. new # 0
  BY DEF new
<1>16. IsNumeral(text, base, new)
  BY <1>3, <1>4, <1>10, <1>13, <1>14, <1>15 DEF IsNumeral
<1> QED
  BY <1>16 DEF text, one, c, new

\* What such a loop writes is the numeral.
LEMMA LoopReads ==
    ASSUME NEW D, NEW M, NEW size, NEW d, NEW next, NEW more, NEW base,
           Loop(D, M, size, d, next, more, base),
           NEW g, Writes(D, g, d, next, more)
    PROVE  \A i \in D : IsNumeral(g[i], base, size[i])
<1> SUFFICES ASSUME M \in Nat, size \in [D -> 0..M], next \in [D -> D], d \in [D -> 0..15],
                    more \in SUBSET D, base \in Nat,
                    \A i \in more : /\ size[next[i]] < size[i] /\ size[next[i]] # 0
                                    /\ size[i] = size[next[i]] * base + d[i],
                    \A i \in D \ more : size[i] = d[i],
                    \A i \in D : g[i] = DigitsFrom(g, i, d, next, more)
             PROVE  \A i \in D : IsNumeral(g[i], base, size[i])
  <2>1. \A i \in D : g[i] = DigitsFrom(g, i, d, next, more)
    BY DEF Writes
  <2> QED
    BY <2>1 DEF Loop
<1> DEFINE T == {n \in 0..M : \A i \in D : size[i] <= n => IsNumeral(g[i], base, size[i])}
<1>1. ASSUME NEW i \in D \ more PROVE IsNumeral(g[i], base, size[i])
  <2>1. d[i] \in 0..15 /\ size[i] = d[i]
    OBVIOUS
  <2>2. IsNumeral(<<digitsHex[1 + d[i]]>>, base, d[i])
    BY <2>1, DigitReads
  <2>3. <<digitsHex[1 + d[i]]>> \in Seq(DigitChars)
    BY <2>2 DEF IsNumeral
  <2>4. g[i] = <<digitsHex[1 + d[i]]>> \o <<>>
    BY DEF DigitsFrom
  <2>5. g[i] = <<digitsHex[1 + d[i]]>>
    BY <2>3, <2>4, ConcatEmptySeq
  <2> QED
    BY <2>1, <2>2, <2>5
<1>2. ASSUME NEW i \in more, IsNumeral(g[next[i]], base, size[next[i]])
      PROVE  IsNumeral(g[i], base, size[i])
  <2>1. /\ d[i] \in 0..15 /\ size[next[i]] \in Nat \ {0} /\ size[i] \in Nat
        /\ size[i] = size[next[i]] * base + d[i] /\ size[i] # 0
    <3>1. /\ i \in D /\ next[i] \in D /\ size[next[i]] \in 0..M /\ size[i] \in 0..M
          /\ size[next[i]] < size[i] /\ size[next[i]] # 0
          /\ size[i] = size[next[i]] * base + d[i]
      OBVIOUS
    <3> QED
      BY <3>1
  <2>2. g[i] = <<digitsHex[1 + d[i]]>> \o g[next[i]]
    BY DEF DigitsFrom
  <2>3. IsNumeral(<<digitsHex[1 + d[i]]>> \o g[next[i]], base, size[next[i]] * base + d[i])
    BY <1>2, <2>1, DigitsRead
  <2> QED
    BY <2>1, <2>2, <2>3
<1>3. \A i \in more : size[next[i]] \in 0..M /\ size[i] \in 0..M /\ size[next[i]] < size[i]
                      /\ next[i] \in D
  OBVIOUS
<1>4. 0 \in T
  <2>1. ASSUME NEW i \in D, size[i] <= 0 PROVE i \notin more
    BY <1>3, <2>1
  <2>2. 0 \in 0..M
    OBVIOUS
  <2> QED
    BY <1>1, <2>1, <2>2
<1>5. ASSUME NEW n \in 0..(M - 1), n \in T PROVE n + 1 \in T
  <2>1. ASSUME NEW i \in more, size[i] <= n + 1 PROVE IsNumeral(g[i], base, size[i])
    <3>1. size[next[i]] <= n /\ next[i] \in D
      BY <1>3, <2>1
    <3>2. IsNumeral(g[next[i]], base, size[next[i]])
      BY <1>5, <3>1
    <3> QED
      BY <1>2, <3>2
  <2>2. n + 1 \in 0..M
    OBVIOUS
  <2> QED
    BY <1>1, <2>1, <2>2
<1>6. M \in T
  <2> HIDE DEF T
  <2>1. \A n \in 0..M : n \in T
    BY <1>4, <1>5, UpTo
  <2> QED
    BY <2>1
<1>7. \A i \in D : size[i] <= M
  <2>1. \A i \in D : size[i] \in 0..M
    OBVIOUS
  <2> QED
    BY <2>1
<1> QED
  BY <1>6, <1>7

Size(i) == IF i < 0 THEN -i ELSE i

LEMMA QuotientIs ==
    ASSUME NEW i \in Ints
    PROVE  /\ Quotient(i, 10) \in Ints /\ Remainder(i, 10) \in -9..9 /\ Size(Remainder(i, 10)) \in 0..9
           /\ Size(i) = Size(Quotient(i, 10)) * 10 + Size(Remainder(i, 10))
           /\ Quotient(i, 10) # 0 => Size(Quotient(i, 10)) < Size(i) /\ Size(Quotient(i, 10)) # 0
           /\ Quotient(i, 10) = 0 => Size(i) = Size(Remainder(i, 10))
           /\ Size(i) \in 0..(MaxInt - MinInt)
<1>0. MinInt \in Int /\ MaxInt \in Nat /\ MinInt <= 0 /\ i \in Int /\ MinInt <= i /\ i <= MaxInt
  BY LogStreamAssumption DEF Ints
<1> DEFINE n == Size(i)
           q == n \div 10
           r == n % 10
<1>1. n \in Nat /\ n = (IF i < 0 THEN -i ELSE i)
  BY <1>0 DEF Size
<1> HIDE DEF n
<1>2. n = 10 * q + r /\ q \in Nat /\ r \in 0..9
  BY <1>1
<1>3. Quotient(i, 10) = (IF i < 0 THEN -q ELSE q)
  BY <1>0, <1>1 DEF Quotient
<1> HIDE DEF q, r
<1>4. Remainder(i, 10) = (IF i < 0 THEN -r ELSE r)
  BY <1>0, <1>1, <1>2, <1>3 DEF Remainder
<1>5. q <= n /\ (q # 0 => q < n)
  BY <1>2
<1>6. Size(Quotient(i, 10)) = q /\ Size(Remainder(i, 10)) = r
  BY <1>0, <1>2, <1>3, <1>4 DEF Size
<1>7. Quotient(i, 10) \in Ints
  BY <1>0, <1>1, <1>2, <1>3, <1>5 DEF Ints
<1>8. (Quotient(i, 10) = 0 <=> q = 0) /\ Remainder(i, 10) \in -9..9
  BY <1>0, <1>2, <1>3, <1>4
<1>9. n <= MaxInt - MinInt
  BY <1>0, <1>1
<1>10. n = q * 10 + r /\ (q = 0 => n = r) /\ n \in 0..(MaxInt - MinInt)
  BY <1>0, <1>1, <1>2, <1>9
<1> QED
  BY <1>2, <1>5, <1>6, <1>7, <1>8, <1>10 DEF n

\* The loop of convert, for the numbers of its type, the least one included.
LEMMA LsdsIs ==
    ASSUME NEW v \in Ints
    PROVE  IsNumeral(lsds[v], 10, Size(v))
<1> DEFINE M == MaxInt - MinInt
           size == [i \in Ints |-> Size(i)]
           next == [i \in Ints |-> Quotient(i, 10)]
           d == [i \in Ints |-> Size(Remainder(i, 10))]
           more == {i \in Ints : Quotient(i, 10) # 0}
           F(g) == [i \in Ints |-> <<digits[10 + Remainder(i, 10)]>> \o
                                   (IF More(Quotient(i, 10)) THEN g[Quotient(i, 10)] ELSE <<>>)]
<1>0. M \in Nat
  BY LogStreamAssumption
<1>1. size \in [Ints -> 0..M] /\ \A i \in Ints : size[i] = Size(i)
  BY QuotientIs
<1>2. next \in [Ints -> Ints] /\ \A i \in Ints : next[i] = Quotient(i, 10)
  BY QuotientIs
<1>3. d \in [Ints -> 0..15] /\ \A i \in Ints : d[i] = Size(Remainder(i, 10))
  <2>1. \A i \in Ints : Size(Remainder(i, 10)) \in 0..9
    BY QuotientIs
  <2>2. \A k \in 0..9 : k \in 0..15
    OBVIOUS
  <2> QED
    BY <2>1, <2>2
<1>4. more \in SUBSET Ints /\ \A i \in Ints : i \in more <=> Quotient(i, 10) # 0
  OBVIOUS
<1> HIDE DEF M, size, next, d, more
<1>5. \A i \in more : /\ size[next[i]] < size[i] /\ size[next[i]] # 0
                      /\ size[i] = size[next[i]] * 10 + d[i]
  <2> SUFFICES ASSUME NEW i \in more
               PROVE  /\ size[next[i]] < size[i] /\ size[next[i]] # 0
                      /\ size[i] = size[next[i]] * 10 + d[i]
    OBVIOUS
  <2>1. i \in Ints /\ Quotient(i, 10) # 0
    BY <1>4
  <2>2. size[i] = Size(i) /\ d[i] = Size(Remainder(i, 10)) /\ Quotient(i, 10) \in Ints
        /\ next[i] = Quotient(i, 10)
    BY <1>1, <1>2, <1>3, <2>1, QuotientIs
  <2>3. size[next[i]] = Size(Quotient(i, 10))
    BY <1>1, <2>2
  <2>4. /\ Size(i) = Size(Quotient(i, 10)) * 10 + Size(Remainder(i, 10))
        /\ Size(Quotient(i, 10)) < Size(i) /\ Size(Quotient(i, 10)) # 0
    BY <2>1, QuotientIs
  <2> QED
    BY <2>2, <2>3, <2>4
<1>6. \A i \in Ints \ more : size[i] = d[i]
  BY <1>1, <1>3, <1>4, QuotientIs
<1>7. ASSUME NEW g, NEW i \in Ints
      PROVE  DigitsFrom(g, i, d, next, more)
             = <<digits[10 + Remainder(i, 10)]>> \o
               (IF More(Quotient(i, 10)) THEN g[Quotient(i, 10)] ELSE <<>>)
  <2>1. digits[10 + Remainder(i, 10)] = digitsHex[1 + d[i]]
    BY <1>3, QuotientIs, SignedDigitIs DEF Size
  <2>2. i \in more <=> More(Quotient(i, 10))
    BY <1>4 DEF More
  <2> QED
    BY <1>2, <2>1, <2>2 DEF DigitsFrom
<1>8. Loop(Ints, M, size, d, next, more, 10)
  BY <1>0, <1>1, <1>2, <1>3, <1>4, <1>5, <1>6 DEF Loop
<1>9. \E g : g = F(g)
  <2>0. \E g : Writes(Ints, g, d, next, more)
    BY <1>8, LoopEnds, Zenon
  <2>1. PICK g : g = [i \in Ints |-> DigitsFrom(g, i, d, next, more)]
    BY <2>0 DEF Writes
  <2>2. F(g) = [i \in Ints |-> DigitsFrom(g, i, d, next, more)]
    BY <1>7
  <2> QED
    BY <2>1, <2>2
<1>10. lsds = F(lsds)
  <2>1. lsds = CHOOSE g : g = F(g)
    BY DEF lsds
  <2> QED
    BY <1>9, <2>1, Zenon
<1>11. Writes(Ints, lsds, d, next, more)
  <2>1. F(lsds) = [i \in Ints |-> DigitsFrom(lsds, i, d, next, more)]
    BY <1>7
  <2> QED
    BY <1>10, <2>1 DEF Writes
<1>12. \A i \in Ints : IsNumeral(lsds[i], 10, size[i])
  BY <1>8, <1>11, LoopReads, Zenon
<1> QED
  BY <1>1, <1>12

\* The loop of convertHex.
LEMMA LsdsHexIs ==
    ASSUME NEW v \in 0..MaxInt
    PROVE  IsNumeral(lsdsHex[v], 16, v)
<1> DEFINE D == 0..MaxInt
           size == [i \in D |-> i]
           next == [i \in D |-> i \div 16]
           d == [i \in D |-> i % 16]
           more == {i \in D : i \div 16 # 0}
           F(g) == [i \in D |-> <<digitsHex[1 + (i % 16)]>> \o
                                (IF More(i \div 16) THEN g[i \div 16] ELSE <<>>)]
<1>0. MaxInt \in Nat
  BY LogStreamAssumption
<1>1. ASSUME NEW i \in D
      PROVE  /\ i \in Nat /\ i \div 16 \in D /\ i % 16 \in 0..15
             /\ i = (i \div 16) * 16 + (i % 16)
             /\ i \div 16 # 0 => i \div 16 < i
  <2>1. i \in Nat /\ i <= MaxInt
    BY <1>0
  <2>2. i \div 16 \in Nat /\ i % 16 \in 0..15 /\ i = 16 * (i \div 16) + (i % 16)
    BY <2>1
  <2> DEFINE q == i \div 16
             r == i % 16
  <2>3. q \in Nat /\ r \in 0..15 /\ i = 16 * q + r
    BY <2>2
  <2> HIDE DEF q, r
  <2>4. q <= i /\ (q # 0 => q < i) /\ i = q * 16 + r
    BY <2>1, <2>3
  <2>5. q \in D
    BY <1>0, <2>1, <2>3, <2>4
  <2> QED
    BY <2>1, <2>3, <2>4, <2>5 DEF q, r
<1>2. size \in [D -> 0..MaxInt] /\ \A i \in D : size[i] = i
  OBVIOUS
<1>3. next \in [D -> D] /\ \A i \in D : next[i] = i \div 16
  <2> HIDE DEF D
  <2> QED
    BY <1>1
<1>4. d \in [D -> 0..15] /\ \A i \in D : d[i] = i % 16
  <2> HIDE DEF D
  <2> QED
    BY <1>1
<1>5. more \in SUBSET D /\ \A i \in D : i \in more <=> i \div 16 # 0
  OBVIOUS
<1> HIDE DEF D, size, next, d, more
<1>6. \A i \in more : /\ size[next[i]] < size[i] /\ size[next[i]] # 0
                      /\ size[i] = size[next[i]] * 16 + d[i]
  <2> SUFFICES ASSUME NEW i \in more
               PROVE  /\ size[next[i]] < size[i] /\ size[next[i]] # 0
                      /\ size[i] = size[next[i]] * 16 + d[i]
    OBVIOUS
  <2>1. i \in D /\ i \div 16 # 0
    BY <1>5
  <2>2. i \div 16 \in D /\ i = (i \div 16) * 16 + (i % 16) /\ i \div 16 < i
    BY <1>1, <2>1
  <2>3. size[i] = i /\ d[i] = i % 16 /\ next[i] = i \div 16
    BY <1>2, <1>3, <1>4, <2>1
  <2>4. size[next[i]] = i \div 16
    BY <1>2, <2>2, <2>3
  <2> QED
    BY <2>1, <2>2, <2>3, <2>4
<1>7. ASSUME NEW i \in D \ more PROVE size[i] = d[i]
  <2>1. i \in Nat /\ i \div 16 = 0 /\ i % 16 \in 0..15 /\ i = (i \div 16) * 16 + (i % 16)
    BY <1>1, <1>5
  <2>2. i = i % 16
    BY <2>1
  <2> QED
    BY <1>2, <1>4, <2>2
<1>8. ASSUME NEW g, NEW i \in D
      PROVE  DigitsFrom(g, i, d, next, more)
             = <<digitsHex[1 + (i % 16)]>> \o (IF More(i \div 16) THEN g[i \div 16] ELSE <<>>)
  <2>1. i \in more <=> More(i \div 16)
    BY <1>5 DEF More
  <2>2. d[i] = i % 16 /\ next[i] = i \div 16
    BY <1>3, <1>4
  <2> QED
    BY <2>1, <2>2 DEF DigitsFrom
<1>14. Loop(D, MaxInt, size, d, next, more, 16)
  BY <1>0, <1>2, <1>3, <1>4, <1>5, <1>6, <1>7 DEF Loop
<1>9. \E g : g = F(g)
  <2>0. \E g : Writes(D, g, d, next, more)
    BY <1>14, LoopEnds, Zenon
  <2>1. PICK g : g = [i \in D |-> DigitsFrom(g, i, d, next, more)]
    BY <2>0 DEF Writes
  <2>2. F(g) = [i \in D |-> DigitsFrom(g, i, d, next, more)]
    BY <1>8
  <2> QED
    BY <2>1, <2>2
<1>10. lsdsHex = F(lsdsHex)
  <2>1. lsdsHex = CHOOSE g : g = F(g)
    BY DEF lsdsHex, D
  <2> QED
    BY <1>9, <2>1, Zenon
<1>11. Writes(D, lsdsHex, d, next, more)
  <2>1. F(lsdsHex) = [i \in D |-> DigitsFrom(lsdsHex, i, d, next, more)]
    BY <1>8
  <2> QED
    BY <1>10, <2>1 DEF Writes
<1>12. \A i \in D : IsNumeral(lsdsHex[i], 16, size[i])
  BY <1>14, <1>11, LoopReads, Zenon
<1>13. v \in D
  BY DEF D
<1> QED
  BY <1>2, <1>12, <1>13

LEMMA NumeralReads ==
    ASSUME NEW text, NEW base, NEW v, IsNumeral(text, base, v)
    PROVE  ValueOf(Reverse(text), base) = v
<1>1. /\ text \in Seq(DigitChars)
      /\ \E w \in Values(Reverse(text), base) : w[Len(text)] = v
  BY DEF IsNumeral
<1>2. Len(Reverse(text)) = Len(text) /\ Len(text) \in Nat
  BY <1>1, BackwardsIs
<1>3. PICK w \in Values(Reverse(text), base) : w[Len(text)] = v
  BY <1>1
<1>4. ValueOf(Reverse(text), base) = w[Len(Reverse(text))]
  BY <1>2, ValueIs
<1> QED
  BY <1>2, <1>3, <1>4

\* convert writes the usual numeral of any number.
LEMMA ConvertReads ==
    ASSUME NEW v \in Ints
    PROVE  Reads(convert(v), v)
<1> DEFINE text == lsds[v]
           k == Len(text)
           back == Reverse(text)
           body == IF v < 0 THEN Tail(convert(v)) ELSE convert(v)
           C == DigitChars \cup {"-"}
<1>0. v \in Int
  BY LogStreamAssumption DEF Ints
<1>1. IsNumeral(text, 10, Size(v))
  BY LsdsIs
<1> HIDE DEF text
<1>2. text \in Seq(DigitChars) /\ k >= 1 /\ k \in Nat /\ text \in Seq(C)
  BY <1>1 DEF IsNumeral
<1>3. k > 1 => Digit(text[k]) # 0
  BY <1>1, <1>2 DEF IsNumeral
<1>4. back \in Seq(DigitChars) /\ Len(back) = k /\ \A n \in 1..k : back[n] = text[k - n + 1]
  BY <1>2, BackwardsIs
<1>5. ValueOf(back, 10) = Size(v)
  BY <1>1, NumeralReads
<1> HIDE DEF k, back
<1>6. body = back /\ (v < 0 => Head(convert(v)) = "-")
  <2>1. CASE ~ (v < 0)
    <3>1. convert(v) = Reverse(text \o <<>>)
      BY <2>1 DEF convert, text
    <3>2. text \o <<>> = text
      BY <1>2, ConcatEmptySeq
    <3> QED
      BY <1>0, <2>1, <3>1, <3>2 DEF back
  <2>2. CASE v < 0
    <3> DEFINE minus == <<"-">>
               signed == text \o minus
               chars == Reverse(signed)
    <3>1. convert(v) = chars
      BY <2>2 DEF convert, text
    <3>2. "-" \in C
      OBVIOUS
    <3> HIDE DEF C
    <3>3. minus \in Seq(C) /\ Len(minus) = 1 /\ minus[1] = "-"
      BY <3>2
    <3> HIDE DEF minus
    <3>4. /\ signed \in Seq(C)
          /\ Len(signed) = Len(text) + Len(minus)
          /\ \A i \in 1..(Len(text) + Len(minus)) :
                signed[i] = IF i <= Len(text) THEN text[i] ELSE minus[i - Len(text)]
      BY <1>2, <3>3, ConcatProperties, Zenon
    <3> HIDE DEF signed
    <3>5. Len(signed) = k + 1 /\ signed[k + 1] = "-" /\ \A i \in 1..k : signed[i] = text[i]
      <4>1. Len(text) = k
        BY DEF k
      <4>2. k + 1 \in 1..(Len(text) + Len(minus)) /\ ~ (k + 1 <= Len(text)) /\ k + 1 - Len(text) = 1
        BY <1>2, <3>3, <4>1
      <4>3. \A i \in 1..k : i \in 1..(Len(text) + Len(minus)) /\ i <= Len(text)
        BY <1>2, <3>3, <4>1
      <4> QED
        BY <3>3, <3>4, <4>1, <4>2, <4>3
    <3>6. /\ chars \in Seq(C) /\ Len(chars) = Len(signed)
          /\ \A n \in 1..Len(signed) : chars[n] = signed[Len(signed) - n + 1]
      BY <3>4, BackwardsIs
    <3> HIDE DEF chars
    <3>7. Len(chars) = k + 1
      BY <3>5, <3>6
    <3>8. ASSUME NEW n \in 1..(k + 1) PROVE chars[n] = signed[k + 1 - n + 1]
      <4>1. n \in 1..Len(signed)
        BY <3>5
      <4>2. chars[n] = signed[Len(signed) - n + 1]
        BY <3>6, <4>1
      <4>3. Len(signed) = k + 1
        BY <3>5
      <4> QED
        BY <1>2, <4>2, <4>3
    <3>9. chars[1] = "-"
      <4>1. 1 \in 1..(k + 1) /\ k + 1 - 1 + 1 = k + 1
        BY <1>2
      <4> QED
        BY <3>5, <3>8, <4>1
    <3>10. Head(chars) = "-"
      BY <3>6, <3>9
    <3>11. /\ Tail(chars) \in Seq(C) /\ Len(Tail(chars)) = k
           /\ \A n \in 1..k : Tail(chars)[n] = chars[n + 1]
      BY <1>2, <3>6, <3>7
    <3>12. ASSUME NEW n \in 1..k PROVE Tail(chars)[n] = back[n]
      <4>1. n + 1 \in 1..(k + 1) /\ k + 1 - (n + 1) + 1 = k - n + 1 /\ k - n + 1 \in 1..k
        BY <1>2
      <4>2. chars[n + 1] = signed[k + 1 - (n + 1) + 1]
        BY <3>8, <4>1
      <4> QED
        BY <1>4, <3>5, <3>11, <4>1, <4>2
    <3>13. Tail(chars) = back
      BY <1>4, <3>11, <3>12, SeqEqual
    <3> QED
      BY <2>2, <3>1, <3>10, <3>13
  <2> QED
    BY <1>0, <2>1, <2>2
<1> HIDE DEF body
<1>7. body # <<>> /\ (Len(body) > 1 => body[1] # "0")
  <2>1. Len(<<>>) = 0
    OBVIOUS
  <2>2. Digit("0") = 0
    <3>1. digitsHex[1 + 0] = "0" /\ 0 \in 0..15
      BY DEF digitsHex
    <3> QED
      BY <3>1, DigitIs
  <2>3. 1 \in 1..k /\ k - 1 + 1 = k
    BY <1>2
  <2>4. back[1] = text[k]
    BY <1>4, <2>3
  <2> QED
    BY <1>2, <1>3, <1>4, <1>6, <2>1, <2>2, <2>4
<1>8. ValueOf(body, 10) = IF v < 0 THEN -v ELSE v
  BY <1>5, <1>6 DEF Size
<1> QED
  BY <1>6, <1>7, <1>8 DEF Reads, body

LEMMA ConvertHexReads ==
    ASSUME NEW v \in 0..MaxInt
    PROVE  /\ convertHex(v) \in Seq(DigitChars)
           /\ ValueOf(convertHex(v), 16) = v
<1>1. IsNumeral(lsdsHex[v], 16, v)
  BY LsdsHexIs
<1>2. Reverse(lsdsHex[v]) \in Seq(DigitChars)
  BY <1>1, BackwardsIs DEF IsNumeral
<1> QED
  BY <1>1, <1>2, NumeralReads DEF convertHex

-----------------------------------------------------------------------------
(* The threads and their objects.                                            *)

ThreadStates == {"none", "new", "task", "done"}

ThreadTypes ==
    /\ object \in [Threads -> [made : BOOLEAN, isRunning : BOOLEAN, isJoin : BOOLEAN]]
    /\ life \in [Threads -> ThreadStates]
    /\ tid \in [Threads -> Tids \cup {NoTid}] /\ Tid \in [Threads -> Tids \cup {NoTid}]

\* Between the calls of its owner a thread that has not been reaped belongs to an
\* object that is running and has not been joined, and only such an object has one.
ThreadOK(t) ==
    /\ ~object[t].made => life[t] = "none" /\ ~object[t].isRunning
    /\ life[t] # "none" => /\ ~object[t].isJoin
                           /\ object[t].isRunning \/ calling = <<"start", t>>
    /\ object[t].isRunning /\ ~object[t].isJoin => life[t] # "none"
    /\ calling = <<"start", t>> => object[t].made /\ life[t] # "none"
    /\ calling = <<"join", t>> => object[t].made
    /\ life[t] \in {"new", "task"} => tid[t] \in Tids
    /\ Tid[t] \in {NoTid, tid[t]}

\* The inductive invariant.
ThreadInv ==
    /\ ThreadTypes
    /\ failed = FALSE
    /\ \A t \in Threads : ThreadOK(t)

LEMMA CallsDiffer ==
    /\ \A t : <<"none">> # <<"start", t>> /\ <<"none">> # <<"join", t>>
    /\ \A t, u : /\ <<"start", t>> # <<"join", u>>
                 /\ <<"start", t>> = <<"start", u>> => t = u
                 /\ <<"join", t>> = <<"join", u>> => t = u
OBVIOUS

LEMMA NoThreadIs ==
    /\ NoThread \in [made : BOOLEAN, isRunning : BOOLEAN, isJoin : BOOLEAN]
    /\ ~NoThread.made /\ ~NoThread.isRunning /\ ~NoThread.isJoin
    /\ [NoThread EXCEPT !.made = TRUE] \in [made : BOOLEAN, isRunning : BOOLEAN, isJoin : BOOLEAN]
    /\ [NoThread EXCEPT !.made = TRUE].made
    /\ ~[NoThread EXCEPT !.made = TRUE].isRunning /\ ~[NoThread EXCEPT !.made = TRUE].isJoin
BY DEF NoThread

LEMMA ThreadInvInit == ThreadInit => ThreadInv
<1> SUFFICES ASSUME ThreadInit PROVE ThreadInv
  OBVIOUS
<1>1. ThreadTypes
  BY NoThreadIs DEF ThreadInit, ThreadTypes, ThreadStates
<1>2. ASSUME NEW t \in Threads PROVE ThreadOK(t)
  BY CallsDiffer, NoThreadIs DEF ThreadInit, ThreadOK
<1> QED
  BY <1>1, <1>2 DEF ThreadInit, ThreadInv

\* What the owner of the objects does.
LEMMA OwnerKeeps ==
    ASSUME ThreadInv, NEW t \in Threads, Owner(t)
    PROVE  ThreadInv'
<1>0. ThreadTypes /\ failed = FALSE /\ \A u \in Threads : ThreadOK(u)
  BY DEF ThreadInv
<1>1. CASE Construct(t)
  <2>1. /\ calling = <<"none">> /\ ~object[t].made
        /\ object' = [object EXCEPT ![t] = [NoThread EXCEPT !.made = TRUE]]
        /\ UNCHANGED <<calling, life, tid, Tid, failed>>
    BY <1>1 DEF Construct
  <2>2. ThreadTypes'
    BY <2>1, <1>0, NoThreadIs DEF ThreadTypes
  <2>3. ASSUME NEW u \in Threads PROVE ThreadOK(u)'
    <3>1. ThreadOK(u)
      BY <1>0
    <3>2. object'[u] = IF u = t THEN [NoThread EXCEPT !.made = TRUE] ELSE object[u]
      BY <2>1, <1>0 DEF ThreadTypes
    <3> QED
      BY <2>1, <3>1, <3>2, CallsDiffer, NoThreadIs DEF ThreadOK
  <2> QED
    BY <2>1, <2>2, <2>3, <1>0 DEF ThreadInv
<1>2. CASE Create(t)
  <2>1. /\ calling = <<"none">> /\ object[t] = [NoThread EXCEPT !.made = TRUE]
        /\ calling' = <<"start", t>>
        /\ life' = [life EXCEPT ![t] = "new"]
        /\ Tid' = [Tid EXCEPT ![t] = NoTid]
        /\ UNCHANGED <<object, failed>>
    BY <1>2 DEF Create
  <2>2. PICK k \in Tids : tid' = [tid EXCEPT ![t] = k]
    BY <1>2 DEF Create
  <2>3. ThreadTypes'
    BY <2>1, <2>2, <1>0 DEF ThreadTypes, ThreadStates
  <2>4. ASSUME NEW u \in Threads PROVE ThreadOK(u)'
    <3>1. ThreadOK(u)
      BY <1>0
    <3>2. /\ life'[u] = (IF u = t THEN "new" ELSE life[u])
          /\ tid'[u] = (IF u = t THEN k ELSE tid[u])
          /\ Tid'[u] = (IF u = t THEN NoTid ELSE Tid[u])
      BY <2>1, <2>2, <1>0 DEF ThreadTypes
    <3> QED
      BY <2>1, <3>1, <3>2, CallsDiffer, NoThreadIs DEF ThreadOK
  <2> QED
    BY <2>1, <2>3, <2>4, <1>0 DEF ThreadInv
<1>3. CASE Started(t)
  <2>1. /\ calling = <<"start", t>>
        /\ object' = [object EXCEPT ![t].isRunning = TRUE]
        /\ calling' = <<"none">>
        /\ UNCHANGED <<life, tid, Tid, failed>>
    BY <1>3 DEF Started
  <2>2. ThreadTypes'
    BY <2>1, <1>0 DEF ThreadTypes
  <2>3. ASSUME NEW u \in Threads PROVE ThreadOK(u)'
    <3>1. ThreadOK(u)
      BY <1>0
    <3>2. /\ object'[u].made = object[u].made /\ object'[u].isJoin = object[u].isJoin
          /\ object'[u].isRunning = (IF u = t THEN TRUE ELSE object[u].isRunning)
      BY <2>1, <1>0 DEF ThreadTypes
    <3> QED
      BY <2>1, <3>1, <3>2, CallsDiffer DEF ThreadOK
  <2> QED
    BY <2>1, <2>2, <2>3, <1>0 DEF ThreadInv
<1>4. CASE Join(t)
  <2>1. /\ calling = <<"none">> /\ object[t].isRunning /\ ~object[t].isJoin
        /\ calling' = <<"join", t>>
        /\ UNCHANGED <<object, life, tid, Tid, failed>>
    BY <1>4 DEF Join
  <2>2. ThreadTypes'
    BY <2>1, <1>0 DEF ThreadTypes
  <2>3. ASSUME NEW u \in Threads PROVE ThreadOK(u)'
    <3>1. ThreadOK(u)
      BY <1>0
    <3> QED
      BY <2>1, <3>1, CallsDiffer DEF ThreadOK
  <2> QED
    BY <2>1, <2>2, <2>3, <1>0 DEF ThreadInv
<1>5. CASE JoinReturns(t)
  <2>1. /\ calling = <<"join", t>> /\ life[t] = "done"
        /\ object' = [object EXCEPT ![t].isJoin = TRUE]
        /\ life' = [life EXCEPT ![t] = "none"]
        /\ calling' = <<"none">>
        /\ UNCHANGED <<tid, Tid, failed>>
    BY <1>5 DEF JoinReturns, Joined
  <2>2. ThreadTypes'
    BY <2>1, <1>0 DEF ThreadTypes, ThreadStates
  <2>3. ASSUME NEW u \in Threads PROVE ThreadOK(u)'
    <3>1. ThreadOK(u)
      BY <1>0
    <3>2. /\ object'[u].made = object[u].made /\ object'[u].isRunning = object[u].isRunning
          /\ object'[u].isJoin = (IF u = t THEN TRUE ELSE object[u].isJoin)
          /\ life'[u] = (IF u = t THEN "none" ELSE life[u])
      BY <2>1, <1>0 DEF ThreadTypes
    <3>3. CASE u = t
      <4>1. /\ object'[u].made = object[u].made /\ object'[u].isRunning = object[u].isRunning
            /\ object'[u].isJoin = TRUE /\ life'[u] = "none" /\ object[u].made
            /\ Tid'[u] = Tid[u] /\ tid'[u] = tid[u]
        BY <2>1, <3>1, <3>2, <3>3 DEF ThreadOK
      <4>2. Tid[u] \in {NoTid, tid[u]}
        BY <3>1 DEF ThreadOK
      <4>3. calling' # <<"start", u>> /\ calling' # <<"join", u>>
        BY <2>1, CallsDiffer
      <4> QED
        BY <4>1, <4>2, <4>3 DEF ThreadOK
    <3>4. CASE u # t
      <4>1. calling # <<"start", u>> /\ calling' # <<"start", u>> /\ calling' # <<"join", u>>
        BY <2>1, <3>4, CallsDiffer
      <4> QED
        BY <2>1, <3>1, <3>2, <3>4, <4>1 DEF ThreadOK
    <3> QED
      BY <3>3, <3>4
  <2> QED
    BY <2>1, <2>2, <2>3, <1>0 DEF ThreadInv
<1>6. CASE Destroy(t)
  <2>1. /\ calling = <<"none">> /\ object[t].made
        /\ life[t] \in {"none", "done"}
        /\ object' = [object EXCEPT ![t] = NoThread]
        /\ UNCHANGED <<calling, tid, Tid>>
    BY <1>6 DEF Destroy
  <2>2. ThreadOK(t)
    BY <1>0
  <2>3. /\ life' = life \/ life' = [life EXCEPT ![t] = "none"]
        /\ life'[t] = "none" /\ failed' = FALSE
    <3>1. CASE object[t].isRunning /\ ~object[t].isJoin
      <4>1. life[t] # "none"
        BY <2>2, <3>1 DEF ThreadOK
      <4> QED
        BY <1>0, <1>6, <3>1, <4>1 DEF Destroy, ThreadTypes
    <3>2. CASE ~(object[t].isRunning /\ ~object[t].isJoin)
      <4>1. life' = life /\ failed' = failed
        BY <1>6, <3>2 DEF Destroy
      <4>2. life[t] = "none"
        BY <2>1, <2>2, <3>2, CallsDiffer DEF ThreadOK
      <4> QED
        BY <1>0, <4>1, <4>2
    <3> QED
      BY <3>1, <3>2
  <2>4. ThreadTypes'
    BY <2>1, <2>3, <1>0, NoThreadIs DEF ThreadTypes, ThreadStates
  <2>5. ASSUME NEW u \in Threads PROVE ThreadOK(u)'
    <3>1. ThreadOK(u)
      BY <1>0
    <3>2. /\ object'[u] = (IF u = t THEN NoThread ELSE object[u])
          /\ life'[u] = (IF u = t THEN "none" ELSE life[u])
      BY <2>1, <2>3, <1>0 DEF ThreadTypes
    <3> QED
      BY <2>1, <3>1, <3>2, CallsDiffer, NoThreadIs DEF ThreadOK
  <2> QED
    BY <2>3, <2>4, <2>5 DEF ThreadInv
<1> QED
  BY <1>1, <1>2, <1>3, <1>4, <1>5, <1>6 DEF Owner

\* What the threads do.
LEMMA ThreadKeeps ==
    ASSUME ThreadInv, NEW t \in Threads,
           \/ RunInThread(t) \/ TaskReturns(t)
           \/ getTid(t) /\ UNCHANGED <<object, calling, life, tid, failed>>
    PROVE  ThreadInv'
<1>0. ThreadTypes /\ failed = FALSE /\ \A u \in Threads : ThreadOK(u)
  BY DEF ThreadInv
<1>1. CASE RunInThread(t)
  <2>1. /\ life[t] = "new" /\ life' = [life EXCEPT ![t] = "task"]
        /\ UNCHANGED <<object, calling, tid, Tid, failed>>
    BY <1>1 DEF RunInThread
  <2>2. ThreadTypes'
    BY <2>1, <1>0 DEF ThreadTypes, ThreadStates
  <2>3. ASSUME NEW u \in Threads PROVE ThreadOK(u)'
    <3>1. ThreadOK(u)
      BY <1>0
    <3>2. life'[u] = (IF u = t THEN "task" ELSE life[u])
      BY <2>1, <1>0 DEF ThreadTypes
    <3> QED
      BY <2>1, <3>1, <3>2 DEF ThreadOK
  <2> QED
    BY <2>1, <2>2, <2>3, <1>0 DEF ThreadInv
<1>2. CASE TaskReturns(t)
  <2>1. /\ life[t] = "task" /\ life' = [life EXCEPT ![t] = "done"]
        /\ tid' = [tid EXCEPT ![t] = NoTid] /\ Tid' = [Tid EXCEPT ![t] = NoTid]
        /\ UNCHANGED <<object, calling, failed>>
    BY <1>2 DEF TaskReturns
  <2>2. ThreadTypes'
    BY <2>1, <1>0 DEF ThreadTypes, ThreadStates
  <2>3. ASSUME NEW u \in Threads PROVE ThreadOK(u)'
    <3>1. ThreadOK(u)
      BY <1>0
    <3>2. /\ life'[u] = (IF u = t THEN "done" ELSE life[u])
          /\ tid'[u] = (IF u = t THEN NoTid ELSE tid[u])
          /\ Tid'[u] = (IF u = t THEN NoTid ELSE Tid[u])
      BY <2>1, <1>0 DEF ThreadTypes
    <3> QED
      BY <2>1, <3>1, <3>2 DEF ThreadOK
  <2> QED
    BY <2>1, <2>2, <2>3, <1>0 DEF ThreadInv
<1>3. CASE getTid(t) /\ UNCHANGED <<object, calling, life, tid, failed>>
  <2>1. Tid' \in {Tid, [Tid EXCEPT ![t] = tid[t]]}
    BY <1>3 DEF getTid
  <2>2. ThreadTypes'
    BY <2>1, <1>3, <1>0 DEF ThreadTypes
  <2>3. ASSUME NEW u \in Threads PROVE ThreadOK(u)'
    <3>1. ThreadOK(u)
      BY <1>0
    <3>2. Tid'[u] \in {NoTid, tid[u]}
      BY <2>1, <3>1, <1>0 DEF ThreadTypes, ThreadOK
    <3> QED
      BY <1>3, <3>1, <3>2 DEF ThreadOK
  <2> QED
    BY <1>3, <2>2, <2>3, <1>0 DEF ThreadInv
<1> QED
  BY <1>1, <1>2, <1>3

-----------------------------------------------------------------------------
(* What a statement inserts.                                                 *)

\* What is shown: what the items show, and the time stamp.
Texts == Seq(STRING)

Entries == [item : Written \cup {Stamp}, from : Nat, to : Nat]

Statements == [text : Texts, reach : Nat, items : Seq(Entries)]

\* Entry e is shown in text where it says.
IsShown(text, e) ==
    LET chars == TextOf(e.item)
    IN  /\ e.from \in 1..Len(text) /\ e.to = (e.from - 1) + Len(chars) /\ e.to <= Len(text)
        /\ \A j \in 1..Len(chars) : text[(e.from - 1) + j] = chars[j]

\* A statement that is within its buffer, and whose items are all there.
IsSound(s) ==
    /\ s \in Statements
    /\ Len(s.text) <= kBufferSize /\ s.reach <= kBufferSize
    /\ \A k \in 1..Len(s.items) : IsShown(s.text, s.items[k])

\* t is s with chars behind it.
Adds(s, t, chars) ==
    /\ t \in Statements /\ t.items = s.items
    /\ t.text = s.text \o chars
    /\ Len(t.text) <= kBufferSize /\ t.reach <= kBufferSize

\* One text behind another.
LEMMA TextsJoined ==
    ASSUME NEW a \in Texts, NEW b \in Texts
    PROVE  /\ a \o b \in Texts /\ Len(a \o b) = Len(a) + Len(b)
           /\ Len(a) \in Nat /\ Len(b) \in Nat
           /\ \A j \in 1..Len(a) : (a \o b)[j] = a[j]
           /\ \A j \in 1..Len(b) : (a \o b)[Len(a) + j] = b[j]
<1>1. a \o b \in Texts /\ Len(a \o b) = Len(a) + Len(b) /\ Len(a) \in Nat /\ Len(b) \in Nat
  BY DEF Texts
<1>2. \A j \in 1..Len(a) : (a \o b)[j] = a[j]
  BY DEF Texts
<1>3. \A j \in 1..Len(b) : (a \o b)[Len(a) + j] = b[j]
  BY DEF Texts
<1> QED
  BY <1>1, <1>2, <1>3

LEMMA StampIs ==
    /\ Stamp.kind = "text" /\ Stamp.value = <<Time>> /\ TextOf(Stamp) = <<Time>>
    /\ <<Time>> \in Texts
BY LoggerAssumption DEF Stamp, TextOf, Texts

LEMMA TextOfIs ==
    ASSUME NEW item \in Written \cup {Stamp}
    PROVE  /\ TextOf(item) \in Texts
           /\ item.kind \notin {"text", "null"} => Len(TextOf(item)) < kMaxNumericSize
           /\ item \in Written => \A j \in 1..Len(TextOf(item)) : TextOf(item)[j] # Time
<1>1. CASE item \notin Written
  BY <1>1, StampIs
<1>2. CASE item \in Written
  <2>1. /\ TextOf(item) \in Seq(STRING \ {Time})
        /\ item.kind \notin {"text", "null"} => Len(TextOf(item)) < kMaxNumericSize
    BY <1>2, LoggerAssumption
  <2> HIDE DEF TextOf
  <2>2. TextOf(item) \in Texts
    BY <2>1 DEF Texts
  <2>3. \A j \in 1..Len(TextOf(item)) : TextOf(item)[j] \in STRING \ {Time}
    BY <2>1
  <2> QED
    BY <2>1, <2>2, <2>3
<1> QED
  BY <1>1, <1>2

\* append adds all of the characters or none.
LEMMA PutAdds ==
    ASSUME NEW s \in Statements, s.reach <= kBufferSize, NEW chars \in Texts
    PROVE  \/ Put(s, chars) = s /\ Len(s.text) + Len(chars) > kBufferSize
           \/ Adds(s, Put(s, chars), chars) /\ Len(s.text) + Len(chars) <= kBufferSize
<1>0. /\ s.text \in Texts /\ Len(s.text) \in Nat /\ s.reach \in Nat /\ Len(chars) \in Nat
      /\ kBufferSize \in Nat
  BY LogStreamAssumption DEF Statements, Texts
<1>1. CASE avail(s) >= Len(chars)
  <2> DEFINE end == Len(s.text) + Len(chars)
             t == Put(s, chars)
  <2>1. end \in Nat /\ end <= kBufferSize
    BY <1>0, <1>1 DEF avail
  <2>2. s.text \o chars \in Texts /\ Len(s.text \o chars) = end
    BY <1>0 DEF Texts
  <2>3. t = [s EXCEPT !.text = @ \o chars, !.reach = IF @ < end THEN end ELSE @]
    BY <1>1 DEF Put
  <2> HIDE DEF end, t
  <2>4. /\ t \in Statements /\ t.items = s.items /\ t.text = s.text \o chars
        /\ t.reach \in {end, s.reach}
    BY <1>0, <2>1, <2>2, <2>3 DEF Statements
  <2> QED
    BY <1>0, <2>1, <2>2, <2>4 DEF Adds, end, t
<1>2. CASE ~(avail(s) >= Len(chars))
  BY <1>0, <1>2 DEF Put, avail
<1> QED
  BY <1>1, <1>2

LEMMA FormatAdds ==
    ASSUME NEW s \in Statements, NEW chars \in Texts, Len(chars) < kMaxNumericSize
    PROVE  Format(s, chars) = s \/ Adds(s, Format(s, chars), chars)
<1>0. /\ s.text \in Texts /\ Len(s.text) \in Nat /\ Len(chars) \in Nat
      /\ kBufferSize \in Nat /\ kMaxNumericSize \in Nat
  BY LogStreamAssumption DEF Statements, Texts
<1>1. CASE NumberFits(s)
  <2> DEFINE end == Len(s.text) + Len(chars)
             t == Format(s, chars)
  <2>1. end \in Nat /\ end + 1 <= kBufferSize
    BY <1>0, <1>1 DEF avail, NumberFits
  <2>2. s.text \o chars \in Texts /\ Len(s.text \o chars) = end
    BY <1>0 DEF Texts
  <2>3. t = [s EXCEPT !.text = @ \o chars, !.reach = end + 1] /\ end + 1 \in Nat
    BY <1>1, <2>1 DEF Format
  <2> HIDE DEF t
  <2> DEFINE more == end + 1
  <2> HIDE DEF more
  <2>4. /\ t \in Statements /\ t.items = s.items /\ t.text = s.text \o chars
        /\ t.reach = end + 1
    <3>1. t = [s EXCEPT !.text = @ \o chars, !.reach = more] /\ more \in Nat
      BY <2>3 DEF more
    <3> HIDE DEF end
    <3>2. /\ t \in Statements /\ t.items = s.items /\ t.text = s.text \o chars
          /\ t.reach = more
      BY <2>2, <3>1 DEF Statements
    <3> QED
      BY <3>2 DEF more, end
  <2>5. Len(t.text) <= kBufferSize /\ t.reach <= kBufferSize
    BY <1>0, <2>1, <2>2, <2>4
  <2> QED
    BY <2>4, <2>5 DEF Adds, t
<1>2. CASE ~NumberFits(s)
  BY <1>2 DEF Format
<1> QED
  BY <1>1, <1>2

\* What is in the text stays there.
LEMMA ShownStays ==
    ASSUME NEW text \in Texts, NEW chars \in Texts, NEW e \in Entries, IsShown(text, e)
    PROVE  IsShown(text \o chars, e)
<1> DEFINE c == TextOf(e.item)
           new == text \o chars
<1>1. c \in Texts
  BY TextOfIs DEF Entries
<1>2. /\ e.from \in 1..Len(text) /\ e.to = (e.from - 1) + Len(c) /\ e.to <= Len(text)
      /\ \A j \in 1..Len(c) : text[(e.from - 1) + j] = c[j]
  BY DEF IsShown
<1> HIDE DEF c
<1>3. /\ Len(new) = Len(text) + Len(chars) /\ Len(text) \in Nat /\ Len(chars) \in Nat
      /\ \A i \in 1..Len(text) : new[i] = text[i]
  BY DEF Texts
<1> HIDE DEF new
<1>4. ASSUME NEW j \in 1..Len(c) PROVE new[(e.from - 1) + j] = c[j]
  <2>1. Len(c) \in Nat
    BY <1>1 DEF Texts
  <2>2. (e.from - 1) + j \in 1..Len(text)
    BY <1>2, <1>3, <2>1
  <2> QED
    BY <1>2, <1>3, <2>2
<1>5. e.from \in 1..Len(new) /\ e.to <= Len(new)
  <2>1. Len(c) \in Nat
    BY <1>1 DEF Texts
  <2> QED
    BY <1>2, <1>3, <2>1
<1> QED
  BY <1>2, <1>4, <1>5 DEF IsShown, c, new

\* An item goes in whole, or not at all.
\* An item that changes the text is recorded.
LEMMA InsertRecords ==
    ASSUME NEW s, NEW item
    PROVE  LET t == Shown(s, item)
               e == [item |-> item, from |-> Len(s.text) + 1, to |-> Len(t.text)]
           IN  /\ t.text = s.text => Insert(s, item) = s
               /\ t.text # s.text => Insert(s, item) = [t EXCEPT !.items = Append(t.items, e)]
<1> DEFINE t == Shown(s, item)
           more == Append(t.items, [item |-> item, from |-> Len(s.text) + 1, to |-> Len(t.text)])
           new == [t EXCEPT !.items = more]
<1>1. Insert(s, item) = IF t.text = s.text THEN s ELSE new
  BY DEF Insert
<1> HIDE DEF new
<1>2. /\ t.text = s.text => Insert(s, item) = s
      /\ t.text # s.text => Insert(s, item) = new
  <2> HIDE DEF t
  <2> QED
    BY <1>1
<1> QED
  BY <1>2 DEF new

LEMMA InsertIs ==
    ASSUME NEW s, IsSound(s), NEW item \in Written \cup {Stamp}
    PROVE  /\ IsSound(Insert(s, item))
           /\ \/ Insert(s, item) = s
              \/ Insert(s, item).text = s.text \o TextOf(item)
<1> DEFINE chars == TextOf(item)
           t == Shown(s, item)
           from == Len(s.text) + 1
           e == [item |-> item, from |-> Len(s.text) + 1, to |-> Len(t.text)]
<1>0. s \in Statements /\ s.text \in Texts /\ Len(s.text) \in Nat /\ chars \in Texts
  BY TextOfIs DEF IsSound, Statements, Texts
<1>1. t = s \/ Adds(s, t, chars)
  <2>1. CASE item.kind \in {"text", "null"}
    <3>1. t = Put(s, chars)
      BY <2>1 DEF Shown
    <3>2. s.reach <= kBufferSize
      BY DEF IsSound
    <3> HIDE DEF t, chars
    <3> QED
      BY <1>0, <3>1, <3>2, PutAdds
  <2>2. CASE item.kind \notin {"text", "null"}
    <3>1. t = Format(s, chars) /\ Len(chars) < kMaxNumericSize
      BY <2>2, TextOfIs DEF Shown
    <3> HIDE DEF t, chars
    <3> QED
      BY <1>0, <3>1, FormatAdds, Zenon
  <2> QED
    BY <2>1, <2>2, Zenon
<1>2. CASE t.text = s.text
  <2>1. Insert(s, item) = s
    BY <1>2, InsertRecords, Zenon
  <2> QED
    BY <2>1, Zenon
<1>3. CASE t.text # s.text
  <2> DEFINE new == Insert(s, item)
  <2>1. Adds(s, t, chars)
    BY <1>1, <1>3
  <2>2. new = [t EXCEPT !.items = Append(t.items, e)]
    BY <1>3, InsertRecords, Zenon
  <2> HIDE DEF chars, t, new
  <2>3. /\ t \in Statements /\ t.items = s.items /\ t.text = s.text \o chars
        /\ Len(t.text) <= kBufferSize /\ t.reach <= kBufferSize
    BY <2>1 DEF Adds
  <2>4. t.text \in Texts /\ Len(t.text) = Len(s.text) + Len(chars) /\ Len(chars) \in Nat
    BY <1>0, <2>3 DEF Texts
  <2>5. e \in Entries /\ e.item = item /\ e.from = Len(s.text) + 1 /\ e.to = Len(s.text) + Len(chars)
    BY <1>0, <2>4 DEF Entries
  <2>6. Len(chars) > 0
    BY <1>0, <1>3, <2>3, <2>4 DEF Texts
  <2> HIDE DEF e
  <2>7. s.items \in Seq(Entries) /\ Append(s.items, e) \in Seq(Entries)
    BY <1>0, <2>5 DEF Statements
  <2>8. /\ new \in Statements /\ new.text = t.text /\ new.reach = t.reach
        /\ new.items = Append(s.items, e)
    <3> DEFINE more == Append(s.items, e)
    <3>1. new = [t EXCEPT !.items = more] /\ more \in Seq(Entries)
      BY <2>2, <2>3, <2>7
    <3> HIDE DEF more
    <3>2. new \in Statements /\ new.text = t.text /\ new.reach = t.reach /\ new.items = more
      BY <2>3, <3>1 DEF Statements
    <3> QED
      BY <3>2 DEF more
  <2>9. IsShown(t.text, e)
    <3>1. ASSUME NEW j \in 1..Len(chars) PROVE t.text[(e.from - 1) + j] = chars[j]
      <4>1. (s.text \o chars)[Len(s.text) + j] = chars[j]
        BY <1>0 DEF Texts
      <4>2. (e.from - 1) + j = Len(s.text) + j
        BY <1>0, <2>4, <2>5
      <4> QED
        BY <2>3, <4>1, <4>2
    <3>2. /\ e.from \in 1..Len(t.text) /\ e.to = (e.from - 1) + Len(chars)
          /\ e.to <= Len(t.text)
      BY <1>0, <2>4, <2>5, <2>6
    <3> QED
      BY <3>1, <3>2, <2>5 DEF IsShown, chars
  <2>10. ASSUME NEW k \in 1..Len(new.items) PROVE IsShown(new.text, new.items[k])
    <3>1. CASE k = Len(s.items) + 1
      <4>1. new.items[k] = e
        BY <2>7, <2>8, <3>1
      <4> QED
        BY <2>8, <2>9, <4>1
    <3>2. CASE k # Len(s.items) + 1
      <4>1. k \in 1..Len(s.items) /\ new.items[k] = s.items[k] /\ s.items[k] \in Entries
        BY <2>7, <2>8, <3>2
      <4>2. IsShown(s.text, s.items[k])
        BY <4>1 DEF IsSound
      <4> QED
        BY <1>0, <2>3, <2>8, <4>1, <4>2, ShownStays
    <3> QED
      BY <3>1, <3>2
  <2>11. IsSound(new)
    BY <2>3, <2>8, <2>10 DEF IsSound
  <2> QED
    BY <2>3, <2>8, <2>11 DEF new, chars
<1> QED
  BY <1>2, <1>3

\* The text begins with a time stamp, the only one, and the id of its thread.
Begins(text, id) ==
    /\ 2 <= Len(text) /\ text[1] = Time /\ text[2] = id
    /\ \A j \in 2..Len(text) : text[j] # Time

LEMMA InsertFits ==
    ASSUME NEW s, IsSound(s), NEW item \in Written \cup {Stamp}, item.kind = "text",
           Len(s.text) + Len(TextOf(item)) <= kBufferSize
    PROVE  Insert(s, item).text = s.text \o TextOf(item)
<1> DEFINE chars == TextOf(item)
           t == Shown(s, item)
<1>1. s \in Statements /\ s.reach <= kBufferSize /\ chars \in Texts /\ s.text \in Texts
  BY TextOfIs DEF IsSound, Statements
<1>2. t = Put(s, chars)
  BY DEF Shown
<1>3. Len(s.text) + Len(chars) <= kBufferSize
  OBVIOUS
<1>4. Insert(s, item).text = t.text
  <2>1. CASE t.text = s.text
    <3>1. Insert(s, item) = s
      BY <2>1, InsertRecords, Zenon
    <3> QED
      BY <2>1, <3>1, Zenon
  <2>2. CASE t.text # s.text
    <3> DEFINE more == Append(t.items, [item |-> item, from |-> Len(s.text) + 1,
                                        to |-> Len(t.text)])
    <3>1. Insert(s, item) = [t EXCEPT !.items = more]
      BY <2>2, InsertRecords, Zenon
    <3>2. t \in Statements
      BY <1>1, <1>2, <1>3, PutAdds DEF Adds
    <3> HIDE DEF t, more
    <3> QED
      BY <3>1, <3>2 DEF Statements
  <2> QED
    BY <2>1, <2>2, Zenon
<1> HIDE DEF t, chars
<1>5. Len(s.text) + Len(chars) \in Nat /\ kBufferSize \in Nat
  BY <1>1, LogStreamAssumption DEF Texts
<1>6. Adds(s, Put(s, chars), chars)
  BY <1>1, <1>3, <1>5, PutAdds
<1> QED
  BY <1>2, <1>4, <1>6 DEF Adds, chars

LEMMA InsertBegins ==
    ASSUME NEW s, IsSound(s), NEW item \in Written, NEW id, Begins(s.text, id)
    PROVE  IsSound(Insert(s, item)) /\ Begins(Insert(s, item).text, id)
<1> DEFINE chars == TextOf(item)
           new == Insert(s, item)
<1>1. IsSound(new) /\ (new = s \/ new.text = s.text \o chars)
  BY InsertIs
<1>2. chars \in Texts /\ s.text \in Texts /\ \A j \in 1..Len(chars) : chars[j] # Time
  BY TextOfIs DEF IsSound, Statements
<1> HIDE DEF chars, new
<1>3. CASE new.text = s.text \o chars
  <2>1. /\ Len(new.text) = Len(s.text) + Len(chars) /\ Len(s.text) \in Nat /\ Len(chars) \in Nat
        /\ \A j \in 1..Len(s.text) : new.text[j] = s.text[j]
        /\ \A j \in 1..Len(chars) : new.text[Len(s.text) + j] = chars[j]
    <3> DEFINE both == s.text \o chars
    <3>1. /\ Len(both) = Len(s.text) + Len(chars) /\ Len(s.text) \in Nat /\ Len(chars) \in Nat
          /\ \A j \in 1..Len(s.text) : both[j] = s.text[j]
          /\ \A j \in 1..Len(chars) : both[Len(s.text) + j] = chars[j]
      BY <1>2, TextsJoined
    <3>2. new.text = both
      BY <1>3
    <3> HIDE DEF both
    <3> QED
      BY <3>1, <3>2
  <2>2. ASSUME NEW j \in 2..Len(new.text) PROVE new.text[j] # Time
    <3>1. CASE j <= Len(s.text)
      <4>1. j \in 2..Len(s.text) /\ j \in 1..Len(s.text)
        BY <2>1, <3>1
      <4>2. s.text[j] # Time
        BY <4>1 DEF Begins
      <4> QED
        BY <2>1, <4>1, <4>2
    <3>2. CASE j > Len(s.text)
      <4>1. PICK d \in 1..Len(chars) : j = Len(s.text) + d
        <5> DEFINE d == j - Len(s.text)
        <5>1. d \in 1..Len(chars) /\ j = Len(s.text) + d
          BY <2>1, <3>2
        <5> QED
          BY <5>1
      <4> QED
        BY <1>2, <2>1, <4>1
    <3> QED
      BY <2>1, <3>1, <3>2
  <2>3. 2 <= Len(s.text) /\ s.text[1] = Time /\ s.text[2] = id
    BY DEF Begins
  <2>4. 2 <= Len(new.text) /\ new.text[1] = Time /\ new.text[2] = id
    BY <2>1, <2>3
  <2>5. Begins(new.text, id)
    BY <2>2, <2>4 DEF Begins
  <2> QED
    BY <1>1, <2>5 DEF new
<1> QED
  BY <1>1, <1>3 DEF new

LEMMA HeaderIs ==
    ASSUME NEW id \in Tids, NEW site \in Sites
    PROVE  /\ \A k \in 1..5 : Header(id, site)[k] \in Written
           /\ Header(id, site)[1].kind = "text" /\ TextOf(Header(id, site)[1]) = <<id>>
<1>1. Header(id, site)[1] = [kind |-> "text", value |-> <<id>>]
  BY DEF Header
<1>2. DOMAIN Header(id, site) = 1..5
  BY DEF Header
<1>3. ASSUME NEW k \in 1..5 PROVE Header(id, site)[k] \in Written
  <2>1. Header(id, site)[k] \in Range(Header(id, site))
    BY <1>2 DEF Range
  <2> HIDE DEF Header
  <2> QED
    BY <2>1 DEF Written
<1> QED
  BY <1>1, <1>3 DEF TextOf

\* The constructor.
LEMMA OpenedIs ==
    ASSUME NEW id \in Tids, NEW site \in Sites
    PROVE  IsSound(Opened(id, site)) /\ Begins(Opened(id, site).text, id)
<1> DEFINE h == Header(id, site)
           s1 == Insert(Empty, Stamp)
           s2 == Insert(s1, h[1])
           s3 == Insert(s2, h[2])
           s4 == Insert(s3, h[3])
           s5 == Insert(s4, h[4])
<1>1. Opened(id, site) = Insert(s5, h[5])
  BY DEF Opened
<1>2. (\A k \in 1..5 : h[k] \in Written) /\ h[1].kind = "text" /\ TextOf(h[1]) = <<id>>
  BY HeaderIs
<1> HIDE DEF h
<1>3. id \in STRING /\ Time \in STRING /\ kBufferSize \in Nat /\ kBufferSize >= 2
  BY LoggerAssumption, LogStreamAssumption
<1>4. id # Time
  <2>0. h[1] \in Written
    BY <1>2
  <2>1. TextOf(h[1]) \in Seq(STRING \ {Time})
    BY <2>0, LoggerAssumption
  <2>2. <<id>> \in Seq(STRING \ {Time})
    BY <1>2, <2>1
  <2>3. \A k \in 1..Len(<<id>>) : <<id>>[k] \in STRING \ {Time}
    BY <2>2
  <2> QED
    BY <2>3
<1>5. IsSound(Empty) /\ Empty.text = <<>> /\ Len(<<>>) = 0
  <2>1. Len(<<>>) = 0
    OBVIOUS
  <2> QED
    BY <1>3, <2>1 DEF IsSound, Empty, Statements, Texts
<1>6. IsSound(s1) /\ s1.text = <<Time>>
  <2>1. IsSound(s1)
    BY <1>5, InsertIs
  <2>2. Len(Empty.text) + Len(TextOf(Stamp)) <= kBufferSize
    BY <1>3, <1>5, StampIs
  <2>3. s1.text = <<>> \o <<Time>>
    BY <1>5, <2>2, StampIs, InsertFits
  <2>4. <<>> \o <<Time>> = <<Time>>
    OBVIOUS
  <2> QED
    BY <2>1, <2>3, <2>4
<1> HIDE DEF s1
<1>7. IsSound(s2) /\ s2.text = <<Time>> \o <<id>>
  <2>0. h[1] \in Written \cup {Stamp} /\ h[1].kind = "text"
    BY <1>2
  <2>1. IsSound(s2)
    BY <2>0, <1>6, InsertIs
  <2>2. Len(s1.text) + Len(TextOf(h[1])) <= kBufferSize
    BY <1>2, <1>3, <1>6
  <2>3. s2.text = <<Time>> \o <<id>>
    <3>1. s2.text = s1.text \o TextOf(h[1])
      BY <2>0, <1>6, <2>2, InsertFits
    <3> QED
      BY <1>2, <1>6, <3>1
  <2> QED
    BY <2>1, <2>3
<1> HIDE DEF s2
<1>8. Begins(s2.text, id)
  <2>1. <<Time>> \in Texts /\ <<id>> \in Texts
    <3>1. h[1] \in Written \cup {Stamp}
      BY <1>2
    <3> QED
      BY <1>2, <3>1, TextOfIs, StampIs
  <2>2. Len(s2.text) = 2 /\ s2.text[1] = Time /\ s2.text[2] = id
    BY <1>7, <2>1 DEF Texts
  <2> QED
    BY <1>4, <2>2 DEF Begins
<1>0. h[2] \in Written /\ h[3] \in Written /\ h[4] \in Written /\ h[5] \in Written
  BY <1>2
<1>9. IsSound(s3) /\ Begins(s3.text, id)
  BY <1>0, <1>7, <1>8, InsertBegins
<1> HIDE DEF s3
<1>10. IsSound(s4) /\ Begins(s4.text, id)
  BY <1>0, <1>9, InsertBegins
<1> HIDE DEF s4
<1>11. IsSound(s5) /\ Begins(s5.text, id)
  BY <1>0, <1>10, InsertBegins
<1> HIDE DEF s5
<1> QED
  BY <1>0, <1>1, <1>11, InsertBegins

\* The destructor: the line is as long as the buffer, or there is room for its end.
LEMMA FinishedIs ==
    ASSUME NEW s, IsSound(s), NEW id, Begins(s.text, id)
    PROVE  /\ Finished(s).text \in Texts /\ Begins(Finished(s).text, id)
           /\ \/ Finished(s).text[Len(Finished(s).text)] = Newline
              \/ Len(Finished(s).text) = kBufferSize
<1> DEFINE new == Finished(s)
           chars == <<Newline>>
<1>1. /\ s \in Statements /\ s.text \in Texts /\ s.reach <= kBufferSize
      /\ Len(s.text) <= kBufferSize /\ Len(s.text) \in Nat /\ kBufferSize \in Nat
  BY LogStreamAssumption DEF IsSound, Statements, Texts
<1>2. chars \in Texts /\ Len(chars) = 1 /\ chars[1] = Newline /\ Newline # Time
  BY LoggerAssumption DEF Texts
<1>3. new = Put(s, chars)
  BY DEF Finished
<1> HIDE DEF new, chars
<1>4. \/ new = s /\ Len(s.text) + Len(chars) > kBufferSize
      \/ Adds(s, new, chars)
  BY <1>1, <1>2, <1>3, PutAdds
<1>5. CASE new = s /\ Len(s.text) + Len(chars) > kBufferSize
  <2>1. Len(s.text) = kBufferSize
    BY <1>1, <1>2, <1>5
  <2> QED
    BY <1>1, <1>5, <2>1 DEF new
<1>6. CASE Adds(s, new, chars)
  <2>1. new.text = s.text \o chars
    BY <1>6 DEF Adds
  <2>2. /\ new.text \in Texts /\ Len(new.text) = Len(s.text) + 1
        /\ \A j \in 1..Len(s.text) : new.text[j] = s.text[j]
        /\ new.text[Len(s.text) + 1] = Newline
    <3> DEFINE old == s.text
    <3>1. old \in Texts /\ chars \in Texts /\ new.text = old \o chars /\ Len(chars) = 1
      BY <1>1, <1>2, <2>1
    <3> HIDE DEF old
    <3>2. /\ old \o chars \in Texts /\ Len(old \o chars) = Len(old) + Len(chars)
          /\ Len(old) \in Nat
          /\ \A j \in 1..Len(old) : (old \o chars)[j] = old[j]
          /\ \A j \in 1..Len(chars) : (old \o chars)[Len(old) + j] = chars[j]
      BY <3>1, TextsJoined
    <3> QED
      BY <1>2, <3>1, <3>2 DEF old
  <2>3. 2 <= Len(s.text) /\ s.text[1] = Time /\ s.text[2] = id
    BY DEF Begins
  <2>4. 2 <= Len(new.text) /\ new.text[1] = Time /\ new.text[2] = id
    BY <1>1, <2>2, <2>3
  <2>5. ASSUME NEW j \in 2..Len(new.text) PROVE new.text[j] # Time
    <3>1. CASE j <= Len(s.text)
      BY <1>1, <2>2, <3>1 DEF Begins
    <3>2. CASE j > Len(s.text)
      <4>1. j = Len(s.text) + 1
        BY <1>1, <2>2, <3>2
      <4> QED
        BY <1>2, <2>2, <4>1
    <3> QED
      BY <1>1, <2>2, <3>1, <3>2
  <2>6. Begins(new.text, id)
    BY <2>4, <2>5 DEF Begins
  <2> QED
    BY <2>2, <2>6 DEF new
<1> QED
  BY <1>4, <1>5, <1>6

-----------------------------------------------------------------------------
(* What a reader makes of the items.                                         *)

\* A part of a text is what it holds.
LEMMA PartIs ==
    ASSUME NEW C, NEW text \in Seq(C), NEW chars \in Seq(C), NEW m \in Nat, NEW n \in Nat,
           m + Len(chars) <= Len(text), n = m + Len(chars),
           \A j \in 1..Len(chars) : text[m + j] = chars[j]
    PROVE  SubSeq(text, m + 1, n) = chars
<1> DEFINE k == Len(chars)
           part == SubSeq(text, m + 1, n)
<1>0. k \in Nat /\ Len(text) \in Nat /\ m + k <= Len(text) /\ n = m + k
      /\ m + 1 \in Int /\ n \in Int
  OBVIOUS
<1>1. \A j \in 1..k : text[m + j] = chars[j]
  OBVIOUS
<1>2. \A i \in 1..Len(text) : text[i] \in C
  OBVIOUS
<1> HIDE DEF k
<1>3. \A i \in (m + 1)..n : text[i] \in C
  BY <1>0, <1>2
<1>4. /\ part \in Seq(C)
      /\ Len(part) = IF m + 1 <= n THEN n - (m + 1) + 1 ELSE 0
      /\ \A i \in 1..(n - (m + 1) + 1) : part[i] = text[m + 1 + i - 1]
  BY <1>0, <1>3, SubSeqProperties
<1> HIDE DEF part
<1>5. Len(part) = k
  BY <1>0, <1>4
<1>6. ASSUME NEW i \in 1..k PROVE part[i] = chars[i]
  <2>1. i \in 1..(n - (m + 1) + 1) /\ m + 1 + i - 1 = m + i
    BY <1>0
  <2> QED
    BY <1>1, <1>4, <2>1
<1>7. part = chars
  BY <1>4, <1>5, <1>6, SeqEqual DEF k
<1> QED
  BY <1>7 DEF part

\* "0x" and the digits behind it.
LEMMA PointerIs ==
    ASSUME NEW v \in 0..MaxInt
    PROVE  LET chars == <<"0", "x">> \o convertHex(v)
           IN  /\ SubSeq(chars, 1, 2) = <<"0", "x">>
               /\ ValueOf(SubSeq(chars, 3, Len(chars)), 16) = v
<1> DEFINE C == DigitChars \cup {"0", "x"}
           zero == <<"0", "x">>
           hex == convertHex(v)
           chars == zero \o hex
<1>1. hex \in Seq(DigitChars) /\ ValueOf(hex, 16) = v
  BY ConvertHexReads
<1> HIDE DEF hex
<1>2. hex \in Seq(C) /\ zero \in Seq(C) /\ Len(zero) = 2
  BY <1>1
<1> HIDE DEF C, zero
<1>3. /\ chars \in Seq(C)
      /\ Len(chars) = Len(zero) + Len(hex)
      /\ \A i \in 1..(Len(zero) + Len(hex)) :
            chars[i] = IF i <= Len(zero) THEN zero[i] ELSE hex[i - Len(zero)]
  BY <1>2, ConcatProperties, Zenon
<1>4. Len(hex) \in Nat
  BY <1>2
<1> HIDE DEF chars
<1>5. SubSeq(chars, 0 + 1, 2) = zero
  <2>1. ASSUME NEW j \in 1..Len(zero) PROVE chars[0 + j] = zero[j]
    <3>1. 0 + j \in 1..(Len(zero) + Len(hex)) /\ 0 + j <= Len(zero) /\ 0 + j = j
      BY <1>2, <1>4
    <3> QED
      BY <1>3, <3>1
  <2>2. 0 + Len(zero) <= Len(chars) /\ 2 = 0 + Len(zero)
    BY <1>2, <1>3, <1>4
  <2> QED
    BY <1>2, <1>3, <2>1, <2>2, PartIs
<1>6. SubSeq(chars, 2 + 1, Len(chars)) = hex
  <2>1. ASSUME NEW j \in 1..Len(hex) PROVE chars[2 + j] = hex[j]
    <3>1. 2 + j \in 1..(Len(zero) + Len(hex)) /\ ~ (2 + j <= Len(zero)) /\ 2 + j - Len(zero) = j
      BY <1>2, <1>4
    <3> QED
      BY <1>3, <3>1
  <2>2. 2 + Len(hex) <= Len(chars) /\ Len(chars) = 2 + Len(hex) /\ Len(chars) \in Nat
    BY <1>2, <1>3, <1>4
  <2> QED
    BY <1>2, <1>3, <2>1, <2>2, PartIs
<1>7. 0 + 1 = 1 /\ 2 + 1 = 3
  OBVIOUS
<1>8. SubSeq(chars, 1, 2) = zero /\ SubSeq(chars, 3, Len(chars)) = hex
  BY <1>5, <1>6, <1>7
<1> QED
  BY <1>1, <1>8 DEF chars, zero, hex

\* What is all there is legible.
LEMMA SoundIsLegible ==
    ASSUME NEW s, IsSound(s)
    PROVE  Legible(s)
<1> SUFFICES ASSUME NEW k \in DOMAIN s.items
             PROVE  LET e == s.items[k]
                        chars == SubSeq(s.text, e.from, e.to)
                    IN  CASE e.item.kind = "int"     -> Reads(chars, e.item.value)
                          [] e.item.kind = "pointer" ->
                                 /\ SubSeq(chars, 1, 2) = <<"0", "x">>
                                 /\ ValueOf(SubSeq(chars, 3, Len(chars)), 16) = e.item.value
                          [] e.item.kind = "null"    -> TRUE
                          [] OTHER                   -> chars = e.item.value
  BY DEF Legible
<1> DEFINE e == s.items[k]
           text == s.text
           chars == SubSeq(text, e.from, e.to)
           c == TextOf(e.item)
<1>1. s \in Statements /\ text \in Texts /\ s.items \in Seq(Entries)
  BY DEF IsSound, Statements
<1>2. k \in 1..Len(s.items) /\ e \in Entries
  BY <1>1
<1>3. IsShown(text, e)
  BY <1>2 DEF IsSound
<1> HIDE DEF e, text
<1>4. e.item \in Written \cup {Stamp} /\ c \in Texts
  BY <1>2, TextOfIs DEF Entries
<1>5. /\ e.from \in 1..Len(text) /\ e.to = (e.from - 1) + Len(c) /\ e.to <= Len(text)
      /\ \A j \in 1..Len(c) : text[(e.from - 1) + j] = c[j]
  BY <1>3 DEF IsShown
<1> HIDE DEF c
<1>6. chars = c
  <2> DEFINE m == e.from - 1
             n == e.to
  <2>1. text \in Seq(STRING) /\ c \in Seq(STRING) /\ Len(text) \in Nat /\ Len(c) \in Nat
    BY <1>1, <1>4 DEF Texts
  <2>2. /\ m \in Nat /\ n \in Nat /\ m + Len(c) <= Len(text) /\ n = m + Len(c)
        /\ e.from = m + 1
    BY <1>5, <2>1
  <2>3. \A j \in 1..Len(c) : text[m + j] = c[j]
    BY <1>5
  <2> HIDE DEF m, n
  <2>4. SubSeq(text, m + 1, n) = c
    BY <2>1, <2>2, <2>3, PartIs
  <2> QED
    BY <2>2, <2>4 DEF n
<1> HIDE DEF chars
<1>7. CASE e.item.kind = "int"
  <2>1. e.item.value \in Ints
    BY <1>4, <1>7, StampIs, LoggerAssumption
  <2>2. c = convert(e.item.value)
    BY <1>7 DEF c, TextOf
  <2>3. Reads(chars, e.item.value)
    BY <1>6, <2>1, <2>2, ConvertReads
  <2> QED
    BY <1>7, <2>3 DEF chars, e, text
<1>8. CASE e.item.kind = "pointer"
  <2>1. e.item.value \in 0..MaxInt
    BY <1>4, <1>8, StampIs, LoggerAssumption
  <2>2. c = <<"0", "x">> \o convertHex(e.item.value)
    BY <1>8 DEF c, TextOf
  <2>3. /\ SubSeq(c, 1, 2) = <<"0", "x">>
        /\ ValueOf(SubSeq(c, 3, Len(c)), 16) = e.item.value
    BY <2>1, <2>2, PointerIs
  <2> QED
    BY <1>6, <1>8, <2>3 DEF chars, e, text
<1>9. CASE e.item.kind \notin {"int", "pointer"}
  <2>1. e.item.kind # "null" => c = e.item.value
    BY <1>9 DEF c, TextOf
  <2> QED
    BY <1>6, <1>9, <2>1 DEF chars, e, text
<1> QED
  BY <1>7, <1>8, <1>9

-----------------------------------------------------------------------------
(* What has been written out.                                                *)

\* Where the lines of out begin, whose stdout it is.
StartsIn(out) == {i \in DOMAIN out : out[i] = Time}

\* What is before position i: the end of a line, or a line that fills its buffer.
Separate(out, i) ==
    \/ i = 1
    \/ out[i - 1] = Newline
    \/ i - kBufferSize \in StartsIn(out)
       /\ \A j \in StartsIn(out) : j >= i \/ j <= i - kBufferSize

Owned(out, by) ==
    /\ Cardinality(StartsIn(out)) = Len(by)
    /\ \A i \in StartsIn(out) : out[i + 1] = by[Cardinality({j \in StartsIn(out) : j <= i})]

\* The lines of out are by these threads; another can be put behind them.
OutOK(out, by) ==
    /\ out \in Texts /\ by \in Seq(Tids)
    /\ StartsIn(out) \subseteq 1..(Len(out) - 1)
    /\ Owned(out, by)
    /\ \A i \in StartsIn(out) \cup {Len(out) + 1} : Separate(out, i)

LEMMA NothingOut == OutOK(<<>>, <<>>)
<1>1. /\ <<>> \in Texts /\ <<>> \in Seq(Tids) /\ Len(<<>>) = 0 /\ StartsIn(<<>>) = {}
      /\ Cardinality({}) = 0
  BY FS_EmptySet DEF Texts, StartsIn
<1>2. Owned(<<>>, <<>>)
  BY <1>1 DEF Owned
<1>3. \A i \in StartsIn(<<>>) \cup {Len(<<>>) + 1} : i = 1
  BY <1>1
<1> HIDE DEF StartsIn
<1> QED
  BY <1>1, <1>2, <1>3 DEF OutOK, Separate

\* A line goes out.
LEMMA LineGoesOut ==
    ASSUME NEW out, NEW by, OutOK(out, by),
           NEW id \in Tids, NEW line \in Texts, Begins(line, id),
           line[Len(line)] = Newline \/ Len(line) = kBufferSize
    PROVE  OutOK(out \o line, Append(by, id))
<1> DEFINE n == Len(out)
           m == Len(line)
           new == out \o line
           more == Append(by, id)
           S == StartsIn(out)
           T == StartsIn(new)
<1>0. /\ out \in Texts /\ by \in Seq(Tids) /\ S \subseteq 1..(n - 1)
      /\ Cardinality(S) = Len(by)
      /\ \A i \in S : out[i + 1] = by[Cardinality({j \in S : j <= i})]
      /\ \A i \in S \cup {n + 1} : Separate(out, i)
  BY DEF OutOK, Owned
<1>1. /\ new \in Texts /\ Len(new) = n + m /\ n \in Nat /\ m \in Nat
      /\ \A j \in 1..n : new[j] = out[j]
      /\ \A j \in 1..m : new[n + j] = line[j]
  BY <1>0, TextsJoined
<1>2. 2 <= m /\ line[1] = Time /\ line[2] = id /\ \A j \in 2..m : line[j] # Time
  BY DEF Begins
<1>3. more \in Seq(Tids) /\ Len(more) = Len(by) + 1 /\ Len(by) \in Nat
      /\ more[Len(by) + 1] = id /\ \A k \in 1..Len(by) : more[k] = by[k]
  BY <1>0
<1>4. DOMAIN out = 1..n /\ DOMAIN new = 1..(n + m)
  BY <1>0, <1>1 DEF Texts
<1>5. S = {i \in 1..n : out[i] = Time} /\ T = {i \in 1..(n + m) : new[i] = Time}
  BY <1>4 DEF StartsIn
<1> HIDE DEF n, m, new, more, S, T
<1>6. T = S \cup {n + 1}
  <2>1. n + 1 \in T
    <3>1. n + 1 \in 1..(n + m) /\ 1 \in 1..m
      BY <1>1, <1>2
    <3>2. new[n + 1] = Time
      BY <1>1, <1>2, <3>1
    <3> QED
      BY <1>5, <3>1, <3>2
  <2>2. ASSUME NEW i \in S PROVE i \in T
    BY <1>1, <1>5
  <2>3. ASSUME NEW i \in T, i # n + 1 PROVE i \in S
    <3>1. i \in 1..(n + m) /\ new[i] = Time
      BY <1>5
    <3>2. i <= n
      <4> SUFFICES ASSUME i > n PROVE FALSE
        BY <1>1, <3>1
      <4>1. PICK j \in 2..m : i = n + j
        <5> DEFINE j == i - n
        <5>1. j \in 2..m /\ i = n + j
          BY <1>1, <2>3, <3>1
        <5> QED
          BY <5>1
      <4>2. j \in 1..m
        BY <1>1, <4>1
      <4> QED
        BY <1>1, <1>2, <3>1, <4>1, <4>2
    <3>3. i \in 1..n
      BY <1>1, <3>1, <3>2
    <3> QED
      BY <1>1, <1>5, <3>1, <3>3
  <2> QED
    BY <2>1, <2>2, <2>3
<1>7. n + 1 \notin S /\ \A i \in S : i \in 1..n /\ i + 1 \in 1..n /\ i < n + 1
  BY <1>0, <1>1
<1>8. IsFiniteSet(S)
  <2>1. IsFiniteSet(1..(n - 1))
    BY <1>1, FS_Interval
  <2> QED
    BY <1>0, <2>1, FS_Subset
<1>9. T \subseteq 1..(n + m - 1)
  BY <1>1, <1>2, <1>6, <1>7
<1>10. Cardinality(T) = Len(more)
  <2>1. Cardinality(S \cup {n + 1}) = Cardinality(S) + 1
    BY <1>7, <1>8, FS_AddElement
  <2> QED
    BY <1>0, <1>3, <1>6, <2>1
<1>11. ASSUME NEW i \in T PROVE new[i + 1] = more[Cardinality({j \in T : j <= i})]
  <2>1. CASE i = n + 1
    <3>1. {j \in T : j <= i} = T
      <4>1. \A j \in T : j <= i
        BY <1>1, <1>6, <1>7, <2>1
      <4> QED
        BY <4>1
    <3>2. more[Cardinality({j \in T : j <= i})] = id
      BY <1>3, <1>10, <3>1
    <3>3. 2 \in 1..m /\ i + 1 = n + 2
      BY <1>1, <1>2, <2>1
    <3>4. new[n + 2] = line[2]
      BY <1>1, <3>3
    <3> QED
      BY <1>2, <3>2, <3>3, <3>4
  <2>2. CASE i # n + 1
    <3> DEFINE before == {j \in S : j <= i}
    <3>1. i \in S
      BY <1>6, <2>2
    <3>2. {j \in T : j <= i} = before
      <4>1. \A j \in T : j <= i => j \in S
        BY <1>1, <1>6, <1>7, <3>1
      <4> QED
        BY <1>6, <4>1
    <3>3. Cardinality(before) \in 1..Len(by)
      <4>1. before \subseteq S /\ i \in before
        BY <1>7, <3>1
      <4>2. IsFiniteSet(before) /\ Cardinality(before) <= Cardinality(S)
        BY <1>8, <4>1, FS_Subset
      <4>3. Cardinality(before) \in Nat /\ (Cardinality(before) = 0 <=> before = {})
        BY <4>2, FS_CardinalityType, FS_EmptySet
      <4> HIDE DEF before
      <4> QED
        BY <1>0, <1>3, <4>1, <4>2, <4>3
    <3>4. out[i + 1] = by[Cardinality(before)]
      BY <1>0, <3>1
    <3>5. new[i + 1] = out[i + 1]
      BY <1>1, <1>7, <3>1
    <3> HIDE DEF before
    <3> QED
      BY <1>3, <3>2, <3>3, <3>4, <3>5
  <2> QED
    BY <2>1, <2>2
<1>12. ASSUME NEW i \in S \cup {n + 1} PROVE Separate(new, i)
  <2>1. Separate(out, i)
    BY <1>0
  <2>2. i \in 1..(n + 1)
    BY <1>1, <1>7
  <2>3. CASE i # 1 /\ out[i - 1] = Newline
    <3>1. i - 1 \in 1..n
      BY <1>1, <2>2, <2>3
    <3> QED
      BY <1>1, <2>3, <3>1 DEF Separate
  <2>4. CASE i - kBufferSize \in S /\ \A j \in S : j >= i \/ j <= i - kBufferSize
    <3>1. i - kBufferSize \in T /\ \A j \in T : j >= i \/ j <= i - kBufferSize
      BY <1>1, <1>6, <2>2, <2>4
    <3> QED
      BY <3>1 DEF Separate, T
  <2> QED
    BY <2>1, <2>3, <2>4 DEF Separate, S
<1>13. Separate(new, n + m + 1)
  <2>1. CASE line[m] = Newline
    <3>1. m \in 1..m /\ (n + m + 1) - 1 = n + m
      BY <1>1, <1>2
    <3>2. new[n + m] = Newline
      BY <1>1, <2>1, <3>1
    <3> QED
      BY <3>1, <3>2 DEF Separate
  <2>2. CASE m = kBufferSize
    <3>1. (n + m + 1) - kBufferSize = n + 1
      BY <1>1, <2>2
    <3>2. \A j \in T : j <= n + 1
      BY <1>6, <1>7, <1>1
    <3>3. n + 1 \in T
      BY <1>6
    <3> QED
      BY <3>1, <3>2, <3>3 DEF Separate, T
  <2> QED
    BY <2>1, <2>2 DEF m
<1>14. \A i \in T \cup {Len(new) + 1} : Separate(new, i)
  BY <1>1, <1>6, <1>12, <1>13
<1>15. Owned(new, more)
  BY <1>10, <1>11 DEF Owned, T
<1>16. T \subseteq 1..(Len(new) - 1)
  BY <1>1, <1>9
<1> QED
  BY <1>1, <1>3, <1>14, <1>15, <1>16 DEF OutOK, T, new, more

-----------------------------------------------------------------------------
(* The statements of the threads.                                            *)

\* A thread logs in its task, what it will write out is whole, and has its id.
StatementOK(t) ==
    /\ life[t] = "task" /\ tid[t] \in Tids
    /\ IsSound(stream[t]) /\ Begins(stream[t].text, tid[t])

\* The inductive invariant.
LogInv ==
    /\ ThreadInv
    /\ stream \in [Threads -> Statements \cup {NoStatement}]
    /\ \A t \in Open : StatementOK(t)
    /\ OutOK(stdout, writers)

\* A thread goes on with its task whatever its owner or another thread does.
LEMMA TaskGoesOn ==
    ASSUME ThreadInv, NEW t \in Threads, NEW u \in Threads, life[u] = "task",
           Owner(t) \/ RunInThread(t) \/ (TaskReturns(t) /\ u # t)
    PROVE  life'[u] = "task" /\ tid'[u] = tid[u]
<1>0. ThreadTypes /\ ThreadOK(u)
  BY DEF ThreadInv
<1>1. CASE Construct(t) \/ Started(t) \/ Join(t)
  BY <1>1 DEF Construct, Started, Join
<1>2. CASE Create(t)
  <2>1. /\ calling = <<"none">> /\ object[t] = [NoThread EXCEPT !.made = TRUE]
        /\ life' = [life EXCEPT ![t] = "new"]
        /\ \E k \in Tids : tid' = [tid EXCEPT ![t] = k]
    BY <1>2 DEF Create
  <2>2. u # t
    <3>1. object[u].isRunning
      BY <1>0, <2>1, CallsDiffer DEF ThreadOK
    <3> QED
      BY <2>1, <3>1, NoThreadIs
  <2> QED
    BY <1>0, <2>1, <2>2 DEF ThreadTypes
<1>3. CASE JoinReturns(t)
  <2>1. life[t] = "done" /\ life' = [life EXCEPT ![t] = "none"] /\ tid' = tid
    BY <1>3 DEF JoinReturns
  <2> QED
    BY <1>0, <2>1 DEF ThreadTypes
<1>4. CASE Destroy(t)
  <2>1. /\ life[t] \in {"none", "done"} /\ tid' = tid
        /\ life' = life \/ life' = [life EXCEPT ![t] = "none"]
    BY <1>4 DEF Destroy
  <2> QED
    BY <1>0, <2>1 DEF ThreadTypes
<1>5. CASE RunInThread(t)
  <2>1. life[t] = "new" /\ life' = [life EXCEPT ![t] = "task"] /\ tid' = tid
    BY <1>5 DEF RunInThread
  <2> QED
    BY <1>0, <2>1 DEF ThreadTypes
<1>6. CASE TaskReturns(t) /\ u # t
  <2>1. life' = [life EXCEPT ![t] = "done"] /\ tid' = [tid EXCEPT ![t] = NoTid]
    BY <1>6 DEF TaskReturns
  <2> QED
    BY <1>0, <1>6, <2>1 DEF ThreadTypes
<1> QED
  BY <1>1, <1>2, <1>3, <1>4, <1>5, <1>6 DEF Owner

LEMMA LogInvInit == LogInit => LogInv
<1> SUFFICES ASSUME LogInit PROVE LogInv
  OBVIOUS
<1>1. /\ ThreadInit /\ stream = [t \in Threads |-> NoStatement]
      /\ stdout = <<>> /\ writers = <<>>
  BY DEF LogInit
<1>2. Open = {}
  BY <1>1 DEF Open
<1> QED
  BY <1>1, <1>2, ThreadInvInit, NothingOut DEF LogInv

LEMMA ThreadStepKeeps ==
    ASSUME LogInv, NEW t \in Threads, UNCHANGED logVars,
           Owner(t) \/ RunInThread(t) \/ (TaskReturns(t) /\ t \notin Open)
    PROVE  LogInv'
<1>0. /\ ThreadInv /\ stream \in [Threads -> Statements \cup {NoStatement}]
      /\ \A u \in Open : StatementOK(u)
      /\ OutOK(stdout, writers)
  BY DEF LogInv
<1>1. stream' = stream /\ stdout' = stdout /\ writers' = writers
  BY DEF logVars
<1>2. ThreadInv'
  BY <1>0, OwnerKeeps, ThreadKeeps
<1>3. Open' = Open /\ Open \subseteq Threads
  BY <1>1 DEF Open
<1>4. ASSUME NEW u \in Open PROVE StatementOK(u)'
  <2>1. StatementOK(u)
    BY <1>0
  <2>2. life'[u] = "task" /\ tid'[u] = tid[u]
    BY <1>0, <1>3, <2>1, TaskGoesOn DEF StatementOK
  <2> QED
    BY <1>1, <2>1, <2>2 DEF StatementOK
<1>5. OutOK(stdout, writers)'
  BY <1>0, <1>1 DEF OutOK, Owned, StartsIn, Separate
<1> QED
  BY <1>0, <1>1, <1>2, <1>3, <1>4, <1>5 DEF LogInv

LEMMA BeginKeeps ==
    ASSUME LogInv, NEW t \in Threads, NEW site \in Sites, Begin(t, site)
    PROVE  LogInv'
<1>0. /\ ThreadInv /\ stream \in [Threads -> Statements \cup {NoStatement}]
      /\ \A u \in Open : StatementOK(u)
      /\ OutOK(stdout, writers)
  BY DEF LogInv
<1>1. /\ life[t] = "task" /\ getTid(t)
      /\ stream' = [stream EXCEPT ![t] = Opened(Tid'[t], site)]
      /\ UNCHANGED <<object, calling, life, tid, failed, stdout, writers>>
  BY DEF Begin
<1>2. ThreadInv'
  BY <1>0, <1>1, ThreadKeeps
<1>3. tid[t] \in Tids /\ Tid'[t] = tid[t]
  <2>1. ThreadTypes /\ ThreadOK(t)
    BY <1>0 DEF ThreadInv
  <2>2. tid[t] \in Tids /\ Tid[t] \in {NoTid, tid[t]}
    BY <1>1, <2>1 DEF ThreadOK
  <2> QED
    BY <1>1, <2>1, <2>2 DEF getTid, ThreadTypes
<1>4. IsSound(Opened(tid[t], site)) /\ Begins(Opened(tid[t], site).text, tid[t])
  BY <1>3, OpenedIs
<1> DEFINE new == Opened(tid[t], site)
<1>5. new \in Statements /\ stream' = [stream EXCEPT ![t] = new]
  BY <1>1, <1>3, <1>4 DEF IsSound
<1> HIDE DEF new
<1>6. stream' \in [Threads -> Statements \cup {NoStatement}]
  BY <1>0, <1>5
<1>7. ASSUME NEW u \in Open' PROVE StatementOK(u)'
  <2>1. u \in Threads /\ stream'[u] # NoStatement
    BY DEF Open
  <2>2. CASE u = t
    <3>1. stream'[u] = new
      BY <1>0, <1>5, <2>1, <2>2
    <3> QED
      BY <1>1, <1>3, <1>4, <2>2, <3>1 DEF StatementOK, new
  <2>3. CASE u # t
    <3>1. stream'[u] = stream[u] /\ StatementOK(u)
      BY <1>0, <1>5, <2>1, <2>3 DEF Open
    <3> QED
      BY <1>1, <3>1 DEF StatementOK
  <2> QED
    BY <2>2, <2>3
<1>8. OutOK(stdout, writers)'
  BY <1>0, <1>1 DEF OutOK, Owned, StartsIn, Separate
<1> QED
  BY <1>2, <1>6, <1>7, <1>8 DEF LogInv

LEMMA LogKeeps ==
    ASSUME LogInv, NEW t \in Threads, NEW item \in Items, Log(t, item)
    PROVE  LogInv'
<1>0. /\ ThreadInv /\ stream \in [Threads -> Statements \cup {NoStatement}]
      /\ \A u \in Open : StatementOK(u)
      /\ OutOK(stdout, writers)
  BY DEF LogInv
<1> DEFINE new == Insert(stream[t], item)
<1>1. /\ t \in Open /\ stream' = [stream EXCEPT ![t] = new]
      /\ UNCHANGED <<threadVars, stdout, writers>>
  BY DEF Log
<1>2. object' = object /\ calling' = calling /\ life' = life /\ tid' = tid /\ Tid' = Tid
      /\ failed' = failed /\ stdout' = stdout /\ writers' = writers
  BY <1>1 DEF threadVars
<1>3. StatementOK(t) /\ item \in Written
  BY <1>0, <1>1 DEF Written
<1>4. IsSound(new) /\ Begins(new.text, tid[t]) /\ new \in Statements
  BY <1>3, InsertBegins DEF StatementOK, IsSound
<1> HIDE DEF new
<1>5. ThreadInv'
  BY <1>0, <1>2 DEF ThreadInv, ThreadTypes, ThreadOK
<1>6. stream' \in [Threads -> Statements \cup {NoStatement}]
  BY <1>0, <1>1, <1>4
<1>7. ASSUME NEW u \in Open' PROVE StatementOK(u)'
  <2>1. u \in Threads /\ stream'[u] # NoStatement
    BY DEF Open
  <2>2. CASE u = t
    <3>1. stream'[u] = new
      BY <1>0, <1>1, <2>1, <2>2
    <3> QED
      BY <1>2, <1>3, <1>4, <2>2, <3>1 DEF StatementOK
  <2>3. CASE u # t
    <3>1. stream'[u] = stream[u] /\ StatementOK(u)
      BY <1>0, <1>1, <2>1, <2>3 DEF Open
    <3> QED
      BY <1>2, <3>1 DEF StatementOK
  <2> QED
    BY <2>2, <2>3
<1>8. OutOK(stdout, writers)'
  BY <1>0, <1>2 DEF OutOK, Owned, StartsIn, Separate
<1> QED
  BY <1>5, <1>6, <1>7, <1>8 DEF LogInv

LEMMA EndKeeps ==
    ASSUME LogInv, NEW t \in Threads, End(t)
    PROVE  LogInv'
<1>0. /\ ThreadInv /\ stream \in [Threads -> Statements \cup {NoStatement}]
      /\ \A u \in Open : StatementOK(u)
      /\ OutOK(stdout, writers)
  BY DEF LogInv
<1> DEFINE line == Finished(stream[t]).text
<1>1. /\ t \in Open /\ stdout' = stdout \o line /\ writers' = Append(writers, tid[t])
      /\ stream' = [stream EXCEPT ![t] = NoStatement]
      /\ UNCHANGED threadVars
  BY DEF End
<1>2. object' = object /\ calling' = calling /\ life' = life /\ tid' = tid /\ Tid' = Tid
      /\ failed' = failed
  BY <1>1 DEF threadVars
<1>3. StatementOK(t)
  BY <1>0, <1>1
<1>4. /\ line \in Texts /\ Begins(line, tid[t]) /\ tid[t] \in Tids
      /\ line[Len(line)] = Newline \/ Len(line) = kBufferSize
  BY <1>3, FinishedIs DEF StatementOK
<1> HIDE DEF line
<1>5. ThreadInv'
  BY <1>0, <1>2 DEF ThreadInv, ThreadTypes, ThreadOK
<1>6. stream' \in [Threads -> Statements \cup {NoStatement}]
  BY <1>0, <1>1
<1>7. ASSUME NEW u \in Open' PROVE StatementOK(u)'
  <2>1. u \in Threads /\ stream'[u] # NoStatement
    BY DEF Open
  <2>2. u # t
    BY <1>0, <1>1, <2>1
  <2>3. stream'[u] = stream[u] /\ StatementOK(u)
    BY <1>0, <1>1, <2>1, <2>2 DEF Open
  <2> QED
    BY <1>2, <2>3 DEF StatementOK
<1>8. OutOK(stdout, writers)'
  <2>1. OutOK(stdout \o line, Append(writers, tid[t]))
    BY <1>0, <1>4, LineGoesOut
  <2> QED
    BY <1>1, <2>1 DEF OutOK, Owned, StartsIn, Separate
<1> QED
  BY <1>5, <1>6, <1>7, <1>8 DEF LogInv

LEMMA LogInvStep == LogInv /\ [LogNext]_vars => LogInv'
<1> SUFFICES ASSUME LogInv, [LogNext]_vars PROVE LogInv'
  OBVIOUS
<1>1. CASE LogNext
  <2>1. PICK t \in Threads :
            \/ Owner(t) /\ UNCHANGED logVars
            \/ RunInThread(t) /\ UNCHANGED logVars
            \/ t \notin Open /\ TaskReturns(t) /\ UNCHANGED logVars
            \/ \E site \in Sites : Begin(t, site)
            \/ \E item \in Items : Log(t, item)
            \/ End(t)
    BY <1>1 DEF LogNext
  <2>2. CASE \/ Owner(t) /\ UNCHANGED logVars
             \/ RunInThread(t) /\ UNCHANGED logVars
             \/ t \notin Open /\ TaskReturns(t) /\ UNCHANGED logVars
    BY <2>2, ThreadStepKeeps
  <2>3. CASE \E site \in Sites : Begin(t, site)
    BY <2>3, BeginKeeps
  <2>4. CASE \E item \in Items : Log(t, item)
    BY <2>4, LogKeeps
  <2>5. CASE End(t)
    BY <2>5, EndKeeps
  <2> QED
    BY <2>1, <2>2, <2>3, <2>4, <2>5
<1>2. CASE UNCHANGED vars
  <2>1. /\ object' = object /\ calling' = calling /\ life' = life /\ tid' = tid /\ Tid' = Tid
        /\ failed' = failed /\ stream' = stream /\ stdout' = stdout /\ writers' = writers
    BY <1>2 DEF vars, threadVars, logVars
  <2>2. ThreadInv'
    BY <2>1 DEF LogInv, ThreadInv, ThreadTypes, ThreadOK
  <2>3. OutOK(stdout, writers)'
    BY <2>1 DEF LogInv, OutOK, Owned, StartsIn, Separate
  <2>4. \A t \in Open' : StatementOK(t)'
    BY <2>1 DEF LogInv, Open, StatementOK
  <2> QED
    BY <2>1, <2>2, <2>3, <2>4 DEF LogInv
<1> QED
  BY <1>1, <1>2

\* It is an invariant.
THEOREM LogHolds == LogSpec => []LogInv
<1>1. LogInit => LogInv
  BY LogInvInit
<1>2. LogInv /\ [LogNext]_vars => LogInv'
  BY LogInvStep
<1> QED
  BY <1>1, <1>2, PTL DEF LogSpec

-----------------------------------------------------------------------------
(* The theorems.                                                             *)

\* In whatever order the owner constructs, starts, joins and destroys its objects, as
\* long as it starts and joins an object at most once and destroys none whose thread is
\* running, and however the threads run, each thread is reaped once and the assert in
\* ~Thread holds.
THEOREM ThreadsReapedOnce == LogSpec => []ReapedOnce
<1>1. LogInv => ReapedOnce
  <2> SUFFICES ASSUME LogInv PROVE ReapedOnce
    OBVIOUS
  <2>1. ~failed /\ \A t \in Threads : ThreadOK(t)
    BY DEF LogInv, ThreadInv
  <2> QED
    BY <2>1 DEF ReapedOnce, ThreadOK
<1> QED
  BY <1>1, LogHolds, PTL

\* No item, and no '\0' behind a number, is written beyond the buffer of a statement,
\* whatever its size, as long as no number is longer than kMaxNumericSize allows.
THEOREM NeverOverrun == LogSpec => []NoOverrun
<1>1. LogInv => NoOverrun
  BY DEF LogInv, StatementOK, IsSound, NoOverrun
<1> QED
  BY <1>1, LogHolds, PTL

\* Threads may log at the same time: each statement begins a line of its own in
\* stdout, unless the one before it is as long as the buffer.
THEOREM LinesAreSeparate == LogSpec => []LinesSeparate
<1>1. LogInv => LinesSeparate
  <2> SUFFICES ASSUME LogInv, NEW i \in Starts \ {1}
               PROVE  \/ stdout[i - 1] = Newline
                      \/ i - kBufferSize \in Starts
                         /\ \A j \in Starts : j >= i \/ j <= i - kBufferSize
    BY DEF LinesSeparate
  <2>1. Starts = StartsIn(stdout)
    BY DEF Starts, StartsIn
  <2>2. Separate(stdout, i)
    BY <2>1 DEF LogInv, OutOK
  <2> QED
    BY <2>1, <2>2 DEF Separate
<1> QED
  BY <1>1, LogHolds, PTL

\* The Tid of each line is the id of the thread that has logged it, although the
\* threads cache their ids and the kernel uses those of ended threads again.
THEOREM TidIsOwn == LogSpec => []OwnTid
<1>1. LogInv => OwnTid
  <2> SUFFICES ASSUME LogInv PROVE OwnTid
    OBVIOUS
  <2>1. Starts = StartsIn(stdout)
    BY DEF Starts, StartsIn
  <2>2. Owned(stdout, writers)
    BY DEF LogInv, OutOK
  <2> QED
    BY <2>1, <2>2 DEF Owned, OwnTid
<1> QED
  BY <1>1, LogHolds, PTL

\* A statement shows each of its items in full or not at all, and its numbers, the
\* least of their type included, read as the numbers that they are.
THEOREM ItemsAreLegible == LogSpec => []ItemsLegible
<1>1. LogInv => ItemsLegible
  BY SoundIsLegible DEF LogInv, StatementOK, ItemsLegible
<1> QED
  BY <1>1, LogHolds, PTL
=============================================================================
