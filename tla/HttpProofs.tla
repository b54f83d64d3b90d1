----------------------------- MODULE HttpProofs -----------------------------
(***************************************************************************)
(* Theorems about HttpRequest and HttpServer, for any size of the buffer   *)
(* and any conversation.                                                   *)
(***************************************************************************)
EXTENDS HttpServer, SequenceTheorems, Induction

-----------------------------------------------------------------------------
(* Texts.                                                                    *)

\* The concatenations of the first texts of a sequence of texts.
Sums(D, n, s) ==
    { f \in [0..n -> Seq(D)] : f[0] = <<>> /\ \A i \in 1..n : f[i] = f[i - 1] \o s[i] }

LEMMA Concatenations ==
    ASSUME NEW D, NEW n \in Nat, NEW s \in [1..n -> Seq(D)]
    PROVE  Sums(D, n, s) # {}
<1> DEFINE Is(f, m) == f[0] = <<>> /\ \A i \in 1..m : f[i] = f[i - 1] \o s[i]
           T == {m \in 0..n : \E f \in [0..m -> Seq(D)] : Is(f, m)}
<1>1. 0 \in T
  <2> DEFINE f == [i \in 0..0 |-> <<>>]
  <2>1. f \in [0..0 -> Seq(D)] /\ f[0] = <<>>
    OBVIOUS
  <2>2. Is(f, 0)
    BY <2>1
  <2> HIDE DEF f, Is
  <2>3. 0 \in 0..n
    OBVIOUS
  <2> QED
    BY <2>1, <2>2, <2>3, Zenon
<1>2. ASSUME NEW m \in 0..(n - 1), m \in T PROVE m + 1 \in T
  <2>0. m \in Nat /\ m + 1 \in 1..n /\ m + 1 \in 0..n
    OBVIOUS
  <2>1. PICK f \in [0..m -> Seq(D)] : Is(f, m)
    BY <1>2
  <2> DEFINE g == [i \in 0..(m + 1) |-> IF i <= m THEN f[i] ELSE f[m] \o s[m + 1]]
  <2>2. f[m] \o s[m + 1] \in Seq(D)
    <3>1. f[m] \in Seq(D) /\ s[m + 1] \in Seq(D)
      BY <2>0
    <3> QED
      BY <3>1, ConcatProperties, Zenon
  <2>3. g \in [0..(m + 1) -> Seq(D)]
    BY <2>0, <2>2
  <2>4. (\A i \in 0..m : g[i] = f[i]) /\ g[m + 1] = f[m] \o s[m + 1]
    BY <2>0
  <2> HIDE DEF g
  <2>5. ASSUME NEW i \in 1..(m + 1) PROVE g[i] = g[i - 1] \o s[i]
    <3>1. CASE i \in 1..m
      <4>1. i \in 0..m /\ i - 1 \in 0..m
        BY <3>1, <2>0
      <4>2. f[i] = f[i - 1] \o s[i]
        BY <2>1, <3>1
      <4> QED
        BY <4>1, <4>2, <2>4
    <3>2. CASE i = m + 1
      <4>1. i - 1 = m /\ m \in 0..m
        BY <3>2, <2>0
      <4> QED
        BY <4>1, <2>4, <3>2
    <3>3. i \in 1..m \/ i = m + 1
      BY <2>0
    <3> QED
      BY <3>1, <3>2, <3>3
  <2>6. g[0] = <<>>
    <3>1. 0 \in 0..m
      BY <2>0
    <3> QED
      BY <3>1, <2>1, <2>4
  <2>7. Is(g, m + 1)
    BY <2>5, <2>6
  <2> HIDE DEF Is
  <2> QED
    BY <2>0, <2>3, <2>7, Zenon
<1>3. n \in T
  <2> HIDE DEF T
  <2>1. \A m \in 0..n : m \in T
    BY <1>1, <1>2, UpTo
  <2>2. n \in 0..n
    OBVIOUS
  <2> QED
    BY <2>1, <2>2
<1> QED
  BY <1>3 DEF Sums

\* FlattenSeq is the last of them.
LEMMA FlattenIs ==
    ASSUME NEW D, NEW s \in Seq(Seq(D)), NEW f \in [0..Len(s) -> Seq(D)],
           f[0] = <<>>, \A i \in 1..Len(s) : f[i] = f[i - 1] \o s[i]
    PROVE  FlattenSeq(s) = f[Len(s)]
<1> DEFINE n == Len(s)
<1>0. n \in Nat /\ s \in [1..n -> Seq(D)]
  OBVIOUS
<1>1. CASE n = 0
  <2>1. s = <<>>
    BY <1>1
  <2> QED
    BY <2>1, <1>1 DEF FlattenSeq
<1>2. CASE n # 0
  <2> DEFINE F(g) == [i \in 1..n |-> IF i = 1 THEN s[i] ELSE g[i - 1] \o s[i]]
             g0 == [i \in 1..n |-> f[i]]
             h == CHOOSE g : g = F(g)
  <2>1. \A i \in 1..n : f[i] = IF i = 1 THEN s[i] ELSE g0[i - 1] \o s[i]
    <3> SUFFICES ASSUME NEW i \in 1..n PROVE f[i] = IF i = 1 THEN s[i] ELSE g0[i - 1] \o s[i]
      OBVIOUS
    <3>1. CASE i = 1
      <4>1. f[1] = <<>> \o s[1] /\ s[1] \in Seq(D)
        <5>1. 1 \in 1..n /\ 1 - 1 = 0
          BY <3>1, <1>0
        <5>2. f[1] = f[1 - 1] \o s[1] /\ s[1] \in Seq(D)
          BY <1>0, <5>1, Zenon
        <5> QED
          BY <5>1, <5>2
      <4>2. <<>> \o s[1] = s[1]
        BY <4>1, ConcatEmptySeq, Zenon
      <4> QED
        BY <3>1, <4>1, <4>2
    <3>2. CASE i # 1
      <4>1. i - 1 \in 1..n
        BY <3>2, <1>0
      <4>2. g0[i - 1] = f[i - 1]
        BY <4>1
      <4> HIDE DEF g0
      <4> QED
        BY <3>2, <4>2
    <3> QED
      BY <3>1, <3>2
  <2>2. g0 = F(g0) /\ \A i \in 1..n : g0[i] = IF i = 1 THEN s[i] ELSE g0[i - 1] \o s[i]
    <3>1. \A i \in 1..n : g0[i] = f[i]
      OBVIOUS
    <3>2. g0 = [i \in 1..n |-> f[i]]
      OBVIOUS
    <3> HIDE DEF g0
    <3> QED
      BY <3>1, <3>2, <2>1
  <2>3. h = F(h)
    <3> HIDE DEF g0
    <3> QED
      BY <2>2, Zenon
  <2>4. FlattenSeq(s) = h[n]
    BY <1>2 DEF FlattenSeq
  <2> HIDE DEF h
  <2>5. \A i \in 1..n : h[i] = IF i = 1 THEN s[i] ELSE h[i - 1] \o s[i]
    BY <2>3
  <2> DEFINE T == {m \in 0..n : m = 0 \/ h[m] = g0[m]}
  <2>6. \A m \in 0..n : m \in T
    <3>1. 0 \in T
      BY <1>0
    <3>2. ASSUME NEW m \in 0..(n - 1), m \in T PROVE m + 1 \in T
      <4>1. m + 1 \in 1..n /\ m + 1 \in 0..n
        BY <1>0
      <4>2. g0[m + 1] = IF m + 1 = 1 THEN s[m + 1] ELSE g0[m] \o s[m + 1]
        <5>1. m + 1 - 1 = m
          OBVIOUS
        <5> HIDE DEF g0, F
        <5> QED
          BY <2>2, <4>1, <5>1
      <4>3. h[m + 1] = IF m + 1 = 1 THEN s[m + 1] ELSE h[m] \o s[m + 1]
        BY <2>5, <4>1
      <4>4. m = 0 \/ h[m] = g0[m]
        BY <3>2
      <4> HIDE DEF g0
      <4>5. h[m + 1] = g0[m + 1]
        BY <4>2, <4>3, <4>4
      <4> QED
        BY <4>1, <4>5
    <3> HIDE DEF T
    <3> QED
      BY <1>0, <3>1, <3>2, UpTo
  <2>7. h[n] = g0[n] /\ g0[n] = f[n]
    <3>1. n \in 0..n /\ n \in 1..n
      BY <1>0, <1>2
    <3> QED
      BY <2>6, <3>1, <1>2
  <2> QED
    BY <2>4, <2>7
<1> QED
  BY <1>1, <1>2

\* Two texts and their concatenation.
IsJoin(s, t, u) ==
    /\ Len(s) \in Nat /\ Len(t) \in Nat /\ Len(u) = Len(s) + Len(t)
    /\ \A j \in 1..Len(s) : u[j] = s[j]
    /\ \A j \in 1..Len(t) : u[Len(s) + j] = t[j]

LEMMA Concatenation ==
    ASSUME NEW D, NEW s \in Seq(D), NEW t \in Seq(D)
    PROVE  s \o t \in Seq(D) /\ IsJoin(s, t, s \o t)
<1>0. Len(s) \in Nat /\ Len(t) \in Nat
  OBVIOUS
<1>1. /\ s \o t \in Seq(D)
      /\ Len(s \o t) = Len(s) + Len(t)
      /\ \A i \in 1..(Len(s) + Len(t)) :
            (s \o t)[i] = IF i <= Len(s) THEN s[i] ELSE t[i - Len(s)]
  BY ConcatProperties, Zenon
<1>2. ASSUME NEW j \in 1..Len(s) PROVE (s \o t)[j] = s[j]
  BY <1>0, <1>1
<1>3. ASSUME NEW j \in 1..Len(t) PROVE (s \o t)[Len(s) + j] = t[j]
  <2>1. Len(s) + j \in 1..(Len(s) + Len(t)) /\ ~ (Len(s) + j <= Len(s)) /\ Len(s) + j - Len(s) = j
    BY <1>0
  <2> QED
    BY <1>1, <2>1
<1> QED
  BY <1>0, <1>1, <1>2, <1>3 DEF IsJoin

\* The text t begins with the text u.
BeginsWith(t, u) == Len(u) <= Len(t) /\ \A j \in 1..Len(u) : t[j] = u[j]

\* Each of them begins with the ones before.
LEMMA BeginWithEarlier ==
    ASSUME NEW D, NEW n \in Nat, NEW s \in [1..n -> Seq(D)], NEW f \in [0..n -> Seq(D)],
           \A i \in 1..n : f[i] = f[i - 1] \o s[i], NEW k \in 0..n
    PROVE  BeginsWith(f[n], f[k])
<1> DEFINE T == {m \in 0..n : m < k \/ BeginsWith(f[m], f[k])}
<1>0. \A m \in 0..n : f[m] \in Seq(D) /\ Len(f[m]) \in Nat
  OBVIOUS
<1>1. ASSUME NEW m \in 0..(n - 1), m \in T PROVE m + 1 \in T
  <2>0. m + 1 \in 0..n /\ m + 1 \in 1..n /\ m \in 0..n
    OBVIOUS
  <2>1. CASE m + 1 < k
    BY <2>0, <2>1
  <2>2. CASE m + 1 = k
    <3>1. BeginsWith(f[m + 1], f[k])
      BY <2>0, <2>2, <1>0 DEF BeginsWith
    <3> QED
      BY <2>0, <3>1
  <2>3. CASE m >= k
    <3>1. Len(f[k]) <= Len(f[m]) /\ \A j \in 1..Len(f[k]) : f[m][j] = f[k][j]
      BY <1>1, <2>3 DEF BeginsWith
    <3>2. f[m + 1] = f[m] \o s[m + 1] /\ s[m + 1] \in Seq(D)
      BY <2>0
    <3>3. f[m] \in Seq(D)
      BY <1>0, <2>0
    <3>4. /\ Len(f[m]) \in Nat /\ Len(s[m + 1]) \in Nat
          /\ Len(f[m] \o s[m + 1]) = Len(f[m]) + Len(s[m + 1])
          /\ \A j \in 1..Len(f[m]) : (f[m] \o s[m + 1])[j] = f[m][j]
      <4>1. IsJoin(f[m], s[m + 1], f[m] \o s[m + 1])
        BY <3>2, <3>3, Concatenation, Zenon
      <4> QED
        BY <4>1 DEF IsJoin
    <3>5. \A j \in 1..Len(f[k]) : j \in 1..Len(f[m])
      BY <3>1, <3>4, <1>0
    <3>6. \A j \in 1..Len(f[k]) : f[m + 1][j] = f[k][j]
      BY <3>1, <3>2, <3>4, <3>5
    <3>7. Len(f[m + 1]) = Len(f[m]) + Len(s[m + 1])
      BY <3>2, <3>4
    <3>8. Len(f[k]) <= Len(f[m + 1])
      <4> DEFINE a == Len(f[k])
                 b == Len(f[m])
                 c == Len(s[m + 1])
                 d == Len(f[m + 1])
      <4>1. a \in Nat /\ b \in Nat /\ c \in Nat /\ a <= b /\ d = b + c
        BY <3>1, <3>4, <3>7, <1>0
      <4> HIDE DEF a, b, c, d
      <4>2. a <= d
        BY <4>1
      <4> QED
        BY <4>2 DEF a, d
    <3> QED
      BY <2>0, <3>6, <3>8 DEF BeginsWith
  <2> QED
    BY <2>1, <2>2, <2>3
<1>2. 0 \in T
  <2>1. CASE k = 0
    BY <2>1, <1>0 DEF BeginsWith
  <2>2. CASE k # 0
    BY <2>2
  <2> QED
    BY <2>1, <2>2
<1>3. n \in T
  <2> HIDE DEF T
  <2>1. \A m \in 0..n : m \in T
    BY <1>1, <1>2, UpTo
  <2>2. n \in 0..n
    OBVIOUS
  <2> QED
    BY <2>1, <2>2
<1>4. ~ (n < k)
  OBVIOUS
<1> QED
  BY <1>3, <1>4

-----------------------------------------------------------------------------
(* Where the lines of a request are on the wire.                             *)

LastLine(r) == Len(r.headers) + 1

\* Line k begins behind character at[k], and the body behind at[LastLine(r) + 1].
IsCut(r, at) ==
    /\ at \in [0..(Len(r.headers) + 2) -> Nat]
    /\ at[0] = 0
    /\ \A k \in 0..LastLine(r) :
          /\ at[k + 1] = at[k] + Len(LineOf(r, k)) + 2
          /\ \A j \in 1..Len(LineOf(r, k)) : Wire(r)[at[k] + j] = LineOf(r, k)[j]
          /\ Wire(r)[at[k] + Len(LineOf(r, k)) + 1] = CR
          /\ Wire(r)[at[k] + Len(LineOf(r, k)) + 2] = LF
    /\ Len(Wire(r)) = at[Len(r.headers) + 2] + Len(r.body)
    /\ \A j \in 1..Len(r.body) : Wire(r)[at[Len(r.headers) + 2] + j] = r.body[j]

\* What a text is made of.
Char == STRING \cup {CR, LF, NUL}

LEMMA StringsAreChars == ASSUME NEW s \in Seq(STRING) PROVE s \in Seq(Char)
<1>1. STRING \subseteq Char
  BY DEF Char
<1> QED
  BY <1>1, SeqMonotonic

LEMMA Ending == <<CR, LF>> \in Seq(Char) /\ Len(<<CR, LF>>) = 2
                /\ <<CR, LF>>[1] = CR /\ <<CR, LF>>[2] = LF
<1>1. CR \in Char /\ LF \in Char
  BY DEF Char
<1> QED
  BY <1>1

\* A line with its ending.
IsEnded(l, u) ==
    /\ Len(l) \in Nat /\ Len(u) = Len(l) + 2
    /\ \A j \in 1..Len(l) : u[j] = l[j]
    /\ u[Len(l) + 1] = CR
    /\ u[Len(l) + 2] = LF

LEMMA LineWithEnding ==
    ASSUME NEW l \in Seq(Char)
    PROVE  l \o <<CR, LF>> \in Seq(Char) /\ IsEnded(l, l \o <<CR, LF>>)
<1> DEFINE E == <<CR, LF>>
<1>0. E \in Seq(Char) /\ Len(E) = 2 /\ E[1] = CR /\ E[2] = LF
  BY Ending
<1>9. E = <<CR, LF>>
  OBVIOUS
<1> HIDE DEF E
<1>8. E \in Seq(Char)
  BY <1>0
<1>7. l \o E \in Seq(Char) /\ IsJoin(l, E, l \o E)
  BY <1>8, Concatenation, Zenon
<1>1. /\ l \o E \in Seq(Char)
      /\ Len(l) \in Nat /\ Len(E) \in Nat /\ Len(l \o E) = Len(l) + Len(E)
      /\ \A j \in 1..Len(l) : (l \o E)[j] = l[j]
      /\ \A j \in 1..Len(E) : (l \o E)[Len(l) + j] = E[j]
  BY <1>7 DEF IsJoin
<1>2. (l \o E)[Len(l) + 1] = CR /\ (l \o E)[Len(l) + 2] = LF
  BY <1>0, <1>1
<1>3. /\ l \o E \in Seq(Char)
      /\ Len(l) \in Nat /\ Len(l \o E) = Len(l) + 2
      /\ \A j \in 1..Len(l) : (l \o E)[j] = l[j]
      /\ (l \o E)[Len(l) + 1] = CR
      /\ (l \o E)[Len(l) + 2] = LF
  BY <1>0, <1>1, <1>2
<1> QED
  BY <1>3, <1>9 DEF IsEnded

\* A request line or a block of headers, an ending behind it, and what follows that.
IsMessage(a, b, u) ==
    /\ Len(a) \in Nat /\ Len(b) \in Nat
    /\ Len(u) = Len(a) + 2 + Len(b)
    /\ \A j \in 1..Len(a) : u[j] = a[j]
    /\ u[Len(a) + 1] = CR
    /\ u[Len(a) + 2] = LF
    /\ \A j \in 1..Len(b) : u[Len(a) + 2 + j] = b[j]

LEMMA Message ==
    ASSUME NEW a \in Seq(Char), NEW b \in Seq(Char)
    PROVE  a \o <<CR, LF>> \o b \in Seq(Char) /\ IsMessage(a, b, a \o <<CR, LF>> \o b)
<1> DEFINE c == a \o <<CR, LF>>
           d == c \o b
<1>1. /\ c \in Seq(Char)
      /\ Len(a) \in Nat /\ Len(c) = Len(a) + 2
      /\ \A j \in 1..Len(a) : c[j] = a[j]
      /\ c[Len(a) + 1] = CR
      /\ c[Len(a) + 2] = LF
  <2>1. c \in Seq(Char) /\ IsEnded(a, c)
    BY LineWithEnding, Zenon
  <2> HIDE DEF c
  <2> QED
    BY <2>1 DEF IsEnded
<1> HIDE DEF c
<1>0. c \in Seq(Char)
  BY <1>1
<1>9. d \in Seq(Char) /\ IsJoin(c, b, d)
  BY <1>0, Concatenation, Zenon
<1> HIDE DEF d
<1>2. /\ d \in Seq(Char)
      /\ Len(c) \in Nat /\ Len(b) \in Nat /\ Len(d) = Len(c) + Len(b)
      /\ \A j \in 1..Len(c) : d[j] = c[j]
      /\ \A j \in 1..Len(b) : d[Len(c) + j] = b[j]
  BY <1>9 DEF IsJoin
<1>3. /\ \A j \in 1..Len(a) : j \in 1..Len(c)
      /\ Len(a) + 1 \in 1..Len(c) /\ Len(a) + 2 \in 1..Len(c)
  BY <1>1
<1>4. /\ d \in Seq(Char)
      /\ Len(a) \in Nat /\ Len(b) \in Nat
      /\ Len(d) = Len(a) + 2 + Len(b)
      /\ \A j \in 1..Len(a) : d[j] = a[j]
      /\ d[Len(a) + 1] = CR
      /\ d[Len(a) + 2] = LF
      /\ \A j \in 1..Len(b) : d[Len(a) + 2 + j] = b[j]
  BY <1>1, <1>2, <1>3
<1> QED
  BY <1>4 DEF c, d, IsMessage

LEMMA Cuts ==
    ASSUME NEW r \in Requests
    PROVE  Wire(r) \in Seq(Char) /\ \E at : IsCut(r, at)
<1> DEFINE n == Len(r.headers)
           s == [i \in DOMAIN r.headers |-> r.headers[i] \o <<CR, LF>>]
           w == Wire(r)
<1>0. r.line \in Seq(Char) /\ r.body \in Seq(Char) /\ <<CR, LF>> \in Seq(Char)
  <2>1. r.line \in Seq(STRING) /\ r.body \in Seq(STRING)
    BY DEF Requests
  <2> QED
    BY <2>1, StringsAreChars, Ending
<1>1. n \in Nat /\ DOMAIN r.headers = 1..n /\ \A i \in 1..n : r.headers[i] \in Seq(Char)
  <2>1. r.headers \in Seq(Seq(STRING))
    BY DEF Requests
  <2>2. n \in Nat /\ DOMAIN r.headers = 1..n /\ \A i \in 1..n : r.headers[i] \in Seq(STRING)
    BY <2>1
  <2> HIDE DEF n
  <2> QED
    BY <2>2, StringsAreChars
<1>2. /\ \A i \in 1..n : s[i] \in Seq(Char) /\ IsEnded(r.headers[i], s[i])
      /\ s \in [1..n -> Seq(Char)] /\ s \in Seq(Seq(Char)) /\ Len(s) = n
      /\ s = [i \in DOMAIN r.headers |-> r.headers[i] \o <<CR, LF>>]
  <2> HIDE DEF n
  <2>1. \A i \in 1..n : s[i] = r.headers[i] \o <<CR, LF>>
    BY <1>1
  <2>2. s = [i \in 1..n |-> s[i]]
    BY <1>1
  <2>3. s = [i \in DOMAIN r.headers |-> r.headers[i] \o <<CR, LF>>]
    OBVIOUS
  <2> HIDE DEF s
  <2>4. \A i \in 1..n : s[i] \in Seq(Char) /\ IsEnded(r.headers[i], s[i])
    BY <1>1, <2>1, LineWithEnding
  <2>5. s \in [1..n -> Seq(Char)]
    <3>1. \A i \in 1..n : s[i] \in Seq(Char)
      BY <2>4
    <3> QED
      BY <2>2, <3>1
  <2>6. s \in Seq(Seq(Char)) /\ Len(s) = n
    BY <1>1, <2>5
  <2> QED
    BY <2>3, <2>4, <2>5, <2>6, Zenon
<1> HIDE DEF n, s
<1>3. PICK f \in [0..n -> Seq(Char)] : f[0] = <<>> /\ \A i \in 1..n : f[i] = f[i - 1] \o s[i]
  <2>1. n \in Nat /\ s \in [1..n -> Seq(Char)]
    BY <1>1, <1>2
  <2>2. Sums(Char, n, s) # {}
    BY <2>1, Concatenations, Zenon
  <2> QED
    BY <2>2 DEF Sums
<1>4. FlattenSeq(s) = f[n] /\ f[n] \in Seq(Char)
  <2>1. f \in [0..Len(s) -> Seq(Char)] /\ \A i \in 1..Len(s) : f[i] = f[i - 1] \o s[i]
    BY <1>2, <1>3
  <2>2. FlattenSeq(s) = f[Len(s)]
    BY <1>2, <1>3, <2>1, FlattenIs, Zenon
  <2> QED
    BY <1>1, <1>2, <1>3, <2>2
<1> DEFINE h == r.line \o <<CR, LF>> \o f[n]
<1>5. h \in Seq(Char) /\ IsMessage(r.line, f[n], h)
  BY <1>0, <1>4, Message, Zenon
<1> HIDE DEF h
<1>6. w \in Seq(Char) /\ IsMessage(h, r.body, w)
  <2>1. w = h \o <<CR, LF>> \o r.body
    BY <1>4, <1>2 DEF Wire, h
  <2>2. h \in Seq(Char)
    BY <1>5
  <2> HIDE DEF w
  <2> QED
    BY <1>0, <2>1, <2>2, Message, Zenon
<1> DEFINE p == Len(r.line)
           q(k) == Len(f[k])
           b == Len(r.body)
           at == [k \in 0..(n + 2) |-> IF k = 0 THEN 0
                                       ELSE IF k <= n + 1 THEN p + 2 + q(k - 1)
                                       ELSE p + 2 + q(n) + 2]
<1>7. /\ p \in Nat /\ b \in Nat /\ q(n) \in Nat /\ Len(h) = p + 2 + q(n)
      /\ \A j \in 1..p : h[j] = r.line[j]
      /\ h[p + 1] = CR /\ h[p + 2] = LF
      /\ \A j \in 1..q(n) : h[p + 2 + j] = f[n][j]
  BY <1>5, <1>6 DEF IsMessage
<1>8. /\ Len(w) = p + 2 + q(n) + 2 + b
      /\ \A j \in 1..(p + 2 + q(n)) : w[j] = h[j]
      /\ w[p + 2 + q(n) + 1] = CR /\ w[p + 2 + q(n) + 2] = LF
      /\ \A j \in 1..b : w[p + 2 + q(n) + 2 + j] = r.body[j]
  BY <1>6, <1>7 DEF IsMessage
<1>9. /\ q(0) = 0 /\ \A k \in 0..n : q(k) \in Nat
      /\ \A k \in 1..n : /\ q(k) = q(k - 1) + Len(r.headers[k]) + 2
                         /\ Len(r.headers[k]) \in Nat
                         /\ q(k) <= q(n)
                         /\ \A j \in 1..Len(r.headers[k]) : f[k][q(k - 1) + j] = r.headers[k][j]
                         /\ f[k][q(k - 1) + Len(r.headers[k]) + 1] = CR
                         /\ f[k][q(k - 1) + Len(r.headers[k]) + 2] = LF
                         /\ \A j \in 1..q(k) : f[n][j] = f[k][j]
  <2>1. q(0) = 0 /\ \A k \in 0..n : q(k) \in Nat
    BY <1>1, <1>3
  <2>2. SUFFICES ASSUME NEW k \in 1..n
                 PROVE  /\ q(k) = q(k - 1) + Len(r.headers[k]) + 2
                        /\ Len(r.headers[k]) \in Nat
                        /\ q(k) <= q(n)
                        /\ \A j \in 1..Len(r.headers[k]) : f[k][q(k - 1) + j] = r.headers[k][j]
                        /\ f[k][q(k - 1) + Len(r.headers[k]) + 1] = CR
                        /\ f[k][q(k - 1) + Len(r.headers[k]) + 2] = LF
                        /\ \A j \in 1..q(k) : f[n][j] = f[k][j]
    BY <2>1
  <2>3. k \in 0..n /\ k - 1 \in 0..n
    BY <1>1
  <2>4. f[k] = f[k - 1] \o s[k] /\ f[k - 1] \in Seq(Char) /\ s[k] \in Seq(Char)
    BY <2>3, <1>2, <1>3
  <2>5. IsJoin(f[k - 1], s[k], f[k])
    BY <2>4, Concatenation, Zenon
  <2>6. IsEnded(r.headers[k], s[k])
    BY <1>2
  <2>7. BeginsWith(f[n], f[k])
    BY <1>1, <1>2, <1>3, <2>3, BeginWithEarlier, Zenon
  <2> DEFINE l == Len(r.headers[k])
             m == Len(s[k])
  <2>8. /\ l \in Nat /\ m = l + 2
        /\ \A j \in 1..l : s[k][j] = r.headers[k][j]
        /\ s[k][l + 1] = CR
        /\ s[k][l + 2] = LF
    BY <2>6 DEF IsEnded
  <2>9. /\ q(k - 1) \in Nat /\ q(k) = q(k - 1) + m
        /\ \A j \in 1..m : f[k][q(k - 1) + j] = s[k][j]
    BY <2>5 DEF IsJoin
  <2> HIDE DEF l, m
  <2>10. /\ q(k) = q(k - 1) + l + 2
         /\ \A j \in 1..l : f[k][q(k - 1) + j] = r.headers[k][j]
         /\ f[k][q(k - 1) + l + 1] = CR
         /\ f[k][q(k - 1) + l + 2] = LF
    <3>1. l + 1 \in 1..m /\ l + 2 \in 1..m /\ \A j \in 1..l : j \in 1..m
      BY <2>8
    <3>2. /\ \A j \in 1..l : f[k][q(k - 1) + j] = r.headers[k][j]
          /\ f[k][q(k - 1) + (l + 1)] = CR
          /\ f[k][q(k - 1) + (l + 2)] = LF
      BY <3>1, <2>8, <2>9
    <3> HIDE DEF q
    <3>3. /\ q(k - 1) + (l + 1) = q(k - 1) + l + 1 /\ q(k - 1) + (l + 2) = q(k - 1) + l + 2
          /\ q(k) = q(k - 1) + l + 2
      BY <2>8, <2>9
    <3> QED
      BY <3>2, <3>3
  <2> QED
    BY <2>7, <2>8, <2>10 DEF BeginsWith, l
<1>10. /\ at \in [0..(n + 2) -> Nat] /\ at[0] = 0
       /\ \A k \in 1..(n + 1) : at[k] = p + 2 + q(k - 1)
       /\ at[n + 2] = p + 2 + q(n) + 2
  <2>1. /\ \A k \in 1..(n + 1) : k - 1 \in 0..n
        /\ n + 2 \in 0..(n + 2) /\ ~ (n + 2 <= n + 1) /\ n + 2 # 0
        /\ \A k \in 0..(n + 2) : k # 0 /\ k <= n + 1 => k \in 1..(n + 1)
        /\ \A k \in 1..(n + 1) : k # 0 /\ k <= n + 1 /\ k \in 0..(n + 2)
    BY <1>1
  <2>2. \A k \in 1..(n + 1) : p + 2 + q(k - 1) \in Nat
    <3>1. \A k \in 1..(n + 1) : q(k - 1) \in Nat
      BY <2>1, <1>9
    <3> HIDE DEF q, p
    <3> QED
      BY <3>1, <1>7
  <2>3. p + 2 + q(n) + 2 \in Nat
    <3>1. p \in Nat /\ q(n) \in Nat
      BY <1>7
    <3> HIDE DEF q, p
    <3> QED
      BY <3>1
  <2> HIDE DEF q, p
  <2>4. \A k \in 0..(n + 2) : (IF k = 0 THEN 0 ELSE IF k <= n + 1 THEN p + 2 + q(k - 1)
                               ELSE p + 2 + q(n) + 2) \in Nat
    BY <2>1, <2>2, <2>3
  <2>5. at \in [0..(n + 2) -> Nat]
    BY <2>4
  <2>6. \A k \in 1..(n + 1) : at[k] = p + 2 + q(k - 1)
    BY <2>1
  <2>7. at[n + 2] = p + 2 + q(n) + 2
    BY <2>1
  <2>8. 0 \in 0..(n + 2)
    BY <1>1
  <2>9. at[0] = 0
    BY <2>8
  <2> HIDE DEF at
  <2> QED
    BY <2>5, <2>6, <2>7, <2>9
<1> HIDE DEF at, p, q, b, w
<1>11. \A k \in 0..(n + 1) :
         /\ at[k + 1] = at[k] + Len(LineOf(r, k)) + 2
         /\ \A j \in 1..Len(LineOf(r, k)) : w[at[k] + j] = LineOf(r, k)[j]
         /\ w[at[k] + Len(LineOf(r, k)) + 1] = CR
         /\ w[at[k] + Len(LineOf(r, k)) + 2] = LF
  <2> SUFFICES ASSUME NEW k \in 0..(n + 1), NEW L, L = LineOf(r, k)
               PROVE  /\ at[k + 1] = at[k] + Len(L) + 2
                      /\ \A j \in 1..Len(L) : w[at[k] + j] = L[j]
                      /\ w[at[k] + Len(L) + 1] = CR
                      /\ w[at[k] + Len(L) + 2] = LF
    OBVIOUS
  <2>1. CASE k = 0
    <3>1. L = r.line /\ Len(L) = p
      BY <2>1 DEF LineOf, p
    <3>2. at[k] = 0 /\ at[k + 1] = p + 2
      BY <2>1, <1>1, <1>7, <1>9, <1>10
    <3>3. \A j \in 1..p : w[j] = h[j]
      BY <1>7, <1>8
    <3>4. w[p + 1] = h[p + 1] /\ w[p + 2] = h[p + 2]
      BY <1>7, <1>8
    <3>5. \A j \in 1..p : 0 + j = j
      BY <1>7
    <3>6. 0 + p + 1 = p + 1 /\ 0 + p + 2 = p + 2
      BY <1>7
    <3>7. \A j \in 1..p : h[j] = r.line[j]
      BY <1>7
    <3>8. h[p + 1] = CR /\ h[p + 2] = LF
      BY <1>7
    <3>9. \A j \in 1..p : w[0 + j] = L[j]
      BY <3>1, <3>3, <3>5, <3>7
    <3> QED
      BY <3>1, <3>2, <3>4, <3>6, <3>8, <3>9
  <2>2. CASE k \in 1..n
    <3>1. L = r.headers[k]
      BY <2>2, <1>1 DEF LineOf, n
    <3> DEFINE l == Len(L)
               c == q(k - 1)
    <3>2. /\ q(k) = c + l + 2 /\ c \in Nat /\ l \in Nat /\ q(k) <= q(n)
          /\ \A j \in 1..l : f[k][c + j] = L[j]
          /\ f[k][c + l + 1] = CR
          /\ f[k][c + l + 2] = LF
          /\ \A j \in 1..q(k) : f[n][j] = f[k][j]
      <4>1. k - 1 \in 0..n
        BY <2>2, <1>1
      <4> QED
        BY <2>2, <3>1, <1>9, <4>1
    <3>3. at[k] = p + 2 + c /\ at[k + 1] = p + 2 + q(k)
      <4>1. k \in 1..(n + 1) /\ k + 1 \in 1..(n + 1) /\ k + 1 - 1 = k
        BY <2>2, <1>1
      <4> QED
        BY <4>1, <1>10
    <3> HIDE DEF c, l
    <3>4. ASSUME NEW i \in 1..q(k) PROVE w[p + 2 + i] = f[k][i]
      <4>1. i \in 1..q(n) /\ p + 2 + i \in 1..(p + 2 + q(n))
        BY <3>2, <1>7
      <4>2. w[p + 2 + i] = h[p + 2 + i] /\ h[p + 2 + i] = f[n][i]
        BY <4>1, <1>7, <1>8
      <4> QED
        BY <4>2, <3>2
    <3>5. \A j \in 1..(l + 2) : c + j \in 1..q(k) /\ p + 2 + c + j = p + 2 + (c + j)
      BY <3>2, <1>7
    <3>6. \A j \in 1..(l + 2) : w[p + 2 + c + j] = f[k][c + j]
      BY <3>4, <3>5
    <3>7. \A j \in 1..l : j \in 1..(l + 2)
      BY <3>2
    <3>8. \A j \in 1..l : w[p + 2 + c + j] = L[j]
      BY <3>2, <3>6, <3>7
    <3>9. /\ l + 1 \in 1..(l + 2) /\ c + (l + 1) = c + l + 1
          /\ p + 2 + c + (l + 1) = p + 2 + c + l + 1
          /\ l + 2 \in 1..(l + 2) /\ c + (l + 2) = c + l + 2
          /\ p + 2 + c + (l + 2) = p + 2 + c + l + 2
      BY <3>2, <1>7
    <3>10. w[p + 2 + c + l + 1] = CR /\ w[p + 2 + c + l + 2] = LF
      <4>1. w[p + 2 + c + (l + 1)] = f[k][c + (l + 1)] /\ w[p + 2 + c + (l + 2)] = f[k][c + (l + 2)]
        BY <3>6, <3>9
      <4> QED
        BY <4>1, <3>9, <3>2
    <3>11. p + 2 + q(k) = p + 2 + c + l + 2
      BY <3>2, <1>7
    <3> QED
      BY <3>3, <3>8, <3>10, <3>11 DEF l
  <2>3. CASE k = n + 1
    <3>1. L = <<>> /\ Len(L) = 0
      <4>1. ~ (k <= n) /\ k # 0
        BY <2>3, <1>1
      <4> QED
        BY <4>1 DEF LineOf, n
    <3>2. at[k] = p + 2 + q(n) /\ at[k + 1] = p + 2 + q(n) + 2
      <4>1. k \in 1..(n + 1) /\ k - 1 = n /\ k + 1 = n + 2
        BY <2>3, <1>1
      <4> QED
        BY <4>1, <1>10
    <3>3. p + 2 + q(n) + 0 + 1 = p + 2 + q(n) + 1 /\ p + 2 + q(n) + 0 + 2 = p + 2 + q(n) + 2
      BY <1>7
    <3>4. w[p + 2 + q(n) + 1] = CR /\ w[p + 2 + q(n) + 2] = LF
      BY <1>8
    <3>5. \A j \in 1..0 : w[at[k] + j] = L[j]
      OBVIOUS
    <3> QED
      BY <3>1, <3>2, <3>3, <3>4, <3>5
  <2>4. k = 0 \/ k \in 1..n \/ k = n + 1
    BY <1>1
  <2> QED
    BY <2>1, <2>2, <2>3, <2>4
<1>12. /\ Len(w) = at[n + 2] + b
       /\ \A j \in 1..b : w[at[n + 2] + j] = r.body[j]
  BY <1>8, <1>10
<1>13. IsCut(r, at)
  BY <1>10, <1>11, <1>12 DEF IsCut, LastLine, n, w, b
<1>14. w \in Seq(Char)
  BY <1>6
<1> QED
  BY <1>13, <1>14 DEF w

-----------------------------------------------------------------------------
(* The scan for the end of a line.                                           *)

\* The first i characters of buf have no line break among them.
Unbroken(i) == \A j \in 1..i : buf[j] \notin {CR, LF}

FoundOpen(scan) ==
    /\ scan.state = "LINE_OPEN" /\ scan.buf = buf
    /\ Unbroken(scan.index)
    /\ \/ scan.index = Len(buf)
       \/ scan.index = Len(buf) - 1 /\ buf[Len(buf)] = CR

FoundLine(scan, i) ==
    /\ scan.state = "LINE_OK" /\ scan.index = i + 1
    /\ scan.buf = [buf EXCEPT ![i] = NUL, ![i + 1] = NUL]
    /\ i \in 1..(Len(buf) - 1) /\ Unbroken(i - 1)
    /\ buf[i] = CR /\ buf[i + 1] = LF

FoundBad(scan, i) ==
    /\ scan.state = "LINE_BAD" /\ scan.buf = buf /\ scan.index = i - 1
    /\ i \in 1..Len(buf) /\ Unbroken(i - 1)
    /\ buf[i] \in {CR, LF}
    /\ buf[i] = CR => i < Len(buf) /\ buf[i + 1] # LF

\* What a scan may come to.
Found(scan) ==
    /\ scan.buf \in Seq(Char) /\ Len(scan.buf) = Len(buf)
    /\ scan.index \in 0..Len(buf)
    /\ \A j \in 1..scan.index : scan.buf[j] \notin {CR, LF}
    /\ FoundOpen(scan) \/ \E i \in 1..Len(buf) : FoundLine(scan, i) \/ FoundBad(scan, i)

LEMMA Constants == /\ kBufferSize \in Nat \ {0}
                   /\ \A c \in Conversations : c \in Seq(Requests) /\ c # <<>>
                   /\ DOMAIN LengthHeader \cap {KeepAliveHeader, CloseHeader} = {}
                   /\ \A name \in DOMAIN LengthHeader : LengthHeader[name] \in Int
BY HttpAssumption

LEMMA MinIsLeast ==
    ASSUME NEW S, S \subseteq Nat, S # {}
    PROVE  Min(S) \in S /\ \A y \in S : Min(S) <= y
<1>1. \E x \in S : \A y \in S : x <= y
  BY Least
<1> QED
  BY <1>1 DEF Min

LEMMA Characters3 == CR # LF /\ CR # NUL /\ LF # NUL /\ {CR, LF, NUL} \subseteq Char
BY DEF CR, LF, NUL, Char

LEMMA ScanFinds ==
    ASSUME buf \in Seq(Char), mCheckIndex \in 0..Len(buf), NothingSkipped
    PROVE  Found(parseLine)
<1>0. Len(buf) \in Nat /\ \A j \in 1..mCheckIndex : buf[j] \notin {CR, LF}
  BY DEF NothingSkipped
<1>1. CASE Breaks = {}
  <2>1. parseLine = Scan("LINE_OPEN", Len(buf), buf)
    BY <1>1 DEF parseLine
  <2>2. Unbroken(Len(buf))
    <3>1. \A j \in (mCheckIndex + 1)..Len(buf) : buf[j] \notin {CR, LF}
      BY <1>1 DEF Breaks
    <3>2. \A j \in 1..Len(buf) : j \in 1..mCheckIndex \/ j \in (mCheckIndex + 1)..Len(buf)
      BY <1>0
    <3> QED
      BY <1>0, <3>1, <3>2 DEF Unbroken
  <2> HIDE DEF parseLine
  <2>3. parseLine.state = "LINE_OPEN" /\ parseLine.index = Len(buf) /\ parseLine.buf = buf
    BY <2>1 DEF Scan
  <2>4. Len(buf) \in 0..Len(buf)
    BY <1>0
  <2> QED
    BY <2>2, <2>3, <2>4 DEF Found, FoundOpen, Unbroken
<1>2. CASE Breaks # {}
  <2> DEFINE i == Min(Breaks)
  <2>1. Breaks \subseteq Nat
    BY <1>0 DEF Breaks
  <2>2. i \in Breaks /\ \A y \in Breaks : i <= y
    BY <2>1, <1>2, MinIsLeast
  <2>3. parseLine = CASE buf[i] = CR /\ i = Len(buf) -> Scan("LINE_OPEN", BeforeCR(i), buf)
                      [] buf[i] = CR /\ i < Len(buf) /\ buf[i + 1] = LF -> EndLine(i)
                      [] buf[i] = LF /\ i > 2 /\ buf[i - 1] = CR -> EndLine(i - 1)
                      [] OTHER -> Scan("LINE_BAD", i - 1, buf)
    BY <1>2 DEF parseLine
  <2> HIDE DEF i, parseLine
  <2>4. i \in (mCheckIndex + 1)..Len(buf) /\ i \in 1..Len(buf) /\ buf[i] \in {CR, LF}
    BY <2>2, <1>0 DEF Breaks
  <2>5. Unbroken(i - 1)
    <3>1. \A j \in (mCheckIndex + 1)..Len(buf) : buf[j] \in {CR, LF} => i <= j
      BY <2>2 DEF Breaks
    <3>2. \A j \in 1..(i - 1) : /\ j \in 1..mCheckIndex \/ j \in (mCheckIndex + 1)..Len(buf)
                                /\ ~ (i <= j)
      BY <2>4, <1>0
    <3> QED
      BY <1>0, <3>1, <3>2 DEF Unbroken
  <2>6. ~ (buf[i] = LF /\ i > 2 /\ buf[i - 1] = CR)
    <3>1. i > 2 => i - 1 \in 1..(i - 1)
      BY <2>4, <1>0
    <3> QED
      BY <2>5, <3>1 DEF Unbroken
  <2>7. CASE buf[i] = CR /\ i = Len(buf)
    <3>1. parseLine = Scan("LINE_OPEN", i - 1, buf)
      <4>1. ~ (i < Len(buf)) /\ ~ (buf[i] = LF)
        BY <2>4, <2>7, <1>0, Characters3
      <4> QED
        BY <4>1, <2>3, <2>7 DEF BeforeCR
    <3>2. parseLine.state = "LINE_OPEN" /\ parseLine.index = i - 1 /\ parseLine.buf = buf
      BY <3>1 DEF Scan
    <3>3. i - 1 \in 0..Len(buf) /\ i - 1 = Len(buf) - 1
      BY <2>4, <2>7, <1>0
    <3> QED
      BY <2>5, <2>7, <3>2, <3>3 DEF Found, FoundOpen, Unbroken
  <2>8. CASE buf[i] = CR /\ i < Len(buf) /\ buf[i + 1] = LF
    <3>1. parseLine = EndLine(i)
      <4>1. ~ (buf[i] = CR /\ i = Len(buf))
        BY <2>8, <2>4, <1>0
      <4> QED
        BY <4>1, <2>3, <2>8, <2>6, Characters3
    <3> DEFINE b == [buf EXCEPT ![i] = NUL, ![i + 1] = NUL]
    <3>2. parseLine.state = "LINE_OK" /\ parseLine.index = i + 1 /\ parseLine.buf = b
      BY <3>1 DEF EndLine, Scan
    <3>3. i \in 1..(Len(buf) - 1) /\ i + 1 \in 0..Len(buf) /\ i + 1 \in 1..Len(buf)
      BY <2>4, <2>8, <1>0
    <3>4. /\ b \in Seq(Char) /\ Len(b) = Len(buf)
          /\ \A j \in 1..Len(buf) : b[j] = IF j = i \/ j = i + 1 THEN NUL ELSE buf[j]
      <4>1. NUL \in Char
        BY Characters3
      <4>2. buf \in [1..Len(buf) -> Char]
        OBVIOUS
      <4>3. /\ b \in [1..Len(buf) -> Char]
            /\ \A j \in 1..Len(buf) : b[j] = IF j = i \/ j = i + 1 THEN NUL ELSE buf[j]
        BY <4>1, <4>2, <3>3
      <4> HIDE DEF b
      <4>4. b \in Seq(Char) /\ Len(b) = Len(buf)
        BY <4>3, <1>0
      <4> QED
        BY <4>3, <4>4
    <3> HIDE DEF b
    <3>5. \A j \in 1..(i + 1) : b[j] \notin {CR, LF}
      <4>1. \A j \in 1..(i + 1) : j \in 1..Len(buf) /\ (j = i \/ j = i + 1 \/ j \in 1..(i - 1))
        BY <2>4, <3>3, <1>0
      <4>2. \A j \in 1..(i - 1) : buf[j] \notin {CR, LF}
        BY <2>5 DEF Unbroken
      <4> QED
        BY <4>1, <4>2, <3>4, Characters3
    <3>6. FoundLine(parseLine, i)
      BY <3>2, <3>3, <2>5, <2>8 DEF FoundLine, b
    <3> QED
      BY <3>2, <3>3, <3>4, <3>5, <3>6, <2>4 DEF Found
  <2>9. CASE ~ (buf[i] = CR /\ i = Len(buf)) /\ ~ (buf[i] = CR /\ i < Len(buf) /\ buf[i + 1] = LF)
    <3>1. parseLine = Scan("LINE_BAD", i - 1, buf)
      BY <2>3, <2>6, <2>9
    <3>2. parseLine.state = "LINE_BAD" /\ parseLine.index = i - 1 /\ parseLine.buf = buf
      BY <3>1 DEF Scan
    <3>3. i - 1 \in 0..Len(buf)
      BY <2>4, <1>0
    <3>4. buf[i] = CR => i < Len(buf) /\ buf[i + 1] # LF
      BY <2>4, <2>9, <1>0
    <3>5. FoundBad(parseLine, i)
      BY <2>4, <2>5, <3>2, <3>4 DEF FoundBad
    <3> QED
      BY <2>4, <2>5, <3>2, <3>3, <3>5 DEF Found, Unbroken
  <2> QED
    BY <2>7, <2>8, <2>9
<1> QED
  BY <1>1, <1>2

-----------------------------------------------------------------------------
(* Types, and that nothing is skipped, whatever the clients send.            *)

\* The text u is s from character i + 1 to character k.
IsPart(s, i, k, u) ==
    u \in Seq(Char) /\ Len(u) = k - i /\ \A j \in 1..(k - i) : u[j] = s[i + j]

LEMMA PartOf ==
    ASSUME NEW s \in Seq(Char), NEW k \in 0..Len(s), NEW i \in 0..k
    PROVE  IsPart(s, i, k, SubSeq(s, i + 1, k))
<1> DEFINE u == SubSeq(s, i + 1, k)
<1>0. Len(s) \in Nat /\ i \in Nat /\ k \in Nat /\ i <= k /\ k <= Len(s)
  OBVIOUS
<1>1. \A j \in (i + 1)..k : j \in 1..Len(s)
  BY <1>0
<1>2. /\ u \in Seq(Char)
      /\ Len(u) = k - i
      /\ \A j \in 1..(k - i) : u[j] = s[i + j]
  BY <1>0, <1>1
<1> QED
  BY <1>2 DEF IsPart

LEMMA RequestIs ==
    ASSUME client \in Seq(Requests), client # <<>>
    PROVE  Request \in Requests /\ Wire(Request) \in Seq(Char) /\ Len(Wire(Request)) \in Nat
<1>1. Request \in Requests
  BY DEF Request
<1>2. Wire(Request) \in Seq(Char)
  BY <1>1, Cuts
<1>3. Len(Wire(Request)) \in Nat
  BY <1>2, LenProperties
<1> QED
  BY <1>1, <1>2, <1>3

\* The inductive invariant for any client.
HttpInv ==
    /\ client \in Seq(Requests) /\ client # <<>>
    /\ buf \in Seq(Char)
    /\ HttpTypeOK
    /\ NothingSkipped

\* What the steps of the parser do to the buffer.
LEMMA Keeps ==
    ASSUME HttpInv, NEW scan, Found(scan), KeepScan(scan)
    PROVE  /\ buf' \in Seq(Char) /\ Len(buf') <= kBufferSize
           /\ mCheckIndex' \in 0..Len(buf')
           /\ NothingSkipped'
<1>1. buf' = scan.buf /\ mCheckIndex' = scan.index
  BY DEF KeepScan
<1>2. /\ scan.buf \in Seq(Char) /\ Len(scan.buf) = Len(buf) /\ scan.index \in 0..Len(buf)
      /\ \A j \in 1..scan.index : scan.buf[j] \notin {CR, LF}
  BY DEF Found
<1>3. Len(buf) <= kBufferSize
  BY DEF HttpInv, HttpTypeOK
<1> QED
  BY <1>1, <1>2, <1>3 DEF NothingSkipped

LEMMA Takes ==
    ASSUME HttpInv, NEW scan, Found(scan), TakeLine(scan)
    PROVE  /\ buf' \in Seq(Char) /\ Len(buf') <= kBufferSize
           /\ mCheckIndex' \in 0..Len(buf')
           /\ NothingSkipped'
           /\ IsPart(scan.buf, scan.index, Len(scan.buf), buf')
<1>1. buf' = SubSeq(scan.buf, scan.index + 1, Len(scan.buf)) /\ mCheckIndex' = 0
  BY DEF TakeLine
<1>2. scan.buf \in Seq(Char) /\ Len(scan.buf) = Len(buf) /\ scan.index \in 0..Len(scan.buf)
  BY DEF Found
<1>3. Len(buf) \in Nat /\ Len(buf) <= kBufferSize /\ Len(scan.buf) \in 0..Len(scan.buf)
  BY <1>2 DEF HttpInv, HttpTypeOK
<1>4. IsPart(scan.buf, scan.index, Len(scan.buf), buf')
  BY <1>1, <1>2, <1>3, PartOf
<1>5. buf' \in Seq(Char) /\ Len(buf') = Len(scan.buf) - scan.index
  BY <1>4 DEF IsPart
<1>6. Len(buf') <= kBufferSize /\ 0 \in 0..Len(buf')
  BY <1>2, <1>3, <1>5, Constants
<1>7. NothingSkipped'
  BY <1>1 DEF NothingSkipped
<1> QED
  BY <1>1, <1>4, <1>5, <1>6, <1>7

\* What an arriving portion does to it.
LEMMA Arrives ==
    ASSUME HttpInv, NEW n \in 1..kBufferSize, Receive(n)
    PROVE  /\ buf' \in Seq(Char) /\ Len(buf') = Len(buf) + n /\ Len(buf') <= kBufferSize
           /\ \A j \in 1..Len(buf) : buf'[j] = buf[j]
           /\ \A j \in 1..n : buf'[Len(buf) + j] = Wire(Request)[sent + j]
           /\ sent \in Nat /\ sent' = sent + n /\ sent' <= Len(Wire(Request))
<1> DEFINE w == Wire(Request)
           p == SubSeq(w, sent + 1, sent + n)
<1>1. w \in Seq(Char) /\ Len(w) \in Nat /\ buf \in Seq(Char)
  BY RequestIs DEF HttpInv
<1>2. /\ sent \in Nat /\ n \in Nat /\ sent + n <= Len(w) /\ Len(buf) + n <= kBufferSize
      /\ buf' = buf \o p /\ sent' = sent + n
  BY <1>1, Constants DEF HttpInv, HttpTypeOK, Receive
<1> HIDE DEF w
<1>3. sent + n \in 0..Len(w) /\ sent \in 0..(sent + n) /\ (sent + n) - sent = n
  BY <1>1, <1>2
<1>4. IsPart(w, sent, sent + n, p)
  BY <1>1, <1>3, PartOf
<1>5. p \in Seq(Char) /\ Len(p) = n /\ \A j \in 1..n : p[j] = w[sent + j]
  <2> HIDE DEF p
  <2>1. p \in Seq(Char) /\ Len(p) = (sent + n) - sent /\ \A j \in 1..((sent + n) - sent) : p[j] = w[sent + j]
    BY <1>4, Zenon DEF IsPart
  <2> QED
    BY <2>1, <1>3
<1> HIDE DEF p
<1>6. buf' \in Seq(Char) /\ IsJoin(buf, p, buf')
  <2>1. p \in Seq(Char) /\ buf \in Seq(Char)
    BY <1>1, <1>5
  <2>2. buf \o p \in Seq(Char) /\ IsJoin(buf, p, buf \o p)
    BY <2>1, Concatenation, Zenon
  <2> QED
    BY <2>2, <1>2
<1>7. /\ Len(buf') = Len(buf) + n
      /\ \A j \in 1..Len(buf) : buf'[j] = buf[j]
      /\ \A j \in 1..n : buf'[Len(buf) + j] = w[sent + j]
  BY <1>5, <1>6 DEF IsJoin
<1> QED
  BY <1>2, <1>6, <1>7 DEF w

\* Every turn of processRead's loop scans, or finds the buffer empty.
LEMMA ReadKeeps ==
    ASSUME HttpInv, processRead
    PROVE  HttpInv'
<1>0. /\ buf \in Seq(Char) /\ mCheckIndex \in 0..Len(buf) /\ NothingSkipped
      /\ mCheckState \in {"REQUEST", "HEADER", "BODY", "SUCCESS"}
      /\ mLineState \in {"LINE_OK", "LINE_OPEN", "LINE_BAD"}
      /\ contentLength \in Int /\ isAlive \in BOOLEAN
      /\ pc = "loop" /\ ret \in {"NO_REQUEST", "GET_REQUEST", "BAD_REQUEST"}
  BY DEF HttpInv, HttpTypeOK, processRead
<1>1. client' = client /\ sent' = sent /\ mAlive' = mAlive
  BY DEF processRead
<1>2. /\ client' \in Seq(Requests) /\ client' # <<>>
      /\ sent' \in 0..Len(Wire(Request')) /\ mAlive' \in BOOLEAN
  BY <1>1 DEF HttpInv, HttpTypeOK, Request
<1> DEFINE Rest == /\ mCheckState' \in {"REQUEST", "HEADER", "BODY", "SUCCESS"}
                   /\ mLineState' \in {"LINE_OK", "LINE_OPEN", "LINE_BAD"}
                   /\ contentLength' \in Int /\ isAlive' \in BOOLEAN
                   /\ pc' \in {"idle", "loop", "answer", "write", "closed", "terminated"}
                   /\ ret' \in {"NO_REQUEST", "GET_REQUEST", "BAD_REQUEST"}
           Buffer == /\ buf' \in Seq(Char) /\ Len(buf') <= kBufferSize
                     /\ mCheckIndex' \in 0..Len(buf')
                     /\ NothingSkipped'
<1>3. ASSUME Rest, Buffer PROVE HttpInv'
  <2>1. HttpTypeOK'
    BY <1>2, <1>3 DEF HttpTypeOK, Request
  <2> QED
    BY <2>1, <1>2, <1>3 DEF HttpInv
<1>4. CASE LoopEnds
  <2>1. Rest
    BY <1>0, <1>4 DEF LoopEnds, Return, parsed
  <2>2. buf' = buf /\ mCheckIndex' = mCheckIndex
    BY <1>4 DEF LoopEnds
  <2>3. Buffer
    BY <2>2, <1>0 DEF NothingSkipped, HttpInv, HttpTypeOK
  <2> HIDE DEF Rest, Buffer
  <2> QED
    BY <2>1, <2>3, <1>3
<1>5. ASSUME NEW scan, scan = parseLine, ProcessLine(scan) PROVE HttpInv'
  <2>1. Found(scan)
    BY <1>0, <1>5, ScanFinds
  <2>2. mLineState' \in {"LINE_OK", "LINE_OPEN", "LINE_BAD"}
    BY <2>1, <1>5 DEF ProcessLine, Found, FoundOpen, FoundLine, FoundBad
  <2>3. KeepScan(scan) => Buffer
    BY <2>1, Keeps
  <2>4. TakeLine(scan) => Buffer
    BY <2>1, Takes
  <2>5. (\/ LineOpen(scan) \/ LineBad(scan)
         \/ parseRequest(scan) \/ parseHeader(scan) \/ parseBlank(scan)
         \/ parseContent(scan) \/ NoCase(scan))
    BY <1>5 DEF ProcessLine
  <2> HIDE DEF Buffer
  <2>6. Buffer
    BY <2>3, <2>4, <2>5 DEF LineOpen, LineBad, parseRequest, parseHeader, parseBlank, parseContent,
                            NoCase
  <2>7. Rest
    <3>1. CASE LineOpen(scan)
      BY <3>1, <2>2, <1>0 DEF LineOpen, Return, parsed
    <3>2. CASE LineBad(scan)
      BY <3>2, <2>2, <1>0 DEF LineBad, Return, parsed
    <3>3. CASE parseRequest(scan)
      BY <3>3, <2>2, <1>0 DEF parseRequest, Return
    <3>4. CASE parseHeader(scan)
      <4> DEFINE name == Head(Line(scan.buf))
      <4>1. /\ contentLength' = IF name \in DOMAIN LengthHeader THEN LengthHeader[name]
                                ELSE contentLength
            /\ isAlive' = IF name \in {KeepAliveHeader, CloseHeader} THEN name = KeepAliveHeader
                          ELSE isAlive
            /\ mCheckState' = mCheckState /\ pc' = pc /\ ret' = ret
        BY <3>4 DEF parseHeader
      <4> HIDE DEF name
      <4>2. contentLength' \in Int
        BY <4>1, <1>0, Constants
      <4>3. isAlive' \in BOOLEAN
        BY <4>1, <1>0
      <4> QED
        BY <4>1, <4>2, <4>3, <2>2, <1>0
    <3>5. CASE parseBlank(scan)
      BY <3>5, <2>2, <1>0 DEF parseBlank, Return
    <3>6. CASE parseContent(scan)
      BY <3>6, <2>2, <1>0 DEF parseContent, Return
    <3>7. CASE NoCase(scan)
      BY <3>7, <2>2, <1>0 DEF NoCase, parsed
    <3> HIDE DEF Rest
    <3> QED
      BY <3>1, <3>2, <3>3, <3>4, <3>5, <3>6, <3>7, <2>5
  <2> HIDE DEF Rest
  <2> QED
    BY <2>6, <2>7, <1>3
<1>6. LoopEnds \/ ProcessLine(parseLine)
  BY DEF processRead
<1> QED
  BY <1>4, <1>5, <1>6

LEMMA HttpInvInit == Init => HttpInv
<1> SUFFICES ASSUME Init PROVE HttpInv
  OBVIOUS
<1>1. client \in Seq(Requests) /\ client # <<>>
  BY Constants DEF Init
<1>2. buf = <<>> /\ Len(buf) = 0 /\ buf \in Seq(Char) /\ mCheckIndex = 0
  BY DEF Init
<1>3. sent = 0 /\ Len(Wire(Request)) \in Nat
  BY <1>1, RequestIs DEF Init
<1>4. HttpTypeOK
  <2>1. sent \in 0..Len(Wire(Request)) /\ mCheckIndex \in 0..Len(buf)
    BY <1>2, <1>3
  <2>2. Len(buf) <= kBufferSize
    BY <1>2, Constants
  <2>3. contentLength = 0 /\ contentLength \in Int /\ isAlive = FALSE /\ mAlive = TRUE
    BY DEF Init
  <2>4. /\ mCheckState = "REQUEST" /\ mLineState = "LINE_OPEN"
        /\ pc = "idle" /\ ret = "NO_REQUEST"
    BY DEF Init
  <2> QED
    BY <2>1, <2>2, <2>3, <2>4 DEF HttpTypeOK
<1>5. NothingSkipped
  BY <1>2 DEF NothingSkipped
<1> QED
  BY <1>1, <1>2, <1>4, <1>5 DEF HttpInv

LEMMA HttpInvStep == HttpInv /\ [Next]_vars => HttpInv'
<1> SUFFICES ASSUME HttpInv, [Next]_vars PROVE HttpInv'
  OBVIOUS
<1>0. /\ client \in Seq(Requests) /\ client # <<>>
      /\ buf \in Seq(Char) /\ HttpTypeOK /\ NothingSkipped
  BY DEF HttpInv
<1>1. ASSUME NEW n \in 1..kBufferSize, Receive(n) PROVE HttpInv'
  <2>1. /\ buf' \in Seq(Char) /\ Len(buf') = Len(buf) + n /\ Len(buf') <= kBufferSize
        /\ \A j \in 1..Len(buf) : buf'[j] = buf[j]
        /\ sent \in Nat /\ sent' = sent + n /\ sent' <= Len(Wire(Request))
    BY <1>1, Arrives
  <2>2. /\ pc' = "loop"
        /\ UNCHANGED <<client, mLineState, mCheckIndex, parsed, mAlive, ret>>
    BY <1>1 DEF Receive
  <2>3. mCheckIndex \in 0..Len(buf) /\ Len(buf) \in Nat /\ n \in Nat
    BY <1>0, <1>1, Constants DEF HttpTypeOK
  <2>4. mCheckIndex' \in 0..Len(buf')
    BY <2>1, <2>2, <2>3
  <2>5. NothingSkipped'
    <3>1. \A i \in 1..mCheckIndex : i \in 1..Len(buf)
      BY <2>3
    <3> QED
      BY <3>1, <2>1, <2>2, <1>0 DEF NothingSkipped
  <2>6. Request' = Request
    BY <2>2 DEF Request
  <2>7. sent' \in 0..Len(Wire(Request))
    BY <2>1, <2>3, <1>0, RequestIs
  <2>8. HttpTypeOK'
    BY <2>1, <2>2, <2>4, <2>6, <2>7, <1>0 DEF HttpTypeOK, parsed
  <2> QED
    BY <2>1, <2>2, <2>5, <2>8, <1>0 DEF HttpInv
<1>2. CASE Overflow
  <2>1. /\ pc' = "closed"
        /\ UNCHANGED <<client, sent, buf, mLineState, mCheckIndex, parsed, mAlive, ret>>
    BY <1>2 DEF Overflow
  <2> QED
    BY <2>1, <1>0 DEF HttpInv, HttpTypeOK, NothingSkipped, Request, parsed
<1>3. CASE processRead
  BY <1>3, ReadKeeps
<1>4. ASSUME NEW keep \in BOOLEAN, Respond(keep) PROVE HttpInv'
  <2>1. /\ pc' = "write" /\ mAlive' \in BOOLEAN
        /\ mCheckIndex' \in {0, mCheckIndex} /\ mLineState' \in {"LINE_OPEN", mLineState}
        /\ UNCHANGED <<client, sent, buf, parsed, ret>>
    BY <1>4, <1>0 DEF Respond, Kept, HttpTypeOK
  <2>2. 0 \in 0..Len(buf) /\ mCheckIndex \in 0..Len(buf)
    BY <1>0 DEF HttpTypeOK
  <2>3. NothingSkipped'
    BY <2>1, <1>0 DEF NothingSkipped
  <2>4. HttpTypeOK'
    BY <2>1, <2>2, <1>0 DEF HttpTypeOK, Request, parsed
  <2> QED
    BY <2>1, <2>3, <2>4, <1>0 DEF HttpInv
<1>5. CASE WriteCb
  <2>1. /\ pc' \in {"idle", "closed"}
        /\ UNCHANGED <<buf, mLineState, mCheckIndex, parsed, mAlive, ret>>
        /\ \/ Len(client) > 1 /\ client' = Tail(client) /\ sent' = 0
           \/ UNCHANGED <<client, sent>>
    BY <1>5 DEF WriteCb
  <2>2. client' \in Seq(Requests) /\ client' # <<>> /\ sent' \in 0..Len(Wire(Request'))
    <3>1. CASE Len(client) > 1 /\ client' = Tail(client) /\ sent' = 0
      <4>1. client' \in Seq(Requests) /\ client' # <<>>
        <5>1. client \in Seq(Requests) /\ client # <<>> /\ Len(client) \in Nat
          BY <1>0
        <5>2. client' \in Seq(Requests) /\ Len(client') = Len(client) - 1
          BY <5>1, <3>1, HeadTailProperties
        <5>3. Len(client') # 0
          BY <5>1, <5>2, <3>1
        <5> QED
          BY <5>2, <5>3
      <4>2. Len(Wire(Request')) \in Nat
        <5>1. Request' \in Requests
          BY <4>1 DEF Request
        <5>2. Wire(Request') \in Seq(Char)
          BY <5>1, Cuts
        <5> QED
          BY <5>2, LenProperties
      <4> QED
        BY <4>1, <4>2, <3>1
    <3>2. CASE UNCHANGED <<client, sent>>
      BY <3>2, <1>0 DEF HttpTypeOK, Request
    <3> QED
      BY <3>1, <3>2, <2>1
  <2>3. NothingSkipped'
    BY <2>1, <1>0 DEF NothingSkipped
  <2>4. HttpTypeOK'
    BY <2>1, <2>2, <1>0 DEF HttpTypeOK, Request, parsed
  <2> QED
    BY <2>1, <2>2, <2>3, <2>4, <1>0 DEF HttpInv
<1>6. CASE SendFails
  <2>1. /\ pc' = "closed"
        /\ UNCHANGED <<client, sent, buf, mLineState, mCheckIndex, parsed, mAlive, ret>>
    BY <1>6 DEF SendFails
  <2> QED
    BY <2>1, <1>0 DEF HttpInv, HttpTypeOK, NothingSkipped, Request, parsed
<1>7. CASE UNCHANGED vars
  BY <1>7, <1>0 DEF HttpInv, HttpTypeOK, NothingSkipped, Request, vars
<1>8. \/ \E n \in 1..kBufferSize : Receive(n)
      \/ Overflow \/ processRead
      \/ \E keep \in BOOLEAN : Respond(keep)
      \/ WriteCb \/ SendFails \/ UNCHANGED vars
  BY DEF Next, Read
<1> QED
  BY <1>1, <1>2, <1>3, <1>4, <1>5, <1>6, <1>7, <1>8

\* Whatever clients send, the scan never steps over a line break (parseLine in
\* HttpRequest.cpp), so that no cut of the stream hides the end of a line.
THEOREM ScansAll == Spec => []NothingSkipped
<1>1. HttpInv => NothingSkipped
  BY DEF HttpInv
<1> QED
  BY <1>1, HttpInvInit, HttpInvStep, PTL DEF Spec

-----------------------------------------------------------------------------
(* What is appended to mWriteBuffer.                                         *)

AnyPiece == [name : {"status", "connection", "length", "header", "end", "body"}, value : Nat]

IsBuffer(b) == b.pieces \in Seq(AnyPiece) /\ b.used \in 0..kBufferSize

Carries(b, piece) == piece \in Range(b.pieces)

LEMMA Room == kBufferSize \in Nat /\ 3 <= kBufferSize /\ Bodies \subseteq Nat /\ Files \subseteq Nat
BY HttpAssumption, ServerAssumption

LEMMA Appends ==
    ASSUME NEW b, IsBuffer(b), NEW piece \in AnyPiece
    PROVE  /\ IsBuffer(append(b, piece))
           /\ \A q : Carries(b, q) => Carries(append(b, piece), q)
           /\ \A q : Carries(append(b, piece), q) => Carries(b, q) \/ q = piece
           /\ ~ (b.used + Size(piece) <= kBufferSize) => append(b, piece) = b
           /\ b.used + Size(piece) <= kBufferSize =>
                 /\ Carries(append(b, piece), piece)
                 /\ append(b, piece).used = b.used + Size(piece)
<1>0. /\ b.pieces \in Seq(AnyPiece) /\ b.used \in 0..kBufferSize /\ Size(piece) \in Nat
      /\ b.used \in Nat /\ kBufferSize \in Nat
  BY Room DEF IsBuffer, AnyPiece, Size
<1>1. CASE ~ (b.used + Size(piece) <= kBufferSize)
  <2>1. append(b, piece) = b
    BY <1>1 DEF append
  <2> QED
    BY <2>1, <1>1
<1>2. CASE b.used + Size(piece) <= kBufferSize
  <2> DEFINE c == append(b, piece)
             s == b.pieces
  <2>1. c = [pieces |-> Append(s, piece), used |-> b.used + Size(piece)]
    BY <1>2 DEF append
  <2> HIDE DEF c
  <2>2. c.pieces = Append(s, piece) /\ c.used = b.used + Size(piece)
    BY <2>1
  <2> HIDE DEF s
  <2>3. s \in Seq(AnyPiece) /\ Len(s) \in Nat
    BY <1>0 DEF s
  <2>4. /\ Append(s, piece) \in Seq(AnyPiece)
        /\ DOMAIN Append(s, piece) = 1..(Len(s) + 1)
        /\ \A i \in 1..Len(s) : Append(s, piece)[i] = s[i]
        /\ Append(s, piece)[Len(s) + 1] = piece
    BY <2>3
  <2>5. IsBuffer(c)
    BY <2>2, <2>4, <1>0, <1>2 DEF IsBuffer
  <2>6. \A q \in Range(s) : q \in Range(c.pieces)
    <3>1. DOMAIN s = 1..Len(s) /\ \A i \in 1..Len(s) : i \in 1..(Len(s) + 1)
      BY <2>3
    <3> QED
      BY <2>2, <2>4, <3>1 DEF Range
  <2>7. piece \in Range(c.pieces)
    <3>1. Len(s) + 1 \in 1..(Len(s) + 1)
      BY <2>3
    <3> QED
      BY <2>2, <2>4, <3>1 DEF Range
  <2>8. \A q \in Range(c.pieces) : q \in Range(s) \/ q = piece
    <3>1. DOMAIN s = 1..Len(s) /\ \A i \in 1..(Len(s) + 1) : i \in 1..Len(s) \/ i = Len(s) + 1
      BY <2>3
    <3> QED
      BY <2>2, <2>4, <3>1 DEF Range
  <2> QED
    BY <1>2, <2>2, <2>5, <2>6, <2>7, <2>8 DEF Carries, c, s
<1> QED
  BY <1>1, <1>2

AnyFile == {NoFile} \cup Mappings

Responses ==
    [mStatusCode : StatusCodes, isAlive : BOOLEAN, ContentLength : Nat,
     ContentType : BOOLEAN, Body : Nat, mFile : AnyFile]

ConnectionPiece(r) == Piece("connection", IF r.isAlive THEN 1 ELSE 0)

LEMMA PieceIs ==
    ASSUME NEW name \in {"status", "connection", "length", "header", "end", "body"}, NEW v \in Nat
    PROVE  Piece(name, v) \in AnyPiece /\ Piece(name, v).name = name
BY DEF Piece, AnyPiece

\* The first lines of an answer are all there when mWriteBuffer was empty, and
\* nothing else is.
LEMMA HeadIsAppended ==
    ASSUME NEW r \in Responses
    PROVE  /\ IsBuffer(appendHead(r, NoPieces)) /\ appendHead(r, NoPieces).used = 3
           /\ Carries(appendHead(r, NoPieces), ConnectionPiece(r))
           /\ Carries(appendHead(r, NoPieces), Piece("length", r.ContentLength))
           /\ \A q : Carries(appendHead(r, NoPieces), q) =>
                  q.name \in {"status", "connection"} \/ q = Piece("length", r.ContentLength)
<1> DEFINE p1 == Piece("status", r.mStatusCode)
           p2 == ConnectionPiece(r)
           p3 == Piece("length", r.ContentLength)
           b0 == NoPieces
           b1 == append(b0, p1)
           b2 == append(b1, p2)
           b3 == append(b2, p3)
<1>1. /\ p1 \in AnyPiece /\ p2 \in AnyPiece /\ p3 \in AnyPiece
      /\ Size(p1) = 1 /\ Size(p2) = 1 /\ Size(p3) = 1
      /\ p1.name = "status" /\ p2.name = "connection"
  <2>1. r.mStatusCode \in Nat /\ r.ContentLength \in Nat /\ (IF r.isAlive THEN 1 ELSE 0) \in Nat
    BY DEF Responses, StatusCodes
  <2> QED
    BY <2>1, PieceIs DEF ConnectionPiece, Size
<1>2. b3 = appendHead(r, NoPieces)
  BY DEF appendHead, ConnectionPiece
<1>3. IsBuffer(b0) /\ b0.used = 0 /\ \A q : ~ Carries(b0, q)
  BY Room DEF NoPieces, IsBuffer, Carries, Range
<1> HIDE DEF p1, p2, p3, b0, b1, b2, b3
<1>4. IsBuffer(b1) /\ b1.used = 1 /\ \A q : Carries(b1, q) => q = p1
  <2>1. b0.used + Size(p1) = 1 /\ b0.used + Size(p1) <= kBufferSize
    BY <1>1, <1>3, Room
  <2> QED
    BY <2>1, <1>1, <1>3, Appends DEF b1
<1>5. IsBuffer(b2) /\ b2.used = 2 /\ Carries(b2, p2) /\ \A q : Carries(b2, q) => q = p1 \/ q = p2
  <2>1. b1.used + Size(p2) = 2 /\ b1.used + Size(p2) <= kBufferSize
    BY <1>1, <1>4, Room
  <2> QED
    BY <2>1, <1>1, <1>4, Appends DEF b2
<1>6. /\ IsBuffer(b3) /\ b3.used = 3 /\ Carries(b3, p3) /\ Carries(b3, p2)
      /\ \A q : Carries(b3, q) => q = p1 \/ q = p2 \/ q = p3
  <2>1. b2.used + Size(p3) = 3 /\ b2.used + Size(p3) <= kBufferSize
    BY <1>1, <1>5, Room
  <2> QED
    BY <2>1, <1>1, <1>5, Appends DEF b3
<1>7. \A q : Carries(b3, q) => q.name \in {"status", "connection"} \/ q = p3
  BY <1>1, <1>6
<1> QED
  BY <1>2, <1>6, <1>7 DEF p2, p3

\* What an empty mWriteBuffer holds of an answer: the lines it begins with, the one
\* length, and the body exactly if it has room.
IsAnswer(r, b) ==
    /\ IsBuffer(b)
    /\ Carries(b, ConnectionPiece(r))
    /\ \A n \in Nat : Carries(b, Piece("length", n)) <=> n = r.ContentLength
    /\ Carries(b, Piece("body", r.Body)) <=> r.Body > 0 /\ HasRoom(r)

LEMMA AnswerIsAppended ==
    ASSUME NEW r \in Responses
    PROVE  IsAnswer(r, appendToBuffer(r, NoPieces))
<1> DEFINE p3 == Piece("length", r.ContentLength)
           p4 == Piece("header", 0)
           p5 == Piece("end", 0)
           p6 == Piece("body", r.Body)
           h == appendHead(r, NoPieces)
           c == appendIf(r.ContentType, h, p4)
           d == append(c, p5)
           e == appendIf(r.Body > 0, d, p6)
           lines == IF r.ContentType THEN 5 ELSE 4
<1>0. /\ p3.name = "length" /\ p4.name = "header" /\ p5.name = "end" /\ p6.name = "body"
      /\ p4 \in AnyPiece /\ p5 \in AnyPiece /\ p6 \in AnyPiece
      /\ Size(p4) = 1 /\ Size(p5) = 1 /\ Size(p6) = r.Body
      /\ r.Body \in Nat /\ r.ContentType \in BOOLEAN
  <2>1. r.Body \in Nat /\ r.ContentLength \in Nat /\ r.ContentType \in BOOLEAN
    BY DEF Responses
  <2>2. p6.value = r.Body
    BY DEF Piece
  <2> QED
    BY <2>1, <2>2, PieceIs DEF Size
<1>1. /\ IsBuffer(h) /\ h.used = 3
      /\ Carries(h, ConnectionPiece(r))
      /\ Carries(h, p3)
      /\ \A q : Carries(h, q) => q.name \in {"status", "connection"} \/ q = p3
  BY HeadIsAppended
<1>2. e = appendToBuffer(r, NoPieces)
  BY DEF appendToBuffer
<1>3. \A n \in Nat : Piece("length", n).name = "length" /\ (Piece("length", n) = p3 <=> n = r.ContentLength)
  BY DEF Piece
<1>4. HasRoom(r) <=> (r.Body > 0 => lines + r.Body <= kBufferSize)
  BY DEF HasRoom
<1>5. lines = IF r.ContentType THEN 5 ELSE 4
  OBVIOUS
<1> HIDE DEF p3, p4, p5, p6, h, c, d, e, lines
<1>6. /\ IsBuffer(c)
      /\ \A q : Carries(h, q) => Carries(c, q)
      /\ \A q : Carries(c, q) => Carries(h, q) \/ q = p4
      /\ c.used = lines - 1 \/ (c.used = kBufferSize /\ kBufferSize < lines - 1)
  <2>1. CASE r.ContentType
    <3>1. c = append(h, p4) /\ lines - 1 = 4
      BY <2>1, <1>5 DEF c, appendIf
    <3>2. CASE h.used + Size(p4) <= kBufferSize
      <4>1. c.used = 4
        BY <1>0, <1>1, <3>1, <3>2, Appends
      <4> QED
        BY <1>0, <1>1, <3>1, <4>1, Appends
    <3>3. CASE ~ (h.used + Size(p4) <= kBufferSize)
      <4>1. c = h
        BY <1>0, <1>1, <3>1, <3>3, Appends
      <4>2. kBufferSize = 3
        BY <1>0, <1>1, <3>3, Room
      <4> QED
        BY <1>1, <3>1, <4>1, <4>2
    <3> QED
      BY <3>2, <3>3
  <2>2. CASE ~ r.ContentType
    <3>1. c = h /\ lines - 1 = 3
      BY <2>2, <1>5 DEF c, appendIf
    <3> QED
      BY <1>1, <3>1
  <2> QED
    BY <2>1, <2>2
<1>7. /\ IsBuffer(d)
      /\ \A q : Carries(c, q) => Carries(d, q)
      /\ \A q : Carries(d, q) => Carries(c, q) \/ q = p5
      /\ d.used = lines \/ (d.used = kBufferSize /\ kBufferSize < lines)
  <2>0. lines \in {4, 5} /\ c.used \in 0..kBufferSize
    BY <1>5, <1>6 DEF IsBuffer
  <2>1. CASE c.used + Size(p5) <= kBufferSize
    <3>1. d.used = c.used + 1
      BY <1>0, <1>6, <2>1, Appends DEF d
    <3>2. d.used = lines
      BY <1>0, <1>6, <2>0, <2>1, <3>1, Room
    <3> QED
      BY <1>0, <1>6, <3>2, Appends DEF d
  <2>2. CASE ~ (c.used + Size(p5) <= kBufferSize)
    <3>1. d = c
      BY <1>0, <1>6, <2>2, Appends DEF d
    <3>2. c.used = kBufferSize /\ kBufferSize < lines
      BY <1>0, <1>6, <2>0, <2>2, Room
    <3> QED
      BY <1>6, <3>1, <3>2
  <2> QED
    BY <2>1, <2>2
<1>8. \A q : Carries(d, q) => q.name \in {"status", "connection", "header", "end"} \/ q = p3
  BY <1>0, <1>1, <1>6, <1>7
<1>9. ~ Carries(d, p6)
  BY <1>0, <1>8
<1>10. /\ IsBuffer(e)
       /\ \A q : Carries(d, q) => Carries(e, q)
       /\ \A q : Carries(e, q) => Carries(d, q) \/ q = p6
       /\ Carries(e, p6) <=> r.Body > 0 /\ lines + r.Body <= kBufferSize
  <2>1. CASE r.Body > 0
    <3>1. e = append(d, p6)
      BY <2>1 DEF e, appendIf
    <3>2. d.used + Size(p6) <= kBufferSize <=> lines + r.Body <= kBufferSize
      <4>1. lines \in {4, 5} /\ kBufferSize \in Nat
        BY <1>5, Room
      <4> QED
        BY <4>1, <1>0, <1>7, <2>1
    <3>3. CASE d.used + Size(p6) <= kBufferSize
      BY <1>0, <1>7, <2>1, <3>1, <3>2, <3>3, Appends
    <3>4. CASE ~ (d.used + Size(p6) <= kBufferSize)
      <4>1. e = d
        BY <1>0, <1>7, <3>1, <3>4, Appends
      <4> QED
        BY <4>1, <1>7, <1>9, <3>2, <3>4
    <3> QED
      BY <3>3, <3>4
  <2>2. CASE ~ (r.Body > 0)
    <3>1. e = d
      BY <2>2 DEF e, appendIf
    <3> QED
      BY <3>1, <2>2, <1>7, <1>9
  <2> QED
    BY <2>1, <2>2
<1>11. Carries(e, ConnectionPiece(r)) /\ Carries(e, p3)
  BY <1>1, <1>6, <1>7, <1>10
<1>12. \A n \in Nat : Carries(e, Piece("length", n)) <=> n = r.ContentLength
  BY <1>0, <1>3, <1>8, <1>10, <1>11
<1> QED
  BY <1>2, <1>4, <1>10, <1>11, <1>12 DEF IsAnswer, p6

-----------------------------------------------------------------------------
(* What a callback may make of the response.                                 *)

LEMMA MappingIs ==
    ASSUME NEW m \in Mappings
    PROVE  m \in AnyFile /\ m.addr \in {"mapped", "failed"} /\ m.len \in Nat
BY Room DEF Mappings, AnyFile

LEMMA NoFileIs == NoFile \in AnyFile /\ NoFile.addr = "nullptr" /\ NoFile.len = 0
BY DEF NoFile, AnyFile

\* Everything but the type and the wish to close.
Filled(r) == {r} \cup {[r EXCEPT !.Body = n, !.ContentLength = n] : n \in Bodies}
                 \cup {openFile(r, m) : m \in Mappings}
                 \cup {openFails(r, state) : state \in FileStates}

Typed(r) == Filled(r) \cup {[f EXCEPT !.ContentType = TRUE] : f \in Filled(r)}

LEMMA CallbackIs ==
    ASSUME NEW r, NEW q \in HttpCallback(r)
    PROVE  \E t \in Typed(r) : q = t \/ q = [t EXCEPT !.isAlive = FALSE]
BY DEF HttpCallback, Typed, Filled

LEMMA ResponseFields ==
    ASSUME NEW r \in Responses
    PROVE  /\ r = [mStatusCode |-> r.mStatusCode, isAlive |-> r.isAlive,
                   ContentLength |-> r.ContentLength, ContentType |-> r.ContentType,
                   Body |-> r.Body, mFile |-> r.mFile]
           /\ r.mStatusCode \in StatusCodes /\ r.isAlive \in BOOLEAN /\ r.ContentLength \in Nat
           /\ r.ContentType \in BOOLEAN /\ r.Body \in Nat
           /\ r.mFile \in AnyFile
BY DEF Responses

\* What becomes of the body, the length and the file.
FilledFrom(r, q) ==
    \/ q.Body = r.Body /\ q.ContentLength = r.ContentLength /\ q.mFile = r.mFile
    \/ q.Body = q.ContentLength /\ q.mFile = r.mFile
    \/ q.Body = r.Body /\ q.mFile \in Mappings /\ q.ContentLength = q.mFile.len

LEMMA FilledIs ==
    ASSUME NEW r \in Responses, NEW f \in Filled(r)
    PROVE  f \in Responses /\ FilledFrom(r, f)
<1>0. {200, 400, 403, 404} \subseteq StatusCodes /\ Bodies \subseteq Nat /\ Files \subseteq Nat
  BY Room DEF StatusCodes
<1>1. CASE f = r
  BY <1>1 DEF FilledFrom
<1>2. ASSUME NEW n \in Bodies, f = [r EXCEPT !.Body = n, !.ContentLength = n]
      PROVE  f \in Responses /\ f.Body = f.ContentLength /\ f.mFile = r.mFile
  <2>1. n \in Nat
    BY <1>0
  <2>2. f = [mStatusCode |-> r.mStatusCode, isAlive |-> r.isAlive, ContentLength |-> n,
             ContentType |-> r.ContentType, Body |-> n, mFile |-> r.mFile]
    BY <1>2 DEF Responses
  <2> QED
    BY <2>1, <2>2, ResponseFields DEF Responses
<1>3. ASSUME NEW m \in Mappings, f = openFile(r, m)
      PROVE  f \in Responses /\ f.Body = r.Body /\ f.mFile = m /\ f.ContentLength = m.len
  <2>1. m \in AnyFile /\ m.len \in Nat /\ 400 \in StatusCodes
    BY MappingIs, <1>0
  <2>2. f = [r EXCEPT !.mFile = m, !.ContentLength = m.len, !.mStatusCode = 400]
    BY <1>3 DEF openFile
  <2>3. f = [mStatusCode |-> 400, isAlive |-> r.isAlive, ContentLength |-> m.len,
             ContentType |-> r.ContentType, Body |-> r.Body, mFile |-> m]
    BY <2>2, ZenonT(60) DEF Responses
  <2> QED
    BY <2>1, <2>3, ResponseFields DEF Responses
<1>4. ASSUME NEW state \in FileStates, f = openFails(r, state)
      PROVE  /\ f \in Responses
             /\ f.Body = r.Body /\ f.ContentLength = r.ContentLength /\ f.mFile = r.mFile
  <2>1. f = [r EXCEPT !.mStatusCode = 400]
    <3>1. PICK told : /\ told = [r EXCEPT !.mStatusCode = 403] \/ told = [r EXCEPT !.mStatusCode = 404]
                                    \/ told = r
                      /\ f = [told EXCEPT !.mStatusCode = 400]
      BY <1>4 DEF openFails, FileStates
    <3> QED
      BY <3>1 DEF Responses
  <2> QED
    BY <2>1, <1>0 DEF Responses
<1>5. \/ f = r
      \/ \E n \in Bodies : f = [r EXCEPT !.Body = n, !.ContentLength = n]
      \/ \E m \in Mappings : f = openFile(r, m)
      \/ \E state \in FileStates : f = openFails(r, state)
  BY DEF Filled
<1> QED
  BY <1>1, <1>2, <1>3, <1>4, <1>5 DEF FilledFrom

LEMMA CallbackFills ==
    ASSUME NEW r \in Responses, NEW q \in HttpCallback(r)
    PROVE  q \in Responses /\ FilledFrom(r, q)
<1>1. PICK t \in Typed(r) : q = t \/ q = [t EXCEPT !.isAlive = FALSE]
  BY CallbackIs
<1>2. PICK f \in Filled(r) : t = f \/ t = [f EXCEPT !.ContentType = TRUE]
  BY DEF Typed
<1>3. f \in Responses /\ FilledFrom(r, f)
  BY FilledIs
<1>4. /\ t \in Responses
      /\ t.Body = f.Body /\ t.ContentLength = f.ContentLength /\ t.mFile = f.mFile
  BY <1>2, <1>3 DEF Responses
<1>5. /\ q \in Responses
      /\ q.Body = t.Body /\ q.ContentLength = t.ContentLength /\ q.mFile = t.mFile
  BY <1>1, <1>4 DEF Responses
<1> QED
  BY <1>3, <1>4, <1>5 DEF FilledFrom

\* The response before the first answer.
NewResponse == [mStatusCode |-> 404, isAlive |-> TRUE, ContentLength |-> 0,
                ContentType |-> FALSE, Body |-> 0, mFile |-> NoFile]

\* A first answer has a body or a file, and the length of it.
LEMMA FirstAnswer ==
    ASSUME NEW q \in HttpCallback([NewResponse EXCEPT !.mStatusCode = 200])
    PROVE  /\ q \in Responses
           /\ \/ q.Body = q.ContentLength /\ q.mFile = NoFile
              \/ q.Body = 0 /\ q.mFile \in Mappings /\ q.ContentLength = q.mFile.len
<1> DEFINE r == [NewResponse EXCEPT !.mStatusCode = 200]
<1>1. r \in Responses /\ r.Body = 0 /\ r.ContentLength = 0 /\ r.mFile = NoFile
  <2>1. /\ NewResponse \in Responses /\ NewResponse.Body = 0
        /\ NewResponse.ContentLength = 0 /\ NewResponse.mFile = NoFile
    BY DEF NewResponse, Responses, StatusCodes, AnyFile
  <2>2. 200 \in StatusCodes
    BY DEF StatusCodes
  <2> QED
    BY <2>1, <2>2 DEF Responses
<1>2. q \in HttpCallback(r)
  OBVIOUS
<1> HIDE DEF r
<1> QED
  BY <1>1, <1>2, CallbackFills DEF FilledFrom

-----------------------------------------------------------------------------
(* The server: types, and the length an answer announces.                    *)

\* Only one request of a connection is read to its end, and so the response is a
\* new one when it is filled in.
StillNew ==
    /\ mCheckState # "SUCCESS" /\ pc \in {"idle", "loop", "answer"} => resp = NewResponse
    /\ pc = "answer" /\ ret = "GET_REQUEST" => resp = NewResponse /\ mCheckState = "SUCCESS"
    /\ pc = "write" /\ mAlive => mCheckState = "SUCCESS"

\* The inductive invariant.
ServerInv ==
    /\ HttpInv
    /\ resp \in Responses /\ IsBuffer(mWriteBuffer) /\ m_iv \in AnyFile
    /\ pc \notin {"write", "closed"} => mWriteBuffer = NoPieces /\ m_iv = NoFile
    /\ StillNew
    /\ LengthHonest

LEMMA ServerInvInit == ServerInit => ServerInv
<1> SUFFICES ASSUME ServerInit PROVE ServerInv
  OBVIOUS
<1>1. HttpInv /\ pc = "idle"
  BY HttpInvInit DEF ServerInit, Init
<1>2. resp = NewResponse /\ mWriteBuffer = NoPieces /\ m_iv = NoFile
  BY DEF ServerInit, NewResponse
<1>3. NewResponse \in Responses /\ NoFile \in AnyFile
  BY DEF NewResponse, Responses, AnyFile, StatusCodes
<1>4. IsBuffer(NoPieces)
  BY Room DEF IsBuffer, NoPieces
<1> QED
  BY <1>1, <1>2, <1>3, <1>4 DEF ServerInv, StillNew, LengthHonest

\* The state of the parser only changes before its first verdict.
LEMMA VerdictIsFirst ==
    ASSUME processRead
    PROVE  /\ pc = "loop" /\ pc' \in {"loop", "idle", "answer", "terminated"}
           /\ mCheckState' # "SUCCESS" => mCheckState # "SUCCESS"
           /\ pc' = "answer" /\ ret' = "GET_REQUEST" =>
                  mCheckState # "SUCCESS" /\ mCheckState' = "SUCCESS"
<1>0. pc = "loop"
  BY DEF processRead
<1>1. CASE LoopEnds
  BY <1>0, <1>1 DEF LoopEnds, Return, parsed
<1>2. ASSUME NEW scan, ProcessLine(scan)
      PROVE  /\ pc' \in {"loop", "idle", "answer", "terminated"}
             /\ mCheckState' # "SUCCESS" => mCheckState # "SUCCESS"
             /\ pc' = "answer" /\ ret' = "GET_REQUEST" =>
                    mCheckState # "SUCCESS" /\ mCheckState' = "SUCCESS"
  <2>1. CASE LineOpen(scan)
    BY <2>1 DEF LineOpen, Return, parsed
  <2>2. CASE LineBad(scan)
    BY <2>2 DEF LineBad, Return, parsed
  <2>3. CASE parseRequest(scan)
    BY <1>0, <2>3 DEF parseRequest, Return
  <2>4. CASE parseHeader(scan)
    BY <1>0, <2>4 DEF parseHeader
  <2>5. CASE parseBlank(scan)
    BY <1>0, <2>5 DEF parseBlank, Return
  <2>6. CASE parseContent(scan)
    BY <1>0, <2>6 DEF parseContent, Return
  <2>7. CASE NoCase(scan)
    BY <1>0, <2>7 DEF NoCase, parsed
  <2> QED
    BY <1>2, <2>1, <2>2, <2>3, <2>4, <2>5, <2>6, <2>7 DEF ProcessLine
<1>3. LoopEnds \/ ProcessLine(parseLine)
  BY DEF processRead
<1> QED
  BY <1>0, <1>1, <1>2, <1>3

\* What the server does is a step of the parser.
LEMMA ServerStepIsStep == ServerInv /\ [ServerNext]_serverVars => [Next]_vars
<1> SUFFICES ASSUME ServerInv, [ServerNext]_serverVars PROVE [Next]_vars
  OBVIOUS
<1>0. resp \in Responses
  BY DEF ServerInv
<1>1. CASE Read
  BY <1>1 DEF Next
<1>2. CASE GetRequest
  <2>1. PICK q \in HttpCallback([resp EXCEPT !.mStatusCode = 200]) : answerWith(q)
    BY <1>2 DEF GetRequest
  <2>2. [resp EXCEPT !.mStatusCode = 200] \in Responses
    BY <1>0 DEF Responses, StatusCodes
  <2>3. q.isAlive \in BOOLEAN
    BY <2>2, CallbackFills DEF Responses
  <2> QED
    BY <2>1, <2>3 DEF answerWith, Next
<1>3. CASE BadRequest
  <2>1. answerWith([resp EXCEPT !.mStatusCode = 400])
    BY <1>3 DEF BadRequest
  <2>2. [resp EXCEPT !.mStatusCode = 400].isAlive \in BOOLEAN
    BY <1>0 DEF Responses
  <2> QED
    BY <2>1, <2>2 DEF answerWith, Next
<1>4. CASE Sent
  BY <1>4 DEF Sent, Next
<1>5. CASE NotSent
  BY <1>5 DEF NotSent, Next
<1>6. CASE UNCHANGED serverVars
  BY <1>6 DEF serverVars, vars
<1> QED
  BY <1>1, <1>2, <1>3, <1>4, <1>5, <1>6 DEF ServerNext

\* An answer is appended.
LEMMA AnswerWithKeeps ==
    ASSUME ServerInv, NEW q \in Responses, answerWith(q)
    PROVE  /\ resp' = q /\ pc = "answer" /\ pc' = "write" /\ ret' = ret
           /\ mWriteBuffer = NoPieces /\ m_iv = NoFile
           /\ IsAnswer(q, mWriteBuffer')
           /\ mCheckState' = mCheckState
           /\ mAlive' => ret = "GET_REQUEST" /\ q.isAlive /\ isAlive
<1>1. resp' = q /\ mWriteBuffer' = appendToBuffer(q, mWriteBuffer) /\ Respond(q.isAlive)
  BY DEF answerWith
<1>2. /\ pc = "answer" /\ pc' = "write" /\ ret' = ret /\ mCheckState' = mCheckState
      /\ mAlive' => ret = "GET_REQUEST" /\ q.isAlive /\ isAlive
  <2>1. q.isAlive \in BOOLEAN /\ isAlive \in BOOLEAN
    BY DEF Responses, ServerInv, HttpInv, HttpTypeOK
  <2> QED
    BY <1>1, <2>1 DEF Respond, Kept, parsed
<1>3. mWriteBuffer = NoPieces /\ m_iv = NoFile
  BY <1>2 DEF ServerInv
<1> QED
  BY <1>1, <1>2, <1>3, AnswerIsAppended

LEMMA ServerInvStep == ServerInv /\ [ServerNext]_serverVars => ServerInv'
<1> SUFFICES ASSUME ServerInv, [ServerNext]_serverVars PROVE ServerInv'
  OBVIOUS
<1>0. /\ HttpInv
      /\ resp \in Responses /\ IsBuffer(mWriteBuffer) /\ m_iv \in AnyFile
      /\ pc \notin {"write", "closed"} => mWriteBuffer = NoPieces /\ m_iv = NoFile
      /\ StillNew /\ LengthHonest
  BY DEF ServerInv
<1>1. HttpInv'
  BY <1>0, ServerStepIsStep, HttpInvStep
<1>2. CASE Read /\ UNCHANGED <<resp, mWriteBuffer, m_iv>>
  <2>1. pc' # "write" /\ pc \notin {"write", "closed"}
    BY <1>2, VerdictIsFirst DEF Read, Receive, Overflow
  <2>2. StillNew'
    <3>1. CASE processRead
      BY <3>1, <1>2, <1>0, VerdictIsFirst DEF StillNew
    <3>2. CASE ~ processRead
      <4>1. /\ pc = "idle" /\ pc' \in {"loop", "closed"} /\ mCheckState' = mCheckState
            /\ resp' = resp
        BY <3>2, <1>2 DEF Read, Receive, Overflow, parsed
      <4> QED
        BY <4>1, <1>0 DEF StillNew
    <3> QED
      BY <3>1, <3>2
  <2>3. IsBuffer(mWriteBuffer')
    BY <1>2, <1>0
  <2> QED
    BY <1>0, <1>1, <1>2, <2>1, <2>2, <2>3 DEF ServerInv, LengthHonest
<1>3. CASE GetRequest
  <2>1. PICK q \in HttpCallback([resp EXCEPT !.mStatusCode = 200]) :
            answerWith(q) /\ m_iv' = IF q.mFile.addr # "nullptr" THEN q.mFile ELSE m_iv
    BY <1>3 DEF GetRequest
  <2>2. pc = "answer" /\ ret = "GET_REQUEST"
    BY <1>3, <2>1 DEF GetRequest, answerWith, Respond
  <2>3. resp = NewResponse /\ mCheckState = "SUCCESS"
    BY <2>2, <1>0 DEF StillNew
  <2>4. /\ q \in Responses
        /\ \/ q.Body = q.ContentLength /\ q.mFile = NoFile
           \/ q.Body = 0 /\ q.mFile \in Mappings /\ q.ContentLength = q.mFile.len
    BY <2>3, FirstAnswer
  <2>5. /\ resp' = q /\ pc' = "write" /\ ret' = ret
        /\ m_iv = NoFile
        /\ IsAnswer(q, mWriteBuffer')
        /\ mCheckState' = mCheckState
    BY <2>1, <2>4, AnswerWithKeeps
  <2>6. q.mFile \in AnyFile /\ q.Body \in Nat /\ q.ContentLength \in Nat
    BY <2>4 DEF Responses
  <2>7. m_iv' \in AnyFile /\ IsBuffer(mWriteBuffer')
    BY <2>1, <2>5, <2>6, NoFileIs DEF IsAnswer
  <2>8. StillNew'
    BY <2>3, <2>5 DEF StillNew
  <2>9. LengthHonest'
    <3>1. /\ \A n \in Nat : Says("length", n)' <=> n = q.ContentLength
          /\ Says("body", q.Body)' <=> q.Body > 0 /\ HasRoom(q)
      BY <2>5 DEF IsAnswer, Carries, Says
    <3>2. BodySent' = IF q.Body > 0 /\ HasRoom(q) THEN q.Body ELSE 0
      BY <2>5, <3>1 DEF BodySent, Says
    <3>3. /\ BodySent' \in Nat
          /\ m_iv'.len \in Nat => (Says("length", BodySent + m_iv.len)'
                                      <=> BodySent' + m_iv'.len = q.ContentLength)
      BY <3>1, <3>2, <2>6 DEF Says
    <3>4. CASE q.Body = q.ContentLength /\ q.mFile = NoFile
      <4>1. m_iv'.len = 0
        BY <3>4, <2>1, <2>5, NoFileIs
      <4>2. BodySent' + m_iv'.len = q.ContentLength <=> HasRoom(q)
        BY <4>1, <3>2, <3>4, <2>6 DEF HasRoom
      <4> QED
        BY <4>1, <4>2, <3>3, <2>5 DEF LengthHonest
    <3>5. CASE q.Body = 0 /\ q.mFile \in Mappings /\ q.ContentLength = q.mFile.len
      <4>1. m_iv'.len = q.ContentLength /\ m_iv'.len \in Nat
        BY <3>5, <2>1, MappingIs
      <4>2. BodySent' + m_iv'.len = q.ContentLength /\ HasRoom(q)
        BY <4>1, <3>2, <3>5, <2>6 DEF HasRoom
      <4> QED
        BY <4>1, <4>2, <3>3, <2>5 DEF LengthHonest
    <3> QED
      BY <2>4, <3>4, <3>5
  <2> QED
    BY <1>1, <2>4, <2>5, <2>7, <2>8, <2>9 DEF ServerInv
<1>4. CASE BadRequest
  <2> DEFINE q == [resp EXCEPT !.mStatusCode = 400]
  <2>1. q \in Responses
    BY <1>0 DEF Responses, StatusCodes
  <2>2. answerWith(q) /\ ret = "BAD_REQUEST" /\ m_iv' = m_iv
    BY <1>4 DEF BadRequest
  <2> HIDE DEF q
  <2>3. /\ resp' = q /\ pc' = "write" /\ ret' = ret
        /\ IsBuffer(mWriteBuffer')
        /\ mAlive' => ret = "GET_REQUEST"
    BY <2>1, <2>2, AnswerWithKeeps DEF IsAnswer
  <2>4. StillNew' /\ LengthHonest'
    BY <2>2, <2>3 DEF StillNew, LengthHonest
  <2> QED
    BY <1>0, <1>1, <2>1, <2>2, <2>3, <2>4 DEF ServerInv
<1>5. CASE Sent
  <2>1. /\ pc = "write" /\ pc' \in {"idle", "closed"} /\ mCheckState' = mCheckState
        /\ pc' = "idle" => mAlive
        /\ mWriteBuffer' = NoPieces /\ m_iv' = NoFile /\ resp' = resp
    BY <1>5 DEF Sent, WriteCb, parsed
  <2>2. IsBuffer(NoPieces) /\ NoFile \in AnyFile
    BY Room DEF IsBuffer, NoPieces, AnyFile
  <2>3. StillNew' /\ LengthHonest'
    BY <2>1, <1>0 DEF StillNew, LengthHonest
  <2> QED
    BY <1>0, <1>1, <2>1, <2>2, <2>3 DEF ServerInv
<1>6. CASE NotSent
  <2>1. /\ pc = "write" /\ pc' = "closed" /\ mCheckState' = mCheckState
        /\ resp' = resp /\ mWriteBuffer' = mWriteBuffer /\ m_iv' = m_iv
    BY <1>6 DEF NotSent, SendFails, parsed
  <2>2. StillNew' /\ LengthHonest'
    BY <2>1 DEF StillNew, LengthHonest
  <2> QED
    BY <1>0, <1>1, <2>1, <2>2 DEF ServerInv
<1>7. CASE UNCHANGED serverVars
  <2>1. StillNew' /\ LengthHonest'
    BY <1>7, <1>0 DEF serverVars, vars, StillNew, LengthHonest, Says, BodySent
  <2> QED
    BY <1>7, <1>0, <1>1, <2>1 DEF serverVars, vars, ServerInv
<1> QED
  BY <1>2, <1>3, <1>4, <1>5, <1>6, <1>7 DEF ServerNext

LEMMA ServerInvHolds == ServerSpec => []ServerInv
BY ServerInvInit, ServerInvStep, PTL DEF ServerSpec

\* HttpServer's callbacks drive the parser only in the ways HttpRequest.tla allows:
\* what is proved of the parser holds in the server.
THEOREM ServerParses == ServerSpec => Spec
<1>1. ServerInit => Init
  BY DEF ServerInit
<1> QED
  BY <1>1, ServerStepIsStep, ServerInvHolds, PTL DEF ServerSpec, Spec

\* The types of HttpRequest, HttpResponse and of what readCb hands to the connection,
\* whatever the clients send: contentLength is what atol makes of the last header that
\* sets it, a negative number too.
THEOREM ServerTypes == ServerSpec => []ServerTypeOK
<1>1. ServerInv => ServerTypeOK
  BY DEF ServerInv, HttpInv, ServerTypeOK, Responses, AnyFile, IsBuffer
<1> QED
  BY <1>1, ServerInvHolds, PTL

\* The answer to a request carries as many characters as its Content-Length says
\* (HttpResponse::appendToBuffer and HttpServer::readCb) exactly if its body has room in
\* mWriteBuffer: whatever the application sets and however small the buffer is, an
\* answer whose body fits is never dishonest, and one whose body does not fit always is.
THEOREM LengthsAreHonest == ServerSpec => []LengthHonest
<1>1. ServerInv => LengthHonest
  BY DEF ServerInv
<1> QED
  BY <1>1, ServerInvHolds, PTL

-----------------------------------------------------------------------------
(* What is read of clients that keep to the format.                          *)

IsUnbroken(l) == \A j \in 1..Len(l) : l[j] \notin {CR, LF}

At(r) == CHOOSE at : IsCut(r, at)

\* How many headers have been read when line k of r is to be read next.
HeadersBefore(r, k) ==
    IF k = 0 THEN 0 ELSE IF k <= Len(r.headers) + 1 THEN k - 1 ELSE Len(r.headers)

\* The lines of r before line k have been read: buf begins with line k.
ReadTo(r, k) ==
    /\ At(r)[k] + Len(buf) = sent
    /\ \A j \in 1..Len(buf) : buf[j] = Wire(r)[At(r)[k] + j]
    /\ mCheckState = IF k = 0 THEN "REQUEST"
                     ELSE IF k = Len(r.headers) + 2 THEN "BODY" ELSE "HEADER"
    /\ k > 0 => r.line \in RequestLines
    /\ \A i \in 1..HeadersBefore(r, k) : IsUnbroken(r.headers[i])
    /\ IsLength(r, HeadersBefore(r, k), contentLength)
    /\ isAlive = WantsKept(r, HeadersBefore(r, k))
    /\ k = Len(r.headers) + 2 => contentLength # 0
    /\ body = <<>>

Reading == \E k \in 0..(Len(Request.headers) + 2) : ReadTo(Request, k)

\* After the first answer: d characters are left of that request, what comes of the
\* next one is behind them, and no '\r' is the last character scanned.
DiscardsAfter(d) ==
    /\ Len(buf) = d + sent
    /\ \A j \in (mCheckIndex + 1)..Len(buf) :
          IF j <= d THEN buf[j] \notin {CR, LF} ELSE buf[j] = Wire(Request)[j - d]
    /\ mCheckIndex > d => Wire(Request)[mCheckIndex - d] # CR

Discarding == \E d \in 0..Len(buf) : DiscardsAfter(d)

Answered ==
    /\ mCheckState = "SUCCESS"
    /\ WellFormed(Request) /\ Request.line \in RequestLines /\ Complete
    /\ body = Request.body
    /\ isAlive = AsksKeepAlive(Request)
    /\ Unbroken(Len(buf))

\* What processRead refuses: malformed lines, and the form with "http://".
MayBeRefused(r) == ~ LinesWellFormed(r) \/ r.line \in AbsoluteLines

\* When processRead waits for more, no line has ended and the body is not all there.
AtRest ==
    /\ Unbroken(Len(buf) - 1)
    /\ mCheckState = "BODY" /\ buf # <<>> => Len(buf) < contentLength

\* The inductive invariant for honest clients.
HonestInv ==
    /\ HttpInv
    /\ \A i \in 1..Len(client) : Honest(client[i])
    /\ pc \in {"idle", "loop"} =>
          /\ ret # "BAD_REQUEST"
          /\ IF mCheckState # "SUCCESS" THEN Reading ELSE (pc = "idle" /\ Complete) \/ Discarding
    /\ pc = "idle" /\ mCheckState # "SUCCESS" => AtRest
    /\ pc \in {"answer", "write"} => ret # "NO_REQUEST"
    /\ pc \in {"answer", "write"} /\ ret = "GET_REQUEST" => Answered
    /\ ret = "BAD_REQUEST" => MayBeRefused(Request)
    /\ pc = "write" /\ mAlive => ret = "GET_REQUEST"
    /\ pc = "terminated" => NegativeLength(Request)
    /\ pc = "closed" /\ ret = "NO_REQUEST" /\ mCheckState # "SUCCESS" => ~ Fits(Request)

-----------------------------------------------------------------------------
(* What the headers say.                                                     *)

LEMMA AtIsCut == ASSUME NEW r \in Requests PROVE IsCut(r, At(r))
BY Cuts DEF At

LEMMA LengthIsOne ==
    ASSUME NEW r, NEW m \in Nat, NEW c, NEW d, IsLength(r, m, c), IsLength(r, m, d)
    PROVE  c = d
<1> DEFINE Says1(i) == Head(r.headers[i]) \in DOMAIN LengthHeader
<1>1. CASE \A i \in 1..m : ~ Says1(i)
  BY <1>1 DEF IsLength
<1>2. CASE \E i \in 1..m : Says1(i)
  <2>1. PICK i \in 1..m : /\ Says1(i) /\ c = LengthHeader[Head(r.headers[i])]
                          /\ \A j \in (i + 1)..m : ~ Says1(j)
    BY <1>2 DEF IsLength
  <2>2. PICK k \in 1..m : /\ Says1(k) /\ d = LengthHeader[Head(r.headers[k])]
                          /\ \A j \in (k + 1)..m : ~ Says1(j)
    BY <1>2 DEF IsLength
  <2>3. i < k => k \in (i + 1)..m
    OBVIOUS
  <2>4. k < i => i \in (k + 1)..m
    OBVIOUS
  <2>5. i = k \/ i < k \/ k < i
    OBVIOUS
  <2> HIDE DEF Says1
  <2>6. i = k
    BY <2>1, <2>2, <2>3, <2>4, <2>5
  <2> QED
    BY <2>1, <2>2, <2>6
<1> QED
  BY <1>1, <1>2

\* The length that the headers say is the one of the body, or it is negative.
LEMMA LengthIsHonest ==
    ASSUME NEW r \in Requests, Len(r.headers) \in Nat,
           NEW c \in Int, IsLength(r, Len(r.headers), c)
    PROVE  /\ c < 0 <=> NegativeLength(r)
           /\ Honest(r) => c < 0 \/ c = Len(r.body)
<1>1. c < 0 => NegativeLength(r)
  <2> SUFFICES ASSUME c < 0 PROVE NegativeLength(r)
    OBVIOUS
  <2>1. PICK i \in 1..Len(r.headers) : /\ Head(r.headers[i]) \in DOMAIN LengthHeader
                                       /\ c = LengthHeader[Head(r.headers[i])]
    BY DEF IsLength
  <2> QED
    BY <2>1 DEF NegativeLength
<1>2. NegativeLength(r) => c < 0
  <2> SUFFICES ASSUME NegativeLength(r) PROVE c < 0
    OBVIOUS
  <2>1. PICK name \in DOMAIN LengthHeader :
            LengthHeader[name] < 0 /\ IsLength(r, Len(r.headers), LengthHeader[name])
    BY DEF NegativeLength
  <2>2. c = LengthHeader[name]
    BY <2>1, LengthIsOne
  <2> QED
    BY <2>1, <2>2
<1>3. IsLength(r, Len(r.headers), Len(r.body)) => c = Len(r.body)
  BY LengthIsOne
<1> QED
  BY <1>1, <1>2, <1>3 DEF Honest

LEMMA LengthNext ==
    ASSUME NEW r, NEW m \in Nat, NEW c, IsLength(r, m, c), NEW name, name = Head(r.headers[m + 1])
    PROVE  IsLength(r, m + 1, IF name \in DOMAIN LengthHeader THEN LengthHeader[name] ELSE c)
<1> DEFINE Says1(i) == Head(r.headers[i]) \in DOMAIN LengthHeader
<1>0. /\ m + 1 \in 1..(m + 1) /\ \A i \in 1..m : i \in 1..(m + 1)
      /\ \A i \in 1..(m + 1) : i \in 1..m \/ i = m + 1
      /\ \A i \in 1..m : \A j \in (i + 1)..(m + 1) : j \in (i + 1)..m \/ j = m + 1
      /\ \A j \in ((m + 1) + 1)..(m + 1) : FALSE
  OBVIOUS
<1>1. CASE name \in DOMAIN LengthHeader
  <2>1. Says1(m + 1) /\ \A j \in ((m + 1) + 1)..(m + 1) : ~ Says1(j)
    BY <1>0, <1>1
  <2>2. IsLength(r, m + 1, LengthHeader[name])
    BY <1>0, <2>1 DEF IsLength
  <2> QED
    BY <1>1, <2>2
<1>2. CASE name \notin DOMAIN LengthHeader
  <2>0. ~ Says1(m + 1)
    BY <1>2
  <2>1. CASE c = 0 /\ \A i \in 1..m : ~ Says1(i)
    <3>1. \A i \in 1..(m + 1) : ~ Says1(i)
      BY <1>0, <2>0, <2>1
    <3> QED
      BY <1>2, <2>1, <3>1 DEF IsLength
  <2>2. ASSUME NEW i \in 1..m, Says1(i), c = LengthHeader[Head(r.headers[i])],
               \A j \in (i + 1)..m : ~ Says1(j)
        PROVE  IsLength(r, m + 1, c)
    <3>1. \A j \in (i + 1)..(m + 1) : ~ Says1(j)
      BY <1>0, <2>0, <2>2
    <3> QED
      BY <1>0, <2>2, <3>1 DEF IsLength
  <2> QED
    BY <1>2, <2>1, <2>2 DEF IsLength
<1> QED
  BY <1>1, <1>2

LEMMA WantsNext ==
    ASSUME NEW r, NEW m \in Nat, NEW name, name = Head(r.headers[m + 1])
    PROVE  WantsKept(r, m + 1) = IF name \in {KeepAliveHeader, CloseHeader}
                                 THEN name = KeepAliveHeader ELSE WantsKept(r, m)
<1> DEFINE h(i) == Head(r.headers[i])
<1>0. /\ m + 1 \in 1..(m + 1) /\ \A i \in 1..m : i \in 1..(m + 1) /\ m + 1 \in (i + 1)..(m + 1)
      /\ \A i \in 1..(m + 1) : i \in 1..m \/ i = m + 1
      /\ \A i \in 1..m : \A j \in (i + 1)..(m + 1) : j \in (i + 1)..m \/ j = m + 1
      /\ \A i \in 1..m : \A j \in (i + 1)..m : j \in (i + 1)..(m + 1)
      /\ \A j \in ((m + 1) + 1)..(m + 1) : FALSE
  OBVIOUS
<1>1. KeepAliveHeader # CloseHeader
  BY DEF KeepAliveHeader, CloseHeader
<1>2. \A k \in {m, m + 1} :
         WantsKept(r, k) <=> \E i \in 1..k : h(i) = KeepAliveHeader
                                             /\ \A j \in (i + 1)..k : h(j) # CloseHeader
  BY DEF WantsKept
<1>3. h(m + 1) = name
  OBVIOUS
<1>4. WantsKept(r, m + 1) \in BOOLEAN /\ WantsKept(r, m) \in BOOLEAN
  BY DEF WantsKept
<1> HIDE DEF h
<1>5. CASE name = KeepAliveHeader
  BY <1>0, <1>1, <1>2, <1>3, <1>4, <1>5
<1>6. CASE name = CloseHeader
  BY <1>0, <1>1, <1>2, <1>3, <1>4, <1>6
<1>7. CASE name \notin {KeepAliveHeader, CloseHeader}
  <2>1. WantsKept(r, m + 1) => WantsKept(r, m)
    BY <1>0, <1>2, <1>3, <1>7
  <2>2. WantsKept(r, m) => WantsKept(r, m + 1)
    BY <1>0, <1>2, <1>3, <1>7
  <2> QED
    BY <1>4, <1>7, <2>1, <2>2
<1> QED
  BY <1>5, <1>6, <1>7

\* The lines are well formed if the first has a form and the headers are whole.
LEMMA WellFormedLines ==
    ASSUME NEW r \in Requests
    PROVE  LinesWellFormed(r) <=> /\ r.line \in RequestLines \cup AbsoluteLines
                                  /\ \A i \in 1..Len(r.headers) : IsUnbroken(r.headers[i])
<1>1. r.headers \in Seq(Seq(STRING))
  BY DEF Requests
<1>2. DOMAIN r.headers = 1..Len(r.headers)
      /\ \A i \in 1..Len(r.headers) : DOMAIN r.headers[i] = 1..Len(r.headers[i])
  BY <1>1
<1> DEFINE hs == r.headers
<1> HIDE DEF hs
<1>3. \A i \in 1..Len(hs) : \A j \in 1..Len(hs[i]) : hs[i][j] \in Characters(hs)
  BY <1>2 DEF Characters, hs
<1>4. \A c \in Characters(hs) : \E i \in 1..Len(hs) : \E j \in 1..Len(hs[i]) : c = hs[i][j]
  BY <1>2 DEF Characters, hs
<1>5. Characters(hs) \cap {CR, LF} = {} <=> \A i \in 1..Len(hs) : IsUnbroken(hs[i])
  <2>1. ASSUME Characters(hs) \cap {CR, LF} = {}, NEW i \in 1..Len(hs) PROVE IsUnbroken(hs[i])
    BY <2>1, <1>3 DEF IsUnbroken
  <2>2. ASSUME \A i \in 1..Len(hs) : IsUnbroken(hs[i]), NEW c \in Characters(hs)
        PROVE  c \notin {CR, LF}
    <3>1. PICK i \in 1..Len(hs) : \E j \in 1..Len(hs[i]) : c = hs[i][j]
      BY <1>4, <2>2
    <3> QED
      BY <2>2, <3>1 DEF IsUnbroken
  <2> QED
    BY <2>1, <2>2
<1> QED
  BY <1>5 DEF LinesWellFormed, hs

LEMMA AcceptedIsUnbroken ==
    ASSUME NEW l \in RequestLines \cup AbsoluteLines PROVE IsUnbroken(l)
<1>1. PICK m \in {"GET", "POST"}, p \in {"path", "http://path"} : l = <<m, p>>
  BY DEF RequestLines, AbsoluteLines
<1>2. Len(l) = 2 /\ l[1] = m /\ l[2] = p
  BY <1>1
<1>3. \A j \in 1..2 : j = 1 \/ j = 2
  OBVIOUS
<1> QED
  BY <1>2, <1>3 DEF IsUnbroken, CR, LF

-----------------------------------------------------------------------------
(* What the scan finds when the buffer begins with a line.                   *)

\* The buffer begins with the line l and its ending, as far as they have arrived.
Ahead(l) ==
    \A j \in 1..Len(buf) :
        /\ j <= Len(l) => buf[j] = l[j]
        /\ j = Len(l) + 1 => buf[j] = CR
        /\ j = Len(l) + 2 => buf[j] = LF

LEMMA LineIsFound ==
    ASSUME buf \in Seq(Char), NEW l \in Seq(Char), IsLine(l), Ahead(l),
           NEW scan, NEW i, FoundLine(scan, i), scan.buf \in Seq(Char)
    PROVE  i = Len(l) + 1 /\ IsUnbroken(l) /\ Line(scan.buf) = l
<1>0. /\ Len(buf) \in Nat /\ Len(l) \in Nat
      /\ i \in 1..(Len(buf) - 1) /\ Unbroken(i - 1)
      /\ buf[i] = CR /\ buf[i + 1] = LF
      /\ scan.buf = [buf EXCEPT ![i] = NUL, ![i + 1] = NUL]
  BY DEF FoundLine
<1>1. i \in Nat /\ i \in 1..Len(buf) /\ i + 1 \in 1..Len(buf)
  BY <1>0
<1>2. ~ (i <= Len(l))
  <2> SUFFICES ASSUME i <= Len(l) PROVE FALSE
    OBVIOUS
  <2>1. l[i] = CR
    BY <1>0, <1>1 DEF Ahead
  <2>2. CASE i = Len(l)
    <3>1. buf[i + 1] = CR
      BY <1>1, <2>2 DEF Ahead
    <3> QED
      BY <3>1, <1>0, Characters3
  <2>3. CASE i # Len(l)
    <3>1. i + 1 <= Len(l) /\ i \in 1..(Len(l) - 1)
      BY <1>0, <1>1, <2>3
    <3>2. l[i + 1] = LF
      BY <1>0, <1>1, <3>1 DEF Ahead
    <3> QED
      BY <2>1, <3>1, <3>2 DEF IsLine
  <2> QED
    BY <2>2, <2>3
<1>3. ~ (i > Len(l) + 1)
  <2> SUFFICES ASSUME i > Len(l) + 1 PROVE FALSE
    OBVIOUS
  <2>1. Len(l) + 1 \in 1..(i - 1) /\ Len(l) + 1 \in 1..Len(buf)
    BY <1>0, <1>1
  <2>2. buf[Len(l) + 1] = CR
    BY <2>1 DEF Ahead
  <2> QED
    BY <1>0, <2>1, <2>2 DEF Unbroken
<1>4. i = Len(l) + 1
  BY <1>0, <1>1, <1>2, <1>3
<1>5. \A j \in 1..Len(l) : buf[j] = l[j] /\ buf[j] \notin {CR, LF} /\ l[j] # NUL
  <2>1. \A j \in 1..Len(l) : j \in 1..Len(buf) /\ j \in 1..(i - 1) /\ j <= Len(l)
    BY <1>0, <1>1, <1>4
  <2> QED
    BY <2>1, <1>0 DEF Ahead, Unbroken, IsLine
<1>6. IsUnbroken(l)
  BY <1>5 DEF IsUnbroken
<1> DEFINE b == scan.buf
<1>7. /\ b \in Seq(Char) /\ DOMAIN b = 1..Len(buf) /\ Len(b) = Len(buf)
      /\ b[i] = NUL /\ \A j \in 1..Len(l) : b[j] = l[j]
  <2>1. \A j \in 1..Len(l) : j \in 1..Len(buf) /\ j # i /\ j # i + 1
    BY <1>0, <1>1, <1>4
  <2>2. DOMAIN buf = 1..Len(buf)
    BY <1>0
  <2>3. DOMAIN b = 1..Len(buf)
    BY <1>0, <2>2
  <2>4. \A j \in 1..Len(l) : b[j] = l[j]
    BY <1>0, <1>5, <2>1, <2>2
  <2>5. b[i] = NUL
    BY <1>0, <1>1, <2>2
  <2>6. Len(b) = Len(buf)
    <3> HIDE DEF b
    <3>1. b \in Seq(Char)
      BY DEF b
    <3> QED
      BY <3>1, <2>3, <1>0
  <2> QED
    BY <2>3, <2>4, <2>5, <2>6
<1> HIDE DEF b
<1> DEFINE N == {j \in DOMAIN b : b[j] = NUL}
<1>8. i \in N /\ N \subseteq Nat /\ \A j \in N : j \in 1..Len(buf) /\ ~ (j \in 1..Len(l))
  BY <1>1, <1>5, <1>7
<1>9. Min(N) = i
  <2> HIDE DEF N
  <2> DEFINE m == Min(N)
  <2>1. m \in N /\ m <= i
    BY <1>8, MinIsLeast
  <2> HIDE DEF m
  <2>2. m \in 1..Len(buf) /\ ~ (m \in 1..Len(l))
    BY <2>1, <1>8
  <2>3. m = i
    BY <2>1, <2>2, <1>0, <1>1, <1>4
  <2> QED
    BY <2>3 DEF m
<1>10. Line(b) = SubSeq(b, 1, Len(l))
  <2>1. Min(N) - 1 = Len(l)
    BY <1>0, <1>4, <1>9
  <2> QED
    BY <2>1 DEF Line
<1>11. SubSeq(b, 1, Len(l)) = l
  <2> DEFINE u == SubSeq(b, 0 + 1, Len(l))
  <2>1. Len(l) \in 0..Len(b) /\ 0 \in 0..Len(l)
    BY <1>0, <1>1, <1>4, <1>7
  <2>2. IsPart(b, 0, Len(l), u)
    BY <1>7, <2>1, PartOf
  <2> HIDE DEF u
  <2>3. u \in Seq(Char) /\ Len(u) = Len(l) /\ \A j \in 1..Len(l) : u[j] = b[j]
    <3>1. Len(l) - 0 = Len(l) /\ \A j \in 1..Len(l) : 0 + j = j
      BY <1>0
    <3> QED
      BY <2>2, <3>1 DEF IsPart
  <2>4. \A j \in 1..Len(l) : u[j] = l[j]
    BY <2>3, <1>7
  <2>5. u = l
    BY <2>3, <2>4, SeqEqual
  <2> QED
    BY <2>5 DEF u
<1> QED
  BY <1>4, <1>6, <1>10, <1>11 DEF b

LEMMA BadLineIsFound ==
    ASSUME buf \in Seq(Char), NEW l \in Seq(Char), Ahead(l),
           NEW scan, NEW i, FoundBad(scan, i)
    PROVE  ~ IsUnbroken(l)
<1> SUFFICES ASSUME IsUnbroken(l) PROVE FALSE
  OBVIOUS
<1>0. /\ Len(buf) \in Nat /\ Len(l) \in Nat
      /\ i \in 1..Len(buf) /\ i \in Nat /\ Unbroken(i - 1)
      /\ buf[i] \in {CR, LF}
      /\ buf[i] = CR => i < Len(buf) /\ buf[i + 1] # LF
  BY DEF FoundBad
<1>1. ~ (i <= Len(l))
  BY <1>0 DEF Ahead, IsUnbroken
<1>2. ~ (i > Len(l) + 1)
  <2> SUFFICES ASSUME i > Len(l) + 1 PROVE FALSE
    OBVIOUS
  <2>1. Len(l) + 1 \in 1..(i - 1) /\ Len(l) + 1 \in 1..Len(buf)
    BY <1>0
  <2>2. buf[Len(l) + 1] = CR
    BY <2>1 DEF Ahead
  <2> QED
    BY <1>0, <2>1, <2>2 DEF Unbroken
<1>3. i = Len(l) + 1
  BY <1>0, <1>1, <1>2
<1>4. buf[i] = CR
  BY <1>0, <1>3 DEF Ahead
<1>5. i + 1 \in 1..Len(buf) /\ i + 1 = Len(l) + 2
  BY <1>0, <1>3, <1>4
<1>6. buf[i + 1] = LF
  BY <1>5 DEF Ahead
<1> QED
  BY <1>0, <1>4, <1>6

-----------------------------------------------------------------------------
(* Reading the first request of a connection.                                *)

LEMMA CountIsNat ==
    ASSUME NEW r \in Requests
    PROVE  /\ Len(r.headers) \in Nat /\ Len(r.body) \in Nat
           /\ r.body \in Seq(Char) /\ Wire(r) \in Seq(Char) /\ Len(Wire(r)) \in Nat
           /\ \A k \in 0..(Len(r.headers) + 2) : At(r)[k] \in Nat
           /\ \A k \in 0..LastLine(r) : LineOf(r, k) \in Seq(Char)
<1>1. r.headers \in Seq(Seq(STRING)) /\ r.line \in Seq(STRING) /\ r.body \in Seq(STRING)
  BY DEF Requests
<1>2. Len(r.headers) \in Nat /\ Len(r.body) \in Nat
      /\ \A i \in 1..Len(r.headers) : r.headers[i] \in Seq(STRING)
  BY <1>1
<1>3. r.line \in Seq(Char) /\ r.body \in Seq(Char) /\ <<>> \in Seq(Char)
      /\ \A i \in 1..Len(r.headers) : r.headers[i] \in Seq(Char)
  BY <1>1, <1>2, StringsAreChars
<1>4. \A k \in 0..LastLine(r) : LineOf(r, k) \in Seq(Char)
  <2>1. \A k \in 0..LastLine(r) : k # 0 /\ k <= Len(r.headers) => k \in 1..Len(r.headers)
    BY <1>2 DEF LastLine
  <2> QED
    BY <1>3, <2>1 DEF LineOf
<1>5. Wire(r) \in Seq(Char)
  BY Cuts
<1>6. Len(Wire(r)) \in Nat
  BY <1>5, LenProperties
<1>7. \A k \in 0..(Len(r.headers) + 2) : At(r)[k] \in Nat
  BY AtIsCut DEF IsCut
<1> QED
  BY <1>2, <1>3, <1>4, <1>5, <1>6, <1>7

LEMMA LineIsAhead ==
    ASSUME NEW r \in Requests, NEW k \in 0..LastLine(r), ReadTo(r, k), buf \in Seq(Char)
    PROVE  Ahead(LineOf(r, k))
<1> DEFINE l == LineOf(r, k)
           a == At(r)[k]
           w == Wire(r)
<1>1. Len(l) \in Nat /\ Len(buf) \in Nat /\ a \in Nat
  <2>1. l \in Seq(Char)
    BY CountIsNat
  <2>2. k \in 0..(Len(r.headers) + 2)
    BY CountIsNat DEF LastLine
  <2> HIDE DEF l
  <2> QED
    BY <2>1, <2>2, CountIsNat
<1>2. /\ \A j \in 1..Len(l) : w[a + j] = l[j]
      /\ w[a + Len(l) + 1] = CR
      /\ w[a + Len(l) + 2] = LF
  BY AtIsCut DEF IsCut
<1>3. \A j \in 1..Len(buf) : buf[j] = w[a + j]
  BY DEF ReadTo
<1> HIDE DEF l, a, w
<1>4. SUFFICES ASSUME NEW j \in 1..Len(buf)
               PROVE  /\ j <= Len(l) => buf[j] = l[j]
                      /\ j = Len(l) + 1 => buf[j] = CR
                      /\ j = Len(l) + 2 => buf[j] = LF
  BY DEF Ahead, l
<1>5. buf[j] = w[a + j] /\ (j <= Len(l) => j \in 1..Len(l))
  BY <1>1, <1>3
<1>6. /\ j = Len(l) + 1 => a + j = a + Len(l) + 1
      /\ j = Len(l) + 2 => a + j = a + Len(l) + 2
  BY <1>1
<1> QED
  BY <1>2, <1>5, <1>6

\* When the line is taken out, the buffer begins with the next one.
LEMMA NextIsAhead ==
    ASSUME HttpInv, NEW r \in Requests, NEW k \in 0..LastLine(r), ReadTo(r, k),
           NEW scan, NEW i, Found(scan), FoundLine(scan, i), i = Len(LineOf(r, k)) + 1,
           TakeLine(scan)
    PROVE  /\ At(r)[k + 1] + Len(buf') = sent
           /\ \A j \in 1..Len(buf') : buf'[j] = Wire(r)[At(r)[k + 1] + j]
<1> DEFINE a == At(r)[k]
           c == At(r)[k + 1]
           b == scan.buf
           w == Wire(r)
<1>1. /\ buf \in Seq(Char) /\ Len(buf) \in Nat /\ b \in Seq(Char) /\ Len(b) = Len(buf)
      /\ scan.index = i + 1 /\ i \in 1..(Len(buf) - 1)
      /\ b = [buf EXCEPT ![i] = NUL, ![i + 1] = NUL]
  BY DEF HttpInv, Found, FoundLine
<1>2. c = a + (i + 1) /\ a \in Nat
  <2>1. c = a + Len(LineOf(r, k)) + 2
    BY AtIsCut DEF IsCut
  <2>2. k \in 0..(Len(r.headers) + 2)
    BY CountIsNat DEF LastLine
  <2>3. a \in Nat
    BY <2>2, CountIsNat
  <2>4. LineOf(r, k) \in Seq(Char) /\ Len(LineOf(r, k)) \in Nat
    <3>1. LineOf(r, k) \in Seq(Char)
      BY CountIsNat
    <3> QED
      BY <3>1, LenProperties
  <2> HIDE DEF a, c
  <2> QED
    BY <2>1, <2>3, <2>4
<1>3. a + Len(buf) = sent /\ \A j \in 1..Len(buf) : buf[j] = w[a + j]
  BY DEF ReadTo
<1>4. IsPart(b, i + 1, Len(b), buf')
  BY <1>1, Takes
<1>5. \A j \in 1..Len(buf) : j # i /\ j # i + 1 => b[j] = buf[j]
  BY <1>1
<1> HIDE DEF a, b, c, w
<1>6. Len(buf') = Len(buf) - (i + 1) /\ \A j \in 1..(Len(buf) - (i + 1)) : buf'[j] = b[i + 1 + j]
  BY <1>1, <1>4 DEF IsPart
<1>7. i \in Nat
  BY <1>1
<1>8. c + Len(buf') = sent
  BY <1>1, <1>2, <1>3, <1>6, <1>7
<1>9. ASSUME NEW j \in 1..Len(buf') PROVE buf'[j] = w[c + j]
  <2>1. /\ j \in 1..(Len(buf) - (i + 1)) /\ i + 1 + j \in 1..Len(buf)
        /\ i + 1 + j # i /\ i + 1 + j # i + 1
        /\ a + (i + 1 + j) = c + j
    BY <1>1, <1>2, <1>6, <1>7
  <2>2. buf'[j] = b[i + 1 + j] /\ b[i + 1 + j] = buf[i + 1 + j]
    BY <2>1, <1>5, <1>6
  <2>3. buf[i + 1 + j] = w[a + (i + 1 + j)]
    BY <2>1, <1>3
  <2> QED
    BY <2>1, <2>2, <2>3
<1> QED
  BY <1>8, <1>9 DEF c, w

\* When all lines have been read, the buffer begins with the body.
LEMMA BodyIsAhead ==
    ASSUME NEW r \in Requests, Honest(r), ReadTo(r, Len(r.headers) + 2), buf \in Seq(Char),
           sent <= Len(Wire(r)), contentLength \in Int
    PROVE  /\ Len(buf) <= Len(r.body)
           /\ contentLength = Len(r.body) \/ contentLength < 0
           /\ contentLength < 0 <=> NegativeLength(r)
           /\ \A j \in 1..Len(buf) : buf[j] = r.body[j]
           /\ Unbroken(Len(buf))
           /\ Len(buf) = Len(r.body) => sent = Len(Wire(r))
<1> DEFINE n == Len(r.headers)
           a == At(r)[n + 2]
           w == Wire(r)
           m == Len(r.body)
<1>1. n \in Nat /\ a \in Nat /\ m \in Nat /\ Len(buf) \in Nat /\ n + 2 \in 0..(n + 2)
  <2>1. n \in Nat /\ n + 2 \in 0..(n + 2)
    BY CountIsNat
  <2> QED
    BY <2>1, CountIsNat
<1>2. Len(w) = a + m /\ \A j \in 1..m : w[a + j] = r.body[j]
  BY AtIsCut DEF IsCut
<1>3. a + Len(buf) = sent /\ \A j \in 1..Len(buf) : buf[j] = w[a + j]
  BY DEF ReadTo
<1>4. /\ contentLength = m \/ contentLength < 0
      /\ contentLength < 0 <=> NegativeLength(r)
  <2>1. HeadersBefore(r, n + 2) = n
    <3>1. n + 2 # 0 /\ ~ (n + 2 <= n + 1)
      BY <1>1
    <3> QED
      BY <3>1 DEF HeadersBefore
  <2>2. IsLength(r, n, contentLength)
    BY <2>1 DEF ReadTo
  <2> QED
    BY <1>1, <2>2, LengthIsHonest
<1>5. sent <= Len(w)
  OBVIOUS
<1>6. \A j \in 1..m : r.body[j] \notin {CR, LF}
  BY DEF Honest
<1> HIDE DEF n, a, w, m
<1>7. Len(buf) <= m /\ (Len(buf) = m => sent = Len(w))
  <2> DEFINE x == Len(buf)
             y == Len(w)
  <2>1. a \in Nat /\ m \in Nat /\ x \in Nat /\ y = a + m /\ a + x = sent /\ sent <= y
    BY <1>1, <1>2, <1>3, <1>5
  <2> HIDE DEF x, y
  <2>2. x <= m /\ (x = m => sent = y)
    BY <2>1
  <2> QED
    BY <2>2 DEF x, y
<1>8. \A j \in 1..Len(buf) : j \in 1..m
  BY <1>1, <1>7
<1>9. \A j \in 1..Len(buf) : buf[j] = r.body[j]
  BY <1>2, <1>3, <1>8
<1>10. Unbroken(Len(buf))
  BY <1>6, <1>8, <1>9 DEF Unbroken
<1> QED
  BY <1>4, <1>7, <1>9, <1>10 DEF m, w

LEMMA LinesAreLines ==
    ASSUME NEW r \in Requests, Honest(r), NEW k \in 0..LastLine(r)
    PROVE  IsLine(LineOf(r, k))
<1>0. Len(r.headers) \in Nat
  BY CountIsNat
<1>1. CASE k \in 0..Len(r.headers)
  BY <1>1 DEF Honest
<1>2. CASE k = Len(r.headers) + 1
  <2>1. LineOf(r, k) = <<>> /\ Len(<<>>) = 0
    BY <1>0, <1>2 DEF LineOf
  <2> QED
    BY <2>1 DEF IsLine
<1> QED
  BY <1>0, <1>1, <1>2 DEF LastLine

\* A line that is not whole is not well formed.
LEMMA BrokenLine ==
    ASSUME NEW r \in Requests, NEW k \in 0..LastLine(r), ~ IsUnbroken(LineOf(r, k))
    PROVE  ~ LinesWellFormed(r)
<1>0. Len(r.headers) \in Nat
  BY CountIsNat
<1>1. CASE k = 0
  <2>1. r.line \notin RequestLines \cup AbsoluteLines
    BY <1>1, AcceptedIsUnbroken DEF LineOf
  <2> QED
    BY <2>1 DEF LinesWellFormed
<1>2. CASE k \in 1..Len(r.headers)
  <2>1. LineOf(r, k) = r.headers[k]
    BY <1>0, <1>2 DEF LineOf
  <2> QED
    BY <1>2, <2>1, WellFormedLines
<1>3. CASE k = Len(r.headers) + 1
  <2>1. LineOf(r, k) = <<>> /\ Len(<<>>) = 0
    BY <1>0, <1>3 DEF LineOf
  <2> QED
    BY <2>1 DEF IsUnbroken
<1>4. k = 0 \/ k \in 1..Len(r.headers) \/ k = Len(r.headers) + 1
  BY <1>0 DEF LastLine
<1> QED
  BY <1>1, <1>2, <1>3, <1>4

\* Which line is read next, by the state of the parser.
LEMMA WhichLine ==
    ASSUME NEW r \in Requests, NEW k \in 0..(Len(r.headers) + 2), ReadTo(r, k)
    PROVE  /\ mCheckState = "REQUEST" <=> k = 0
           /\ mCheckState = "HEADER" <=> k \in 1..LastLine(r)
           /\ mCheckState = "BODY" <=> k = Len(r.headers) + 2
           /\ k \in 0..LastLine(r) \/ k = Len(r.headers) + 2
<1>0. Len(r.headers) \in Nat
  BY CountIsNat
<1>1. mCheckState = IF k = 0 THEN "REQUEST"
                    ELSE IF k = Len(r.headers) + 2 THEN "BODY" ELSE "HEADER"
  BY DEF ReadTo
<1> QED
  BY <1>0, <1>1 DEF LastLine

LEMMA CountHeaders ==
    ASSUME NEW r \in Requests
    PROVE  /\ HeadersBefore(r, 0) = 0
           /\ \A k \in 1..LastLine(r) : HeadersBefore(r, k) = k - 1
           /\ HeadersBefore(r, Len(r.headers) + 2) = Len(r.headers)
<1>0. Len(r.headers) \in Nat
  BY CountIsNat
<1> QED
  BY <1>0 DEF HeadersBefore, LastLine

\* What processRead does while it reads the first request.
Stays(r) ==
    /\ pc' \in {"idle", "loop"} /\ ret' \in {ret, "NO_REQUEST"} /\ mCheckState' # "SUCCESS"
    /\ \E m \in 0..(Len(r.headers) + 2) : ReadTo(r, m)'
    /\ pc' = "idle" => AtRest'

Refuses(r) == pc' = "answer" /\ ret' = "BAD_REQUEST" /\ MayBeRefused(r)

Terminates(r) == pc' = "terminated" /\ ret' = ret /\ NegativeLength(r)

Accepts == pc' = "answer" /\ ret' = "GET_REQUEST" /\ Answered'

\* Nothing that ReadTo speaks of is changed.
LEMMA ReadToStays ==
    ASSUME NEW r, NEW k, ReadTo(r, k), buf' = buf, sent' = sent, UNCHANGED parsed
    PROVE  ReadTo(r, k)'
BY DEF ReadTo, parsed

\* The request line.
LEMMA ReadsRequest ==
    ASSUME HttpInv, NEW r \in Requests, Honest(r), ReadTo(r, 0),
           NEW scan, Found(scan), parseRequest(scan), pc = "loop", sent' = sent
    PROVE  Stays(r) \/ Refuses(r)
<1>0. Len(r.headers) \in Nat /\ 0 \in 0..LastLine(r) /\ 1 \in 0..(Len(r.headers) + 2)
      /\ 1 # Len(r.headers) + 2 /\ 0 \in 0..(Len(r.headers) + 2) /\ 1 \in 1..LastLine(r)
  BY CountIsNat DEF LastLine
<1>1. PICK i : FoundLine(scan, i)
  BY DEF Found, FoundOpen, FoundBad, parseRequest
<1>2. LineOf(r, 0) = r.line
  BY DEF LineOf
<1>3. r.line \in Seq(Char) /\ IsLine(r.line) /\ Ahead(r.line)
  BY <1>0, <1>2, CountIsNat, LinesAreLines, LineIsAhead DEF HttpInv
<1>4. i = Len(r.line) + 1 /\ Line(scan.buf) = r.line
  BY <1>1, <1>3, LineIsFound DEF HttpInv, Found
<1>5. CASE r.line \in RequestLines
  <2>1. /\ TakeLine(scan) /\ mCheckState' = "HEADER"
        /\ UNCHANGED <<pc, ret, contentLength, isAlive, body>>
    BY <1>4, <1>5 DEF parseRequest
  <2>2. /\ At(r)[0 + 1] + Len(buf') = sent
        /\ \A j \in 1..Len(buf') : buf'[j] = Wire(r)[At(r)[0 + 1] + j]
    BY <1>0, <1>1, <1>2, <1>4, <2>1, NextIsAhead
  <2>3. /\ At(r)[1] + Len(buf') = sent
        /\ \A j \in 1..Len(buf') : buf'[j] = Wire(r)[At(r)[1] + j]
    BY <2>2
  <2>4. HeadersBefore(r, 0) = 0 /\ HeadersBefore(r, 1) = 0
    BY <1>0, CountHeaders
  <2>5. /\ IsLength(r, 0, contentLength) /\ isAlive = WantsKept(r, 0) /\ body = <<>>
        /\ \A j \in 1..0 : IsUnbroken(r.headers[j])
    BY <2>4 DEF ReadTo
  <2>6. ReadTo(r, 1)'
    BY <1>0, <1>5, <2>1, <2>3, <2>4, <2>5 DEF ReadTo
  <2> QED
    BY <1>0, <2>1, <2>6 DEF Stays
<1>6. CASE r.line \notin RequestLines
  <2>1. pc' = "answer" /\ ret' = "BAD_REQUEST"
    BY <1>4, <1>6 DEF parseRequest, Return
  <2>2. MayBeRefused(r)
    BY <1>6 DEF MayBeRefused, LinesWellFormed
  <2> QED
    BY <2>1, <2>2 DEF Refuses
<1> QED
  BY <1>5, <1>6

\* A line that ends is the one to be read, and then the next one is.
LEMMA LineIsRead ==
    ASSUME HttpInv, NEW r \in Requests, Honest(r), NEW k \in 0..LastLine(r), ReadTo(r, k),
           NEW scan, Found(scan), scan.state = "LINE_OK"
    PROVE  /\ IsUnbroken(LineOf(r, k)) /\ Line(scan.buf) = LineOf(r, k)
           /\ TakeLine(scan) => /\ At(r)[k + 1] + Len(buf') = sent
                                /\ \A j \in 1..Len(buf') : buf'[j] = Wire(r)[At(r)[k + 1] + j]
<1>1. PICK i : FoundLine(scan, i)
  BY DEF Found, FoundOpen, FoundBad
<1>2. buf \in Seq(Char) /\ scan.buf \in Seq(Char)
  BY DEF HttpInv, Found
<1>3. LineOf(r, k) \in Seq(Char) /\ IsLine(LineOf(r, k)) /\ Ahead(LineOf(r, k))
  BY <1>2, CountIsNat, LinesAreLines, LineIsAhead
<1>4. i = Len(LineOf(r, k)) + 1 /\ IsUnbroken(LineOf(r, k)) /\ Line(scan.buf) = LineOf(r, k)
  BY <1>1, <1>2, <1>3, LineIsFound
<1>5. CASE TakeLine(scan)
  BY <1>1, <1>4, <1>5, NextIsAhead
<1> QED
  BY <1>4, <1>5

\* A header.
LEMMA ReadsHeader ==
    ASSUME HttpInv, NEW r \in Requests, Honest(r), NEW k \in 1..LastLine(r), ReadTo(r, k),
           NEW scan, Found(scan), parseHeader(scan), pc = "loop", sent' = sent
    PROVE  Stays(r)
<1> DEFINE n == Len(r.headers)
           l == LineOf(r, k)
<1>0. n \in Nat /\ k \in 0..LastLine(r)
  BY CountIsNat DEF LastLine
<1>1. /\ scan.state = "LINE_OK" /\ mCheckState = "HEADER" /\ Line(scan.buf) # <<>>
      /\ TakeLine(scan)
      /\ contentLength' = IF Head(Line(scan.buf)) \in DOMAIN LengthHeader
                          THEN LengthHeader[Head(Line(scan.buf))] ELSE contentLength
      /\ isAlive' = IF Head(Line(scan.buf)) \in {KeepAliveHeader, CloseHeader}
                    THEN Head(Line(scan.buf)) = KeepAliveHeader ELSE isAlive
      /\ UNCHANGED <<mCheckState, body, pc, ret>>
  BY DEF parseHeader
<1>2. /\ IsUnbroken(l) /\ Line(scan.buf) = l
      /\ At(r)[k + 1] + Len(buf') = sent
      /\ \A j \in 1..Len(buf') : buf'[j] = Wire(r)[At(r)[k + 1] + j]
  BY <1>0, <1>1, LineIsRead
<1>3. k \in 1..n /\ l = r.headers[k]
  <2>1. k # n + 1
    BY <1>0, <1>1, <1>2 DEF LineOf
  <2>2. k \in 1..n
    BY <1>0, <2>1 DEF LastLine
  <2> QED
    BY <1>0, <2>2 DEF LineOf
<1> HIDE DEF l
<1>4. /\ k \in Nat /\ k - 1 \in Nat /\ (k - 1) + 1 = k /\ (k + 1) - 1 = k
      /\ k + 1 \in 1..LastLine(r) /\ k + 1 \in 0..(n + 2) /\ k + 1 # 0 /\ k + 1 # n + 2
  BY <1>0, <1>3 DEF LastLine
<1>5. HeadersBefore(r, k) = k - 1 /\ HeadersBefore(r, k + 1) = k
  BY <1>4, CountHeaders
<1>6. /\ r.line \in RequestLines /\ body = <<>>
      /\ \A i \in 1..(k - 1) : IsUnbroken(r.headers[i])
      /\ IsLength(r, k - 1, contentLength) /\ isAlive = WantsKept(r, k - 1)
  BY <1>5 DEF ReadTo
<1>7. \A i \in 1..k : IsUnbroken(r.headers[i])
  <2>1. \A i \in 1..k : i \in 1..(k - 1) \/ i = k
    BY <1>4
  <2> QED
    BY <2>1, <1>2, <1>3, <1>6
<1>8. IsLength(r, k, contentLength')
  <2> DEFINE name == Head(l)
  <2>1. name = Head(r.headers[(k - 1) + 1])
    BY <1>3, <1>4
  <2>2. contentLength' = IF name \in DOMAIN LengthHeader THEN LengthHeader[name] ELSE contentLength
    BY <1>1, <1>2
  <2> HIDE DEF name
  <2>3. IsLength(r, (k - 1) + 1,
                 IF name \in DOMAIN LengthHeader THEN LengthHeader[name] ELSE contentLength)
    BY <1>4, <1>6, <2>1, LengthNext
  <2> QED
    BY <1>4, <2>2, <2>3
<1>9. isAlive' = WantsKept(r, k)
  <2> DEFINE name == Head(l)
  <2>1. name = Head(r.headers[(k - 1) + 1])
    BY <1>3, <1>4
  <2>2. isAlive' = IF name \in {KeepAliveHeader, CloseHeader} THEN name = KeepAliveHeader
                   ELSE isAlive
    BY <1>1, <1>2
  <2> HIDE DEF name
  <2>3. WantsKept(r, (k - 1) + 1) = IF name \in {KeepAliveHeader, CloseHeader}
                                    THEN name = KeepAliveHeader ELSE WantsKept(r, k - 1)
    BY <1>4, <2>1, WantsNext
  <2> QED
    BY <1>4, <1>6, <2>2, <2>3
<1>10. ReadTo(r, k + 1)'
  BY <1>1, <1>2, <1>4, <1>5, <1>6, <1>7, <1>8, <1>9 DEF ReadTo
<1> QED
  BY <1>1, <1>4, <1>10 DEF Stays

\* The blank line.
LEMMA ReadsBlank ==
    ASSUME HttpInv, NEW r \in Requests, r = Request, Honest(r),
           NEW k \in 1..LastLine(r), ReadTo(r, k),
           NEW scan, Found(scan), parseBlank(scan), pc = "loop", UNCHANGED <<client, sent>>
    PROVE  Stays(r) \/ Accepts
<1> DEFINE n == Len(r.headers)
<1>0. n \in Nat /\ k \in 0..LastLine(r) /\ n + 1 \in 1..LastLine(r) /\ n + 2 \in 0..(n + 2)
      /\ n + 2 # 0 /\ n + 2 # n + 1
  BY CountIsNat DEF LastLine
<1>1. /\ scan.state = "LINE_OK" /\ mCheckState = "HEADER" /\ Line(scan.buf) = <<>>
      /\ TakeLine(scan) /\ UNCHANGED <<contentLength, isAlive, body>>
      /\ IF contentLength # 0
         THEN mCheckState' = "BODY" /\ UNCHANGED <<pc, ret>>
         ELSE mCheckState' = "SUCCESS" /\ Return("GET_REQUEST")
  BY DEF parseBlank, HasBody
<1>2. /\ LineOf(r, k) = <<>>
      /\ At(r)[k + 1] + Len(buf') = sent
      /\ \A j \in 1..Len(buf') : buf'[j] = Wire(r)[At(r)[k + 1] + j]
  BY <1>0, <1>1, LineIsRead
<1>3. k = n + 1
  <2>1. k \in 1..n => r.headers[k] # <<>> /\ LineOf(r, k) = r.headers[k]
    BY <1>0 DEF Honest, LineOf
  <2> QED
    BY <1>0, <1>2, <2>1 DEF LastLine
<1>4. HeadersBefore(r, n + 1) = n /\ HeadersBefore(r, n + 2) = n
  BY <1>0, CountHeaders
<1>5. /\ r.line \in RequestLines /\ body = <<>>
      /\ \A i \in 1..n : IsUnbroken(r.headers[i])
      /\ IsLength(r, n, contentLength) /\ isAlive = WantsKept(r, n)
  BY <1>0, <1>3, <1>4 DEF ReadTo
<1>6. (n + 1) + 1 = n + 2
  BY <1>0
<1>7. /\ At(r)[n + 2] + Len(buf') = sent
      /\ \A j \in 1..Len(buf') : buf'[j] = Wire(r)[At(r)[n + 2] + j]
  BY <1>2, <1>3, <1>6
<1>8. CASE contentLength # 0
  <2>1. ReadTo(r, n + 2)'
    BY <1>0, <1>1, <1>4, <1>5, <1>7, <1>8 DEF ReadTo
  <2>2. mCheckState' = "BODY" /\ pc' = "loop" /\ ret' = ret
    BY <1>1, <1>8
  <2> QED
    BY <1>0, <2>1, <2>2 DEF Stays
<1>9. CASE contentLength = 0
  <2>1. mCheckState' = "SUCCESS" /\ ret' = "GET_REQUEST" /\ pc' = "answer"
    BY <1>1, <1>9 DEF Return
  <2>2. Len(r.body) = 0 /\ ~ NegativeLength(r)
    BY <1>0, <1>5, <1>9, LengthIsHonest
  <2>3. Len(buf') = 0 /\ sent = Len(Wire(r))
    <3> DEFINE x == Len(buf')
               y == Len(Wire(r))
               a == At(r)[n + 2]
    <3>1. a \in Nat /\ x \in Nat
      <4>1. buf' \in Seq(Char)
        BY <1>1, Takes
      <4> QED
        BY <4>1, <1>0, CountIsNat
    <3>2. y = a + 0
      BY <2>2, AtIsCut DEF IsCut
    <3>3. a + x = sent /\ sent \in 0..y
      BY <1>7 DEF HttpInv, HttpTypeOK
    <3> HIDE DEF x, y, a
    <3>4. x = 0 /\ sent = y
      BY <3>1, <3>2, <3>3
    <3> QED
      BY <3>4 DEF x, y
  <2>4. body = r.body
    <3>1. r.body \in Seq(Char)
      BY CountIsNat
    <3> QED
      BY <2>2, <3>1, <1>5
  <2>5. WellFormed(r)
    BY <1>5, <2>2, WellFormedLines DEF WellFormed
  <2>6. Request' = r
    BY DEF Request
  <2>7. Unbroken(Len(buf))'
    BY <2>3 DEF Unbroken
  <2>8. Answered'
    BY <1>1, <1>5, <2>1, <2>3, <2>4, <2>5, <2>6, <2>7 DEF Answered, Complete, AsksKeepAlive
  <2> QED
    BY <2>1, <2>8 DEF Accepts
<1> QED
  BY <1>8, <1>9

\* The body.
LEMMA ReadsContent ==
    ASSUME HttpInv, NEW r \in Requests, r = Request, Honest(r), ReadTo(r, Len(r.headers) + 2),
           NEW scan, Found(scan), parseContent(scan), buf # <<>>, UNCHANGED <<client, sent>>
    PROVE  Stays(r) \/ Accepts \/ Terminates(r)
<1> DEFINE n == Len(r.headers)
<1>0. n \in Nat /\ n + 2 \in 0..(n + 2) /\ buf \in Seq(Char) /\ Len(r.body) \in Nat
      /\ sent <= Len(Wire(r)) /\ contentLength \in Int
  BY CountIsNat DEF HttpInv, HttpTypeOK
<1>1. /\ scan.state # "LINE_BAD" /\ mCheckState = "BODY"
      /\ KeepScan(scan)
      /\ \/ /\ ~ (scan.index >= contentLength)
            /\ UNCHANGED <<body, mCheckState>> /\ Return("NO_REQUEST")
         \/ /\ scan.index >= contentLength /\ contentLength >= 0
            /\ body' = SubSeq(scan.buf, 1, contentLength)
            /\ mCheckState' = "SUCCESS"
            /\ Return("GET_REQUEST")
         \/ /\ scan.index >= contentLength /\ contentLength < 0
            /\ pc' = "terminated" /\ ret' = ret
      /\ UNCHANGED <<contentLength, isAlive>>
  BY DEF parseContent, BodyScanned
<1>2. /\ Len(buf) <= Len(r.body)
      /\ contentLength = Len(r.body) \/ contentLength < 0
      /\ contentLength < 0 <=> NegativeLength(r)
      /\ \A j \in 1..Len(buf) : buf[j] = r.body[j]
      /\ Unbroken(Len(buf))
      /\ Len(buf) = Len(r.body) => sent = Len(Wire(r))
  BY <1>0, BodyIsAhead
<1>3. Len(buf) \in Nat /\ Len(buf) \in 1..Len(buf)
  <2>1. Len(buf) \in Nat /\ Len(buf) # 0
    BY <1>0
  <2> QED
    BY <2>1
<1>4. scan.index = Len(buf) /\ scan.buf = buf
  <2>1. buf[Len(buf)] # CR
    BY <1>2, <1>3 DEF Unbroken
  <2>2. ~ \E i \in 1..Len(buf) : FoundLine(scan, i) \/ FoundBad(scan, i)
    BY <1>2, <1>1 DEF Unbroken, FoundLine, FoundBad
  <2>3. FoundOpen(scan)
    BY <2>2 DEF Found
  <2> QED
    BY <2>1, <2>3 DEF FoundOpen
<1>5. buf' = buf /\ mCheckIndex' = Len(buf)
  BY <1>1, <1>4 DEF KeepScan
<1>6. CASE scan.index >= contentLength /\ contentLength >= 0
  <2>0. contentLength = Len(r.body) /\ ~ NegativeLength(r)
    BY <1>0, <1>2, <1>6
  <2>1. body' = SubSeq(buf, 0 + 1, Len(r.body)) /\ mCheckState' = "SUCCESS"
        /\ ret' = "GET_REQUEST" /\ pc' = "answer" /\ isAlive' = isAlive
    BY <1>0, <1>1, <1>4, <1>6, <2>0 DEF Return
  <2>2. Len(buf) = Len(r.body)
    BY <1>0, <1>2, <1>3, <1>4, <1>6, <2>0
  <2>3. body' = r.body
    <3> DEFINE u == SubSeq(buf, 0 + 1, Len(r.body))
    <3>1. Len(r.body) \in 0..Len(buf) /\ 0 \in 0..Len(r.body)
      BY <1>0, <2>2
    <3>2. IsPart(buf, 0, Len(r.body), u)
      BY <1>0, <3>1, PartOf
    <3> HIDE DEF u
    <3>3. u \in Seq(Char) /\ Len(u) = Len(r.body) /\ \A j \in 1..Len(r.body) : u[j] = buf[j]
      <4>1. Len(r.body) - 0 = Len(r.body) /\ \A j \in 1..Len(r.body) : 0 + j = j
        BY <1>0
      <4> QED
        BY <3>2, <4>1 DEF IsPart
    <3>4. r.body \in Seq(Char) /\ \A j \in 1..Len(r.body) : u[j] = r.body[j]
      BY <1>2, <2>2, <3>3, CountIsNat
    <3>5. u = r.body
      BY <3>3, <3>4, SeqEqual
    <3> QED
      BY <2>1, <3>5 DEF u
  <2>4. WellFormed(r) /\ r.line \in RequestLines /\ isAlive = WantsKept(r, n)
    <3>1. HeadersBefore(r, n + 2) = n /\ n + 2 > 0
      BY <1>0, CountHeaders
    <3>2. /\ r.line \in RequestLines /\ isAlive = WantsKept(r, n)
          /\ \A i \in 1..n : IsUnbroken(r.headers[i])
      BY <1>0, <3>1 DEF ReadTo
    <3> QED
      BY <2>0, <3>2, WellFormedLines DEF WellFormed
  <2>5. Request' = r
    BY DEF Request
  <2>6. Unbroken(Len(buf))'
    BY <1>2, <1>5 DEF Unbroken
  <2>7. Answered'
    BY <1>2, <2>1, <2>2, <2>3, <2>4, <2>5, <2>6 DEF Answered, Complete, AsksKeepAlive
  <2> QED
    BY <2>1, <2>7 DEF Accepts
<1>7. CASE scan.index >= contentLength /\ contentLength < 0
  <2>1. pc' = "terminated" /\ ret' = ret
    BY <1>0, <1>1, <1>7
  <2>2. NegativeLength(r)
    BY <1>2, <1>7
  <2> QED
    BY <2>1, <2>2 DEF Terminates
<1>8. CASE ~ (scan.index >= contentLength)
  <2>1. UNCHANGED parsed /\ ret' = "NO_REQUEST" /\ pc' = "idle" /\ mCheckState' = "BODY"
    BY <1>1, <1>8 DEF parsed, Return
  <2>2. ReadTo(r, n + 2)'
    BY <1>5, <2>1, ReadToStays
  <2>3. Unbroken(Len(buf) - 1)
    <3>1. \A j \in 1..(Len(buf) - 1) : j \in 1..Len(buf)
      BY <1>3
    <3> QED
      BY <1>2, <3>1 DEF Unbroken
  <2>4. Len(buf) < contentLength
    BY <1>0, <1>3, <1>4, <1>8
  <2>5. AtRest'
    BY <1>5, <2>1, <2>3, <2>4 DEF AtRest, Unbroken, parsed
  <2> QED
    BY <1>0, <2>1, <2>2, <2>5 DEF Stays
<1> QED
  BY <1>0, <1>6, <1>7, <1>8

\* A turn of processRead's loop before the first verdict.
LEMMA ReadsOn ==
    ASSUME HttpInv, NEW r \in Requests, r = Request, Honest(r), mCheckState # "SUCCESS",
           NEW k \in 0..(Len(r.headers) + 2), ReadTo(r, k), processRead
    PROVE  Stays(r) \/ Refuses(r) \/ Accepts \/ Terminates(r)
<1> DEFINE n == Len(r.headers)
<1>0. n \in Nat /\ buf \in Seq(Char) /\ mCheckIndex \in 0..Len(buf) /\ NothingSkipped
      /\ sent <= Len(Wire(r)) /\ contentLength \in Int
  BY CountIsNat DEF HttpInv, HttpTypeOK
<1>1. pc = "loop" /\ client' = client /\ sent' = sent
  BY DEF processRead
<1>2. CASE LoopEnds
  <2>1. /\ buf' = <<>> /\ buf' = buf /\ UNCHANGED parsed /\ mCheckState' = mCheckState
        /\ ret' = "NO_REQUEST" /\ pc' = "idle"
    BY <1>2 DEF LoopEnds, Return, parsed
  <2>2. ReadTo(r, k)'
    BY <1>1, <2>1, ReadToStays
  <2>3. AtRest'
    <3>1. Len(buf') = 0 /\ \A j \in 1..(0 - 1) : FALSE
      BY <2>1
    <3> QED
      BY <2>1, <3>1 DEF AtRest, Unbroken
  <2> QED
    BY <2>1, <2>2, <2>3 DEF Stays
<1>3. ASSUME NEW scan, scan = parseLine, buf # <<>>, ProcessLine(scan)
      PROVE  Stays(r) \/ Refuses(r) \/ Accepts \/ Terminates(r)
  <2>1. Found(scan)
    BY <1>0, <1>3, ScanFinds
  <2>2. CASE LineOpen(scan)
    <3>1. /\ UNCHANGED parsed /\ mCheckState' = mCheckState
          /\ ret' = "NO_REQUEST" /\ pc' = "idle" /\ KeepScan(scan) /\ scan.state = "LINE_OPEN"
      BY <2>2 DEF LineOpen, Return, parsed
    <3>2. FoundOpen(scan)
      BY <2>1, <3>1 DEF Found, FoundLine, FoundBad
    <3>3. buf' = buf
      BY <3>1, <3>2 DEF FoundOpen, KeepScan
    <3>4. ReadTo(r, k)'
      BY <1>1, <3>1, <3>3, ReadToStays
    <3>5. Unbroken(Len(buf) - 1)
      <4>1. scan.index \in Nat /\ (scan.index = Len(buf) \/ scan.index = Len(buf) - 1)
        BY <2>1, <3>2 DEF FoundOpen, Found
      <4>2. \A j \in 1..(Len(buf) - 1) : j \in 1..scan.index
        BY <1>0, <4>1
      <4> QED
        BY <3>2, <4>2 DEF FoundOpen, Unbroken
    <3>6. mCheckState' # "BODY"
      BY <2>2, <3>1 DEF LineOpen
    <3>7. AtRest'
      BY <3>3, <3>5, <3>6 DEF AtRest, Unbroken
    <3> QED
      BY <3>1, <3>4, <3>7 DEF Stays
  <2>3. CASE LineBad(scan)
    <3>1. ret' = "BAD_REQUEST" /\ pc' = "answer" /\ scan.state = "LINE_BAD"
      BY <2>3 DEF LineBad, Return
    <3>2. PICK i \in 1..Len(buf) : FoundBad(scan, i)
      BY <2>1, <3>1 DEF Found, FoundOpen, FoundLine
    <3>3. k # n + 2
      <4> SUFFICES ASSUME k = n + 2 PROVE FALSE
        OBVIOUS
      <4>1. Unbroken(Len(buf))
        BY <1>0, BodyIsAhead
      <4> QED
        BY <3>2, <4>1 DEF Unbroken, FoundBad
    <3>4. k \in 0..LastLine(r)
      BY <1>0, <3>3 DEF LastLine
    <3>5. LineOf(r, k) \in Seq(Char) /\ Ahead(LineOf(r, k))
      BY <1>0, <3>4, CountIsNat, LineIsAhead
    <3>6. ~ IsUnbroken(LineOf(r, k))
      BY <1>0, <3>2, <3>5, BadLineIsFound
    <3>7. ~ LinesWellFormed(r)
      BY <3>4, <3>6, BrokenLine
    <3> QED
      BY <3>1, <3>7 DEF Refuses, MayBeRefused
  <2>4. CASE parseRequest(scan)
    <3>1. k = 0
      BY <2>4, WhichLine DEF parseRequest
    <3> QED
      BY <1>1, <2>1, <2>4, <3>1, ReadsRequest
  <2>5. CASE parseHeader(scan)
    <3>1. k \in 1..LastLine(r)
      BY <2>5, WhichLine DEF parseHeader
    <3> QED
      BY <1>1, <2>1, <2>5, <3>1, ReadsHeader
  <2>6. CASE parseBlank(scan)
    <3>1. k \in 1..LastLine(r)
      BY <2>6, WhichLine DEF parseBlank
    <3> QED
      BY <1>1, <2>1, <2>6, <3>1, ReadsBlank
  <2>7. CASE parseContent(scan)
    <3>1. k = n + 2
      BY <2>7, WhichLine DEF parseContent
    <3> QED
      BY <1>1, <1>3, <2>1, <2>7, <3>1, ReadsContent
  <2>8. ~ NoCase(scan)
    BY DEF NoCase
  <2> QED
    BY <1>3, <2>2, <2>3, <2>4, <2>5, <2>6, <2>7, <2>8 DEF ProcessLine
<1>4. LoopEnds \/ (buf # <<>> /\ ProcessLine(parseLine))
  BY DEF processRead
<1> QED
  BY <1>2, <1>3, <1>4

-----------------------------------------------------------------------------
(* After the first answer: what is left of that request and what comes of    *)
(* the next one is scanned and never read.                                   *)

\* Character p of a request is in one of its lines, or in its body.
LEMMA WhereIsCharacter ==
    ASSUME NEW r \in Requests, NEW p \in 1..Len(Wire(r))
    PROVE  \/ \E k \in 0..LastLine(r) : \E j \in 1..(Len(LineOf(r, k)) + 2) : p = At(r)[k] + j
           \/ \E j \in 1..Len(r.body) : p = At(r)[Len(r.headers) + 2] + j
<1> DEFINE n == Len(r.headers)
           at == At(r)
           T == {m \in 0..(n + 2) : p <= at[m]}
<1>0. /\ n \in Nat /\ Len(Wire(r)) \in Nat /\ Len(r.body) \in Nat
      /\ \A m \in 0..(n + 2) : at[m] \in Nat
  BY CountIsNat
<1>1. /\ at[0] = 0
      /\ \A k \in 0..(n + 1) : at[k + 1] = at[k] + Len(LineOf(r, k)) + 2
      /\ Len(Wire(r)) = at[n + 2] + Len(r.body)
  BY AtIsCut DEF IsCut, LastLine
<1>2. \A k \in 0..(n + 1) : Len(LineOf(r, k)) \in Nat
  <2>1. \A k \in 0..(n + 1) : LineOf(r, k) \in Seq(Char)
    BY CountIsNat DEF LastLine
  <2> QED
    BY <2>1, LenProperties
<1>3. T \subseteq Nat /\ (\A m \in T : m \in 0..(n + 2) /\ p <= at[m])
      /\ \A m \in 0..(n + 2) : m \notin T => ~ (p <= at[m])
  BY <1>0
<1> HIDE DEF n, at, T
<1>4. p \in Nat /\ p >= 1 /\ p <= Len(Wire(r))
  BY <1>0
<1>5. CASE T # {}
  <2>1. PICK m \in T : \A y \in T : m <= y
    BY <1>3, <1>5, Least
  <2>2. m \in 0..(n + 2) /\ p <= at[m] /\ m # 0
    BY <1>1, <1>3, <1>4, <2>1
  <2>3. /\ m - 1 \in 0..(n + 2) /\ m - 1 \in 0..(n + 1) /\ ~ (m <= m - 1) /\ (m - 1) + 1 = m
    BY <1>0, <2>2
  <2>4. ~ (p <= at[m - 1])
    BY <1>3, <2>1, <2>3
  <2>5. at[m] = at[m - 1] + Len(LineOf(r, m - 1)) + 2
    BY <1>1, <2>3
  <2> DEFINE k == m - 1
             a == at[k]
             c == at[m]
             x == Len(LineOf(r, k))
             j == p - a
  <2>6. a \in Nat /\ x \in Nat /\ c = a + x + 2 /\ p <= c /\ ~ (p <= a)
    BY <1>0, <1>2, <2>2, <2>3, <2>4, <2>5
  <2>7. k \in 0..LastLine(r)
    BY <2>3 DEF LastLine, n
  <2> HIDE DEF a, c, x, k
  <2>8. j \in 1..(x + 2) /\ p = a + j
    BY <1>4, <2>6
  <2> QED
    BY <2>7, <2>8 DEF a, x, at
<1>6. CASE T = {}
  <2>1. n + 2 \in 0..(n + 2)
    BY <1>0
  <2>2. ~ (p <= at[n + 2]) /\ at[n + 2] \in Nat
    BY <1>0, <1>3, <1>6, <2>1
  <2> DEFINE a == at[n + 2]
             x == Len(r.body)
             y == Len(Wire(r))
             j == p - a
  <2>3. a \in Nat /\ x \in Nat /\ y = a + x /\ p <= y /\ ~ (p <= a)
    BY <1>0, <1>1, <1>4, <2>2
  <2> HIDE DEF a, x, y
  <2>4. j \in 1..x /\ p = a + j
    BY <1>4, <2>3
  <2> QED
    BY <2>4 DEF a, x, at, n
<1> QED
  BY <1>5, <1>6

\* In well-formed lines '\r' and '\n' come in pairs.
LEMMA BreaksArePairs ==
    ASSUME NEW r \in Requests, Honest(r), LinesWellFormed(r), NEW p \in 1..Len(Wire(r))
    PROVE  /\ Wire(r)[p] = CR => Wire(r)[p + 1] = LF
           /\ Wire(r)[p] = LF => p > 1 /\ Wire(r)[p - 1] = CR
<1> DEFINE w == Wire(r)
<1>0. Len(r.headers) \in Nat
  BY CountIsNat
<1>1. ASSUME NEW k \in 0..LastLine(r), NEW j \in 1..(Len(LineOf(r, k)) + 2), p = At(r)[k] + j
      PROVE  /\ w[p] = CR => w[p + 1] = LF
             /\ w[p] = LF => p > 1 /\ w[p - 1] = CR
  <2> DEFINE l == LineOf(r, k)
             a == At(r)[k]
             x == Len(l)
  <2>1. x \in Nat /\ a \in Nat
    <3>1. k \in 0..(Len(r.headers) + 2) /\ l \in Seq(Char)
      BY <1>0, CountIsNat DEF LastLine
    <3>2. x \in Nat
      BY <3>1, LenProperties
    <3> QED
      BY <3>1, <3>2, CountIsNat
  <2>2. /\ \A i \in 1..x : w[a + i] = l[i]
        /\ w[a + x + 1] = CR
        /\ w[a + x + 2] = LF
    BY AtIsCut DEF IsCut
  <2>3. \A i \in 1..x : l[i] \notin {CR, LF}
    <3>1. IsUnbroken(l)
      BY BrokenLine
    <3> QED
      BY <3>1 DEF IsUnbroken
  <2>4. j \in 1..(x + 2) /\ p = a + j
    BY <1>1
  <2> HIDE DEF w, l, a, x
  <2>5. CASE j \in 1..x
    BY <2>2, <2>3, <2>4, <2>5
  <2>6. CASE j = x + 1
    <3>1. p = a + x + 1 /\ p + 1 = a + x + 2
      BY <2>1, <2>4, <2>6
    <3> QED
      BY <2>2, <3>1, Characters3
  <2>7. CASE j = x + 2
    <3>1. p = a + x + 2 /\ p - 1 = a + x + 1 /\ p > 1
      BY <2>1, <2>4, <2>7
    <3> QED
      BY <2>2, <3>1, Characters3
  <2>8. j \in 1..x \/ j = x + 1 \/ j = x + 2
    BY <2>1, <2>4
  <2> QED
    BY <2>5, <2>6, <2>7, <2>8
<1>2. ASSUME NEW j \in 1..Len(r.body), p = At(r)[Len(r.headers) + 2] + j
      PROVE  w[p] \notin {CR, LF}
  <2>1. w[p] = r.body[j]
    BY <1>2, AtIsCut DEF IsCut
  <2> QED
    BY <2>1 DEF Honest
<1> HIDE DEF w
<1>3. \/ \E k \in 0..LastLine(r) : \E j \in 1..(Len(LineOf(r, k)) + 2) : p = At(r)[k] + j
      \/ \E j \in 1..Len(r.body) : p = At(r)[Len(r.headers) + 2] + j
  BY WhereIsCharacter
<1>4. /\ w[p] = CR => w[p + 1] = LF
      /\ w[p] = LF => p > 1 /\ w[p - 1] = CR
  BY <1>1, <1>2, <1>3
<1> QED
  BY <1>4 DEF w

\* What processRead does with it.
DiscardsOn(r, d) ==
    \/ /\ pc' \in {"idle", "loop"} /\ ret' \in {ret, "NO_REQUEST"} /\ mCheckState' = "SUCCESS"
       /\ DiscardsAfter(d)'
    \/ Refuses(r)

LEMMA Discards ==
    ASSUME HttpInv, NEW r \in Requests, r = Request, Honest(r), mCheckState = "SUCCESS",
           NEW d \in 0..Len(buf), DiscardsAfter(d), processRead
    PROVE  DiscardsOn(r, d)
<1> DEFINE w == Wire(r)
<1>0. /\ buf \in Seq(Char) /\ Len(buf) \in Nat /\ d \in Nat
      /\ mCheckIndex \in 0..Len(buf) /\ mCheckIndex \in Nat
      /\ NothingSkipped /\ \A j \in 1..mCheckIndex : buf[j] \notin {CR, LF}
      /\ sent \in 0..Len(w) /\ Len(w) \in Nat
  BY CountIsNat DEF HttpInv, HttpTypeOK, NothingSkipped
<1>1. pc = "loop" /\ client' = client /\ sent' = sent /\ Request' = r
  BY DEF processRead, Request
<1>2. /\ Len(buf) = d + sent
      /\ \A j \in (mCheckIndex + 1)..Len(buf) :
            IF j <= d THEN buf[j] \notin {CR, LF} ELSE buf[j] = w[j - d]
      /\ mCheckIndex > d => w[mCheckIndex - d] # CR
  BY DEF DiscardsAfter
<1>3. CASE LoopEnds
  <2>1. buf' = buf /\ mCheckIndex' = mCheckIndex /\ mCheckState' = mCheckState
        /\ ret' = "NO_REQUEST" /\ pc' = "idle"
    BY <1>3 DEF LoopEnds, Return, parsed
  <2>2. DiscardsAfter(d)'
    BY <1>1, <1>2, <2>1 DEF DiscardsAfter
  <2> QED
    BY <2>1, <2>2 DEF DiscardsOn
<1>4. ASSUME NEW scan, scan = parseLine, ProcessLine(scan) PROVE DiscardsOn(r, d)
  <2>1. Found(scan)
    BY <1>0, <1>4, ScanFinds
  <2>2. CASE LineOpen(scan)
    <3>1. /\ mCheckState' = mCheckState
          /\ ret' = "NO_REQUEST" /\ pc' = "idle" /\ KeepScan(scan) /\ scan.state = "LINE_OPEN"
      BY <2>2 DEF LineOpen, Return, parsed
    <3>2. FoundOpen(scan)
      BY <2>1, <3>1 DEF Found, FoundLine, FoundBad
    <3> DEFINE s == scan.index
    <3>3. /\ buf' = buf /\ mCheckIndex' = s /\ Unbroken(s) /\ s \in 0..Len(buf)
          /\ s = Len(buf) \/ (s = Len(buf) - 1 /\ buf[Len(buf)] = CR)
      BY <2>1, <3>1, <3>2 DEF KeepScan, FoundOpen, Found
    <3> HIDE DEF s
    <3>4. mCheckIndex <= s
      <4>1. CASE s = Len(buf)
        BY <1>0, <4>1
      <4>2. CASE s = Len(buf) - 1 /\ buf[Len(buf)] = CR
        <5>1. Len(buf) \notin 1..mCheckIndex
          BY <1>0, <4>2
        <5> QED
          BY <1>0, <3>3, <4>2, <5>1
      <4> QED
        BY <3>3, <4>1, <4>2
    <3>5. \A j \in (s + 1)..Len(buf) : j \in (mCheckIndex + 1)..Len(buf)
      BY <1>0, <3>3, <3>4
    <3>6. s > d => w[s - d] # CR
      <4> SUFFICES ASSUME s > d PROVE w[s - d] # CR
        OBVIOUS
      <4>1. CASE s = mCheckIndex
        BY <1>2, <4>1
      <4>2. CASE s # mCheckIndex
        <5>1. s \in (mCheckIndex + 1)..Len(buf) /\ ~ (s <= d) /\ s \in 1..s
          BY <1>0, <3>3, <3>4, <4>2
        <5>2. buf[s] = w[s - d]
          BY <1>2, <5>1
        <5> QED
          BY <3>3, <5>1, <5>2 DEF Unbroken
      <4> QED
        BY <4>1, <4>2
    <3>7. DiscardsAfter(d)'
      BY <1>1, <1>2, <3>3, <3>5, <3>6 DEF DiscardsAfter
    <3> QED
      BY <3>1, <3>7 DEF DiscardsOn
  <2>3. CASE LineBad(scan)
    <3>1. ret' = "BAD_REQUEST" /\ pc' = "answer" /\ scan.state = "LINE_BAD"
      BY <2>3 DEF LineBad, Return
    <3>2. PICK i \in 1..Len(buf) : FoundBad(scan, i)
      BY <2>1, <3>1 DEF Found, FoundOpen, FoundLine
    <3>3. /\ i \in Nat /\ buf[i] \in {CR, LF} /\ Unbroken(i - 1)
          /\ buf[i] = CR => i < Len(buf) /\ buf[i + 1] # LF
      BY <3>2 DEF FoundBad
    <3>4. i \in (mCheckIndex + 1)..Len(buf)
      <4>1. i \notin 1..mCheckIndex
        BY <1>0, <3>3
      <4> QED
        BY <1>0, <3>3, <4>1
    <3>5. ~ (i <= d) /\ buf[i] = w[i - d]
      BY <1>2, <3>3, <3>4
    <3>6. ~ LinesWellFormed(r)
      <4> SUFFICES ASSUME LinesWellFormed(r) PROVE FALSE
        OBVIOUS
      <4>1. i - d \in 1..Len(w) /\ i - d \in Nat
        BY <1>0, <1>2, <3>3, <3>4, <3>5
      <4>2. /\ w[i - d] = CR => w[i - d + 1] = LF
            /\ w[i - d] = LF => i - d > 1 /\ w[i - d - 1] = CR
        BY <4>1, BreaksArePairs
      <4>3. CASE buf[i] = CR
        <5>1. /\ i + 1 \in (mCheckIndex + 1)..Len(buf) /\ ~ (i + 1 <= d)
              /\ (i + 1) - d = i - d + 1
          BY <1>0, <3>3, <3>4, <3>5, <4>3
        <5>2. buf[i + 1] = w[(i + 1) - d]
          BY <1>2, <5>1
        <5> QED
          BY <3>3, <3>5, <4>2, <4>3, <5>1, <5>2
      <4>4. CASE buf[i] = LF
        <5>1. i - d > 1 /\ w[i - d - 1] = CR
          BY <3>5, <4>2, <4>4
        <5>2. i - 1 > d /\ (i - 1) - d = i - d - 1 /\ i - 1 \in Nat /\ i - 1 \in 1..(i - 1)
          BY <1>0, <3>3, <5>1
        <5>3. CASE i - 1 = mCheckIndex
          BY <1>2, <5>1, <5>2, <5>3
        <5>4. CASE i - 1 # mCheckIndex
          <6>1. i - 1 \in (mCheckIndex + 1)..Len(buf) /\ ~ (i - 1 <= d)
            BY <1>0, <3>4, <5>2, <5>4
          <6>2. buf[i - 1] = w[(i - 1) - d]
            BY <1>2, <6>1
          <6> QED
            BY <3>3, <5>1, <5>2, <6>2 DEF Unbroken
        <5> QED
          BY <5>3, <5>4
      <4> QED
        BY <3>3, <4>3, <4>4
    <3> QED
      BY <3>1, <3>6 DEF Refuses, MayBeRefused, DiscardsOn
  <2>4. CASE NoCase(scan)
    <3>1. scan.state = "LINE_OK" /\ KeepScan(scan) /\ mCheckState' = mCheckState
          /\ pc' = pc /\ ret' = ret
      BY <2>4 DEF NoCase, parsed
    <3>2. PICK i : FoundLine(scan, i)
      BY <2>1, <3>1 DEF Found, FoundOpen, FoundBad
    <3>3. /\ mCheckIndex' = i + 1
          /\ buf' = [buf EXCEPT ![i] = NUL, ![i + 1] = NUL] /\ Len(buf') = Len(buf)
          /\ i \in 1..(Len(buf) - 1) /\ buf[i + 1] = LF
      BY <2>1, <3>1, <3>2 DEF FoundLine, KeepScan, Found
    <3>4. i + 1 \in (mCheckIndex + 1)..Len(buf) /\ i \in Nat
      <4>1. i + 1 \notin 1..mCheckIndex
        BY <1>0, <3>3, Characters3
      <4> QED
        BY <1>0, <3>3, <4>1
    <3>5. \A j \in ((i + 1) + 1)..Len(buf) : /\ j \in (mCheckIndex + 1)..Len(buf)
                                             /\ buf'[j] = buf[j]
      <4>1. DOMAIN buf = 1..Len(buf)
        BY <1>0
      <4>2. \A j \in ((i + 1) + 1)..Len(buf) :
                /\ j \in (mCheckIndex + 1)..Len(buf) /\ j \in 1..Len(buf) /\ j # i /\ j # i + 1
        BY <1>0, <3>4
      <4> QED
        BY <3>3, <4>1, <4>2
    <3>6. i + 1 > d => w[(i + 1) - d] # CR
      <4> SUFFICES ASSUME i + 1 > d PROVE w[(i + 1) - d] # CR
        OBVIOUS
      <4>1. ~ (i + 1 <= d)
        BY <1>0, <3>4
      <4>2. buf[i + 1] = w[(i + 1) - d]
        BY <1>2, <3>4, <4>1
      <4> QED
        BY <3>3, <4>2, Characters3
    <3>7. DiscardsAfter(d)'
      <4>1. Len(buf') = d + sent'
        BY <1>1, <1>2, <3>3
      <4>2. \A j \in (mCheckIndex' + 1)..Len(buf') :
               IF j <= d THEN buf'[j] \notin {CR, LF} ELSE buf'[j] = w[j - d]
        BY <1>2, <3>3, <3>5
      <4>3. mCheckIndex' > d => w[mCheckIndex' - d] # CR
        BY <3>3, <3>6
      <4> QED
        BY <1>1, <4>1, <4>2, <4>3 DEF DiscardsAfter
    <3> QED
      BY <1>1, <3>1, <3>7 DEF DiscardsOn
  <2>5. \/ LineOpen(scan) \/ LineBad(scan) \/ NoCase(scan)
    BY <1>4 DEF ProcessLine, parseRequest, parseHeader, parseBlank, parseContent
  <2> QED
    BY <2>2, <2>3, <2>4, <2>5
<1>5. LoopEnds \/ ProcessLine(parseLine)
  BY DEF processRead
<1> QED
  BY <1>3, <1>4, <1>5

-----------------------------------------------------------------------------
(* The verdicts on clients that keep to the format.                          *)

LEMMA RequestIsHonest ==
    ASSUME HttpInv, \A i \in 1..Len(client) : Honest(client[i])
    PROVE  Request \in Requests /\ Honest(Request)
<1>1. client \in Seq(Requests) /\ client # <<>>
  BY DEF HttpInv
<1>2. 1 \in 1..Len(client) /\ Request = client[1]
  BY <1>1 DEF Request
<1> QED
  BY <1>1, <1>2, RequestIs

LEMMA HonestInvInit == ClientsAreHonest /\ Init => HonestInv
<1> SUFFICES ASSUME ClientsAreHonest, Init PROVE HonestInv
  OBVIOUS
<1>1. HttpInv
  BY HttpInvInit
<1>2. \A i \in 1..Len(client) : Honest(client[i])
  BY DEF ClientsAreHonest, Init
<1>3. /\ sent = 0 /\ buf = <<>> /\ Len(buf) = 0 /\ mCheckState = "REQUEST"
      /\ contentLength = 0 /\ isAlive = FALSE /\ body = <<>>
      /\ pc = "idle" /\ ret = "NO_REQUEST"
  BY DEF Init
<1> DEFINE r == Request
<1>4. r \in Requests
  BY <1>1, <1>2, RequestIsHonest
<1> HIDE DEF r
<1>5. /\ At(r)[0] = 0 /\ HeadersBefore(r, 0) = 0
      /\ Len(r.headers) \in Nat /\ 0 \in 0..(Len(r.headers) + 2) /\ 0 # Len(r.headers) + 2
  BY <1>4, AtIsCut, CountIsNat, CountHeaders DEF IsCut
<1>6. IsLength(r, 0, 0) /\ WantsKept(r, 0) = FALSE /\ \A i \in 1..0 : IsUnbroken(r.headers[i])
  BY DEF IsLength, WantsKept
<1>7. ReadTo(r, 0)
  <2>1. At(r)[0] + Len(buf) = sent /\ \A j \in 1..Len(buf) : buf[j] = Wire(r)[At(r)[0] + j]
    BY <1>3, <1>5
  <2>2. /\ \A i \in 1..HeadersBefore(r, 0) : IsUnbroken(r.headers[i])
        /\ IsLength(r, HeadersBefore(r, 0), contentLength)
        /\ isAlive = WantsKept(r, HeadersBefore(r, 0))
    BY <1>3, <1>5, <1>6, Zenon
  <2> QED
    BY <1>3, <1>5, <2>1, <2>2 DEF ReadTo
<1>8. Reading
  BY <1>5, <1>7 DEF Reading, r
<1>9. AtRest
  <2>1. \A j \in 1..(0 - 1) : FALSE
    OBVIOUS
  <2> QED
    BY <1>3, <2>1 DEF AtRest, Unbroken
<1> QED
  BY <1>1, <1>2, <1>3, <1>8, <1>9 DEF HonestInv

\* A portion arrives.
LEMMA ReadToGrows ==
    ASSUME HttpInv, NEW n \in 1..kBufferSize, Receive(n), NEW r \in Requests, r = Request,
           NEW k \in 0..(Len(r.headers) + 2), ReadTo(r, k)
    PROVE  ReadTo(r, k)'
<1> DEFINE a == At(r)[k]
           w == Wire(r)
<1>1. /\ Len(buf') = Len(buf) + n /\ sent' = sent + n
      /\ \A j \in 1..Len(buf) : buf'[j] = buf[j]
      /\ \A j \in 1..n : buf'[Len(buf) + j] = w[sent + j]
      /\ UNCHANGED parsed
  BY Arrives DEF Receive
<1>2. a \in Nat /\ Len(buf) \in Nat /\ n \in Nat
  BY CountIsNat, Constants DEF HttpInv
<1>3. a + Len(buf) = sent /\ \A j \in 1..Len(buf) : buf[j] = w[a + j]
  BY DEF ReadTo
<1> HIDE DEF a, w
<1> DEFINE x == Len(buf)
           y == Len(buf')
<1>4. a + y = sent'
  <2>1. x \in Nat /\ y = x + n /\ a + x = sent /\ sent' = sent + n
    BY <1>1, <1>2, <1>3
  <2> HIDE DEF x, y
  <2> QED
    BY <2>1, <1>2
<1>5. ASSUME NEW j \in 1..y PROVE buf'[j] = w[a + j]
  <2>1. CASE j \in 1..x
    BY <2>1, <1>1, <1>3
  <2>2. CASE j \notin 1..x
    <3> DEFINE i == j - x
    <3>1. i \in 1..n /\ j = x + i /\ a + j = sent + i
      <4>1. x \in Nat /\ y = x + n /\ a + x = sent /\ j \in 1..y /\ j \notin 1..x
        BY <1>1, <1>2, <1>3, <2>2
      <4> HIDE DEF x, y
      <4> QED
        BY <4>1, <1>2
    <3>2. buf'[x + i] = w[sent + i]
      BY <1>1, <3>1
    <3> QED
      BY <3>1, <3>2
  <2> QED
    BY <2>1, <2>2
<1> QED
  BY <1>1, <1>4, <1>5 DEF ReadTo, parsed, a, w

LEMMA DiscardsMore ==
    ASSUME HttpInv, NEW n \in 1..kBufferSize, Receive(n), NEW r \in Requests, r = Request,
           NEW d \in 0..Len(buf), DiscardsAfter(d)
    PROVE  DiscardsAfter(d)' /\ d \in 0..Len(buf')
<1> DEFINE w == Wire(r)
<1>1. /\ Len(buf') = Len(buf) + n /\ sent' = sent + n
      /\ \A j \in 1..Len(buf) : buf'[j] = buf[j]
      /\ \A j \in 1..n : buf'[Len(buf) + j] = w[sent + j]
      /\ mCheckIndex' = mCheckIndex /\ Request' = r
  BY Arrives DEF Receive, Request
<1>2. Len(buf) \in Nat /\ n \in Nat /\ mCheckIndex \in 0..Len(buf) /\ sent \in Nat
  BY Arrives, Constants DEF HttpInv, HttpTypeOK
<1>3. /\ Len(buf) = d + sent
      /\ \A j \in (mCheckIndex + 1)..Len(buf) :
            IF j <= d THEN buf[j] \notin {CR, LF} ELSE buf[j] = w[j - d]
      /\ mCheckIndex > d => w[mCheckIndex - d] # CR
  BY DEF DiscardsAfter
<1> HIDE DEF w
<1> DEFINE x == Len(buf)
           y == Len(buf')
           m == mCheckIndex
<1>4. /\ x \in Nat /\ y = x + n /\ x = d + sent /\ sent' = sent + n /\ d \in Nat
      /\ m \in 0..x
  BY <1>1, <1>2, <1>3
<1>5. y = d + sent' /\ d \in 0..y
  <2> HIDE DEF x, y, m
  <2> QED
    BY <1>2, <1>4
<1>6. ASSUME NEW j \in (m + 1)..y
      PROVE  IF j <= d THEN buf'[j] \notin {CR, LF} ELSE buf'[j] = w[j - d]
  <2>1. CASE j \in 1..x
    <3>1. j \in (m + 1)..x
      BY <2>1, <1>6, <1>4
    <3> QED
      BY <2>1, <3>1, <1>1, <1>3
  <2>2. CASE j \notin 1..x
    <3> DEFINE i == j - x
    <3>1. i \in 1..n /\ j = x + i /\ j - d = sent + i /\ ~ (j <= d)
      <4> HIDE DEF x, y, m
      <4> QED
        BY <1>2, <1>4, <2>2, <1>6
    <3>2. buf'[x + i] = w[sent + i]
      BY <1>1, <3>1
    <3> QED
      BY <3>1, <3>2
  <2> QED
    BY <2>1, <2>2
<1> QED
  BY <1>1, <1>3, <1>5, <1>6 DEF DiscardsAfter, w

\* When the buffer is full and processRead waits for more, there is a line, or a body,
\* that does not fit.
LEMMA Overflows ==
    ASSUME HttpInv, NEW r \in Requests, Honest(r), sent <= Len(Wire(r)),
           NEW k \in 0..(Len(r.headers) + 2), ReadTo(r, k), AtRest, Len(buf) = kBufferSize
    PROVE  ~ Fits(r)
<1>0. /\ Len(r.headers) \in Nat /\ Len(r.body) \in Nat
      /\ buf \in Seq(Char) /\ Len(buf) \in Nat \ {0} /\ contentLength \in Int
  BY CountIsNat, Constants DEF HttpInv, HttpTypeOK
<1>1. CASE k \in 0..LastLine(r)
  <2> DEFINE l == LineOf(r, k)
  <2>1. l \in Seq(Char) /\ Ahead(l)
    BY <1>0, <1>1, CountIsNat, LineIsAhead
  <2> HIDE DEF l
  <2>2. Len(l) \in Nat
    BY <2>1
  <2>3. ~ (Len(l) + 2 <= kBufferSize)
    <3> SUFFICES ASSUME Len(l) + 2 <= Len(buf) PROVE FALSE
      OBVIOUS
    <3>1. Len(l) + 1 \in 1..(Len(buf) - 1) /\ Len(l) + 1 \in 1..Len(buf)
      BY <1>0, <2>2
    <3>2. buf[Len(l) + 1] = CR
      BY <2>1, <3>1 DEF Ahead
    <3> QED
      BY <3>1, <3>2 DEF AtRest, Unbroken
  <2>4. k \in 0..(Len(r.headers) + 1)
    BY <1>1 DEF LastLine
  <2> QED
    BY <2>3, <2>4 DEF Fits, l
<1>2. CASE k = Len(r.headers) + 2
  <2>1. mCheckState = "BODY" /\ buf # <<>>
    BY <1>0, <1>2, WhichLine
  <2>2. Len(buf) < contentLength
    BY <2>1 DEF AtRest
  <2>3. contentLength = Len(r.body) \/ contentLength < 0
    BY <1>0, <1>2, BodyIsAhead
  <2>4. ~ (Len(r.body) <= kBufferSize)
    BY <1>0, <2>2, <2>3
  <2> QED
    BY <2>4 DEF Fits
<1> QED
  BY <1>0, <1>1, <1>2 DEF LastLine

LEMMA HonestInvStep == HonestInv /\ [Next]_vars => HonestInv'
<1> SUFFICES ASSUME HonestInv, [Next]_vars PROVE HonestInv'
  OBVIOUS
<1> DEFINE Client == \A i \in 1..Len(client) : Honest(client[i])
           Before == IF mCheckState # "SUCCESS" THEN Reading ELSE (pc = "idle" /\ Complete) \/ Discarding
<1>0. /\ HttpInv /\ Client
      /\ pc \in {"idle", "loop"} => ret # "BAD_REQUEST" /\ Before
      /\ pc \in {"answer", "write"} /\ ret = "GET_REQUEST" => Answered
      /\ pc = "idle" /\ mCheckState # "SUCCESS" => AtRest
      /\ pc \in {"answer", "write"} => ret # "NO_REQUEST"
      /\ ret = "BAD_REQUEST" => MayBeRefused(Request)
      /\ pc = "write" /\ mAlive => ret = "GET_REQUEST"
      /\ pc = "terminated" => NegativeLength(Request)
      /\ pc = "closed" /\ ret = "NO_REQUEST" /\ mCheckState # "SUCCESS" => ~ Fits(Request)
  BY DEF HonestInv
<1>1. HttpInv'
  BY <1>0, HttpInvStep
<1>2. PICK r \in Requests : r = Request /\ Honest(r)
  BY <1>0, RequestIsHonest
<1> DEFINE n == Len(r.headers)
<1>3. n \in Nat /\ Len(Wire(r)) \in Nat
  BY <1>2, CountIsNat
<1> HIDE DEF Client
<1>4. ASSUME NEW m \in 1..kBufferSize, Receive(m) PROVE HonestInv'
  <2>1. /\ pc = "idle" /\ pc' = "loop" /\ sent + m <= Len(Wire(r))
        /\ UNCHANGED <<client, mCheckState, ret>> /\ Request' = r
    BY <1>4, <1>2 DEF Receive, parsed, Request
  <2>2. Client'
    BY <1>0, <2>1 DEF Client
  <2>3. Before'
    <3>1. CASE mCheckState # "SUCCESS"
      <4>1. PICK k \in 0..(n + 2) : ReadTo(r, k)
        BY <1>0, <2>1, <3>1, <1>2 DEF Reading
      <4>2. ReadTo(r, k)'
        BY <1>0, <1>2, <1>4, <4>1, ReadToGrows
      <4>3. Reading'
        BY <2>1, <4>2 DEF Reading
      <4> QED
        BY <2>1, <3>1, <4>3
    <3>2. CASE mCheckState = "SUCCESS"
      <4>1. ~ Complete
        <5> DEFINE y == Len(Wire(r))
        <5>1. y \in Nat /\ m \in 1..kBufferSize /\ sent + m <= y /\ kBufferSize \in Nat
          BY <1>3, <1>4, <2>1, Constants
        <5> HIDE DEF y
        <5>2. sent # y
          BY <5>1
        <5> QED
          BY <5>2, <1>2 DEF Complete, y
      <4>2. PICK d \in 0..Len(buf) : DiscardsAfter(d)
        BY <1>0, <2>1, <3>2, <4>1 DEF Discarding
      <4>3. DiscardsAfter(d)' /\ d \in 0..Len(buf')
        BY <1>0, <1>2, <1>4, <4>2, DiscardsMore
      <4>4. Discarding'
        BY <4>3 DEF Discarding
      <4> QED
        BY <2>1, <3>2, <4>4
    <3> QED
      BY <3>1, <3>2
  <2> HIDE DEF Before
  <2> QED
    BY <1>0, <1>1, <2>1, <2>2, <2>3 DEF HonestInv, Client, Before
<1>5. CASE Overflow
  <2>1. /\ pc = "idle" /\ pc' = "closed" /\ UNCHANGED <<client, ret, mCheckState>> /\ Request' = r
        /\ Len(buf) = kBufferSize
    BY <1>5, <1>2 DEF Overflow, Request, parsed
  <2>2. Client'
    BY <1>0, <2>1 DEF Client
  <2>3. ret' # "BAD_REQUEST"
    BY <1>0, <2>1
  <2>4. mCheckState # "SUCCESS" => ~ Fits(r)
    <3> SUFFICES ASSUME mCheckState # "SUCCESS" PROVE ~ Fits(r)
      OBVIOUS
    <3>1. PICK k \in 0..(n + 2) : ReadTo(r, k)
      BY <1>0, <2>1, <1>2 DEF Reading
    <3>2. AtRest /\ sent <= Len(Wire(r))
      BY <1>0, <1>2, <2>1 DEF HttpInv, HttpTypeOK
    <3> QED
      BY <1>0, <1>2, <2>1, <3>1, <3>2, Overflows
  <2> QED
    BY <1>1, <2>1, <2>2, <2>3, <2>4 DEF HonestInv, Client
<1>6. CASE processRead
  <2>1. pc = "loop" /\ client' = client /\ Request' = r
    BY <1>6, <1>2 DEF processRead, Request
  <2>2. Client'
    BY <1>0, <2>1 DEF Client
  <2>3. ret # "BAD_REQUEST" /\ Before
    BY <1>0, <2>1
  <2>4. ASSUME pc' \in {"idle", "loop"}, ret' \in {ret, "NO_REQUEST"}, Before',
               pc' = "idle" /\ mCheckState' # "SUCCESS" => AtRest'
        PROVE  HonestInv'
    <3>1. ret' # "BAD_REQUEST"
      BY <2>3, <2>4
    <3> HIDE DEF Before
    <3> QED
      BY <1>1, <2>2, <2>4, <3>1 DEF HonestInv, Client, Before
  <2>5. ASSUME Refuses(r) PROVE HonestInv'
    BY <1>1, <2>1, <2>2, <2>5 DEF HonestInv, Client, Refuses, MayBeRefused
  <2>6. CASE mCheckState # "SUCCESS"
    <3>1. PICK k \in 0..(n + 2) : ReadTo(r, k)
      BY <2>3, <2>6, <1>2 DEF Reading
    <3>2. Stays(r) \/ Refuses(r) \/ Accepts \/ Terminates(r)
      BY <1>0, <1>2, <1>6, <2>6, <3>1, ReadsOn
    <3>3. CASE Stays(r)
      <4>1. Reading'
        BY <2>1, <3>3 DEF Stays, Reading
      <4> QED
        BY <2>4, <3>3, <4>1 DEF Stays
    <3>4. CASE Accepts
      BY <1>1, <2>2, <3>4 DEF Accepts, HonestInv, Client
    <3>5. CASE Terminates(r)
      BY <1>1, <2>1, <2>2, <2>3, <3>5 DEF Terminates, HonestInv, Client
    <3> QED
      BY <2>5, <3>2, <3>3, <3>4, <3>5
  <2>7. CASE mCheckState = "SUCCESS"
    <3>1. PICK d \in 0..Len(buf) : DiscardsAfter(d)
      BY <2>1, <2>3, <2>7 DEF Discarding
    <3>2. DiscardsOn(r, d)
      BY <1>0, <1>2, <1>6, <2>7, <3>1, Discards
    <3>3. CASE Refuses(r)
      BY <2>5, <3>3
    <3>4. CASE ~ Refuses(r)
      <4>1. /\ pc' \in {"idle", "loop"} /\ ret' \in {ret, "NO_REQUEST"} /\ mCheckState' = "SUCCESS"
            /\ DiscardsAfter(d)'
        BY <3>2, <3>4 DEF DiscardsOn
      <4>2. d \in 0..Len(buf')
        <5>1. Len(buf') = d + sent' /\ sent' \in Nat /\ Len(buf') \in Nat /\ d \in Nat
          <6>1. Len(buf') = d + sent'
            BY <4>1 DEF DiscardsAfter
          <6>2. sent' \in Nat /\ buf' \in Seq(Char)
            BY <1>1, <1>3, <2>1 DEF HttpInv, HttpTypeOK
          <6>3. Len(buf') \in Nat
            BY <6>2, LenProperties
          <6>4. d \in Nat
            BY <1>0 DEF HttpInv
          <6> QED
            BY <6>1, <6>2, <6>3, <6>4
        <5> DEFINE x == Len(buf')
                   y == sent'
        <5>2. x = d + y /\ y \in Nat /\ x \in Nat /\ d \in Nat
          BY <5>1
        <5> HIDE DEF x, y
        <5>3. d \in 0..x
          BY <5>2
        <5> QED
          BY <5>3 DEF x
      <4>3. Discarding'
        BY <4>1, <4>2 DEF Discarding
      <4> QED
        BY <2>4, <4>1, <4>3
    <3> QED
      BY <3>3, <3>4
  <2> QED
    BY <2>6, <2>7
<1>7. ASSUME NEW keep \in BOOLEAN, Respond(keep) PROVE HonestInv'
  <2>1. /\ pc = "answer" /\ pc' = "write" /\ UNCHANGED <<client, sent, buf, parsed, ret>>
        /\ Request' = r
        /\ mAlive' => ret = "GET_REQUEST"
    BY <1>7, <1>2 DEF Respond, Request
  <2>2. Client'
    BY <1>0, <2>1 DEF Client
  <2>3. Answered => Answered'
    BY <2>1, <1>2 DEF Answered, parsed, Complete, Unbroken
  <2> QED
    BY <1>0, <1>1, <1>2, <2>1, <2>2, <2>3 DEF HonestInv, Client, MayBeRefused
<1>8. CASE WriteCb
  <2>1. pc = "write" /\ UNCHANGED <<buf, mCheckState, mCheckIndex, ret>>
    BY <1>8 DEF WriteCb, parsed
  <2>2. CASE ~ mAlive
    <3>1. pc' = "closed" /\ client' = client /\ Request' = r
      BY <1>8, <2>2, <1>2 DEF WriteCb, Request
    <3>2. Client'
      BY <1>0, <3>1 DEF Client
    <3> QED
      BY <1>0, <1>1, <1>2, <2>1, <3>1, <3>2 DEF HonestInv, Client, MayBeRefused
  <2>3. CASE mAlive
    <3>1. pc' = "idle" /\ ret = "GET_REQUEST" /\ ret' = "GET_REQUEST" /\ Answered
      BY <1>0, <1>8, <2>1, <2>3 DEF WriteCb
    <3>2. mCheckState' = "SUCCESS" /\ Complete /\ Unbroken(Len(buf))
      BY <2>1, <3>1 DEF Answered
    <3>3. CASE Len(client) > 1
      <4>1. client' = Tail(client) /\ sent' = 0
        BY <1>8, <2>3, <3>3 DEF WriteCb
      <4>2. Client'
        <5>1. client \in Seq(Requests) /\ client # <<>>
          BY <1>0 DEF HttpInv
        <5>2. /\ Len(client') = Len(client) - 1
              /\ \A i \in 1..Len(client') : client'[i] = client[i + 1] /\ i + 1 \in 1..Len(client)
          BY <4>1, <5>1
        <5> QED
          BY <1>0, <5>2 DEF Client
      <4>3. DiscardsAfter(Len(buf))'
        <5>1. Len(buf) \in Nat /\ mCheckIndex \in 0..Len(buf)
          BY <1>0 DEF HttpInv, HttpTypeOK
        <5>2. Len(buf') = Len(buf) + sent' /\ ~ (mCheckIndex' > Len(buf))
          BY <2>1, <4>1, <5>1
        <5>3. \A j \in (mCheckIndex' + 1)..Len(buf') : j <= Len(buf) /\ buf'[j] \notin {CR, LF}
          <6>1. \A j \in (mCheckIndex + 1)..Len(buf) : j \in 1..Len(buf) /\ j <= Len(buf)
            BY <5>1
          <6> QED
            BY <2>1, <3>2, <6>1 DEF Unbroken
        <5> QED
          BY <2>1, <5>2, <5>3 DEF DiscardsAfter
      <4>4. Discarding'
        <5>1. Len(buf') = Len(buf) /\ Len(buf) \in 0..Len(buf)
          BY <1>0, <2>1 DEF HttpInv
        <5> QED
          BY <4>3, <5>1, <2>1 DEF Discarding
      <4> QED
        BY <1>1, <3>1, <3>2, <4>2, <4>4 DEF HonestInv, Client
    <3>4. CASE ~ (Len(client) > 1)
      <4>1. UNCHANGED <<client, sent>> /\ Request' = r
        BY <1>8, <2>3, <3>4, <1>2 DEF WriteCb, Request
      <4>2. Client' /\ Complete'
        BY <1>0, <3>2, <4>1, <1>2 DEF Client, Complete
      <4> QED
        BY <1>1, <3>1, <3>2, <4>2 DEF HonestInv, Client
    <3> QED
      BY <3>3, <3>4
  <2> QED
    BY <2>2, <2>3 DEF HttpInv, HttpTypeOK
<1>9. CASE SendFails
  <2>1. pc = "write" /\ pc' = "closed" /\ UNCHANGED <<client, ret>> /\ Request' = r
    BY <1>9, <1>2 DEF SendFails, Request
  <2>2. Client'
    BY <1>0, <2>1 DEF Client
  <2> QED
    BY <1>0, <1>1, <1>2, <2>1, <2>2 DEF HonestInv, Client, MayBeRefused
<1>10. CASE UNCHANGED vars
  <2>1. /\ Request' = r
        /\ UNCHANGED <<client, sent, buf, mCheckState, mCheckIndex, pc, ret, mAlive>>
        /\ UNCHANGED parsed
    BY <1>10, <1>2 DEF vars, Request, parsed
  <2>2. Client'
    BY <1>0, <2>1 DEF Client
  <2>3. Reading => Reading'
    <3> SUFFICES ASSUME Reading PROVE Reading'
      OBVIOUS
    <3>1. PICK k \in 0..(n + 2) : ReadTo(r, k)
      BY <1>2 DEF Reading
    <3>2. ReadTo(r, k)'
      BY <2>1, <3>1, ReadToStays
    <3> QED
      BY <2>1, <3>2 DEF Reading
  <2>4. Discarding => Discarding'
    BY <2>1, <1>2 DEF Discarding, DiscardsAfter
  <2>5. (Complete => Complete') /\ (Answered => Answered')
    BY <2>1, <1>2 DEF Answered, parsed, Complete, Unbroken
  <2>6. Before => Before'
    BY <2>1, <2>3, <2>4, <2>5
  <2>7. AtRest => AtRest'
    BY <2>1 DEF AtRest, Unbroken, parsed
  <2> HIDE DEF Before
  <2> QED
    BY <1>0, <1>1, <1>2, <2>1, <2>2, <2>5, <2>6, <2>7 DEF HonestInv, Client, Before, MayBeRefused
<1>11. \/ \E m \in 1..kBufferSize : Receive(m)
       \/ Overflow \/ processRead
       \/ \E keep \in BOOLEAN : Respond(keep)
       \/ WriteCb \/ SendFails \/ UNCHANGED vars
  BY DEF Next, Read
<1> QED
  BY <1>4, <1>5, <1>6, <1>7, <1>8, <1>9, <1>10, <1>11

\* However the requests of clients that keep to the format are cut into portions, and
\* for any size of the buffer: processRead (HttpRequest.cpp) answers a request when all
\* of it is there, with its body and its choice, refuses only malformed lines and those
\* with "http://", ends the process only on a length that is negative, and is cut
\* short only when a line or a body does not fit into the buffer.
THEOREM AnswersAreDue == ASSUME ClientsAreHonest PROVE Spec => []AnswersExactly
<1>1. Init => HonestInv
  BY HonestInvInit
<1>2. HonestInv => AnswersExactly
  BY DEF HonestInv, AnswersExactly, Answered, MayBeRefused
<1> QED
  BY <1>1, <1>2, HonestInvStep, PTL DEF Spec

-----------------------------------------------------------------------------
(* The connections that are kept.                                            *)

\* What a kept connection rests on, while its answer is being written.
KeptInv == pc = "write" /\ mAlive => isAlive /\ Says("connection", 1)

LEMMA KeptInvStep == ServerInv /\ KeptInv /\ [ServerNext]_serverVars => KeptInv'
<1> SUFFICES ASSUME ServerInv, KeptInv, [ServerNext]_serverVars PROVE KeptInv'
  OBVIOUS
<1>0. resp \in Responses
  BY DEF ServerInv
<1>1. CASE Read
  BY <1>1, VerdictIsFirst DEF Read, Receive, Overflow, KeptInv
<1>2. ASSUME NEW q \in Responses, answerWith(q) PROVE KeptInv'
  <2>1. /\ Carries(mWriteBuffer', ConnectionPiece(q))
        /\ mAlive' => q.isAlive /\ isAlive
    BY <1>2, AnswerWithKeeps DEF IsAnswer
  <2>2. isAlive' = isAlive
    BY <1>2 DEF answerWith, Respond, parsed
  <2>3. q.isAlive => ConnectionPiece(q) = Piece("connection", 1)
    BY DEF ConnectionPiece
  <2> QED
    BY <2>1, <2>2, <2>3 DEF KeptInv, Says, Carries
<1>3. CASE GetRequest
  <2>1. PICK q \in HttpCallback([resp EXCEPT !.mStatusCode = 200]) : answerWith(q)
    BY <1>3 DEF GetRequest
  <2>2. [resp EXCEPT !.mStatusCode = 200] \in Responses
    BY <1>0 DEF Responses, StatusCodes
  <2>3. q \in Responses
    BY <2>2, CallbackFills
  <2> QED
    BY <1>2, <2>1, <2>3
<1>4. CASE BadRequest
  <2>1. answerWith([resp EXCEPT !.mStatusCode = 400])
    BY <1>4 DEF BadRequest
  <2>2. [resp EXCEPT !.mStatusCode = 400] \in Responses
    BY <1>0 DEF Responses, StatusCodes
  <2> QED
    BY <1>2, <2>1, <2>2
<1>5. CASE Sent
  BY <1>5 DEF Sent, WriteCb, KeptInv
<1>6. CASE NotSent
  BY <1>6 DEF NotSent, SendFails, KeptInv
<1>7. CASE UNCHANGED serverVars
  BY <1>7 DEF serverVars, vars, KeptInv, Says
<1> QED
  BY <1>1, <1>3, <1>4, <1>5, <1>6, <1>7 DEF ServerNext

\* A connection goes on after an answer (WriteCb in HttpServer.cpp) only if the request
\* was answered and asked for it, and the answer says so.
THEOREM KeptOnlyByBoth == ASSUME ClientsAreHonest PROVE ServerSpec => KeptByBoth
<1> DEFINE Goes == pc = "write" /\ pc' = "idle" =>
                      ret = "GET_REQUEST" /\ AsksKeepAlive(Request) /\ Says("connection", 1)
<1>1. Init => HonestInv
  BY HonestInvInit
<1>2. ServerInit => KeptInv
  BY DEF ServerInit, Init, KeptInv
<1>3. HonestInv /\ KeptInv /\ [ServerNext]_serverVars => [Goes]_serverVars
  <2> SUFFICES ASSUME HonestInv, KeptInv, [ServerNext]_serverVars, pc = "write", pc' = "idle"
               PROVE  ret = "GET_REQUEST" /\ AsksKeepAlive(Request) /\ Says("connection", 1)
    OBVIOUS
  <2>1. mAlive
    <3>1. ~ Read
      BY VerdictIsFirst DEF Read, Receive, Overflow
    <3>2. ~ GetRequest /\ ~ BadRequest
      BY DEF GetRequest, BadRequest, answerWith, Respond
    <3>3. ~ UNCHANGED serverVars
      BY DEF serverVars, vars
    <3>4. ~ NotSent
      BY DEF NotSent, SendFails
    <3>5. WriteCb
      BY <3>1, <3>2, <3>3, <3>4 DEF ServerNext, Sent
    <3> QED
      BY <3>5 DEF WriteCb
  <2>2. ret = "GET_REQUEST" /\ Answered
    BY <2>1 DEF HonestInv
  <2>3. isAlive /\ Says("connection", 1)
    BY <2>1 DEF KeptInv
  <2> QED
    BY <2>2, <2>3 DEF Answered
<1> HIDE DEF Goes
<1>4. ServerSpec => []HonestInv
  BY <1>1, HonestInvStep, ServerParses, PTL DEF Spec
<1>5. ServerSpec => []KeptInv
  BY <1>2, KeptInvStep, ServerInvHolds, PTL DEF ServerSpec
<1>6. ServerSpec => [][Goes]_serverVars
  BY <1>3, <1>4, <1>5, PTL DEF ServerSpec
<1> QED
  BY <1>6 DEF KeptByBoth, Goes
=============================================================================
