--------------------------- MODULE Format_proofs ---------------------------
(***************************************************************************)
(* The output of uart_printf, for every format, every list of arguments    *)
(* without the lowest int, every width of int and every depth of the FIFO. *)
(***************************************************************************)
EXTENDS Format, WellFoundedInduction, TLAPS

\* Induction, over a set of numbers.
LEMMA SetInduction ==
  ASSUME NEW S, 0 \in S, \A n \in Nat : n \in S => n + 1 \in S
  PROVE  Nat \subseteq S
  <1> DEFINE T == Nat \ S
  <1> SUFFICES ASSUME T # {} PROVE FALSE
    OBVIOUS
  <1>1. PICK v \in T : \A w \in T : ~(<<w, v>> \in OpToRel(<, Nat))
    <2> HIDE DEF T
    <2>1. T \subseteq Nat
      BY DEF T
    <2>2. QED
      BY <2>1, NatLessThanWellFounded, WFMin
  <1>2. v \in Nat /\ v \notin S /\ \A w \in T : ~(w < v)
    BY <1>1 DEF OpToRel
  <1>3. v - 1 \in Nat /\ v - 1 < v /\ (v - 1) + 1 = v
    BY <1>2
  <1>4. v - 1 \in S
    BY <1>2, <1>3
  <1>5. QED
    BY <1>2, <1>3, <1>4

-----------------------------------------------------------------------------
(* The digits of a number. *)

\* The right side of the definition of Decimal, and its solution up to a number.
DecimalOf(f, n) == IF n < 10 THEN <<Digit(n)>> ELSE Append(f[n \div 10], Digit(n % 10))
DecimalTo(N, f) == f = [n \in 0 .. N |-> DecimalOf(f, n)]

\* The quotient and the remainder of a number by ten.
LEMMA Quotient ==
  \A n \in Nat : /\ n \div 10 \in Nat /\ n % 10 \in 0 .. 9
                 /\ n >= 10 => n \div 10 < n /\ n \div 10 >= 1
                 /\ n < 10 => n \div 10 = 0 /\ n % 10 = n
  OBVIOUS

\* What Decimal is at a number depends on a smaller number only.
LEMMA SameDecimal ==
  ASSUME NEW f, NEW g, NEW n \in Nat, n >= 10 => f[n \div 10] = g[n \div 10]
  PROVE  DecimalOf(f, n) = DecimalOf(g, n)
  <1>1. CASE n < 10
    BY <1>1 DEF DecimalOf
  <1>2. CASE ~(n < 10)
    <2>1. f[n \div 10] = g[n \div 10]
      BY <1>2
    <2> DEFINE q == n \div 10
    <2> HIDE DEF q
    <2>2. QED
      BY <2>1, <1>2, Zenon DEF DecimalOf, q
  <1>3. QED
    BY <1>1, <1>2

\* Up to any number there is a solution.
LEMMA DecimalUpTo == \A N \in Nat : \E f : DecimalTo(N, f)
  <1> DEFINE S == {N \in Nat : \E f : DecimalTo(N, f)}
  <1>1. 0 \in S
    <2> DEFINE g == [n \in 0 .. 0 |-> DecimalOf(<< >>, n)]
    <2>1. \A n \in 0 .. 0 : DecimalOf(g, n) = DecimalOf(<< >>, n)
      <3> HIDE DEF g
      <3>1. QED
        BY SameDecimal
    <2>2. DecimalTo(0, g)
      BY <2>1 DEF DecimalTo
    <2>3. QED
      BY <2>2
  <1>2. ASSUME NEW N \in Nat, N \in S PROVE N + 1 \in S
    <2>1. PICK f : DecimalTo(N, f)
      BY <1>2
    <2> DEFINE h == [n \in 0 .. N + 1 |-> DecimalOf(f, n)]
    <2>2. \A n \in 0 .. N : h[n] = f[n]
      BY <2>1 DEF DecimalTo
    <2>3. \A n \in 0 .. N + 1 : DecimalOf(h, n) = DecimalOf(f, n)
      <3> HIDE DEF h
      <3>1. \A n \in 0 .. N + 1 : n \in Nat /\ (n >= 10 => n \div 10 \in 0 .. N)
        BY Quotient
      <3>2. QED
        BY <2>2, <3>1, SameDecimal
    <2>4. DecimalTo(N + 1, h)
      BY <2>3 DEF DecimalTo
    <2>5. QED
      BY <2>4
  <1> HIDE DEF S
  <1>3. Nat \subseteq S
    BY <1>1, <1>2, SetInduction
  <1>4. QED
    BY <1>3 DEF S

\* Two solutions agree where both are defined.
LEMMA DecimalAgree ==
  ASSUME NEW N \in Nat, NEW M \in Nat, NEW f, NEW g, DecimalTo(N, f), DecimalTo(M, g)
  PROVE  \A n \in Nat : n <= N /\ n <= M => f[n] = g[n]
  <1> DEFINE S == {m \in Nat : \A n \in 0 .. m : n <= N /\ n <= M => f[n] = g[n]}
  <1>1. \A n \in Nat : n <= N /\ n <= M =>
           f[n] = DecimalOf(f, n) /\ g[n] = DecimalOf(g, n)
    <2>1. \A n \in 0 .. N : f[n] = DecimalOf(f, n)
      BY DEF DecimalTo
    <2>2. \A n \in 0 .. M : g[n] = DecimalOf(g, n)
      BY DEF DecimalTo
    <2>3. QED
      BY <2>1, <2>2
  <1>2. 0 \in S
    <2>1. DecimalOf(f, 0) = DecimalOf(g, 0)
      BY SameDecimal
    <2>2. QED
      BY <1>1, <2>1
  <1>3. ASSUME NEW m \in Nat, m \in S PROVE m + 1 \in S
    <2>1. SUFFICES ASSUME m + 1 <= N, m + 1 <= M PROVE f[m + 1] = g[m + 1]
      BY <1>3
    <2>2. m + 1 >= 10 => f[(m + 1) \div 10] = g[(m + 1) \div 10]
      <3> DEFINE q == (m + 1) \div 10
      <3>1. m + 1 >= 10 => q \in 0 .. m
        BY Quotient
      <3> HIDE DEF q
      <3>2. q \in 0 .. m => f[q] = g[q]
        BY <1>3, <2>1
      <3>3. QED
        BY <3>1, <3>2 DEF q
    <2>3. DecimalOf(f, m + 1) = DecimalOf(g, m + 1)
      BY <2>2, SameDecimal
    <2>4. QED
      BY <1>1, <2>1, <2>3
  <1> HIDE DEF S
  <1>4. Nat \subseteq S
    BY <1>2, <1>3, SetInduction
  <1>5. QED
    BY <1>4 DEF S

\* Decimal is what its definition says: there is such a function.
LEMMA DecimalUnfolds == \A n \in Nat : Decimal[n] = DecimalOf(Decimal, n)
  <1> DEFINE Upto(n) == CHOOSE f : DecimalTo(n, f)
             F == [n \in Nat |-> Upto(n)[n]]
  <1>1. \A n \in Nat : DecimalTo(n, Upto(n))
    BY DecimalUpTo
  <1> HIDE DEF Upto
  <1>2. ASSUME NEW n \in Nat PROVE F[n] = DecimalOf(F, n)
    <2>1. Upto(n)[n] = DecimalOf(Upto(n), n)
      BY <1>1 DEF DecimalTo
    <2>2. n >= 10 => F[n \div 10] = Upto(n)[n \div 10]
      <3> DEFINE q == n \div 10
      <3>1. q \in Nat /\ (n >= 10 => q <= n)
        BY Quotient
      <3> HIDE DEF q
      <3>2. q <= n => Upto(n)[q] = Upto(q)[q]
        BY <1>1, <3>1, DecimalAgree
      <3>3. QED
        BY <3>1, <3>2 DEF q
    <2>3. DecimalOf(F, n) = DecimalOf(Upto(n), n)
      <3> HIDE DEF F
      <3>1. QED
        BY <2>2, SameDecimal
    <2>4. QED
      BY <2>1, <2>3
  <1>3. F = [n \in Nat |-> DecimalOf(F, n)]
    BY <1>2
  <1>4. Decimal = CHOOSE f : f = [n \in Nat |-> DecimalOf(f, n)]
    BY Zenon DEF Decimal, DecimalOf
  <1> HIDE DEF F
  <1>5. Decimal = [n \in Nat |-> DecimalOf(Decimal, n)]
    BY <1>3, <1>4
  <1>6. QED
    BY <1>5

-----------------------------------------------------------------------------
(* The text a call should print, from a character and an argument on.      *)

\* The right side of the definition in TextFrom, and its solution from character m on.
RestOf(as, f, k) ==
  [n \in Nat |->
      IF k >= Len(fmt) THEN << >>
      ELSE IF At(k) # "%" THEN <<At(k)>> \o f[k + 1][n]
      ELSE IF n >= Len(as) THEN << >>
      ELSE Text(as[n + 1]) \o f[k + 2][n + 1]]

\* The characters from m on, and a solution there.
Above(m) == {k \in Nat : k >= m}
RestFrom(as, m, f) == f = [k \in Above(m) |-> RestOf(as, f, k)]
HasRest(as, m) == \E f : RestFrom(as, m, f)

\* The text from a character on depends on the text from the next two on.
LEMMA SameRest ==
  ASSUME NEW as, NEW f, NEW g, NEW k,
         k >= Len(fmt) \/ (f[k + 1] = g[k + 1] /\ f[k + 2] = g[k + 2])
  PROVE  RestOf(as, f, k) = RestOf(as, g, k)
  <1>1. CASE k >= Len(fmt)
    BY <1>1, Zenon DEF RestOf
  <1>2. CASE f[k + 1] = g[k + 1] /\ f[k + 2] = g[k + 2]
    BY <1>2, Zenon DEF RestOf
  <1>3. QED
    BY <1>1, <1>2

\* There is a solution from the first character on, found from the last one back.
LEMMA RestExists ==
  ASSUME Len(fmt) \in Nat, NEW as
  PROVE  HasRest(as, 0)
  <1> DEFINE L == Len(fmt)
             S == {j \in Nat : j <= L => HasRest(as, L - j)}
  <1>1. L \in Nat
    OBVIOUS
  <1>2. HasRest(as, L)
    <2> DEFINE g == [k \in Above(L) |-> RestOf(as, << >>, k)]
    <2>1. ASSUME NEW k \in Above(L) PROVE RestOf(as, g, k) = RestOf(as, << >>, k)
      <3> HIDE DEF g
      <3>1. k >= Len(fmt)
        BY DEF Above
      <3>2. RestOf(as, g, k) = RestOf(as, << >>, k)
        BY <3>1, SameRest, Zenon
      <3>3. QED
        BY <3>2
    <2>2. RestFrom(as, L, g)
      BY <2>1 DEF RestFrom
    <2>3. QED
      BY <2>2 DEF HasRest
  <1>3. ASSUME NEW m \in Nat, HasRest(as, m + 1) PROVE HasRest(as, m)
    <2>1. PICK f : RestFrom(as, m + 1, f)
      BY <1>3 DEF HasRest
    <2>2. \A k \in Above(m) : k + 1 \in Above(m + 1) /\ k + 2 \in Above(m + 1)
      BY DEF Above
    <2>3. Above(m + 1) \subseteq Above(m)
      BY DEF Above
    <2> DEFINE h == [k \in Above(m) |-> RestOf(as, f, k)]
    <2>4. \A k \in Above(m + 1) : h[k] = f[k]
      BY <2>1, <2>3 DEF RestFrom
    <2>5. ASSUME NEW k \in Above(m) PROVE RestOf(as, h, k) = RestOf(as, f, k)
      <3>1. h[k + 1] = f[k + 1] /\ h[k + 2] = f[k + 2]
        BY <2>2, <2>4
      <3> HIDE DEF h
      <3>2. QED
        BY <3>1, SameRest
    <2>6. RestFrom(as, m, h)
      BY <2>5 DEF RestFrom
    <2>7. QED
      BY <2>6 DEF HasRest
  <1> HIDE DEF L
  <1>4. 0 \in S
    BY <1>1, <1>2
  <1>5. ASSUME NEW j \in Nat, j \in S PROVE j + 1 \in S
    <2>1. ASSUME j + 1 <= L PROVE HasRest(as, L - (j + 1))
      <3> DEFINE m == L - (j + 1)
      <3>1. m \in Nat /\ L - j = m + 1 /\ j <= L
        BY <1>1, <2>1
      <3>2. HasRest(as, m + 1)
        BY <1>5, <3>1
      <3> HIDE DEF m
      <3>3. HasRest(as, m)
        BY <1>3, <3>1, <3>2
      <3>4. QED
        BY <3>3 DEF m
    <2>2. j + 1 \in Nat
      OBVIOUS
    <2>3. QED
      BY <2>1, <2>2
  <1> HIDE DEF S
  <1>6. Nat \subseteq S
    BY <1>4, <1>5, SetInduction
  <1>7. L \in S /\ L - L = 0 /\ L <= L
    BY <1>1, <1>6
  <1>8. QED
    BY <1>7 DEF S

\* TextFrom is what its definition says.
LEMMA TextUnfolds ==
  ASSUME Len(fmt) \in Nat, NEW as, NEW k \in Nat, NEW n \in Nat
  PROVE  TextFrom(as)[k][n] =
            IF k >= Len(fmt) THEN << >>
            ELSE IF At(k) # "%" THEN <<At(k)>> \o TextFrom(as)[k + 1][n]
            ELSE IF n >= Len(as) THEN << >>
            ELSE Text(as[n + 1]) \o TextFrom(as)[k + 2][n + 1]
  <1> DEFINE T == TextFrom(as)
  <1>1. T = CHOOSE f : f = [x \in Nat |-> RestOf(as, f, x)]
    BY Zenon DEF TextFrom, RestOf
  <1>2. \E f : f = [x \in Nat |-> RestOf(as, f, x)]
    <2>1. PICK f : RestFrom(as, 0, f)
      BY RestExists DEF HasRest
    <2>2. Above(0) = Nat
      BY DEF Above
    <2>3. QED
      BY <2>1, <2>2 DEF RestFrom
  <1> HIDE DEF T
  <1>3. T = [x \in Nat |-> RestOf(as, T, x)]
    BY <1>1, <1>2
  <1>4. T[k] = RestOf(as, T, k)
    BY <1>3
  <1>5. QED
    BY <1>4, Zenon DEF RestOf, T

-----------------------------------------------------------------------------
(* Sequences.                                                              *)

\* The elements of a sequence are in the set it is over.
LEMMA Indexes ==
  ASSUME NEW S, NEW r \in Seq(S)
  PROVE  Len(r) \in Nat /\ \A k \in Nat : k < Len(r) => r[k + 1] \in S
  OBVIOUS

\* The order of two numbers.
LEMMA Below ==
  ASSUME NEW k \in Nat, NEW n \in Nat
  PROVE  k < n <=> ~(k >= n)
  OBVIOUS

\* Concatenation is associative, with the empty sequence on both sides.
LEMMA Joins ==
  ASSUME NEW S, NEW r \in Seq(S), NEW t \in Seq(S), NEW u \in Seq(S)
  PROVE  /\ r \o t \in Seq(S)
         /\ (r \o t) \o u = r \o (t \o u)
         /\ r \o << >> = r /\ << >> \o r = r
  <1>1. r \o t \in Seq(S) /\ t \o u \in Seq(S)
    OBVIOUS
  <1>2. (r \o t) \o u = r \o (t \o u)
    OBVIOUS
  <1>3. r \o << >> = r /\ << >> \o r = r
    OBVIOUS
  <1>4. QED
    BY <1>1, <1>2, <1>3

\* Appending is concatenation with one element.
LEMMA Appends ==
  ASSUME NEW S, NEW r \in Seq(S), NEW c \in S
  PROVE  /\ <<c>> \in Seq(S) /\ Append(r, c) \in Seq(S)
         /\ Append(r, c) = r \o <<c>>
  OBVIOUS

\* The elements of a sequence that got one more.
LEMMA OneMore ==
  ASSUME NEW S, NEW r \in Seq(S), NEW c \in S
  PROVE  /\ Len(Append(r, c)) = Len(r) + 1
         /\ Append(r, c)[Len(r) + 1] = c
         /\ \A k \in Nat : k < Len(r) => Append(r, c)[k + 1] = r[k + 1]
  OBVIOUS

\* What follows for a length from room for one more.
LEMMA Longer ==
  ASSUME NEW n \in Nat, NEW m \in Nat, n + 1 <= m
  PROVE  n <= m /\ ~(n >= m) /\ n < n + 1 /\ \A k \in Nat : k < n => k < n + 1
  OBVIOUS

\* A sequence is its head and its tail.
LEMMA Splits ==
  ASSUME NEW S, NEW r \in Seq(S), r # << >>
  PROVE  Head(r) \in S /\ Tail(r) \in Seq(S) /\ r = <<Head(r)>> \o Tail(r)
  OBVIOUS

\* A sequence is its front and its last element.
LEMMA LastSplits ==
  ASSUME NEW S, NEW r \in Seq(S), r # << >>
  PROVE  Last(r) \in S /\ Front(r) \in Seq(S) /\ r = Append(Front(r), Last(r))
  BY DEF Last, Front

\* A reversed sequence is over the same set.
LEMMA ReverseTyped ==
  ASSUME NEW S, NEW r \in Seq(S)
  PROVE  Reverse(r) \in Seq(S) /\ Len(Reverse(r)) = Len(r)
  BY DEF Reverse

\* Reversing puts the element appended last first.
LEMMA Reverses ==
  ASSUME NEW S, NEW r \in Seq(S), NEW c \in S
  PROVE  Reverse(Append(r, c)) = <<c>> \o Reverse(r)
  BY DEF Reverse

\* A sequence is a prefix of its concatenation with another.
LEMMA Begins ==
  ASSUME NEW S, NEW r \in Seq(S), NEW t \in Seq(S)
  PROVE  IsPrefix(r, r \o t)
  BY DEF IsPrefix

-----------------------------------------------------------------------------
(* The characters, the arguments, and the types of their texts.            *)

\* The characters that occur.
Char == {"x", "%", "c", "d", "l", "s", "-",
         "0", "1", "2", "3", "4", "5", "6", "7", "8", "9"}

\* The values of an int.
IntRange == IntMin .. -IntMin - 1

\* What va_arg takes for each conversion.
Arguments ==
    [conversion : {"c"}, value : {"c"}] \cup [conversion : {"d"}, value : IntRange]
    \cup [conversion : {"l"}, value : Nat]
    \cup [conversion : {"s", "x", "%", NUL}, value : Seq(Char)]

\* A digit is a character.
LEMMA DigitTyped == ASSUME NEW n \in 0 .. 9 PROVE Digit(n) \in Char
  <1>1. n \in {0, 1, 2, 3, 4, 5, 6, 7, 8, 9}
    OBVIOUS
  <1>2. QED
    BY <1>1 DEF Digit, Char

\* The digits of a number are characters.
LEMMA DecimalTyped == \A n \in Nat : Decimal[n] \in Seq(Char)
  <1> DEFINE S == {m \in Nat : \A n \in 0 .. m : Decimal[n] \in Seq(Char)}
  <1>1. ASSUME NEW n \in Nat, n >= 10 => Decimal[n \div 10] \in Seq(Char)
        PROVE  Decimal[n] \in Seq(Char)
    <2> DEFINE q == n \div 10
               r == n % 10
    <2>1. r \in 0 .. 9 /\ (n < 10 => r = n)
      BY Quotient
    <2>2. Digit(r) \in Char
      BY <2>1, DigitTyped
    <2>3. Decimal[n] = DecimalOf(Decimal, n)
      BY DecimalUnfolds
    <2> HIDE DEF r
    <2>4. CASE n < 10
      <3>1. DecimalOf(Decimal, n) = <<Digit(n)>> /\ Digit(n) \in Char
        BY <2>1, <2>2, <2>4 DEF DecimalOf
      <3> DEFINE c == Digit(n)
      <3> HIDE DEF c
      <3>2. c \in Char => <<c>> \in Seq(Char)
        OBVIOUS
      <3>3. QED
        BY <2>3, <3>1, <3>2 DEF c
    <2>5. CASE n >= 10
      <3>1. Decimal[q] \in Seq(Char)
        BY <1>1, <2>5
      <3> HIDE DEF q
      <3>2. Append(Decimal[q], Digit(r)) \in Seq(Char)
        BY <2>2, <3>1, Appends
      <3>3. ~(n < 10)
        BY <2>5
      <3>4. DecimalOf(Decimal, n) = Append(Decimal[q], Digit(r))
        BY <3>3, Zenon DEF DecimalOf, q, r
      <3>5. QED
        BY <2>3, <3>2, <3>4
    <2>6. n < 10 \/ n >= 10
      OBVIOUS
    <2>7. QED
      BY <2>4, <2>5, <2>6
  <1>2. 0 \in S
    <2>1. Decimal[0] \in Seq(Char)
      BY <1>1
    <2>2. QED
      BY <2>1
  <1>3. ASSUME NEW m \in Nat, m \in S PROVE m + 1 \in S
    <2> DEFINE n == m + 1
               q == n \div 10
    <2>1. n \in Nat /\ (n >= 10 => q \in 0 .. m)
      BY Quotient
    <2>2. n >= 10 => Decimal[q] \in Seq(Char)
      <3> HIDE DEF q, n
      <3>1. QED
        BY <1>3, <2>1
    <2>3. Decimal[n] \in Seq(Char)
      <3> HIDE DEF n
      <3>1. QED
        BY <1>1, <2>1, <2>2
    <2>4. QED
      BY <1>3, <2>3
  <1> HIDE DEF S
  <1>4. Nat \subseteq S
    BY <1>2, <1>3, SetInduction
  <1>5. QED
    BY <1>4 DEF S

\* The text of an argument is a string.
LEMMA TextTyped == ASSUME NEW a \in Arguments PROVE Text(a) \in Seq(Char)
  <1>1. CASE a \in [conversion : {"c"}, value : {"c"}]
    <2>1. a.conversion = "c" /\ a.value = "c"
      BY <1>1
    <2>2. "c" \in Char
      BY DEF Char
    <2>3. Text(a) = <<"c">>
      BY <2>1 DEF Text
    <2>4. QED
      BY <2>2, <2>3
  <1>2. CASE a \in [conversion : {"d"}, value : IntRange]
    <2>1. a.conversion = "d" /\ a.value \in Int
      BY <1>2, FormatAssumption DEF IntRange, IntMin
    <2> DEFINE v == a.value
    <2>2. Text(a) = IF v < 0 THEN <<"-">> \o Decimal[-v] ELSE Decimal[v]
      BY <2>1 DEF Text
    <2>3. "-" \in Char
      BY DEF Char
    <2>4. CASE v < 0
      <3>1. -v \in Nat
        BY <2>1, <2>4
      <3>2. Decimal[-v] \in Seq(Char) /\ <<"-">> \in Seq(Char)
        BY <2>3, <3>1, DecimalTyped
      <3>3. <<"-">> \o Decimal[-v] \in Seq(Char)
        BY <3>2, Joins
      <3>4. QED
        BY <2>2, <2>4, <3>3
    <2>5. CASE ~(v < 0)
      <3>1. v \in Nat
        BY <2>1, <2>5
      <3>2. QED
        BY <2>2, <2>5, <3>1, DecimalTyped
    <2>6. QED
      BY <2>4, <2>5
  <1>3. CASE a \in [conversion : {"l"}, value : Nat]
    <2>1. a.conversion = "l" /\ a.value \in Nat
      BY <1>3
    <2>2. Text(a) = Decimal[a.value]
      BY <2>1 DEF Text
    <2>3. QED
      BY <2>1, <2>2, DecimalTyped
  <1>4. CASE a \in [conversion : {"s", "x", "%", NUL}, value : Seq(Char)]
    <2>1. a.conversion \in {"s", "x", "%", "NUL"} /\ a.value \in Seq(Char)
      BY <1>4 DEF NUL
    <2>2. Text(a) = a.value
      BY <2>1 DEF Text
    <2>3. QED
      BY <2>1, <2>2
  <1>5. QED
    BY <1>1, <1>2, <1>3, <1>4 DEF Arguments

\* A character of the format is one.
LEMMA AtTyped ==
  ASSUME fmt \in Seq(Char), NEW k \in Nat, k < Len(fmt)
  PROVE  At(k) \in Char
  BY DEF At

\* What should be printed is a string, from any character and argument on.
LEMMA TextFromTyped ==
  ASSUME fmt \in Seq(Char), NEW as \in Seq(Arguments)
  PROVE  \A k, n \in Nat : TextFrom(as)[k][n] \in Seq(Char)
  <1> DEFINE Typed(k) == \A n \in Nat : TextFrom(as)[k][n] \in Seq(Char)
             S == {j \in Nat : \A k \in Nat : k + j >= Len(fmt) => Typed(k)}
  <1>1. Len(fmt) \in Nat /\ Len(as) \in Nat
    BY Indexes, Zenon
  <1>2. << >> \in Seq(Char)
    OBVIOUS
  <1>3. ASSUME NEW k \in Nat, k >= Len(fmt) PROVE Typed(k)
    <2>1. ASSUME NEW n \in Nat PROVE TextFrom(as)[k][n] = << >>
      <3>1. QED
        BY <1>1, <1>3, TextUnfolds
    <2>2. QED
      BY <1>2, <2>1
  <1>4. ASSUME NEW k \in Nat, k < Len(fmt), Typed(k + 1), Typed(k + 2)
        PROVE  Typed(k)
    <2> SUFFICES ASSUME NEW n \in Nat PROVE TextFrom(as)[k][n] \in Seq(Char)
      OBVIOUS
    <2> DEFINE t1 == TextFrom(as)[k + 1][n]
               t2 == TextFrom(as)[k + 2][n + 1]
               c == At(k)
               t == TextFrom(as)[k][n]
    <2>1. t1 \in Seq(Char) /\ t2 \in Seq(Char)
      <3>1. n + 1 \in Nat
        OBVIOUS
      <3>2. QED
        BY <1>4, <3>1, Zenon
    <2>2. c \in Char
      BY <1>4, AtTyped
    <2>3. t = IF c # "%" THEN <<c>> \o t1
              ELSE IF n >= Len(as) THEN << >> ELSE Text(as[n + 1]) \o t2
      <3>1. ~(k >= Len(fmt))
        BY <1>1, <1>4
      <3>2. QED
        BY <1>1, <3>1, TextUnfolds, Zenon
    <2> HIDE DEF t1, t2, c, t
    <2>4. <<c>> \o t1 \in Seq(Char)
      <3>1. <<c>> \in Seq(Char)
        BY <2>2
      <3>2. QED
        BY <2>1, <3>1, Joins
    <2>5. ~(n >= Len(as)) => Text(as[n + 1]) \o t2 \in Seq(Char)
      <3>1. SUFFICES ASSUME ~(n >= Len(as)) PROVE Text(as[n + 1]) \o t2 \in Seq(Char)
        OBVIOUS
      <3>2. as[n + 1] \in Arguments
        <4>1. n < Len(as)
          BY <1>1, <3>1, Below, Zenon
        <4>2. QED
          BY <4>1, Indexes, Zenon
      <3>3. Text(as[n + 1]) \in Seq(Char)
        BY <3>2, TextTyped
      <3>4. QED
        BY <2>1, <3>3, Joins
    <2>6. t \in Seq(Char)
      BY <1>2, <2>3, <2>4, <2>5, Zenon
    <2>7. QED
      BY <2>6 DEF t
  <1> HIDE DEF Typed
  <1>5. 0 \in S
    BY <1>1, <1>3
  <1>6. ASSUME NEW j \in Nat, j \in S PROVE j + 1 \in S
    <2>1. ASSUME NEW k \in Nat, k + (j + 1) >= Len(fmt) PROVE Typed(k)
      <3>1. CASE k >= Len(fmt)
        BY <1>3, <3>1
      <3>2. CASE k < Len(fmt)
        <4>1. k + 1 \in Nat /\ k + 2 \in Nat
              /\ (k + 1) + j >= Len(fmt) /\ (k + 2) + j >= Len(fmt)
          BY <1>1, <2>1
        <4>2. Typed(k + 1) /\ Typed(k + 2)
          BY <1>6, <4>1
        <4>3. QED
          BY <1>4, <3>2, <4>2
      <3>3. QED
        BY <1>1, <3>1, <3>2
    <2>2. QED
      BY <2>1
  <1> HIDE DEF S
  <1>7. Nat \subseteq S
    BY <1>5, <1>6, SetInduction
  <1>8. ASSUME NEW k \in Nat PROVE Typed(k)
    <2> DEFINE L == Len(fmt)
    <2>1. L \in S /\ L \in Nat /\ k + L >= L
      BY <1>1, <1>7
    <2>2. QED
      BY <2>1 DEF S
  <1>9. QED
    BY <1>8 DEF Typed

-----------------------------------------------------------------------------
(* What the code does with sequences and with numbers.                     *)

\* Concatenation regrouped.
LEMMA JoinsTwice ==
  ASSUME NEW S, NEW r \in Seq(S), NEW t \in Seq(S), NEW u \in Seq(S)
  PROVE  r \o (t \o u) = (r \o t) \o u
  OBVIOUS

\* A character that moves from the FIFO to the line stays in its place.
LEMMA HeadMoves ==
  ASSUME NEW S, NEW w \in Seq(S), NEW f \in Seq(S), f # << >>
  PROVE  Append(w, Head(f)) \o Tail(f) = w \o f
  <1>1. Head(f) \in S /\ Tail(f) \in Seq(S) /\ f = <<Head(f)>> \o Tail(f)
    BY Splits, Zenon
  <1>2. <<Head(f)>> \in Seq(S) /\ Append(w, Head(f)) = w \o <<Head(f)>>
    <2>1. \A c \in S : <<c>> \in Seq(S) /\ Append(w, c) = w \o <<c>>
      BY Appends, Zenon
    <2>2. QED
      BY <1>1, <2>1, Zenon
  <1>3. (w \o <<Head(f)>>) \o Tail(f) = w \o (<<Head(f)>> \o Tail(f))
    BY <1>1, <1>2, JoinsTwice
  <1>4. QED
    BY <1>1, <1>2, <1>3, Zenon

\* Wrap gives an int, and negates every negative int but the lowest.
LEMMA Wraps ==
  /\ IntMin \in Int
  /\ \A n \in Int : Wrap(n) \in IntRange
  /\ \A n \in Int : IntMin < n /\ n < 0 => Wrap(-n) = -n
  <1> DEFINE h == IntValues \div 2
  <1>1. h \in Nat /\ IntValues = 2 * h /\ h > 0 /\ IntMin = -h
    BY FormatAssumption DEF IntMin
  <1>2. ASSUME NEW n \in Int PROVE Wrap(n) \in IntRange
    <2> DEFINE x == n - IntMin
    <2>1. x \in Int
      BY <1>1
    <2>2. x % IntValues \in 0 .. IntValues - 1
      <3> HIDE DEF x
      <3>1. QED
        BY <2>1, FormatAssumption
    <2>3. Wrap(n) = (x % IntValues) + IntMin
      BY DEF Wrap
    <2> HIDE DEF x, h
    <2>4. QED
      BY <1>1, <2>2, <2>3 DEF IntRange
  <1>3. ASSUME NEW n \in Int, IntMin < n, n < 0 PROVE Wrap(-n) = -n
    <2> DEFINE x == (-n) - IntMin
    <2> HIDE DEF h
    <2>1. x \in 0 .. IntValues - 1
      BY <1>1, <1>3
    <2>2. x % IntValues = x
      <3> HIDE DEF x
      <3>1. QED
        BY <2>1, FormatAssumption
    <2>3. Wrap(-n) = (x % IntValues) + IntMin
      BY DEF Wrap
    <2>4. QED
      BY <1>1, <2>2, <2>3
  <1>4. QED
    BY <1>1, <1>2, <1>3

\* The digits of a number of which int2str has still to take some.
Left(n) == IF n = 0 THEN << >> ELSE Decimal[n]

\* Taking a digit takes the last one of what is left.
LEMMA LeftUnfolds ==
  ASSUME NEW n \in Nat, n > 0
  PROVE  /\ n \div 10 \in Nat /\ Digit(n % 10) \in Char
         /\ Left(n \div 10) \in Seq(Char)
         /\ Left(n) = Append(Left(n \div 10), Digit(n % 10))
  <1> DEFINE q == n \div 10
             r == n % 10
  <1>1. /\ q \in Nat /\ r \in 0 .. 9
        /\ (n >= 10 => q >= 1) /\ (n < 10 => q = 0 /\ r = n)
    BY Quotient
  <1>2. Digit(r) \in Char
    BY <1>1, DigitTyped
  <1>3. Left(n) = DecimalOf(Decimal, n)
    <2>1. n # 0
      OBVIOUS
    <2>2. QED
      BY <2>1, DecimalUnfolds, Zenon DEF Left
  <1>4. CASE n < 10
    <2>1. DecimalOf(Decimal, n) = <<Digit(n)>> /\ q = 0 /\ r = n
      BY <1>1, <1>4 DEF DecimalOf
    <2>2. Left(q) = << >>
      BY <2>1 DEF Left
    <2> DEFINE c == Digit(r)
    <2>3. Left(n) = <<c>> /\ c \in Char
      BY <1>2, <1>3, <2>1
    <2> HIDE DEF c, q
    <2>4. << >> \in Seq(Char) /\ Append(<< >>, c) = <<c>>
      OBVIOUS
    <2>5. QED
      BY <1>1, <2>2, <2>3, <2>4 DEF c, q
  <1>5. CASE ~(n < 10)
    <2>1. q # 0
      BY <1>1, <1>5
    <2>2. Left(q) = Decimal[q] /\ Decimal[q] \in Seq(Char)
      <3> HIDE DEF q
      <3>1. QED
        BY <1>1, <2>1, DecimalTyped DEF Left
    <2>3. DecimalOf(Decimal, n) = Append(Decimal[q], Digit(r))
      BY <1>5, Zenon DEF DecimalOf
    <2>4. QED
      BY <1>1, <1>2, <1>3, <2>2, <2>3, Zenon
  <1>6. QED
    BY <1>4, <1>5

-----------------------------------------------------------------------------
(* Strings and what is done with them, without what a sequence is. *)

\* Sequences of characters.
Strings == Seq(Char)

\* Appending to a string and taking from either end of it.
LEMMA StringFacts ==
  /\ << >> \in Strings
  /\ \A f \in Strings, c \in Char : Append(f, c) \in Strings /\ <<c>> \in Strings
  /\ \A f \in Strings : f # << >> =>
        /\ Head(f) \in Char /\ Tail(f) \in Strings
        /\ Last(f) \in Char /\ Front(f) \in Strings
  <1>1. << >> \in Seq(Char)
    OBVIOUS
  <1>2. QED
    BY <1>1, Appends, Splits, LastSplits, Zenon DEF Strings

\* Two strings make a string.
LEMMA StringJoins ==
  ASSUME NEW w \in Strings, NEW f \in Strings
  PROVE  w \o f \in Strings /\ w \o << >> = w /\ << >> \o w = w
  BY Joins, Zenon DEF Strings

\* A character sent stays in its place.
LEMMA StringSends ==
  ASSUME NEW w \in Strings, NEW f \in Strings, f # << >>
  PROVE  Append(w, Head(f)) \o Tail(f) = w \o f
  BY HeadMoves, Zenon DEF Strings

\* A string is its first character and the rest.
LEMMA StringSplits ==
  ASSUME NEW f \in Strings, f # << >>
  PROVE  f = <<Head(f)>> \o Tail(f)
  BY Splits, Zenon DEF Strings

\* The digits come out of the buffer the last one first.
LEMMA StringReverses ==
  /\ Reverse(<< >>) = << >>
  /\ \A f \in Strings : Reverse(f) \in Strings
  /\ \A f \in Strings, c \in Char : Reverse(Append(f, c)) = <<c>> \o Reverse(f)
  /\ \A f \in Strings : f # << >> => Reverse(f) = <<Last(f)>> \o Reverse(Front(f))
  <1>1. Reverse(<< >>) = << >>
    BY DEF Reverse
  <1>2. \A f \in Strings : Reverse(f) \in Strings
    BY ReverseTyped, Zenon DEF Strings
  <1>3. \A f \in Strings, c \in Char : Reverse(Append(f, c)) = <<c>> \o Reverse(f)
    BY Reverses, Zenon DEF Strings
  <1>4. ASSUME NEW f \in Strings, f # << >>
        PROVE  Reverse(f) = <<Last(f)>> \o Reverse(Front(f))
    <2>1. Last(f) \in Char /\ Front(f) \in Strings /\ f = Append(Front(f), Last(f))
      BY <1>4, LastSplits, Zenon DEF Strings
    <2>2. QED
      BY <1>3, <2>1, Zenon
  <1>5. QED
    BY <1>1, <1>2, <1>3, <1>4

\* A character appended to one string begins the next.
LEMMA StringAppends ==
  ASSUME NEW f \in Strings, NEW c \in Char, NEW p \in Strings
  PROVE  Append(f, c) \o p = f \o (<<c>> \o p)
  <1>1. <<c>> \in Strings /\ Append(f, c) = f \o <<c>>
    <2>1. f \in Seq(Char)
      BY DEF Strings
    <2>2. <<c>> \in Seq(Char) /\ Append(f, c) = f \o <<c>>
      BY <2>1, Appends, Zenon
    <2>3. QED
      BY <2>2, Zenon DEF Strings
  <1>2. (f \o <<c>>) \o p = f \o (<<c>> \o p)
    BY <1>1, JoinsTwice DEF Strings
  <1>3. QED
    BY <1>1, <1>2

\* Three strings in a row.
LEMMA StringRegroups ==
  ASSUME NEW w \in Strings, NEW f \in Strings, NEW p \in Strings
  PROVE  (w \o f) \o p = w \o (f \o p)
  <1>1. w \in Seq(Char) /\ f \in Seq(Char) /\ p \in Seq(Char)
    BY DEF Strings
  <1>2. QED
    BY <1>1, JoinsTwice

\* A character put at the end of the FIFO is the first one after it.
LEMMA StringPuts ==
  ASSUME NEW w \in Strings, NEW f \in Strings, NEW p \in Strings, NEW c \in Char
  PROVE  (w \o Append(f, c)) \o p = (w \o f) \o (<<c>> \o p)
  <1> DEFINE g == Append(f, c)
             q == <<c>> \o p
  <1>1. g \in Strings /\ <<c>> \in Strings
    BY StringFacts
  <1>2. q \in Strings
    BY <1>1, StringJoins
  <1>3. g \o p = f \o q
    BY StringAppends
  <1> HIDE DEF g, q
  <1>4. (w \o g) \o p = w \o (g \o p)
    <2>1. g \in Strings
      BY <1>1
    <2>2. QED
      BY <2>1, StringRegroups, Zenon
  <1>5. (w \o f) \o q = w \o (f \o q)
    BY <1>2, StringRegroups
  <1>6. (w \o g) \o p = (w \o f) \o q
    BY <1>3, <1>4, <1>5
  <1>7. QED
    BY <1>6 DEF g, q

-----------------------------------------------------------------------------
(* The types. *)

\* Lists of arguments.
Taken == Seq(Arguments)

\* The functions and loops a call can be in.
Modes == {"uart_init", "printf", "uart_puts", "int2str", "uint2str", "digits", "emit"}

\* The types; the buffer is in use only while a number is printed.
Typed ==
    /\ fmt \in Strings /\ args \in Taken
    /\ mode \in Modes
    /\ i \in Nat /\ d \in Int
    /\ buf \in Strings /\ s \in Strings
    /\ fifo \in Strings /\ wire \in Strings
    /\ mode \notin {"digits", "emit"} => buf = << >>

\* At first the state has its types: any format over the characters.
LEMMA InitTyped == Init => Typed
  <1> SUFFICES ASSUME Init PROVE Typed
    OBVIOUS
  <1>1. fmt \in Seq(Char)
    <2>1. PICK n \in 0 .. MaxFormat : fmt \in [1 .. n -> {"x", "%", "c", "d", "l", "s"}]
      BY DEF Init
    <2>2. n \in Nat
      BY <2>1, FormatAssumption
    <2>3. fmt \in [1 .. n -> Char]
      BY <2>1 DEF Char
    <2>4. QED
      BY <2>2, <2>3
  <1>2. << >> \in Seq(Arguments) /\ << >> \in Seq(Char)
    OBVIOUS
  <1>3. QED
    BY <1>1, <1>2 DEF Init, Typed, Modes, Strings, Taken

\* One argument more, of its conversion.
LEMMA ConversionTyped ==
  ASSUME Typed, NEW cs, NEW values, Conversion(cs, values),
         \A c \in cs, v \in values : [conversion |-> c, value |-> v] \in Arguments
  PROVE  /\ i' \in Nat
         /\ At(i + 1) \in cs /\ Last(args').value \in values
         /\ Last(args') = [conversion |-> At(i + 1), value |-> Last(args').value]
         /\ Last(args') \in Arguments
         /\ args' = Append(args, Last(args')) /\ args' \in Taken
  <1>1. PICK v \in values : args' = Append(args, [conversion |-> At(i + 1), value |-> v])
    BY DEF Conversion
  <1> DEFINE a == [conversion |-> At(i + 1), value |-> v]
  <1>2. At(i + 1) \in cs /\ a \in Arguments /\ a.value = v
    BY DEF Conversion
  <1>3. args \in Seq(Arguments) /\ i \in Nat /\ i' = i + 2
    BY DEF Typed, Conversion, Taken
  <1> HIDE DEF a
  <1>4. args' \in Seq(Arguments) /\ Last(args') = a
    <2>1. Append(args, a) \in Seq(Arguments) /\ Last(Append(args, a)) = a
      BY <1>2, <1>3 DEF Last
    <2>2. QED
      BY <1>1, <2>1 DEF a
  <1>5. i' \in Nat
    BY <1>3
  <1>6. QED
    BY <1>1, <1>2, <1>4, <1>5 DEF a, Taken

-----------------------------------------------------------------------------
(* The types are kept.                                                     *)

\* The arguments of the four conversions are arguments.
LEMMA ConversionsTaken ==
  /\ \A c \in {"c"}, v \in {"c"} : [conversion |-> c, value |-> v] \in Arguments
  /\ \A c \in {"d"}, v \in {Wrap(w) : w \in Ints} :
        [conversion |-> c, value |-> v] \in Arguments
  /\ \A c \in {"l"}, v \in Longs : [conversion |-> c, value |-> v] \in Arguments
  /\ \A c \in {"s", "x", "%", NUL}, v \in {<< >>, <<"s", "%">>} :
        [conversion |-> c, value |-> v] \in Arguments /\ v \in Strings
  <1>1. \A v \in {Wrap(w) : w \in Ints} : v \in IntRange
    BY Wraps, FormatAssumption
  <1>2. \A v \in Longs : v \in Nat
    BY FormatAssumption
  <1>3. \A v \in {<< >>, <<"s", "%">>} : v \in Seq(Char)
    <2>1. "s" \in Char /\ "%" \in Char
      BY DEF Char
    <2>2. << >> \in Seq(Char) /\ <<"s", "%">> \in Seq(Char)
      BY <2>1
    <2>3. QED
      BY <2>2
  <1>4. QED
    BY <1>1, <1>2, <1>3, Zenon DEF Arguments, Strings

\* What the transmit register takes is a character.
LEMMA PutcTyped ==
  ASSUME Typed, NEW c \in Char, UartPutc(c)
  PROVE  fmt' = fmt /\ wire' = wire /\ fifo' = Append(fifo, c) /\ fifo' \in Strings
  BY StringFacts DEF UartPutc, Typed

\* What Plain prints is a character.
LEMMA PlainChar == ASSUME Typed, Plain PROVE At(i) \in Char
  BY AtTyped DEF Plain, Typed, Strings

\* The characters the code names.
LEMMA FixedChars == "c" \in Char /\ "-" \in Char /\ "0" \in Char
  BY DEF Char

\* Every step keeps the types.
LEMMA NextTyped == ASSUME Typed, [Next]_vars PROVE Typed'
  <1>1. CASE UNCHANGED vars
    BY <1>1 DEF vars, Typed
  <1>2. CASE UartInit
    BY <1>2 DEF UartInit, Typed, Modes
  <1>3. CASE Plain
    <2>1. UartPutc(At(i)) /\ i' = i + 1 /\ UNCHANGED <<args, mode, d, buf, s>>
      BY <1>3 DEF Plain
    <2>2. i' \in Nat
      BY <2>1 DEF Typed
    <2>3. QED
      BY <1>3, <2>1, <2>2, PlainChar, PutcTyped DEF Typed
  <1>4. CASE PercentC
    <2>1. Conversion({"c"}, {"c"}) /\ UartPutc(Last(args').value)
          /\ UNCHANGED <<mode, d, buf, s>>
      BY <1>4 DEF PercentC
    <2>2. i' \in Nat /\ args' \in Taken /\ Last(args').value = "c"
      BY <2>1, ConversionTyped, ConversionsTaken
    <2>3. QED
      BY <2>1, <2>2, FixedChars, PutcTyped DEF Typed
  <1>5. CASE PercentD
    <2>1. Conversion({"d"}, {Wrap(w) : w \in Ints}) /\ mode = "printf"
      BY <1>5 DEF PercentD, Conversion
    <2>2. i' \in Nat /\ args' \in Taken /\ Last(args').value \in {Wrap(w) : w \in Ints}
      BY <2>1, ConversionTyped, ConversionsTaken
    <2>3. d' \in Int
      BY <1>5, <2>2, Wraps, FormatAssumption DEF PercentD, IntRange
    <2>4. QED
      BY <1>5, <2>1, <2>2, <2>3 DEF PercentD, Typed, Modes
  <1>6. CASE PercentL
    <2>1. Conversion({"l"}, Longs) /\ mode = "printf"
      BY <1>6 DEF PercentL, Conversion
    <2>2. i' \in Nat /\ args' \in Taken /\ Last(args').value \in Longs
      BY <2>1, ConversionTyped, ConversionsTaken
    <2>3. d' \in Int
      <3>1. d' = Last(args').value
        BY <1>6 DEF PercentL
      <3>2. \A v \in Longs : v \in Int
        BY FormatAssumption
      <3>3. QED
        BY <2>2, <3>1, <3>2
    <2>4. QED
      BY <1>6, <2>1, <2>2, <2>3 DEF PercentL, Typed, Modes
  <1>7. CASE PercentS
    <2>1. Conversion({"s", "x", "%", NUL}, {<< >>, <<"s", "%">>}) /\ mode = "printf"
      BY <1>7 DEF PercentS, Conversion
    <2>2. i' \in Nat /\ args' \in Taken /\ Last(args').value \in {<< >>, <<"s", "%">>}
      <3> DEFINE cs == {"s", "x", "%", NUL}
                 values == {<< >>, <<"s", "%">>}
      <3>1. \A c \in cs, v \in values : [conversion |-> c, value |-> v] \in Arguments
        BY ConversionsTaken
      <3>2. Conversion(cs, values)
        BY <2>1
      <3> HIDE DEF cs, values
      <3>3. i' \in Nat /\ args' \in Taken /\ Last(args').value \in values
        BY <3>1, <3>2, ConversionTyped
      <3>4. QED
        BY <3>3 DEF values
    <2>3. Last(args').value \in Strings
      BY <2>2, ConversionsTaken, Zenon
    <2>4. s' \in Strings
      BY <1>7, <2>3 DEF PercentS
    <2>5. QED
      BY <1>7, <2>1, <2>2, <2>4 DEF PercentS, Typed, Modes
  <1>8. CASE Puts
    <2>1. CASE s # << >> /\ UartPutc(Head(s)) /\ s' = Tail(s)
               /\ UNCHANGED <<args, mode, i, d, buf>>
      <3>1. Head(s) \in Char /\ s' \in Strings
        BY <2>1, StringFacts DEF Typed
      <3>2. QED
        BY <2>1, <3>1, PutcTyped DEF Typed
    <2>2. CASE /\ mode = "uart_puts" /\ mode' = "printf"
               /\ UNCHANGED <<fmt, args, i, d, buf, s, on, fifo, wire>>
      BY <2>2 DEF Typed, Modes
    <2>3. QED
      BY <1>8, <2>1, <2>2 DEF Puts
  <1>9. CASE Zero
    <2>1. UartPutc("0") /\ mode \in {"int2str", "uint2str"} /\ mode' = "printf"
          /\ UNCHANGED <<args, i, d, buf, s>>
      BY <1>9 DEF Zero
    <2>2. QED
      BY <2>1, FixedChars, PutcTyped DEF Typed, Modes
  <1>10. CASE UintStart
    BY <1>10 DEF UintStart, Typed, Modes
  <1>11. CASE IntStart
    <2>1. /\ d' = IF d < 0 THEN Wrap(-d) ELSE d
          /\ mode' = "digits" /\ UNCHANGED <<args, i, buf, s>>
      BY <1>11 DEF IntStart
    <2>2. d \in Int
      BY DEF Typed
    <2>3. d' \in Int
      <3>1. -d \in Int
        BY <2>2
      <3>2. Wrap(-d) \in IntRange
        BY <3>1, Wraps
      <3>3. QED
        BY <2>1, <2>2, <3>2, Wraps DEF IntRange
    <2>4. fmt' = fmt /\ wire' = wire /\ fifo' \in Strings
      BY <1>11, FixedChars, PutcTyped DEF IntStart, Typed
    <2>5. QED
      BY <2>1, <2>3, <2>4 DEF Typed, Modes
  <1>12. CASE Digits
    <2>1. CASE d > 0
      <3>1. /\ mode = "digits" /\ mode' = mode
            /\ buf' = Append(buf, Digit(d % 10)) /\ d' = d \div 10
            /\ UNCHANGED <<fmt, args, i, s, on, fifo, wire>>
        BY <1>12, <2>1 DEF Digits
      <3>2. d \in Nat
        BY <2>1 DEF Typed
      <3>3. Digit(d % 10) \in Char /\ d \div 10 \in Nat
        BY <2>1, <3>2, LeftUnfolds
      <3> DEFINE c == Digit(d % 10)
                 q == d \div 10
      <3> HIDE DEF c, q
      <3>4. buf' \in Strings
        <4>1. buf' = Append(buf, c) /\ c \in Char /\ buf \in Strings
          BY <3>1, <3>3 DEF Typed, c
        <4>2. QED
          BY <4>1, StringFacts
      <3>5. d' \in Int
        <4>1. d' = q /\ q \in Nat
          BY <3>1, <3>3 DEF q
        <4>2. QED
          BY <4>1
      <3>6. QED
        BY <3>1, <3>4, <3>5 DEF Typed
    <2>2. CASE ~(d > 0)
      <3>1. /\ mode' = "emit" /\ UNCHANGED <<d, buf>>
            /\ UNCHANGED <<fmt, args, i, s, on, fifo, wire>>
        BY <1>12, <2>2 DEF Digits
      <3>2. QED
        BY <3>1 DEF Typed, Modes
    <2>3. QED
      BY <2>1, <2>2
  <1>13. CASE Emit
    <2>1. CASE /\ mode = "emit" /\ buf # << >> /\ UartPutc(Last(buf))
               /\ buf' = Front(buf) /\ UNCHANGED <<args, mode, i, d, s>>
      <3>1. Last(buf) \in Char /\ buf' \in Strings
        BY <2>1, StringFacts DEF Typed
      <3>2. QED
        BY <2>1, <3>1, PutcTyped DEF Typed
    <2>2. CASE /\ buf = << >> /\ mode' = "printf"
               /\ UNCHANGED <<fmt, args, i, d, buf, s, on, fifo, wire>>
      BY <2>2 DEF Typed, Modes
    <2>3. QED
      BY <1>13, <2>1, <2>2 DEF Emit
  <1>14. CASE Send
    <2>1. /\ fifo # << >> /\ wire' = Append(wire, Head(fifo)) /\ fifo' = Tail(fifo)
          /\ UNCHANGED <<fmt, args, mode, i, d, buf, s, on>>
      BY <1>14 DEF Send
    <2>2. wire' \in Strings /\ fifo' \in Strings
      BY <2>1, StringFacts DEF Typed
    <2>3. QED
      BY <2>1, <2>2 DEF Typed
  <1>15. QED
    BY <1>1, <1>2, <1>3, <1>4, <1>5, <1>6, <1>7, <1>8, <1>9, <1>10, <1>11, <1>12,
       <1>13, <1>14 DEF Next, Printf

-----------------------------------------------------------------------------
(* What is printed, what is due, and what is still to come.                *)

\* What the call has still to print of the argument it took last.
Due(m, n, b, t) ==
    CASE m = "uart_puts" -> t
      [] m = "int2str"   -> IF n < 0 THEN <<"-">> \o Decimal[-n] ELSE Decimal[n]
      [] m = "uint2str"  -> Decimal[n]
      [] m = "digits"    -> Left(n) \o Reverse(b)
      [] m = "emit"      -> Reverse(b)
      [] OTHER           -> << >>

\* All that is sent, in the FIFO, or due.
Printed == (wire \o fifo) \o Due(mode, d, buf, s)

\* int2str has no lowest int, uint2str and the loop over the digits no negative number.
NumberRight ==
    /\ mode = "int2str" => IntMin < d
    /\ mode \in {"uint2str", "digits"} => d >= 0

\* A list of arguments of which args is the beginning.
Extends(as) ==
    /\ Len(args) <= Len(as)
    /\ \A n \in Nat : n < Len(args) => as[n + 1] = args[n + 1]

\* However the call goes on, it prints what it has, then the rest.
Accounted ==
    \A as \in Taken :
        Extends(as) => TextFrom(as)[0][0] = Printed \o TextFrom(as)[i][Len(args)]

\* What holds in every state.
FormatInv == Typed /\ (NoIntMin => NumberRight /\ Accounted)

\* What is left of a number is a string.
LEMMA LeftTyped == \A n \in Nat : Left(n) \in Strings
  BY StringFacts, DecimalTyped DEF Left, Strings

\* What is due is a string.
LEMMA DueTyped ==
  ASSUME Typed, NumberRight
  PROVE  Due(mode, d, buf, s) \in Strings
  <1>1. d \in Int /\ buf \in Strings /\ s \in Strings
    BY DEF Typed
  <1>2. Reverse(buf) \in Strings /\ << >> \in Strings
    BY <1>1, StringReverses, StringFacts
  <1>3. \A n \in Nat : Decimal[n] \in Strings
    BY DecimalTyped DEF Strings
  <1>4. CASE mode = "int2str"
    <2>1. Due(mode, d, buf, s) = IF d < 0 THEN <<"-">> \o Decimal[-d] ELSE Decimal[d]
      BY <1>4 DEF Due
    <2>2. d < 0 => <<"-">> \o Decimal[-d] \in Strings
      <3>1. d < 0 => -d \in Nat
        BY <1>1
      <3>2. <<"-">> \in Strings
        BY FixedChars, StringFacts
      <3>3. QED
        BY <1>3, <3>1, <3>2, StringJoins
    <2>3. ~(d < 0) => Decimal[d] \in Strings
      <3>1. ~(d < 0) => d \in Nat
        BY <1>1
      <3>2. QED
        BY <1>3, <3>1
    <2>4. QED
      BY <2>1, <2>2, <2>3
  <1>5. CASE mode \in {"uint2str", "digits"}
    <2>1. d \in Nat
      BY <1>1, <1>5 DEF NumberRight
    <2>2. Decimal[d] \in Strings /\ Left(d) \in Strings
      BY <1>3, <2>1, LeftTyped
    <2>3. Left(d) \o Reverse(buf) \in Strings
      BY <1>2, <2>2, StringJoins
    <2>4. QED
      BY <1>5, <2>2, <2>3 DEF Due
  <1>6. CASE mode \notin {"int2str", "uint2str", "digits"}
    BY <1>1, <1>2, <1>6 DEF Due
  <1>7. QED
    BY <1>4, <1>5, <1>6

\* So is all that is printed or due.
LEMMA PrintedTyped ==
  ASSUME Typed, NumberRight
  PROVE  wire \o fifo \in Strings /\ Printed \in Strings
  BY DueTyped, StringJoins DEF Printed, Typed

\* And what is still to come.
LEMMA RestTyped ==
  ASSUME Typed, NEW as \in Taken, NEW k \in Nat, NEW n \in Nat
  PROVE  TextFrom(as)[k][n] \in Strings
  BY TextFromTyped, Zenon DEF Typed, Strings, Taken

\* The text depends on the format, which no step changes.
LEMMA SameText ==
  ASSUME fmt' = fmt, NEW as
  PROVE  TextFrom(as)' = TextFrom(as)
  BY DEF TextFrom, At

\* Lengths are numbers.
LEMMA Lengths ==
  ASSUME Typed
  PROVE  /\ Len(fmt) \in Nat /\ Len(args) \in Nat
         /\ \A as \in Taken : Len(as) \in Nat
  BY Indexes, Zenon DEF Typed, Strings, Taken

\* A step that takes no more of the format prints what was due.
LEMMA KeepsAccount ==
  ASSUME Typed, Accounted, fmt' = fmt, args' = args, i' = i, Printed' = Printed
  PROVE  Accounted'
  <1> SUFFICES ASSUME NEW as \in Taken, Extends(as)'
               PROVE  TextFrom(as)'[0][0] = Printed' \o TextFrom(as)'[i'][Len(args')]
    BY DEF Accounted
  <1>1. Extends(as)
    BY DEF Extends
  <1>2. TextFrom(as)' = TextFrom(as)
    BY SameText
  <1>3. TextFrom(as)[0][0] = Printed \o TextFrom(as)[i][Len(args)]
    BY <1>1 DEF Accounted
  <1>4. QED
    BY <1>2, <1>3, Zenon

\* A plain character.
LEMMA PlainAccount ==
  ASSUME Typed, NumberRight, Accounted, fmt' = fmt, args' = args, i' = i + 1,
         i < Len(fmt), At(i) # "%", At(i) \in Char, Printed' = Printed \o <<At(i)>>
  PROVE  Accounted'
  <1> SUFFICES ASSUME NEW as \in Taken, Extends(as)'
               PROVE  TextFrom(as)'[0][0] = Printed' \o TextFrom(as)'[i'][Len(args')]
    BY DEF Accounted
  <1> DEFINE n == Len(args)
             t == TextFrom(as)[i + 1][n]
             c == At(i)
  <1>1. TextFrom(as)[0][0] = Printed \o TextFrom(as)[i][n]
    BY DEF Accounted, Extends
  <1>2. TextFrom(as)' = TextFrom(as)
    BY SameText
  <1>3. i \in Nat /\ i + 1 \in Nat /\ n \in Nat /\ ~(i >= Len(fmt))
    BY Lengths DEF Typed
  <1>4. TextFrom(as)[i][n] = <<c>> \o t
    BY <1>3, Lengths, TextUnfolds, Zenon
  <1>5. t \in Strings
    BY <1>3, RestTyped, Zenon
  <1> HIDE DEF c, t, n
  <1>6. Printed \in Strings /\ <<c>> \in Strings
    BY PrintedTyped, StringFacts DEF c
  <1>7. (Printed \o <<c>>) \o t = Printed \o (<<c>> \o t)
    BY <1>5, <1>6, StringRegroups
  <1>8. TextFrom(as)[0][0] = (Printed \o <<c>>) \o t
    BY <1>1, <1>4, <1>7
  <1>9. QED
    BY <1>2, <1>8 DEF c, t, n

\* A conversion.
LEMMA ConversionAccount ==
  ASSUME Typed, NumberRight, Accounted, fmt' = fmt, i' = i + 2,
         NEW a \in Arguments, args' = Append(args, a),
         i < Len(fmt), At(i) = "%", Printed' = Printed \o Text(a)
  PROVE  Accounted'
  <1> SUFFICES ASSUME NEW as \in Taken, Extends(as)'
               PROVE  TextFrom(as)'[0][0] = Printed' \o TextFrom(as)'[i'][Len(args')]
    BY DEF Accounted
  <1> DEFINE n == Len(args)
             t == TextFrom(as)[i + 2][n + 1]
  <1>1. n \in Nat /\ Len(as) \in Nat /\ Len(fmt) \in Nat
    BY Lengths
  <1>2. /\ Len(args') = n + 1 /\ args'[n + 1] = a
        /\ \A k \in Nat : k < n => args'[k + 1] = args[k + 1]
    <2>1. args \in Seq(Arguments)
      BY DEF Typed, Taken
    <2> DEFINE b == Append(args, a)
    <2>2. /\ Len(b) = n + 1 /\ b[n + 1] = a
          /\ \A k \in Nat : k < n => b[k + 1] = args[k + 1]
      <3>1. Len(b) = n + 1
        BY <2>1, OneMore, Zenon
      <3>2. b[n + 1] = a
        BY <2>1, OneMore, Zenon
      <3>3. ASSUME NEW k \in Nat, k < n PROVE b[k + 1] = args[k + 1]
        BY <2>1, <3>3, OneMore, Zenon
      <3>4. QED
        BY <3>1, <3>2, <3>3, Zenon
    <2>3. args' = b
      OBVIOUS
    <2> HIDE DEF b
    <2>4. QED
      BY <2>2, <2>3, Zenon
  <1>3. Len(args') <= Len(as) /\ \A k \in Nat : k < Len(args') => as[k + 1] = args'[k + 1]
    BY DEF Extends
  <1>4. Extends(as) /\ ~(n >= Len(as)) /\ as[n + 1] = a
    <2> HIDE DEF n
    <2>1. n + 1 <= Len(as)
      BY <1>2, <1>3, Zenon
    <2> DEFINE m == Len(as)
    <2>2. n + 1 <= m /\ m \in Nat
      BY <1>1, <2>1
    <2> HIDE DEF m
    <2>3. n <= m /\ ~(n >= m) /\ n < n + 1 /\ \A k \in Nat : k < n => k < n + 1
      BY <1>1, <2>2, Longer, Zenon
    <2>4. as[n + 1] = a /\ \A k \in Nat : k < n => as[k + 1] = args[k + 1]
      BY <1>1, <1>2, <1>3, <2>3, Zenon
    <2>5. QED
      BY <2>3, <2>4 DEF Extends, n, m
  <1>5. TextFrom(as)[0][0] = Printed \o TextFrom(as)[i][n]
    BY <1>4 DEF Accounted
  <1>6. TextFrom(as)' = TextFrom(as)
    BY SameText
  <1>7. i \in Nat /\ i + 2 \in Nat /\ n + 1 \in Nat /\ ~(i >= Len(fmt))
    BY <1>1 DEF Typed
  <1>8. TextFrom(as)[i][n] = Text(a) \o t
    BY <1>1, <1>4, <1>7, TextUnfolds, Zenon
  <1>9. t \in Strings
    BY <1>7, RestTyped, Zenon
  <1> HIDE DEF t, n
  <1>10. Printed \in Strings /\ Text(a) \in Strings
    BY PrintedTyped, TextTyped DEF Strings
  <1>11. (Printed \o Text(a)) \o t = Printed \o (Text(a) \o t)
    BY <1>9, <1>10, StringRegroups
  <1>12. TextFrom(as)[0][0] = (Printed \o Text(a)) \o t
    BY <1>5, <1>8, <1>11
  <1>13. QED
    BY <1>2, <1>6, <1>12 DEF t, n

-----------------------------------------------------------------------------
(* The parts of a step.                                                    *)

\* At first nothing is printed and all is still to come.
LEMMA InitAccount == Init => NumberRight /\ Accounted
  <1> SUFFICES ASSUME Init PROVE NumberRight /\ Accounted
    OBVIOUS
  <1>1. Typed
    BY InitTyped
  <1>2. /\ args = << >> /\ mode = "uart_init" /\ i = 0
        /\ wire = << >> /\ fifo = << >>
    BY DEF Init
  <1>3. << >> \in Strings /\ << >> \o << >> = << >>
    BY StringFacts, StringJoins
  <1>4. Printed = << >>
    BY <1>2, <1>3 DEF Printed, Due
  <1>5. ASSUME NEW as \in Taken
        PROVE  TextFrom(as)[0][0] = Printed \o TextFrom(as)[i][Len(args)]
    <2>1. Len(args) = 0
      BY <1>2
    <2> DEFINE t == TextFrom(as)[0][0]
    <2>2. t \in Strings
      BY <1>1, RestTyped
    <2> HIDE DEF t
    <2>3. << >> \o t = t
      BY <2>2, StringJoins
    <2>4. QED
      BY <1>2, <1>4, <2>1, <2>3 DEF t
  <1>6. QED
    BY <1>2, <1>5 DEF NumberRight, Accounted

\* What a character put into the FIFO adds.
LEMMA PutcPrinted ==
  ASSUME Typed, Typed', NEW c \in Char, UartPutc(c), NEW r \in Strings,
         Due(mode', d', buf', s') = r
  PROVE  Printed' = (wire \o fifo) \o (<<c>> \o r)
  <1>1. wire' = wire /\ fifo' = Append(fifo, c)
    BY PutcTyped
  <1>2. wire \in Strings /\ fifo \in Strings
    BY DEF Typed
  <1>3. (wire \o Append(fifo, c)) \o r = (wire \o fifo) \o (<<c>> \o r)
    <2> DEFINE w == wire
               f == fifo
    <2>1. w \in Strings /\ f \in Strings
      BY <1>2
    <2> HIDE DEF w, f
    <2>2. (w \o Append(f, c)) \o r = (w \o f) \o (<<c>> \o r)
      BY <2>1, StringPuts
    <2>3. QED
      BY <2>2 DEF w, f
  <1>4. QED
    BY <1>1, <1>3 DEF Printed

\* The same when nothing was due and nothing is.
LEMMA PutcAlone ==
  ASSUME Typed, Typed', NumberRight, NEW c \in Char, UartPutc(c),
         Due(mode, d, buf, s) = << >>, Due(mode', d', buf', s') = << >>
  PROVE  Printed' = Printed \o <<c>>
  <1>1. << >> \in Strings /\ <<c>> \in Strings /\ wire \o fifo \in Strings
    BY StringFacts, PrintedTyped
  <1>2. Printed' = (wire \o fifo) \o (<<c>> \o << >>)
    BY <1>1, PutcPrinted
  <1>3. <<c>> \o << >> = <<c>>
    BY <1>1, StringJoins
  <1>4. Printed = wire \o fifo
    BY <1>1, StringJoins DEF Printed
  <1>5. QED
    BY <1>2, <1>3, <1>4

\* The arguments only grow.
LEMMA NoIntMinBefore ==
  ASSUME Typed, Typed', NoIntMin',
         args' = args \/ \E a \in Arguments : args' = Append(args, a)
  PROVE  NoIntMin
  <1>1. CASE args' = args
    BY <1>1 DEF NoIntMin, IntMin
  <1>2. ASSUME NEW a \in Arguments, args' = Append(args, a) PROVE NoIntMin
    <2>1. args \in Seq(Arguments)
      BY DEF Typed, Taken
    <2>2. DOMAIN args \subseteq DOMAIN Append(args, a)
          /\ \A n \in DOMAIN args : Append(args, a)[n] = args[n]
      BY <2>1
    <2>3. IntMin' = IntMin
      BY DEF IntMin
    <2>4. QED
      BY <1>2, <2>2, <2>3, Zenon DEF NoIntMin
  <1>3. QED
    BY <1>1, <1>2

\* What a conversion takes and where it leaves the format.
LEMMA ConversionFacts ==
  ASSUME Typed, NEW cs, NEW values, Conversion(cs, values),
         \A c \in cs, v \in values : [conversion |-> c, value |-> v] \in Arguments
  PROVE  /\ mode = "printf" /\ i < Len(fmt) /\ At(i) = "%" /\ i' = i + 2
         /\ Last(args').conversion \in cs /\ Last(args').value \in values
         /\ Last(args') \in Arguments /\ args' = Append(args, Last(args'))
  <1> DEFINE a == Last(args')
  <1>1. /\ At(i + 1) \in cs /\ a.value \in values
        /\ a = [conversion |-> At(i + 1), value |-> a.value]
        /\ a \in Arguments /\ args' = Append(args, a)
    BY ConversionTyped
  <1>2. mode = "printf" /\ i < Len(fmt) /\ At(i) = "%" /\ i' = i + 2
    BY DEF Conversion
  <1> DEFINE v == a.value
  <1>3. a = [conversion |-> At(i + 1), value |-> v]
    BY <1>1
  <1> HIDE DEF a, v
  <1>4. a.conversion = At(i + 1)
    BY <1>3
  <1>5. QED
    BY <1>1, <1>2, <1>4 DEF a

\* The number taken is not the lowest int.
LEMMA TakenNotLowest ==
  ASSUME NoIntMin', Typed, NEW a \in Arguments, args' = Append(args, a),
         a.conversion = "d"
  PROVE  a.value # IntMin
  <1>1. args \in Seq(Arguments)
    BY DEF Typed, Taken
  <1>2. Len(args) + 1 \in DOMAIN Append(args, a) /\ Append(args, a)[Len(args) + 1] = a
    BY <1>1
  <1>3. IntMin' = IntMin
    BY DEF IntMin
  <1>4. QED
    BY <1>2, <1>3, Zenon DEF NoIntMin

-----------------------------------------------------------------------------
(* The steps.                                                              *)

\* A plain character is printed where it comes.
LEMMA PlainStep ==
  ASSUME Typed, Typed', NumberRight, Accounted, Plain
  PROVE  NumberRight' /\ Accounted'
  <1>1. /\ mode = "printf" /\ i < Len(fmt) /\ At(i) # "%" /\ UartPutc(At(i))
        /\ i' = i + 1 /\ UNCHANGED <<args, mode, d, buf, s>>
    BY DEF Plain
  <1>2. At(i) \in Char /\ fmt' = fmt
    BY <1>1, PlainChar, PutcTyped
  <1>3. Due(mode, d, buf, s) = << >> /\ Due(mode', d', buf', s') = << >>
    BY <1>1 DEF Due
  <1>4. Printed' = Printed \o <<At(i)>>
    <2> DEFINE c == At(i)
    <2>1. c \in Char /\ UartPutc(c)
      BY <1>1, <1>2
    <2> HIDE DEF c
    <2>2. Printed' = Printed \o <<c>>
      BY <1>3, <2>1, PutcAlone
    <2>3. QED
      BY <2>2 DEF c
  <1>5. NumberRight'
    BY <1>1 DEF NumberRight
  <1>6. QED
    BY <1>1, <1>2, <1>4, <1>5, PlainAccount

\* %c prints its argument.
LEMMA PercentCStep ==
  ASSUME Typed, Typed', NumberRight, Accounted, PercentC
  PROVE  NumberRight' /\ Accounted'
  <1> DEFINE a == Last(args')
  <1>1. /\ Conversion({"c"}, {"c"}) /\ UartPutc(a.value)
        /\ UNCHANGED <<mode, d, buf, s>>
    BY DEF PercentC
  <1>2. /\ mode = "printf" /\ i < Len(fmt) /\ At(i) = "%" /\ i' = i + 2
        /\ a.conversion = "c" /\ a.value = "c"
        /\ a \in Arguments /\ args' = Append(args, a)
    BY <1>1, ConversionFacts, ConversionsTaken
  <1> HIDE DEF a
  <1>3. Text(a) = <<"c">>
    BY <1>2 DEF Text
  <1>4. fmt' = fmt /\ UartPutc("c") /\ "c" \in Char
    BY <1>1, <1>2, FixedChars, PutcTyped
  <1>5. Due(mode, d, buf, s) = << >> /\ Due(mode', d', buf', s') = << >>
    BY <1>1, <1>2 DEF Due
  <1>6. Printed' = Printed \o Text(a)
    BY <1>3, <1>4, <1>5, PutcAlone
  <1>7. NumberRight'
    BY <1>1, <1>2 DEF NumberRight
  <1>8. QED
    BY <1>2, <1>4, <1>6, <1>7, ConversionAccount

\* A conversion that leaves the printing to another function.
LEMMA DeferredStep ==
  ASSUME Typed, NumberRight, Accounted, mode = "printf",
         i < Len(fmt), At(i) = "%", i' = i + 2, UNCHANGED <<fmt, fifo, wire>>,
         NEW a \in Arguments, args' = Append(args, a),
         Due(mode', d', buf', s') = Text(a)
  PROVE  Accounted'
  <1>1. Due(mode, d, buf, s) = << >> /\ wire \o fifo \in Strings
    BY PrintedTyped DEF Due
  <1>2. Printed = wire \o fifo
    BY <1>1, StringJoins DEF Printed
  <1>3. Printed' = (wire \o fifo) \o Text(a)
    BY DEF Printed
  <1>4. QED
    BY <1>2, <1>3, ConversionAccount

\* %d leaves its argument to int2str.
LEMMA PercentDStep ==
  ASSUME Typed, Typed', NumberRight, Accounted, NoIntMin', PercentD
  PROVE  NumberRight' /\ Accounted'
  <1> DEFINE a == Last(args')
  <1>1. /\ Conversion({"d"}, {Wrap(w) : w \in Ints}) /\ d' = a.value /\ mode' = "int2str"
        /\ UNCHANGED <<fmt, buf, s, on, fifo, wire>>
    BY DEF PercentD
  <1>2. /\ mode = "printf" /\ i < Len(fmt) /\ At(i) = "%" /\ i' = i + 2
        /\ a.conversion = "d" /\ a.value \in {Wrap(w) : w \in Ints}
        /\ a \in Arguments /\ args' = Append(args, a)
    BY <1>1, ConversionFacts, ConversionsTaken
  <1> HIDE DEF a
  <1>3. a.value \in Int /\ IntMin < a.value
    <2>1. a.value # IntMin
      BY <1>2, TakenNotLowest
    <2>2. a.value \in IntRange
      BY <1>2, Wraps, FormatAssumption
    <2>3. QED
      BY <2>1, <2>2, Wraps DEF IntRange
  <1>4. Due(mode', d', buf', s') = Text(a)
    BY <1>1, <1>2 DEF Due, Text
  <1>5. NumberRight'
    <2>1. IntMin' = IntMin
      BY DEF IntMin
    <2>2. QED
      BY <1>1, <1>3, <2>1 DEF NumberRight
  <1>6. QED
    BY <1>1, <1>2, <1>4, <1>5, DeferredStep

\* %l leaves its argument to uint2str.
LEMMA PercentLStep ==
  ASSUME Typed, Typed', NumberRight, Accounted, PercentL
  PROVE  NumberRight' /\ Accounted'
  <1> DEFINE a == Last(args')
  <1>1. /\ Conversion({"l"}, Longs) /\ d' = a.value /\ mode' = "uint2str"
        /\ UNCHANGED <<fmt, buf, s, on, fifo, wire>>
    BY DEF PercentL
  <1>2. /\ mode = "printf" /\ i < Len(fmt) /\ At(i) = "%" /\ i' = i + 2
        /\ a.conversion = "l" /\ a.value \in Longs
        /\ a \in Arguments /\ args' = Append(args, a)
    BY <1>1, ConversionFacts, ConversionsTaken
  <1> HIDE DEF a
  <1>3. Due(mode', d', buf', s') = Text(a)
    BY <1>1, <1>2 DEF Due, Text
  <1>4. NumberRight'
    <2>1. \A v \in Longs : v >= 0
      BY FormatAssumption
    <2>2. QED
      BY <1>1, <1>2, <2>1 DEF NumberRight
  <1>5. QED
    BY <1>1, <1>2, <1>3, <1>4, DeferredStep

\* Any other conversion leaves its argument to uart_puts.
LEMMA PercentSStep ==
  ASSUME Typed, Typed', NumberRight, Accounted, PercentS
  PROVE  NumberRight' /\ Accounted'
  <1> DEFINE a == Last(args')
             cs == {"s", "x", "%", NUL}
             values == {<< >>, <<"s", "%">>}
  <1>1. /\ Conversion(cs, values) /\ s' = a.value /\ mode' = "uart_puts"
        /\ UNCHANGED <<fmt, d, buf, on, fifo, wire>>
    BY DEF PercentS
  <1>2. \A c \in cs, v \in values : [conversion |-> c, value |-> v] \in Arguments
    BY ConversionsTaken
  <1>3. \A c \in cs : c # "c" /\ c # "l" /\ c # "d"
    BY DEF NUL
  <1> HIDE DEF a, cs, values
  <1>4. /\ mode = "printf" /\ i < Len(fmt) /\ At(i) = "%" /\ i' = i + 2
        /\ a.conversion \in cs
        /\ a \in Arguments /\ args' = Append(args, a)
    BY <1>1, <1>2, ConversionFacts DEF a
  <1>5. Text(a) = a.value
    BY <1>3, <1>4 DEF Text
  <1>6. Due(mode', d', buf', s') = Text(a)
    BY <1>1, <1>5 DEF Due
  <1>7. NumberRight'
    BY <1>1 DEF NumberRight
  <1>8. QED
    BY <1>1, <1>4, <1>6, <1>7, DeferredStep

\* A character of what was due.
LEMMA DueStep ==
  ASSUME Typed, Typed', NumberRight, Accounted, NEW c \in Char, UartPutc(c),
         UNCHANGED <<args, i>>, NEW r \in Strings,
         Due(mode', d', buf', s') = r, Due(mode, d, buf, s) = <<c>> \o r
  PROVE  Accounted'
  <1>1. Printed' = (wire \o fifo) \o (<<c>> \o r)
    BY PutcPrinted
  <1>2. Printed' = Printed
    BY <1>1 DEF Printed
  <1>3. fmt' = fmt
    BY PutcTyped
  <1>4. QED
    BY <1>2, <1>3, KeepsAccount

\* A step that prints nothing.
LEMMA QuietStep ==
  ASSUME Typed, Accounted, UNCHANGED <<fmt, args, i, fifo, wire>>,
         Due(mode', d', buf', s') = Due(mode, d, buf, s)
  PROVE  Accounted'
  <1>1. Printed' = Printed
    BY DEF Printed
  <1>2. QED
    BY <1>1, KeepsAccount

\* uart_puts prints its string from the front.
LEMMA PutsStep ==
  ASSUME Typed, Typed', NumberRight, Accounted, Puts
  PROVE  NumberRight' /\ Accounted'
  <1>1. CASE /\ mode = "uart_puts" /\ s # << >> /\ UartPutc(Head(s)) /\ s' = Tail(s)
             /\ UNCHANGED <<args, mode, i, d, buf>>
    <2> DEFINE c == Head(s)
               r == Tail(s)
    <2>1. c \in Char /\ r \in Strings /\ s = <<c>> \o r
      BY <1>1, StringFacts, StringSplits DEF Typed
    <2> HIDE DEF c, r
    <2>2. Due(mode, d, buf, s) = <<c>> \o r /\ Due(mode', d', buf', s') = r
      BY <1>1, <2>1 DEF Due, r
    <2>3. Accounted'
      BY <1>1, <2>1, <2>2, DueStep DEF c
    <2>4. QED
      BY <1>1, <2>3 DEF NumberRight
  <1>2. CASE /\ mode = "uart_puts" /\ s = << >> /\ mode' = "printf"
             /\ UNCHANGED <<fmt, args, i, d, buf, s, on, fifo, wire>>
    <2>1. Due(mode', d', buf', s') = Due(mode, d, buf, s)
      BY <1>2 DEF Due
    <2>2. QED
      BY <1>2, <2>1, QuietStep DEF NumberRight
  <1>3. QED
    BY <1>1, <1>2 DEF Puts

\* A zero is printed as one digit.
LEMMA ZeroStep ==
  ASSUME Typed, Typed', NumberRight, Accounted, Zero
  PROVE  NumberRight' /\ Accounted'
  <1>1. /\ mode \in {"int2str", "uint2str"} /\ d = 0 /\ UartPutc("0")
        /\ mode' = "printf" /\ UNCHANGED <<args, i, d, buf, s>>
    BY DEF Zero
  <1>2. Decimal[0] = <<"0">>
    <2>1. Decimal[0] = DecimalOf(Decimal, 0)
      BY DecimalUnfolds
    <2>2. QED
      BY <2>1 DEF DecimalOf, Digit
  <1>3. << >> \in Strings /\ "0" \in Char /\ <<"0">> \o << >> = <<"0">>
    BY StringFacts, FixedChars, StringJoins
  <1>4. Due(mode, d, buf, s) = <<"0">> \o << >> /\ Due(mode', d', buf', s') = << >>
    BY <1>1, <1>2, <1>3 DEF Due
  <1>5. QED
    BY <1>1, <1>3, <1>4, DueStep DEF NumberRight

\* The digits about to be taken, none of them in the buffer.
LEMMA DigitsDue ==
  ASSUME NEW n \in Nat, n # 0, NEW t
  PROVE  Due("digits", n, << >>, t) = Decimal[n]
  <1>1. Decimal[n] \in Strings
    BY DecimalTyped DEF Strings
  <1>2. Decimal[n] \o << >> = Decimal[n]
    BY <1>1, StringJoins
  <1>3. QED
    BY <1>2, StringReverses DEF Due, Left

\* uint2str begins with all digits due.
LEMMA UintStartStep ==
  ASSUME Typed, Typed', NumberRight, Accounted, UintStart
  PROVE  NumberRight' /\ Accounted'
  <1>1. /\ mode = "uint2str" /\ d # 0 /\ mode' = "digits"
        /\ UNCHANGED <<fmt, args, i, d, buf, s, on, fifo, wire>>
    BY DEF UintStart
  <1>2. buf = << >> /\ d \in Nat
    BY <1>1 DEF Typed, NumberRight
  <1>3. Due("digits", d, << >>, s) = Decimal[d]
    BY <1>1, <1>2, DigitsDue
  <1>4. Due(mode', d', buf', s') = Due(mode, d, buf, s)
    BY <1>1, <1>2, <1>3 DEF Due
  <1>5. QED
    BY <1>1, <1>2, <1>4, QuietStep DEF NumberRight

\* int2str prints the sign and is left with the digits.
LEMMA IntStartStep ==
  ASSUME Typed, Typed', NumberRight, Accounted, IntStart
  PROVE  NumberRight' /\ Accounted'
  <1>1. /\ mode = "int2str" /\ d # 0 /\ mode' = "digits"
        /\ d' = (IF d < 0 THEN Wrap(-d) ELSE d)
        /\ IF d < 0 THEN UartPutc("-") ELSE UNCHANGED <<fmt, on, fifo, wire>>
        /\ UNCHANGED <<args, i, buf, s>>
    BY DEF IntStart
  <1>2. buf = << >> /\ d \in Int /\ IntMin < d
    BY <1>1 DEF Typed, NumberRight
  <1>3. CASE d < 0
    <2>1. Wrap(-d) = -d /\ -d \in Nat /\ -d # 0
      BY <1>2, <1>3, Wraps
    <2> DEFINE e == -d
    <2>2. d' = e /\ e \in Nat /\ e # 0 /\ UartPutc("-")
      BY <1>1, <1>3, <2>1
    <2>3. Due(mode, d, buf, s) = <<"-">> \o Decimal[e]
      BY <1>1, <1>3 DEF Due
    <2> HIDE DEF e
    <2>4. Due(mode', d', buf', s') = Decimal[e]
      BY <1>1, <1>2, <2>2, DigitsDue
    <2>5. Decimal[e] \in Strings /\ "-" \in Char
      BY <2>2, DecimalTyped, FixedChars DEF Strings
    <2>6. Accounted'
      BY <1>1, <2>2, <2>3, <2>4, <2>5, DueStep
    <2>7. NumberRight'
      BY <1>1, <2>2 DEF NumberRight
    <2>8. QED
      BY <2>6, <2>7
  <1>4. CASE ~(d < 0)
    <2>1. d' = d /\ UNCHANGED <<fmt, on, fifo, wire>> /\ d \in Nat
      BY <1>1, <1>2, <1>4
    <2>2. Due("digits", d, << >>, s) = Decimal[d]
      BY <1>1, <2>1, DigitsDue
    <2>3. Due(mode', d', buf', s') = Due(mode, d, buf, s)
      BY <1>1, <1>2, <1>4, <2>1, <2>2 DEF Due
    <2>4. QED
      BY <1>1, <2>1, <2>3, QuietStep DEF NumberRight
  <1>5. QED
    BY <1>3, <1>4

\* A digit moves from the number to the buffer.
LEMMA DigitsStep ==
  ASSUME Typed, Typed', NumberRight, Accounted, Digits
  PROVE  NumberRight' /\ Accounted'
  <1>1. mode = "digits" /\ UNCHANGED <<fmt, args, i, s, on, fifo, wire>>
    BY DEF Digits
  <1>2. d \in Nat /\ buf \in Strings
    BY <1>1 DEF Typed, NumberRight
  <1>3. CASE d > 0
    <2> DEFINE c == Digit(d % 10)
               q == d \div 10
    <2>1. mode' = mode /\ buf' = Append(buf, c) /\ d' = q
      BY <1>3 DEF Digits
    <2>2. q \in Nat /\ c \in Char /\ Left(q) \in Strings /\ Left(d) = Append(Left(q), c)
      BY <1>2, <1>3, LeftUnfolds DEF Strings
    <2> HIDE DEF c, q
    <2>3. Reverse(buf) \in Strings /\ Reverse(Append(buf, c)) = <<c>> \o Reverse(buf)
      BY <1>2, <2>2, StringReverses
    <2>4. Append(Left(q), c) \o Reverse(buf) = Left(q) \o (<<c>> \o Reverse(buf))
      BY <2>2, <2>3, StringAppends
    <2>5. Due(mode', d', buf', s') = Due(mode, d, buf, s)
      BY <1>1, <2>1, <2>2, <2>3, <2>4 DEF Due
    <2>6. Accounted'
      BY <1>1, <2>5, QuietStep
    <2>7. NumberRight'
      BY <1>1, <2>1, <2>2 DEF NumberRight
    <2>8. QED
      BY <2>6, <2>7
  <1>4. CASE ~(d > 0)
    <2>1. mode' = "emit" /\ UNCHANGED <<d, buf>> /\ d = 0
      BY <1>2, <1>4 DEF Digits
    <2>2. << >> \o Reverse(buf) = Reverse(buf)
      BY <1>2, StringReverses, StringJoins
    <2>3. Due(mode', d', buf', s') = Due(mode, d, buf, s)
      BY <1>1, <2>1, <2>2 DEF Due, Left
    <2>4. QED
      BY <1>1, <2>1, <2>3, QuietStep DEF NumberRight
  <1>5. QED
    BY <1>3, <1>4

\* The buffer is printed from its end.
LEMMA EmitStep ==
  ASSUME Typed, Typed', NumberRight, Accounted, Emit
  PROVE  NumberRight' /\ Accounted'
  <1>1. CASE /\ mode = "emit" /\ buf # << >> /\ UartPutc(Last(buf)) /\ buf' = Front(buf)
             /\ UNCHANGED <<args, mode, i, d, s>>
    <2> DEFINE c == Last(buf)
               r == Reverse(Front(buf))
    <2>1. c \in Char /\ r \in Strings /\ Reverse(buf) = <<c>> \o r
      BY <1>1, StringFacts, StringReverses DEF Typed
    <2> HIDE DEF c, r
    <2>2. Due(mode, d, buf, s) = <<c>> \o r /\ Due(mode', d', buf', s') = r
      BY <1>1, <2>1 DEF Due, r
    <2>3. Accounted'
      BY <1>1, <2>1, <2>2, DueStep DEF c
    <2>4. QED
      BY <1>1, <2>3 DEF NumberRight
  <1>2. CASE /\ mode = "emit" /\ buf = << >> /\ mode' = "printf"
             /\ UNCHANGED <<fmt, args, i, d, buf, s, on, fifo, wire>>
    <2>1. Due(mode', d', buf', s') = Due(mode, d, buf, s)
      BY <1>2, StringReverses DEF Due
    <2>2. QED
      BY <1>2, <2>1, QuietStep DEF NumberRight
  <1>3. QED
    BY <1>1, <1>2 DEF Emit

\* The line takes the oldest character of the FIFO.
LEMMA SendStep ==
  ASSUME Typed, NumberRight, Accounted, Send
  PROVE  NumberRight' /\ Accounted'
  <1>1. /\ fifo # << >> /\ wire' = Append(wire, Head(fifo)) /\ fifo' = Tail(fifo)
        /\ UNCHANGED <<fmt, args, mode, i, d, buf, s, on>>
    BY DEF Send
  <1>2. Append(wire, Head(fifo)) \o Tail(fifo) = wire \o fifo
    BY <1>1, StringSends DEF Typed
  <1>3. Printed' = Printed
    BY <1>1, <1>2 DEF Printed
  <1>4. QED
    BY <1>1, <1>3, KeepsAccount DEF NumberRight

\* A step takes no argument, or one.
LEMMA ArgumentsGrow ==
  ASSUME Typed, [Next]_vars
  PROVE  args' = args \/ \E a \in Arguments : args' = Append(args, a)
  <1>1. CASE PercentC
    <2> DEFINE values == {"c"}
    <2>1. \A c \in {"c"}, v \in values : [conversion |-> c, value |-> v] \in Arguments
      BY ConversionsTaken
    <2>2. Conversion({"c"}, values)
      BY <1>1 DEF PercentC
    <2> HIDE DEF values
    <2>3. QED
      BY <2>1, <2>2, ConversionFacts
  <1>2. CASE PercentD
    <2> DEFINE values == {Wrap(w) : w \in Ints}
    <2>1. \A c \in {"d"}, v \in values : [conversion |-> c, value |-> v] \in Arguments
      BY ConversionsTaken
    <2>2. Conversion({"d"}, values)
      BY <1>2 DEF PercentD
    <2> HIDE DEF values
    <2>3. QED
      BY <2>1, <2>2, ConversionFacts
  <1>3. CASE PercentL
    <2> DEFINE values == Longs
    <2>1. \A c \in {"l"}, v \in values : [conversion |-> c, value |-> v] \in Arguments
      BY ConversionsTaken
    <2>2. Conversion({"l"}, values)
      BY <1>3 DEF PercentL
    <2> HIDE DEF values
    <2>3. QED
      BY <2>1, <2>2, ConversionFacts
  <1>4. CASE PercentS
    <2> DEFINE cs == {"s", "x", "%", NUL}
               values == {<< >>, <<"s", "%">>}
    <2>1. \A c \in cs, v \in values : [conversion |-> c, value |-> v] \in Arguments
      BY ConversionsTaken
    <2>2. Conversion(cs, values)
      BY <1>4 DEF PercentS
    <2> HIDE DEF cs, values
    <2>3. QED
      BY <2>1, <2>2, ConversionFacts
  <1>5. CASE ~(PercentC \/ PercentD \/ PercentL \/ PercentS)
    BY <1>5 DEF Next, Printf, vars, UartInit, Plain, Puts, Zero, UintStart, IntStart,
                Digits, Emit, Send
  <1>6. QED
    BY <1>1, <1>2, <1>3, <1>4, <1>5

\* Every step keeps the account, while no argument is the lowest int.
LEMMA NextAccount ==
  ASSUME Typed, Typed', NumberRight, Accounted, NoIntMin', [Next]_vars
  PROVE  NumberRight' /\ Accounted'
  <1>1. CASE UNCHANGED vars
    <2>1. /\ UNCHANGED <<fmt, args, i, fifo, wire, mode, d>>
          /\ Due(mode', d', buf', s') = Due(mode, d, buf, s)
      BY <1>1 DEF vars
    <2>2. QED
      BY <2>1, QuietStep DEF NumberRight
  <1>2. CASE UartInit
    <2>1. /\ UNCHANGED <<fmt, args, i, fifo, wire>> /\ mode' = "printf"
          /\ Due(mode', d', buf', s') = Due(mode, d, buf, s)
      BY <1>2 DEF UartInit, Due
    <2>2. QED
      BY <2>1, QuietStep DEF NumberRight
  <1>3. QED
    BY <1>1, <1>2, PlainStep, PercentCStep, PercentDStep, PercentLStep, PercentSStep,
       PutsStep, ZeroStep, UintStartStep, IntStartStep, DigitsStep, EmitStep, SendStep
       DEF Next, Printf

\* The types hold and the account is kept.
LEMMA FormatInvariant == Spec => []FormatInv
  <1>1. Init => FormatInv
    BY InitTyped, InitAccount DEF FormatInv
  <1>2. FormatInv /\ [Next]_vars => FormatInv'
    <2> SUFFICES ASSUME FormatInv, [Next]_vars PROVE FormatInv'
      OBVIOUS
    <2>1. Typed /\ Typed'
      BY NextTyped DEF FormatInv
    <2>2. ASSUME NoIntMin' PROVE NumberRight' /\ Accounted'
      <3>1. NoIntMin
        BY <2>1, <2>2, ArgumentsGrow, NoIntMinBefore
      <3>2. NumberRight /\ Accounted
        BY <3>1 DEF FormatInv
      <3>3. QED
        BY <2>1, <2>2, <3>2, NextAccount
    <2>3. QED
      BY <2>1, <2>2 DEF FormatInv
  <1>3. QED
    BY <1>1, <1>2, PTL DEF Spec

\* What a call has put into the FIFO, sent or not, is the beginning of what it should
\* print: uart_printf, int2str, uint2str and uart_puts over uart_putc, for every
\* format, every argument but the lowest int and every depth of the FIFO.
THEOREM OutputIsRight == Spec => []OutputIsPrefix
  <1>1. FormatInv => OutputIsPrefix
    <2> SUFFICES ASSUME FormatInv, NoIntMin PROVE IsPrefix(wire \o fifo, Expected)
      BY DEF OutputIsPrefix
    <2>1. Typed /\ NumberRight /\ Accounted
      BY DEF FormatInv
    <2> DEFINE p == Due(mode, d, buf, s)
               t == TextFrom(args)[i][Len(args)]
               w == wire \o fifo
    <2>2. p \in Strings /\ w \in Strings
      BY <2>1, DueTyped, PrintedTyped
    <2>3. args \in Taken /\ i \in Nat /\ Len(args) \in Nat
      BY <2>1, Lengths DEF Typed
    <2>4. t \in Strings
      BY <2>1, <2>3, RestTyped
    <2>5. Extends(args)
      BY <2>3 DEF Extends
    <2>6. Expected = (w \o p) \o t
      BY <2>1, <2>3, <2>5 DEF Accounted, Expected, Printed
    <2> HIDE DEF p, t, w
    <2>7. Expected = w \o (p \o t) /\ p \o t \in Strings
      BY <2>2, <2>4, <2>6, StringRegroups, StringJoins
    <2>8. IsPrefix(w, Expected)
      BY <2>2, <2>7, Begins DEF Strings
    <2>9. QED
      BY <2>8 DEF w
  <1>2. QED
    BY <1>1, FormatInvariant, PTL

\* When the call is over, nothing is missing: what it put into the FIFO, sent or not,
\* is the whole text (uart_printf returns after its last uart_putc).
THEOREM CallPrintsAll ==
  Spec => [](mode = "printf" /\ i >= Len(fmt) /\ NoIntMin => wire \o fifo = Expected)
  <1>1. FormatInv =>
          (mode = "printf" /\ i >= Len(fmt) /\ NoIntMin => wire \o fifo = Expected)
    <2> SUFFICES ASSUME FormatInv, mode = "printf", i >= Len(fmt), NoIntMin
                 PROVE  wire \o fifo = Expected
      OBVIOUS
    <2>1. Typed /\ NumberRight /\ Accounted
      BY DEF FormatInv
    <2> DEFINE t == TextFrom(args)[i][Len(args)]
               w == wire \o fifo
    <2>2. args \in Taken /\ i \in Nat /\ Len(args) \in Nat /\ Len(fmt) \in Nat
      BY <2>1, Lengths DEF Typed
    <2>3. t = << >>
      BY <2>2, TextUnfolds
    <2>4. w \in Strings /\ w \o << >> = w
      BY <2>1, PrintedTyped, StringJoins
    <2>5. Extends(args)
      BY <2>2 DEF Extends
    <2>6. Expected = (w \o Due(mode, d, buf, s)) \o t
      BY <2>1, <2>2, <2>5 DEF Accounted, Expected, Printed
    <2>7. Due(mode, d, buf, s) = << >>
      BY DEF Due
    <2> HIDE DEF t, w
    <2>8. Expected = w
      BY <2>3, <2>4, <2>6, <2>7
    <2>9. QED
      BY <2>8 DEF w
  <1>2. QED
    BY <1>1, FormatInvariant, PTL
=============================================================================
