------------------------------ MODULE ReplProofs ------------------------------
(***************************************************************************)
(* The line editor for any keys, windows and lines of any length: a yank   *)
(* gives back what the kills before it took, no key but transpose_chars    *)
(* takes a character of two units apart, and the cursor of the terminal is *)
(* where the line is edited.                                               *)
(*                                                                         *)
(* A line is taken as the two parts on both sides of the cursor, and where *)
(* the cursor may stand in it is said by the two units next to it.  The    *)
(* terminal has a part in the last theorems only.                          *)
(***************************************************************************)
EXTENDS Repl, SequenceTheorems, FunctionTheorems, FiniteSetTheorems, WellFoundedInduction,
        TLAPS

----------------------------------------------------------------------------
(* Least and greatest positions.                                           *)

\* A set of natural numbers that has a member has a least one, which Min finds.
LEMMA MinIsLeast ==
  ASSUME NEW S \in SUBSET Nat, S # {}
  PROVE  Min(S) \in S /\ \A y \in S : Min(S) <= y
<1> DEFINE R == OpToRel(<, Nat)
<1>1. IsWellFoundedOn(R, Nat)
  BY NatLessThanWellFounded
<1>2. \A x, y \in Nat : x < y => <<x, y>> \in R
  BY DEF OpToRel
<1> HIDE DEF R
<1>3. PICK x \in S : \A y \in S : ~(<<y, x>> \in R)
  BY <1>1, WFMin
<1>4. \A y \in S : x <= y
  <2> TAKE y \in S
  <2>1. x \in Nat /\ y \in Nat
    OBVIOUS
  <2>2. ~(y < x)
    BY <1>2, <1>3, <2>1
  <2> QED
    BY <2>1, <2>2
<1> QED
  BY <1>4 DEF Min

\* A set of integers with a member and an upper bound has a greatest member,
\* which Max finds.
LEMMA MaxIsGreatest ==
  ASSUME NEW S \in SUBSET Int, S # {}, NEW b \in Int, \A y \in S : y <= b
  PROVE  Max(S) \in S /\ \A y \in S : y <= Max(S)
<1> DEFINE T == {n \in Nat : b - n \in S}
<1>1. T \in SUBSET Nat
  OBVIOUS
<1>2. PICK s \in S : TRUE
  OBVIOUS
<1>3. b - s \in T
  <2>1. b - s \in Nat /\ b - (b - s) = s
    BY <1>2
  <2> QED
    BY <2>1
<1>4. Min(T) \in T /\ \A n \in T : Min(T) <= n
  <2> HIDE DEF T
  <2> QED
    BY <1>1, <1>3, MinIsLeast
<1>5. PICK m \in T : \A n \in T : m <= n
  BY <1>4
<1>6. b - m \in S /\ m \in Nat
  OBVIOUS
<1>7. \A y \in S : y <= b - m
  <2> TAKE y \in S
  <2>1. b - y \in Nat /\ b - (b - y) = y
    OBVIOUS
  <2>2. m <= b - y
    BY <1>5, <2>1
  <2> QED
    BY <1>6, <2>1, <2>2
<1>8. \E x \in S : \A y \in S : x >= y
  BY <1>6, <1>7
<1> QED
  BY <1>8 DEF Max

\* The greater of two numbers.
LEMMA MaxOfTwo ==
  ASSUME NEW i \in Int, NEW j \in Int
  PROVE  Max({i, j}) = IF i >= j THEN i ELSE j
BY DEF Max

\* The smaller likewise.
LEMMA MinOfTwo ==
  ASSUME NEW i \in Int, NEW j \in Int
  PROVE  Min({i, j}) = IF i <= j THEN i ELSE j
BY DEF Min

----------------------------------------------------------------------------
(* Parts of a text.                                                        *)

Text == Seq(Unit)

\* What a substring between two positions of a text has at each place.
LEMMA SubIs ==
  ASSUME NEW s \in Text, NEW i \in 0..Len(s), NEW j \in i..Len(s)
  PROVE  /\ Sub(s, i, j) \in Text /\ Len(Sub(s, i, j)) = j - i
         /\ \A k \in 1..(j - i) : Sub(s, i, j)[k] = s[i + k]
<1>1. Len(s) \in Nat /\ i \in Int /\ j \in Int /\ i <= j /\ j <= Len(s) /\ 0 <= i
  BY LenProperties DEF Text
<1>2. Max({i, 0}) = i /\ Min({j, Len(s)}) = j
  BY <1>1, MaxOfTwo, MinOfTwo
<1>3. Sub(s, i, j) = SubSeq(s, i + 1, j)
  BY <1>1, <1>2 DEF Sub
<1>4. \A k \in (i + 1)..j : s[k] \in Unit
  BY <1>1 DEF Text
<1>5. /\ SubSeq(s, i + 1, j) \in Seq(Unit)
      /\ Len(SubSeq(s, i + 1, j)) = IF i + 1 <= j THEN j - (i + 1) + 1 ELSE 0
      /\ \A k \in 1..(j - (i + 1) + 1) : SubSeq(s, i + 1, j)[k] = s[(i + 1) + k - 1]
  BY <1>1, <1>4, SubSeqProperties
<1>6. j - (i + 1) + 1 = j - i /\ \A k \in 1..(j - i) : (i + 1) + k - 1 = i + k
  BY <1>1
<1> QED
  BY <1>1, <1>3, <1>5, <1>6 DEF Text

\* Two adjacent substrings are one.
LEMMA SubAdds ==
  ASSUME NEW s \in Text, NEW i \in 0..Len(s), NEW j \in i..Len(s), NEW k \in j..Len(s)
  PROVE  Sub(s, i, j) \o Sub(s, j, k) = Sub(s, i, k)
<1> DEFINE a == Sub(s, i, j)
           b == Sub(s, j, k)
           c == Sub(s, i, k)
<1>1. i \in Int /\ j \in Int /\ k \in Int /\ i <= j /\ j <= k /\ k <= Len(s)
      /\ 0 <= i /\ Len(s) \in Nat /\ i \in Nat /\ j \in Nat /\ k \in Nat
      /\ j \in 0..Len(s) /\ k \in i..Len(s)
  BY LenProperties DEF Text
<1>2. a \in Text /\ Len(a) = j - i /\ \A m \in 1..(j - i) : a[m] = s[i + m]
  BY <1>1, SubIs
<1>3. b \in Text /\ Len(b) = k - j /\ \A m \in 1..(k - j) : b[m] = s[j + m]
  BY <1>1, SubIs
<1>4. c \in Text /\ Len(c) = k - i /\ \A m \in 1..(k - i) : c[m] = s[i + m]
  BY <1>1, SubIs
<1> HIDE DEF a, b, c
<1>5. /\ a \o b \in Text /\ Len(a \o b) = Len(a) + Len(b)
      /\ \A m \in 1..(Len(a) + Len(b)) :
           (a \o b)[m] = IF m <= Len(a) THEN a[m] ELSE b[m - Len(a)]
  BY <1>2, <1>3, ConcatProperties DEF Text
<1>6. \A m \in 1..(k - i) : (a \o b)[m] = c[m]
  <2> TAKE m \in 1..(k - i)
  <2>1. CASE m <= j - i
    <3>1. m \in 1..(j - i) /\ m \in 1..(Len(a) + Len(b)) /\ m <= Len(a)
      BY <1>1, <1>2, <1>3, <2>1
    <3> QED
      BY <3>1, <1>2, <1>4, <1>5
  <2>2. CASE ~(m <= j - i)
    <3>1. /\ m - (j - i) \in 1..(k - j) /\ m \in 1..(Len(a) + Len(b)) /\ ~(m <= Len(a))
          /\ j + (m - (j - i)) = i + m
      BY <1>1, <1>2, <1>3, <2>2
    <3> QED
      BY <3>1, <1>2, <1>3, <1>4, <1>5
  <2> QED
    BY <2>1, <2>2
<1>7. Len(a \o b) = Len(c) /\ Len(c) = k - i
  BY <1>1, <1>2, <1>3, <1>4, <1>5
<1>8. a \o b = c
  BY <1>4, <1>5, <1>6, <1>7, SeqEqual DEF Text
<1> QED
  BY <1>8 DEF a, b, c

\* All of a text.
LEMMA SubAll ==
  ASSUME NEW s \in Text
  PROVE  Sub(s, 0, Len(s)) = s
<1>1. Len(s) \in Nat
  BY LenProperties DEF Text
<1>2. /\ Sub(s, 0, Len(s)) \in Text /\ Len(Sub(s, 0, Len(s))) = Len(s) - 0
      /\ \A k \in 1..(Len(s) - 0) : Sub(s, 0, Len(s))[k] = s[0 + k]
  <2>1. 0 \in 0..Len(s) /\ Len(s) \in 0..Len(s)
    BY <1>1
  <2> QED
    BY <2>1, SubIs
<1> QED
  BY <1>1, <1>2, SeqEqual DEF Text

\* Three texts put together.
LEMMA Assoc ==
  ASSUME NEW x \in Text, NEW y \in Text, NEW z \in Text
  PROVE  (x \o y) \o z = x \o (y \o z)
BY ConcatAssociative DEF Text

\* The parts of two texts put together.
LEMMA SubOfConcat ==
  ASSUME NEW x \in Text, NEW y \in Text
  PROVE  /\ x \o y \in Text /\ Len(x \o y) = Len(x) + Len(y)
         /\ Len(x) \in 0..Len(x \o y)
         /\ Sub(x \o y, 0, Len(x)) = x
         /\ Sub(x \o y, Len(x), Len(x \o y)) = y
<1> DEFINE n == Len(x)
           m == Len(y)
           z == x \o y
<1>1. n \in Nat /\ m \in Nat
  BY LenProperties DEF Text
<1>2. z \in Text /\ Len(z) = n + m
      /\ \A i \in 1..(n + m) : z[i] = IF i <= n THEN x[i] ELSE y[i - n]
  BY ConcatProperties DEF Text
<1> HIDE DEF z
<1>0. 0 \in 0..Len(z) /\ n \in 0..Len(z) /\ n + m \in n..Len(z)
  BY <1>1, <1>2
<1>3. /\ Sub(z, 0, n) \in Text /\ Len(Sub(z, 0, n)) = n - 0
      /\ \A k \in 1..(n - 0) : Sub(z, 0, n)[k] = z[0 + k]
  BY <1>0, <1>2, SubIs
<1>4. /\ Sub(z, n, n + m) \in Text /\ Len(Sub(z, n, n + m)) = (n + m) - n
      /\ \A k \in 1..((n + m) - n) : Sub(z, n, n + m)[k] = z[n + k]
  BY <1>0, <1>2, SubIs
<1>5. \A k \in 1..n : Sub(z, 0, n)[k] = x[k]
  BY <1>1, <1>2, <1>3
<1>6. \A k \in 1..m : Sub(z, n, n + m)[k] = y[k]
  <2> TAKE k \in 1..m
  <2>1. /\ n + k \in 1..(n + m) /\ ~(n + k <= n) /\ (n + k) - n = k
        /\ k \in 1..((n + m) - n)
    BY <1>1
  <2> QED
    BY <1>2, <1>4, <2>1
<1>7. Sub(z, 0, n) = x
  BY <1>1, <1>3, <1>5, SeqEqual DEF Text
<1>8. Sub(z, n, n + m) = y
  BY <1>1, <1>4, <1>6, SeqEqual DEF Text
<1> QED
  BY <1>1, <1>2, <1>7, <1>8 DEF z

----------------------------------------------------------------------------
(* Characters of two units.                                                *)

\* p is a position of s that is not inside of a character
Cut(s, p) ==
  /\ p \in 0..Len(s)
  /\ p > 0 => s[p] # "hi"
  /\ p < Len(s) => s[p + 1] # "lo"

\* In a whole text the unit before a position decides it.
LEMMA CutBefore ==
  ASSUME NEW s \in Text, Whole(s), NEW p \in 0..Len(s), p > 0 => s[p] # "hi"
  PROVE  Cut(s, p)
<1>1. Len(s) \in Nat /\ p \in Nat
  BY LenProperties DEF Text
<1>2. ASSUME p < Len(s), s[p + 1] = "lo"
      PROVE  FALSE
  <2>1. p + 1 \in 1..Len(s) /\ (p + 1) - 1 = p
    BY <1>1, <1>2
  <2>2. p + 1 > 1 /\ s[(p + 1) - 1] = "hi"
    BY <1>2, <2>1 DEF Whole
  <2> QED
    BY <1>1, <2>1, <2>2
<1> QED
  BY <1>2 DEF Cut

\* The unit behind the position decides it as well.
LEMMA CutAfter ==
  ASSUME NEW s \in Text, Whole(s), NEW p \in 0..Len(s), p < Len(s) => s[p + 1] # "lo"
  PROVE  Cut(s, p)
<1>1. Len(s) \in Nat /\ p \in Nat
  BY LenProperties DEF Text
<1>2. ASSUME p > 0, s[p] = "hi"
      PROVE  FALSE
  <2>1. p \in 1..Len(s)
    BY <1>1, <1>2
  <2>2. p < Len(s) /\ s[p + 1] = "lo"
    BY <1>2, <2>1 DEF Whole
  <2> QED
    BY <2>2
<1> QED
  BY <1>2 DEF Cut

\* The ends of a whole text.
LEMMA CutEnds ==
  ASSUME NEW s \in Text, Whole(s)
  PROVE  Cut(s, 0) /\ Cut(s, Len(s))
<1>1. Len(s) \in Nat
  BY LenProperties DEF Text
<1>2. Cut(s, 0)
  BY <1>1, CutBefore
<1>3. Cut(s, Len(s))
  BY <1>1, CutAfter
<1> QED
  BY <1>2, <1>3

\* What lies between two such positions is whole.
LEMMA WholeSub ==
  ASSUME NEW s \in Text, Whole(s), NEW i, NEW j, Cut(s, i), Cut(s, j), i <= j
  PROVE  Whole(Sub(s, i, j))
<1> DEFINE t == Sub(s, i, j)
<1>1. i \in Nat /\ j \in Nat /\ i \in 0..Len(s) /\ j \in i..Len(s) /\ Len(s) \in Nat
  BY LenProperties DEF Text, Cut
<1>2. Len(t) = j - i /\ \A k \in 1..(j - i) : t[k] = s[i + k]
  BY <1>1, SubIs
<1> HIDE DEF t
<1>3. SUFFICES ASSUME NEW k \in 1..(j - i)
               PROVE  /\ t[k] = "hi" => k < j - i /\ t[k + 1] = "lo"
                      /\ t[k] = "lo" => k > 1 /\ t[k - 1] = "hi"
  BY <1>2 DEF Whole, t
<1>4. i + k \in 1..Len(s) /\ k \in Nat /\ t[k] = s[i + k]
  BY <1>1, <1>2
<1>5. ASSUME t[k] = "hi" PROVE k < j - i /\ t[k + 1] = "lo"
  <2>1. s[(i + k) + 1] = "lo"
    BY <1>4, <1>5 DEF Whole
  <2>2. i + k # j
    <3>1. ASSUME i + k = j PROVE FALSE
      <4>1. s[i + k] = "hi"
        BY <1>4, <1>5
      <4>2. s[j] = "hi"
        BY <3>1, <4>1
      <4>3. j > 0
        BY <1>1, <1>4, <3>1
      <4> QED
        BY <4>2, <4>3 DEF Cut
    <3> QED
      BY <3>1
  <2>3. k + 1 \in 1..(j - i) /\ i + (k + 1) = (i + k) + 1
    BY <1>1, <1>4, <2>2
  <2> QED
    BY <1>1, <1>2, <1>4, <2>1, <2>3
<1>6. ASSUME t[k] = "lo" PROVE k > 1 /\ t[k - 1] = "hi"
  <2>1. s[(i + k) - 1] = "hi"
    BY <1>4, <1>6 DEF Whole
  <2>2. k # 1
    <3>1. ASSUME k = 1 PROVE FALSE
      <4>1. s[i + k] = "lo"
        BY <1>4, <1>6
      <4>2. s[i + 1] = "lo"
        BY <3>1, <4>1
      <4>3. i < Len(s)
        BY <1>1, <1>4, <3>1
      <4> QED
        BY <4>2, <4>3 DEF Cut
    <3> QED
      BY <3>1
  <2>3. k - 1 \in 1..(j - i) /\ i + (k - 1) = (i + k) - 1
    BY <1>1, <1>4, <2>2
  <2> QED
    BY <1>1, <1>2, <1>4, <2>1, <2>3
<1> QED
  BY <1>5, <1>6

\* Two whole texts make one, and where they meet is no character.
LEMMA WholeConcat ==
  ASSUME NEW x \in Text, NEW y \in Text, Whole(x), Whole(y)
  PROVE  Whole(x \o y) /\ Cut(x \o y, Len(x))
<1> DEFINE n == Len(x)
           m == Len(y)
           z == x \o y
<1>1. n \in Nat /\ m \in Nat
  BY LenProperties DEF Text
<1>2. z \in Text /\ Len(z) = n + m
      /\ \A i \in 1..(n + m) : z[i] = IF i <= n THEN x[i] ELSE y[i - n]
  BY ConcatProperties DEF Text
<1> HIDE DEF z
<1>3. \A i \in 1..n : i \in 1..(n + m) /\ z[i] = x[i]
  BY <1>1, <1>2
<1>4. \A i \in 1..m : n + i \in 1..(n + m) /\ z[n + i] = y[i]
  <2> TAKE i \in 1..m
  <2>1. n + i \in 1..(n + m) /\ ~(n + i <= n) /\ (n + i) - n = i
    BY <1>1
  <2> QED
    BY <1>2, <2>1
<1>5. ASSUME NEW i \in 1..(n + m)
      PROVE  /\ z[i] = "hi" => i < n + m /\ z[i + 1] = "lo"
             /\ z[i] = "lo" => i > 1 /\ z[i - 1] = "hi"
  <2>1. CASE i <= n
    <3>1. i \in 1..n /\ z[i] = x[i]
      BY <1>1, <1>3, <2>1
    <3>2. ASSUME z[i] = "hi" PROVE i < n + m /\ z[i + 1] = "lo"
      <4>1. i < n /\ x[i + 1] = "lo"
        BY <3>1, <3>2 DEF Whole
      <4>2. i + 1 \in 1..n
        BY <1>1, <3>1, <4>1
      <4> QED
        BY <1>1, <1>3, <4>1, <4>2
    <3>3. ASSUME z[i] = "lo" PROVE i > 1 /\ z[i - 1] = "hi"
      <4>1. i > 1 /\ x[i - 1] = "hi"
        BY <3>1, <3>3 DEF Whole
      <4>2. i - 1 \in 1..n
        BY <1>1, <3>1, <4>1
      <4> QED
        BY <1>3, <4>1, <4>2
    <3> QED
      BY <3>2, <3>3
  <2>2. CASE ~(i <= n)
    <3>1. i - n \in 1..m /\ i = n + (i - n) /\ z[i] = y[i - n]
      BY <1>1, <1>2, <2>2
    <3>2. ASSUME z[i] = "hi" PROVE i < n + m /\ z[i + 1] = "lo"
      <4>1. i - n < m /\ y[(i - n) + 1] = "lo"
        BY <3>1, <3>2 DEF Whole
      <4>2. (i - n) + 1 \in 1..m /\ n + ((i - n) + 1) = i + 1 /\ i < n + m
        BY <1>1, <3>1, <4>1
      <4>3. z[n + ((i - n) + 1)] = y[(i - n) + 1]
        BY <1>4, <4>2
      <4> QED
        BY <4>1, <4>2, <4>3
    <3>3. ASSUME z[i] = "lo" PROVE i > 1 /\ z[i - 1] = "hi"
      <4>1. i - n > 1 /\ y[(i - n) - 1] = "hi"
        BY <3>1, <3>3 DEF Whole
      <4>2. (i - n) - 1 \in 1..m /\ n + ((i - n) - 1) = i - 1
        BY <1>1, <3>1, <4>1
      <4> QED
        BY <1>1, <1>4, <4>1, <4>2
    <3> QED
      BY <3>2, <3>3
  <2> QED
    BY <2>1, <2>2
<1>6. Whole(z)
  BY <1>2, <1>5 DEF Whole
<1>7. n > 0 => z[n] # "hi"
  <2>1. ASSUME n > 0, z[n] = "hi" PROVE FALSE
    <3>1. n \in 1..n /\ x[n] = "hi"
      BY <1>1, <1>3, <2>1
    <3>2. n < n
      BY <3>1 DEF Whole
    <3> QED
      BY <1>1, <3>2
  <2> QED
    BY <2>1
<1>8. Cut(z, n)
  <2>1. n \in 0..Len(z)
    BY <1>1, <1>2
  <2> QED
    BY <1>2, <1>6, <1>7, <2>1, CutBefore
<1> QED
  BY <1>6, <1>8 DEF z

\* A position before which a whole text is whole.
LEMMA CutPrefix ==
  ASSUME NEW s \in Text, Whole(s), NEW p \in 0..Len(s), Whole(Sub(s, 0, p))
  PROVE  Cut(s, p)
<1>1. Len(s) \in Nat /\ p \in Nat /\ 0 \in 0..Len(s)
  BY LenProperties DEF Text
<1>2. Len(Sub(s, 0, p)) = p - 0 /\ \A k \in 1..(p - 0) : Sub(s, 0, p)[k] = s[0 + k]
  BY <1>1, SubIs
<1>3. ASSUME p > 0, s[p] = "hi" PROVE FALSE
  <2>1. p \in 1..(p - 0) /\ Sub(s, 0, p)[p] = "hi" /\ Len(Sub(s, 0, p)) = p
    BY <1>1, <1>2, <1>3
  <2>2. p \in 1..Len(Sub(s, 0, p))
    BY <1>1, <2>1
  <2>3. p < Len(Sub(s, 0, p))
    BY <2>1, <2>2 DEF Whole
  <2> QED
    BY <1>1, <2>1, <2>3
<1> QED
  BY <1>3, CutBefore

\* The two sides of such a position.
LEMMA CutHalves ==
  ASSUME NEW s \in Text, Whole(s), NEW p, Cut(s, p)
  PROVE  /\ Sub(s, 0, p) \in Text /\ Whole(Sub(s, 0, p)) /\ Len(Sub(s, 0, p)) = p
         /\ Sub(s, p, Len(s)) \in Text /\ Whole(Sub(s, p, Len(s)))
         /\ Sub(s, 0, p) \o Sub(s, p, Len(s)) = s
<1>1. /\ Len(s) \in Nat /\ p \in Nat /\ 0 \in 0..Len(s) /\ p \in 0..Len(s)
      /\ Len(s) \in p..Len(s) /\ p <= Len(s) /\ 0 <= p /\ p - 0 = p
  BY LenProperties DEF Text, Cut
<1>2. Cut(s, 0) /\ Cut(s, Len(s))
  BY CutEnds
<1>3. Whole(Sub(s, 0, p)) /\ Whole(Sub(s, p, Len(s)))
  BY <1>1, <1>2, WholeSub
<1>4. /\ Sub(s, 0, p) \in Text /\ Len(Sub(s, 0, p)) = p - 0 /\ Sub(s, p, Len(s)) \in Text
  BY <1>1, SubIs
<1>5. Sub(s, 0, p) \o Sub(s, p, Len(s)) = s
  BY <1>1, SubAdds, SubAll
<1> QED
  BY <1>1, <1>3, <1>4, <1>5

----------------------------------------------------------------------------
(* Where commands move to.                                                 *)

\* Over stops at the end or before a unit of another kind, and all it passed
\* are of the kinds.
LEMMA OverIs ==
  ASSUME NEW s \in Text, NEW p \in 0..Len(s), NEW kinds
  PROVE  /\ Over(s, p, kinds) \in p..Len(s)
         /\ Over(s, p, kinds) = Len(s) \/ s[Over(s, p, kinds) + 1] \notin kinds
         /\ \A r \in p..(Over(s, p, kinds) - 1) : s[r + 1] \in kinds
<1>1. Len(s) \in Nat /\ p \in Nat /\ p <= Len(s)
  BY LenProperties DEF Text
<1>2. Max({p, Len(s)}) = Len(s)
  BY <1>1, MaxOfTwo
<1> DEFINE S == {q \in p..Len(s) : q >= Len(s) \/ s[q + 1] \notin kinds}
           m == Over(s, p, kinds)
<1>3. m = Min(S)
  BY <1>2 DEF Over
<1>4. S \in SUBSET Nat /\ Len(s) \in S
  BY <1>1
<1>5. m \in S /\ \A y \in S : m <= y
  <2> HIDE DEF S, m
  <2> QED
    BY <1>3, <1>4, MinIsLeast
<1> HIDE DEF m
<1>6. m \in p..Len(s) /\ (m = Len(s) \/ s[m + 1] \notin kinds)
  BY <1>1, <1>5
<1>7. ASSUME NEW r \in p..(m - 1), s[r + 1] \notin kinds PROVE FALSE
  <2>1. r \in S /\ r < m
    BY <1>1, <1>6, <1>7
  <2>2. m <= r
    BY <1>5, <2>1
  <2> QED
    BY <1>1, <1>6, <2>1, <2>2
<1>8. \A r \in p..(m - 1) : s[r + 1] \in kinds
  BY <1>7
<1> QED
  BY <1>6, <1>8 DEF m

\* Back stops at the beginning or behind a unit of another kind.
LEMMA BackIs ==
  ASSUME NEW s \in Text, NEW p \in 0..Len(s), NEW kinds
  PROVE  /\ Back(s, p, kinds) \in 0..p
         /\ Back(s, p, kinds) = 0 \/ s[Back(s, p, kinds)] \notin kinds
         /\ \A r \in (Back(s, p, kinds) + 1)..p : s[r] \in kinds
<1>1. p \in Nat
  BY LenProperties DEF Text
<1> DEFINE S == {q \in 0..p : q = 0 \/ s[q] \notin kinds}
           m == Back(s, p, kinds)
<1>2. m = Max(S)
  BY DEF Back
<1>3. S \in SUBSET Int /\ 0 \in S /\ p \in Int /\ \A y \in S : y <= p
  BY <1>1
<1>4. m \in S /\ \A y \in S : y <= m
  <2> HIDE DEF S, m
  <2> QED
    BY <1>2, <1>3, MaxIsGreatest
<1> HIDE DEF m
<1>5. m \in 0..p /\ (m = 0 \/ s[m] \notin kinds)
  BY <1>4
<1>6. ASSUME NEW r \in (m + 1)..p, s[r] \notin kinds PROVE FALSE
  <2>1. r \in S /\ m < r
    BY <1>1, <1>5, <1>6
  <2>2. r <= m
    BY <1>4, <2>1
  <2> QED
    BY <1>1, <1>5, <2>1, <2>2
<1>7. \A r \in (m + 1)..p : s[r] \in kinds
  BY <1>6
<1> QED
  BY <1>5, <1>7 DEF m

\* Lead goes back over trailing surrogates.
LEMMA LeadIs ==
  ASSUME NEW s \in Text, NEW p \in -1..(Len(s) - 1)
  PROVE  /\ Lead(s, p) \in -1..p
         /\ Lead(s, p) = -1 \/ s[Lead(s, p) + 1] # "lo"
         /\ \A r \in (Lead(s, p) + 1)..p : s[r + 1] = "lo"
<1>1. Len(s) \in Nat /\ p \in Int /\ -1 <= p /\ p < Len(s)
  BY LenProperties DEF Text
<1> DEFINE S == {q \in -1..p : q < 0 \/ q >= Len(s) \/ s[q + 1] # "lo"}
           m == Lead(s, p)
<1>2. m = Max(S)
  BY DEF Lead
<1>3. S \in SUBSET Int /\ -1 \in S /\ \A y \in S : y <= p
  BY <1>1
<1>4. m \in S /\ \A y \in S : y <= m
  <2> HIDE DEF S, m
  <2> QED
    BY <1>1, <1>2, <1>3, MaxIsGreatest
<1> HIDE DEF m
<1>5. m \in -1..p /\ (m = -1 \/ s[m + 1] # "lo")
  BY <1>1, <1>4
<1>6. ASSUME NEW r \in (m + 1)..p, s[r + 1] # "lo" PROVE FALSE
  <2>1. r \in S /\ m < r
    BY <1>1, <1>5, <1>6
  <2>2. r <= m
    BY <1>4, <2>1
  <2> QED
    BY <1>1, <1>5, <2>1, <2>2
<1>7. \A r \in (m + 1)..p : s[r + 1] = "lo"
  BY <1>6
<1> QED
  BY <1>5, <1>7 DEF m

\* The motions over words stay in the line.
LEMMA SkipsInside ==
  ASSUME NEW s \in Text, NEW p \in 0..Len(s)
  PROVE  skip_word_forward(s, p) \in p..Len(s) /\ skip_word_backward(s, p) \in 0..p
<1>1. Len(s) \in Nat /\ p \in Nat
  BY LenProperties DEF Text
<1>2. Over(s, p, NonWord) \in p..Len(s) /\ Back(s, p, NonWord) \in 0..p
  BY OverIs, BackIs
<1>3. Over(s, p, NonWord) \in 0..Len(s) /\ Back(s, p, NonWord) \in 0..Len(s)
  BY <1>1, <1>2
<1>4. /\ skip_word_forward(s, p) \in Over(s, p, NonWord)..Len(s)
      /\ skip_word_backward(s, p) \in 0..Back(s, p, NonWord)
  BY <1>3, OverIs, BackIs DEF skip_word_forward, skip_word_backward
<1> QED
  BY <1>1, <1>2, <1>4

\* A unit of a word is no half of a character.
LEMMA WordIsNoHalf ==
  ASSUME NEW u \in Unit
  PROVE  /\ u \in Word => u # "hi" /\ u # "lo"
         /\ u \notin NonWord => u \in Word
BY DEF Unit, Word, NonWord

\* A word forward is not into a character.
LEMMA ForwardCut ==
  ASSUME NEW s \in Text, Whole(s), NEW p \in 0..Len(s)
  PROVE  Cut(s, skip_word_forward(s, p))
<1> DEFINE f == Over(s, p, NonWord)
           q == skip_word_forward(s, p)
<1>1. /\ Len(s) \in Nat /\ p \in Nat
      /\ f \in p..Len(s) /\ (f = Len(s) \/ s[f + 1] \notin NonWord)
  BY OverIs, LenProperties DEF Text
<1>2. f \in 0..Len(s)
  BY <1>1
<1>3. /\ q \in f..Len(s) /\ (q = Len(s) \/ s[q + 1] \notin Word)
      /\ \A r \in f..(q - 1) : s[r + 1] \in Word
  BY <1>2, OverIs DEF skip_word_forward
<1> HIDE DEF f, q
<1>4. ASSUME q = Len(s) PROVE Cut(s, q)
  BY <1>4, CutEnds
<1>5. ASSUME q # Len(s) PROVE Cut(s, q)
  <2>1. f # Len(s) /\ f + 1 \in 1..Len(s)
    BY <1>1, <1>3, <1>5
  <2>2. s[f + 1] \in Word
    BY <1>1, <2>1, WordIsNoHalf, ElementOfSeq DEF Text
  <2>3. q # f /\ q - 1 \in f..(q - 1) /\ (q - 1) + 1 = q
    BY <1>1, <1>3, <1>5, <2>2
  <2>4. s[q] \in Word
    BY <1>3, <2>3
  <2>5. q \in 0..Len(s) /\ s[q] # "hi"
    BY <1>1, <1>3, <2>4 DEF Word
  <2> QED
    BY <2>5, CutBefore
<1> QED
  BY <1>4, <1>5 DEF q

\* A word backward is not into a character.
LEMMA BackwardCut ==
  ASSUME NEW s \in Text, Whole(s), NEW p \in 0..Len(s)
  PROVE  Cut(s, skip_word_backward(s, p))
<1> DEFINE f == Back(s, p, NonWord)
           q == skip_word_backward(s, p)
<1>1. /\ Len(s) \in Nat /\ p \in Nat /\ p <= Len(s)
      /\ f \in 0..p /\ (f = 0 \/ s[f] \notin NonWord)
  BY BackIs, LenProperties DEF Text
<1>2. f \in 0..Len(s)
  BY <1>1
<1>3. /\ q \in 0..f /\ (q = 0 \/ s[q] \notin Word)
      /\ \A r \in (q + 1)..f : s[r] \in Word
  BY <1>2, BackIs DEF skip_word_backward
<1> HIDE DEF f, q
<1>4. ASSUME q = 0 PROVE Cut(s, q)
  BY <1>4, CutEnds
<1>5. ASSUME q # 0 PROVE Cut(s, q)
  <2>1. f # 0 /\ f \in 1..Len(s)
    BY <1>1, <1>3, <1>5
  <2>2. s[f] \in Word
    BY <1>1, <2>1, WordIsNoHalf, ElementOfSeq DEF Text
  <2>3. q # f /\ q + 1 \in (q + 1)..f
    BY <1>1, <1>3, <1>5, <2>2
  <2>4. s[q + 1] \in Word
    BY <1>3, <2>3
  <2>5. q \in 0..Len(s) /\ s[q + 1] # "lo"
    BY <1>1, <1>3, <2>4 DEF Word
  <2> QED
    BY <2>5, CutAfter
<1> QED
  BY <1>4, <1>5 DEF q

\* Neither is a character forward or backward.
LEMMA CharCut ==
  ASSUME NEW s \in Text, Whole(s)
  PROVE  /\ \A p \in 0..Len(s) : Cut(s, Over(s, p, {"lo"}))
         /\ \A p \in -1..(Len(s) - 1) : Lead(s, p) # -1 => Cut(s, Lead(s, p))
<1>1. Len(s) \in Nat
  BY LenProperties DEF Text
<1>2. ASSUME NEW p \in 0..Len(s)
      PROVE  Cut(s, Over(s, p, {"lo"}))
  <2> DEFINE q == Over(s, p, {"lo"})
  <2>1. q \in p..Len(s) /\ (q = Len(s) \/ s[q + 1] \notin {"lo"})
    BY OverIs
  <2> HIDE DEF q
  <2>2. q \in 0..Len(s) /\ (q < Len(s) => s[q + 1] # "lo")
    BY <1>1, <2>1
  <2>3. Cut(s, q)
    BY <2>2, CutAfter
  <2> QED
    BY <2>3 DEF q
<1>3. ASSUME NEW p \in -1..(Len(s) - 1), Lead(s, p) # -1
      PROVE  Cut(s, Lead(s, p))
  <2> DEFINE q == Lead(s, p)
  <2>1. q \in -1..p /\ s[q + 1] # "lo"
    BY <1>3, LeadIs
  <2>2. q # -1
    BY <1>3
  <2> HIDE DEF q
  <2>3. q \in 0..Len(s)
    BY <1>1, <2>1, <2>2
  <2>4. Cut(s, q)
    BY <2>1, <2>3, CutAfter
  <2> QED
    BY <2>4 DEF q
<1> QED
  BY <1>2, <1>3

----------------------------------------------------------------------------
(* Lines that commands make.                                               *)

\* s is a whole line, and so are its two sides at p
Fits(s, p) == Whole(s) /\ Cut(s, Clamped(p, s))

\* The cursor is put into the line.
LEMMA ClampedInside ==
  ASSUME NEW s \in Text, NEW p \in Int
  PROVE  /\ Clamped(p, s) \in 0..Len(s)
         /\ p \in 0..Len(s) => Clamped(p, s) = p
         /\ p <= 0 => Clamped(p, s) = 0
         /\ p >= Len(s) => Clamped(p, s) = Len(s)
<1>1. Len(s) \in Nat
  BY LenProperties DEF Text
<1> QED
  BY <1>1 DEF Clamped

\* A position outside of a character fits, and so does one outside of the line.
LEMMA FitsCut ==
  ASSUME NEW s \in Text, Whole(s)
  PROVE  /\ \A p : Cut(s, p) => Fits(s, p)
         /\ \A p \in Int : p <= 0 \/ p >= Len(s) => Fits(s, p)
<1>1. ASSUME NEW p, Cut(s, p) PROVE Fits(s, p)
  <2>1. p \in 0..Len(s) /\ p \in Int
    BY <1>1, LenProperties DEF Cut, Text
  <2>2. Clamped(p, s) = p
    BY <2>1, ClampedInside
  <2> QED
    BY <1>1, <2>2 DEF Fits
<1>2. ASSUME NEW p \in Int, p <= 0 \/ p >= Len(s) PROVE Fits(s, p)
  <2>1. Clamped(p, s) = 0 \/ Clamped(p, s) = Len(s)
    BY <1>2, ClampedInside
  <2> QED
    BY <2>1, CutEnds DEF Fits
<1> QED
  BY <1>1, <1>2

\* Where two whole texts meet.
LEMMA FitsParts ==
  ASSUME NEW x \in Text, NEW y \in Text, Whole(x), Whole(y)
  PROVE  Fits(x \o y, Len(x))
<1>1. x \o y \in Text /\ Whole(x \o y) /\ Cut(x \o y, Len(x))
  BY WholeConcat, SubOfConcat
<1> QED
  BY <1>1, FitsCut

\* A line with something inserted is a line, whole behind what was inserted if
\* both are whole and it goes into no character.
LEMMA InsertFits ==
  ASSUME NEW s \in Text, NEW p \in 0..Len(s), NEW t \in Text
  PROVE  /\ Inserted(s, p, t) \in Text
         /\ p + Len(t) \in 0..Len(Inserted(s, p, t))
         /\ Whole(s) /\ Cut(s, p) /\ Whole(t) => Fits(Inserted(s, p, t), p + Len(t))
<1> DEFINE x == Sub(s, 0, p)
           y == Sub(s, p, Len(s))
<1>1. /\ Len(s) \in Nat /\ p \in Nat /\ 0 \in 0..Len(s) /\ p \in 0..Len(s)
      /\ Len(s) \in p..Len(s) /\ p - 0 = p /\ Len(t) \in Nat
  BY LenProperties DEF Text
<1>2. x \in Text /\ y \in Text /\ Len(x) = p - 0
  BY <1>1, SubIs
<1>3. Inserted(s, p, t) = (x \o t) \o y
  BY DEF Inserted
<1> HIDE DEF x, y
<1>4. x \o t \in Text /\ Len(x \o t) = p + Len(t)
  <2>1. x \o t \in Text /\ Len(x \o t) = Len(x) + Len(t)
    BY <1>2, SubOfConcat
  <2> QED
    BY <1>1, <1>2, <2>1
<1>5. (x \o t) \o y \in Text /\ Len(x \o t) \in 0..Len((x \o t) \o y)
  BY <1>2, <1>4, SubOfConcat
<1>6. ASSUME Whole(s), Cut(s, p), Whole(t)
      PROVE  Fits((x \o t) \o y, p + Len(t))
  <2>1. Whole(x) /\ Whole(y)
    BY <1>6, CutHalves DEF x, y
  <2>2. Whole(x \o t)
    BY <1>2, <1>6, <2>1, WholeConcat
  <2>3. Fits((x \o t) \o y, Len(x \o t))
    BY <1>2, <1>4, <2>1, <2>2, FitsParts
  <2> QED
    BY <1>4, <2>3
<1> QED
  BY <1>3, <1>4, <1>5, <1>6

\* A line with a part taken out.
LEMMA CutOutFits ==
  ASSUME NEW s \in Text, NEW i \in 0..Len(s), NEW j \in i..Len(s)
  PROVE  /\ Sub(s, 0, i) \in Text /\ Sub(s, i, j) \in Text /\ Sub(s, j, Len(s)) \in Text
         /\ Len(Sub(s, 0, i)) = i
         /\ Sub(s, 0, i) \o Sub(s, j, Len(s)) \in Text
         /\ i \in 0..Len(Sub(s, 0, i) \o Sub(s, j, Len(s)))
         /\ Whole(s) /\ Cut(s, i) /\ Cut(s, j) =>
              /\ Fits(Sub(s, 0, i) \o Sub(s, j, Len(s)), i)
              /\ Whole(Sub(s, i, j))
<1> DEFINE x == Sub(s, 0, i)
           y == Sub(s, j, Len(s))
<1>1. /\ Len(s) \in Nat /\ i \in Nat /\ j \in Nat /\ 0 \in 0..Len(s) /\ i \in 0..Len(s)
      /\ j \in 0..Len(s) /\ Len(s) \in j..Len(s) /\ i - 0 = i /\ i <= j
  BY LenProperties DEF Text
<1>2. x \in Text /\ y \in Text /\ Len(x) = i - 0 /\ Sub(s, i, j) \in Text
  BY <1>1, SubIs
<1>3. ASSUME Whole(s), Cut(s, i), Cut(s, j)
      PROVE  Whole(x) /\ Whole(y) /\ Whole(Sub(s, i, j))
  <2>1. Whole(x)
    BY <1>3, CutHalves
  <2>2. Whole(y)
    BY <1>3, CutHalves
  <2>3. Whole(Sub(s, i, j))
    BY <1>1, <1>3, WholeSub
  <2> QED
    BY <2>1, <2>2, <2>3
<1> HIDE DEF x, y
<1>4. x \o y \in Text /\ Len(x) \in 0..Len(x \o y)
  BY <1>2, SubOfConcat
<1>5. ASSUME Whole(s), Cut(s, i), Cut(s, j)
      PROVE  Fits(x \o y, i) /\ Whole(Sub(s, i, j))
  <2>1. Fits(x \o y, Len(x))
    BY <1>2, <1>3, <1>5, FitsParts
  <2> QED
    BY <1>1, <1>2, <1>3, <1>5, <2>1
<1>6. Len(x) = i
  BY <1>1, <1>2
<1>7. x \in Text /\ Sub(s, i, j) \in Text /\ y \in Text /\ x \o y \in Text
      /\ i \in 0..Len(x \o y)
  BY <1>2, <1>4, <1>6
<1> QED
  BY <1>5, <1>6, <1>7 DEF x, y

\* The characters that are typed, and what completion inserts, are whole.
LEMMA TypedWhole ==
  ASSUME NEW t, t \in Typed \cup Completed
  PROVE  t \in Text /\ Whole(t)
<1>1. CASE t \in Typed
  <2>1. t \in {<< "a" >>, << "." >>, << "hi", "lo" >>}
    BY <1>1, WidthAssumption
  <2>2. CASE t = << "a" >>
    BY <2>2 DEF Text, Unit, Word, NonWord, Whole
  <2>3. CASE t = << "." >>
    BY <2>3 DEF Text, Unit, Word, NonWord, Whole
  <2>4. CASE t = << "hi", "lo" >>
    <3>1. Len(t) = 2 /\ t[1] = "hi" /\ t[2] = "lo" /\ t \in Text
      BY <2>4 DEF Text, Unit, Word, NonWord
    <3>2. \A i \in 1..2 : i = 1 \/ i = 2
      OBVIOUS
    <3> QED
      BY <3>1, <3>2 DEF Whole
  <2> QED
    BY <2>1, <2>2, <2>3, <2>4
<1>2. CASE t \in Completed
  <2>1. t \in Seq({"a", "."})
    BY <1>2, WidthAssumption
  <2>2. \A i \in 1..Len(t) : t[i] # "hi" /\ t[i] # "lo"
    <3> TAKE i \in 1..Len(t)
    <3>1. t[i] \in {"a", "."}
      BY <2>1, ElementOfSeq
    <3> QED
      BY <3>1
  <2>3. t \in Text
    BY <2>1, SeqMonotonic DEF Text, Unit, Word, NonWord
  <2> QED
    BY <2>2, <2>3 DEF Whole
<1> QED
  BY <1>1, <1>2

----------------------------------------------------------------------------
(* The invariant.                                                          *)

\* The types of the text and the history: the terminal plays no part.
Types ==
  /\ cmd \in Text /\ cursor_pos \in 0..Len(cmd)
  /\ clip_board \in Text
  /\ history \in Seq(Text) /\ history_index \in 0..Len(history)
  /\ last_fun \in Funs
  /\ quote_flag \in BOOLEAN /\ (quote_flag => last_fun = "other")
  /\ before = NoLine \/ before \in Text \X Text

\* the line is whole and the cursor in no character
Sound == Whole(cmd) /\ Cut(cmd, cursor_pos)

LeftOf == Sub(cmd, 0, cursor_pos)

RightOf == Sub(cmd, cursor_pos, Len(cmd))

\* t falls into what was killed to the left of the cursor, behind what still
\* stands there, and what was killed to its right
Splits(t, halves) ==
  \E a, b \in Text : t = a \o b /\ halves[1] = LeftOf \o a /\ halves[2] = b \o RightOf

\* in a row of kills that began at a whole line
Kept ==
  Killing /\ before # NoLine /\ Whole(before[1]) /\ Whole(before[2]) =>
    Sound /\ Splits(clip_board, before)

KInv == Types /\ Kept

\* The sides of the line in a state of the right types.
LEMMA SidesOfLine ==
  ASSUME Types
  PROVE  /\ LeftOf \in Text /\ RightOf \in Text /\ Len(LeftOf) = cursor_pos
         /\ LeftOf \o RightOf = cmd
<1>1. /\ Len(cmd) \in Nat /\ cursor_pos \in Nat /\ 0 \in 0..Len(cmd)
      /\ cursor_pos \in 0..Len(cmd) /\ Len(cmd) \in cursor_pos..Len(cmd)
      /\ cmd \in Text /\ cursor_pos - 0 = cursor_pos
  BY LenProperties DEF Types, Text
<1>2. LeftOf \in Text /\ Len(LeftOf) = cursor_pos - 0 /\ RightOf \in Text
  BY <1>1, SubIs DEF LeftOf, RightOf
<1>3. LeftOf \o RightOf = cmd
  BY <1>1, SubAdds, SubAll DEF LeftOf, RightOf
<1> QED
  BY <1>1, <1>2, <1>3

\* The invariant gives the line back.
LEMMA SplitsGive ==
  ASSUME Types, NEW t \in Text, NEW left, NEW right, Splits(t, << left, right >>)
  PROVE  Inserted(cmd, cursor_pos, t) = left \o right
<1> DEFINE l == LeftOf
           r == RightOf
<1>1. l \in Text /\ r \in Text
  BY SidesOfLine
<1>2. PICK a \in Text, b \in Text : t = a \o b /\ left = l \o a /\ right = b \o r
  BY DEF Splits
<1>3. Inserted(cmd, cursor_pos, t) = (l \o t) \o r
  BY DEF Inserted, LeftOf, RightOf
<1> HIDE DEF l, r
<1>4. b \o r \in Text /\ l \o a \in Text
  BY <1>1, <1>2, SubOfConcat
<1>5. (l \o a) \o b = l \o (a \o b)
  <2>1. l \in Text /\ a \in Text /\ b \in Text
    BY <1>1, <1>2
  <2> QED
    BY ONLY <2>1, Assoc
<1>6. ((l \o a) \o b) \o r = (l \o a) \o (b \o r)
  <2> DEFINE k == l \o a
  <2>1. k \in Text /\ b \in Text /\ r \in Text
    BY <1>1, <1>2, <1>4
  <2> HIDE DEF k
  <2>2. (k \o b) \o r = k \o (b \o r)
    BY ONLY <2>1, Assoc
  <2> QED
    BY <2>2 DEF k
<1> QED
  BY <1>2, <1>3, <1>5, <1>6

----------------------------------------------------------------------------
(* What a kill leaves.                                                     *)

\* what is on the clipboard when the next kill is added to it
Standing == IF Killing THEN clip_board ELSE << >>

CollectedIs(piece, dir) == IF dir < 0 THEN piece \o Standing ELSE Standing \o piece

\* That is what Collected says.
LEMMA CollectedStanding ==
  ASSUME Types, NEW piece \in Text, NEW dir \in Int
  PROVE  Standing \in Text /\ Collected(piece, dir) = CollectedIs(piece, dir)
                           /\ Collected(piece, dir) \in Text
<1>1. << >> \in Text
  BY DEF Text
<1>2. Standing \in Text
  BY <1>1 DEF Standing, Types
<1>3. Collected(piece, dir) = CollectedIs(piece, dir)
  <2>1. CASE Killing
    BY <2>1 DEF Collected, CollectedIs, Standing
  <2>2. CASE ~Killing
    <3>1. piece \o << >> = piece /\ << >> \o piece = piece
      BY ConcatEmptySeq DEF Text
    <3> QED
      BY <2>2, <3>1 DEF Collected, CollectedIs, Standing
  <2> QED
    BY <2>1, <2>2
<1>4. CollectedIs(piece, dir) \in Text
  BY <1>2, SubOfConcat DEF CollectedIs
<1> QED
  BY <1>2, <1>3, <1>4

\* Before a kill: the line before the row of kills falls into the two sides
\* and what stands on the clipboard.
LEMMA BeforeKill ==
  ASSUME KInv, NEW halves,
         halves = IF Killing THEN before ELSE << LeftOf, RightOf >>,
         halves # NoLine, Whole(halves[1]), Whole(halves[2])
  PROVE  Sound /\ Splits(Standing, halves)
<1>1. CASE Killing
  BY <1>1 DEF KInv, Kept, Standing
<1>2. CASE ~Killing
  <2>1. halves[1] = LeftOf /\ halves[2] = RightOf
    BY <1>2
  <2>2. /\ LeftOf \in Text /\ RightOf \in Text /\ Len(LeftOf) = cursor_pos
        /\ LeftOf \o RightOf = cmd
    BY SidesOfLine DEF KInv
  <2>3. Sound
    BY <2>1, <2>2, WholeConcat DEF Sound
  <2>4. /\ << >> \in Text /\ << >> \o << >> = << >>
        /\ LeftOf \o << >> = LeftOf /\ << >> \o RightOf = RightOf
    BY <2>2, ConcatEmptySeq DEF Text
  <2>5. Splits(<< >>, halves)
    BY <2>1, <2>4 DEF Splits
  <2> QED
    BY <1>2, <2>3, <2>5 DEF Standing
<1> QED
  BY <1>1, <1>2

\* A kill to the right of the cursor.
LEMMA ForwardSplits ==
  ASSUME Types, Sound, NEW end \in cursor_pos..Len(cmd), Cut(cmd, end),
         NEW halves, Splits(Standing, halves),
         NEW t, t = Standing \o Sub(cmd, cursor_pos, end),
         cmd' = LeftOf \o Sub(cmd, end, Len(cmd)), cursor_pos' = cursor_pos
  PROVE  Sound' /\ Splits(t, halves)'
<1> DEFINE l == LeftOf
           r == RightOf
           piece == Sub(cmd, cursor_pos, end)
           rest == Sub(cmd, end, Len(cmd))
<1>1. /\ Len(cmd) \in Nat /\ cursor_pos \in 0..Len(cmd) /\ end \in cursor_pos..Len(cmd)
      /\ end \in 0..Len(cmd) /\ Len(cmd) \in end..Len(cmd) /\ cmd \in Text
      /\ Whole(cmd) /\ Cut(cmd, cursor_pos) /\ Cut(cmd, Len(cmd)) /\ end <= Len(cmd)
  BY LenProperties, CutEnds DEF Types, Text, Sound
<1>2. /\ l \in Text /\ r \in Text /\ Len(l) = cursor_pos /\ piece \in Text /\ rest \in Text
      /\ Whole(l) /\ Whole(rest)
  <2>1. l \in Text /\ r \in Text /\ Len(l) = cursor_pos
    BY SidesOfLine
  <2>2. piece \in Text /\ rest \in Text
    BY <1>1, SubIs
  <2>3. Whole(l)
    BY <1>1, CutHalves DEF LeftOf
  <2>4. Whole(rest)
    BY <1>1, WholeSub
  <2> QED
    BY <2>1, <2>2, <2>3, <2>4
<1>3. r = piece \o rest
  BY <1>1, SubAdds DEF RightOf
<1>4. LeftOf' = Sub(cmd', 0, cursor_pos') /\ RightOf' = Sub(cmd', cursor_pos', Len(cmd'))
  BY DEF LeftOf, RightOf
<1> HIDE DEF l, r, piece, rest
<1>5. /\ Sub(l \o rest, 0, Len(l)) = l
      /\ Sub(l \o rest, Len(l), Len(l \o rest)) = rest
      /\ Whole(l \o rest) /\ Cut(l \o rest, Len(l))
  BY <1>2, SubOfConcat, WholeConcat
<1>6. cmd' = l \o rest /\ cursor_pos' = Len(l)
  BY <1>2 DEF l, rest
<1>7. LeftOf' = l /\ RightOf' = rest /\ Sound'
  BY <1>4, <1>5, <1>6 DEF Sound
<1>8. PICK a \in Text, b \in Text :
        Standing = a \o b /\ halves[1] = l \o a /\ halves[2] = b \o r
  BY DEF Splits, l, r
<1>9. /\ b \o piece \in Text
      /\ (a \o b) \o piece = a \o (b \o piece)
      /\ (b \o piece) \o rest = b \o (piece \o rest)
  <2>1. a \in Text /\ b \in Text /\ piece \in Text /\ rest \in Text
    BY <1>2, <1>8
  <2>2. b \o piece \in Text
    BY ONLY <2>1, SubOfConcat
  <2>3. (a \o b) \o piece = a \o (b \o piece)
    BY ONLY <2>1, Assoc
  <2>4. (b \o piece) \o rest = b \o (piece \o rest)
    BY ONLY <2>1, Assoc
  <2> QED
    BY <2>2, <2>3, <2>4
<1>10. t = a \o (b \o piece) /\ halves[2] = (b \o piece) \o rest
  BY <1>3, <1>8, <1>9 DEF piece
<1>11. Splits(t, halves)'
  BY <1>7, <1>8, <1>9, <1>10 DEF Splits
<1> QED
  BY <1>7, <1>11

\* A kill to the left of it.
LEMMA BackwardSplits ==
  ASSUME Types, Sound, NEW start \in 0..cursor_pos, Cut(cmd, start),
         NEW halves, Splits(Standing, halves),
         NEW t, t = Sub(cmd, start, cursor_pos) \o Standing,
         cmd' = Sub(cmd, 0, start) \o RightOf, cursor_pos' = start
  PROVE  Sound' /\ Splits(t, halves)'
<1> DEFINE l == LeftOf
           r == RightOf
           piece == Sub(cmd, start, cursor_pos)
           rest == Sub(cmd, 0, start)
<1>1. /\ Len(cmd) \in Nat /\ cursor_pos \in 0..Len(cmd) /\ start \in 0..cursor_pos
      /\ start \in 0..Len(cmd) /\ 0 \in 0..Len(cmd) /\ cursor_pos \in start..Len(cmd)
      /\ cmd \in Text /\ Whole(cmd) /\ Cut(cmd, cursor_pos)
      /\ start \in Nat /\ start - 0 = start /\ start \in 0..Len(cmd)
  BY LenProperties DEF Types, Text, Sound
<1>2. /\ l \in Text /\ r \in Text /\ Len(rest) = start /\ piece \in Text /\ rest \in Text
      /\ Whole(r) /\ Whole(rest)
  <2>1. l \in Text /\ r \in Text
    BY SidesOfLine
  <2>2. piece \in Text
    BY <1>1, SubIs
  <2>3. Whole(r)
    BY <1>1, CutHalves DEF RightOf
  <2>4. Whole(rest) /\ rest \in Text /\ Len(rest) = start
    BY <1>1, CutHalves
  <2> QED
    BY <2>1, <2>2, <2>3, <2>4
<1>3. l = rest \o piece
  BY <1>1, SubAdds DEF LeftOf
<1>4. LeftOf' = Sub(cmd', 0, cursor_pos') /\ RightOf' = Sub(cmd', cursor_pos', Len(cmd'))
  BY DEF LeftOf, RightOf
<1> HIDE DEF l, r, piece, rest
<1>5. /\ Sub(rest \o r, 0, Len(rest)) = rest
      /\ Sub(rest \o r, Len(rest), Len(rest \o r)) = r
      /\ Whole(rest \o r) /\ Cut(rest \o r, Len(rest))
  BY <1>2, SubOfConcat, WholeConcat
<1>6. cmd' = rest \o r /\ cursor_pos' = Len(rest)
  BY <1>2 DEF r, rest
<1>7. LeftOf' = rest /\ RightOf' = r /\ Sound'
  BY <1>4, <1>5, <1>6 DEF Sound
<1>8. PICK a \in Text, b \in Text :
        Standing = a \o b /\ halves[1] = l \o a /\ halves[2] = b \o r
  BY DEF Splits, l, r
<1>9. /\ piece \o a \in Text
      /\ (piece \o a) \o b = piece \o (a \o b)
      /\ (rest \o piece) \o a = rest \o (piece \o a)
  <2>1. a \in Text /\ b \in Text /\ piece \in Text /\ rest \in Text
    BY <1>2, <1>8
  <2>2. piece \o a \in Text
    BY ONLY <2>1, SubOfConcat
  <2>3. (piece \o a) \o b = piece \o (a \o b)
    BY ONLY <2>1, Assoc
  <2>4. (rest \o piece) \o a = rest \o (piece \o a)
    BY ONLY <2>1, Assoc
  <2> QED
    BY <2>2, <2>3, <2>4
<1>10. t = (piece \o a) \o b /\ halves[1] = rest \o (piece \o a)
  BY <1>3, <1>8, <1>9 DEF piece
<1>11. Splits(t, halves)'
  BY <1>7, <1>8, <1>9, <1>10 DEF Splits
<1> QED
  BY <1>7, <1>11

\* A kill of the piece from start to end beside the cursor.
Beside(start, end, dir) ==
  /\ start \in 0..Len(cmd) /\ end \in start..Len(cmd)
  /\ dir \in {-1, 1}
  /\ Sound => /\ Cut(cmd, start) /\ Cut(cmd, end)
              /\ IF dir < 0 THEN end = cursor_pos ELSE start = cursor_pos

\* What any kill does to the text.
LEMMA KillText ==
  ASSUME Types, NEW start \in 0..Len(cmd), NEW end \in start..Len(cmd),
         NEW dir \in {-1, 1}, kill_region(start, end, dir)
  PROVE  /\ cmd' = Sub(cmd, 0, start) \o Sub(cmd, end, Len(cmd)) /\ cmd' \in Text
         /\ cursor_pos' \in 0..Len(cmd')
         /\ cursor_pos \in {start, end} => cursor_pos' = start
         /\ clip_board' = CollectedIs(Sub(cmd, start, end), dir) /\ clip_board' \in Text
         /\ before' = IF Killing THEN before ELSE << LeftOf, RightOf >>
         /\ Killing' /\ ~quote_flag' /\ UNCHANGED lines
<1> DEFINE p == IF cursor_pos > end THEN cursor_pos - (end - start)
                ELSE IF cursor_pos > start THEN start ELSE cursor_pos
           s == Sub(cmd, 0, start) \o Sub(cmd, end, Len(cmd))
<1>1. /\ Len(cmd) \in Nat /\ cursor_pos \in Nat /\ start \in Nat /\ end \in Nat
      /\ cmd \in Text /\ start <= end
  BY LenProperties DEF Types, Text
<1>2. s \in Text /\ start \in 0..Len(s) /\ Sub(cmd, start, end) \in Text
  BY <1>1, CutOutFits
<1>3. p \in Int /\ (cursor_pos \in {start, end} => p = start)
  BY <1>1
<1>4. cmd' = s /\ cursor_pos' = Clamped(p, s)
  BY DEF kill_region, Settle
<1>5. clip_board' = Collected(Sub(cmd, start, end), dir)
  BY DEF kill_region
<1>6. /\ before' = IF Killing THEN before ELSE << LeftOf, RightOf >>
      /\ Killing' /\ ~quote_flag' /\ UNCHANGED lines
  BY DEF kill_region, LeftOf, RightOf, Killing
<1> HIDE DEF p, s
<1>7. Clamped(p, s) \in 0..Len(s) /\ (p \in 0..Len(s) => Clamped(p, s) = p)
  BY <1>2, <1>3, ClampedInside
<1>8. cursor_pos' \in 0..Len(cmd') /\ (cursor_pos \in {start, end} => cursor_pos' = start)
  BY <1>2, <1>3, <1>4, <1>7
<1>9. dir \in Int
  OBVIOUS
<1>10. clip_board' = CollectedIs(Sub(cmd, start, end), dir) /\ clip_board' \in Text
  BY <1>2, <1>5, <1>9, CollectedStanding
<1> QED
  BY <1>2, <1>4, <1>6, <1>8, <1>10 DEF s

\* Every kill keeps the invariant.
LEMMA KillKeeps ==
  ASSUME KInv, NEW start, NEW end, NEW dir, Beside(start, end, dir),
         kill_region(start, end, dir)
  PROVE  KInv'
<1>1. /\ start \in 0..Len(cmd) /\ end \in start..Len(cmd) /\ dir \in {-1, 1} /\ Types
      /\ cursor_pos \in 0..Len(cmd) /\ Len(cmd) \in Nat
  BY LenProperties DEF Beside, KInv, Types, Text
<1>2. /\ cmd' = Sub(cmd, 0, start) \o Sub(cmd, end, Len(cmd)) /\ cmd' \in Text
      /\ cursor_pos' \in 0..Len(cmd')
      /\ cursor_pos \in {start, end} => cursor_pos' = start
      /\ clip_board' = CollectedIs(Sub(cmd, start, end), dir) /\ clip_board' \in Text
      /\ before' = IF Killing THEN before ELSE << LeftOf, RightOf >>
      /\ Killing' /\ ~quote_flag' /\ UNCHANGED lines
  BY <1>1, KillText
<1>3. Types'
  <2>1. before' = NoLine \/ before' \in Text \X Text
    <3>1. LeftOf \in Text /\ RightOf \in Text
      BY <1>1, SidesOfLine
    <3> QED
      BY <1>1, <1>2, <3>1 DEF Types
  <2>2. last_fun' \in Funs /\ quote_flag' \in BOOLEAN /\ (quote_flag' => last_fun' = "other")
    BY <1>1 DEF kill_region, Funs, Types
  <2>3. history' \in Seq(Text) /\ history_index' \in 0..Len(history')
    BY <1>1, <1>2 DEF Types, lines
  <2> QED
    BY <1>2, <2>1, <2>2, <2>3 DEF Types
<1>4. ASSUME NEW halves, NEW t, halves = before', t = clip_board',
             halves # NoLine, Whole(halves[1]), Whole(halves[2])
      PROVE  Sound' /\ Splits(t, halves)'
  <2>1. Sound /\ Splits(Standing, halves)
    <3>1. halves = IF Killing THEN before ELSE << LeftOf, RightOf >>
      BY <1>2, <1>4
    <3> QED
      BY <1>4, <3>1, BeforeKill
  <2>2. Cut(cmd, start) /\ Cut(cmd, end)
    BY <2>1 DEF Beside
  <2>3. CASE dir < 0
    <3>1. end = cursor_pos /\ start \in 0..cursor_pos
      BY <1>1, <2>1, <2>3 DEF Beside
    <3>2. /\ cmd' = Sub(cmd, 0, start) \o RightOf /\ cursor_pos' = start
          /\ t = Sub(cmd, start, cursor_pos) \o Standing
      BY <1>2, <1>4, <2>3, <3>1 DEF RightOf, CollectedIs
    <3> QED
      BY <1>1, <2>1, <2>2, <3>1, <3>2, BackwardSplits
  <2>4. CASE ~(dir < 0)
    <3>1. start = cursor_pos /\ end \in cursor_pos..Len(cmd)
      BY <1>1, <2>1, <2>4 DEF Beside
    <3>2. /\ cmd' = LeftOf \o Sub(cmd, end, Len(cmd)) /\ cursor_pos' = cursor_pos
          /\ t = Standing \o Sub(cmd, cursor_pos, end)
      BY <1>2, <1>4, <2>4, <3>1 DEF LeftOf, CollectedIs
    <3> QED
      BY <1>1, <2>1, <2>2, <3>1, <3>2, ForwardSplits
  <2> QED
    BY <2>3, <2>4
<1>5. Kept'
  <2>1. ASSUME before' # NoLine, Whole(before'[1]), Whole(before'[2])
        PROVE  Sound' /\ Splits(clip_board, before)'
    <3>1. PICK halves : halves = before'
      OBVIOUS
    <3>2. PICK t : t = clip_board'
      OBVIOUS
    <3>3. Sound' /\ Splits(t, halves)'
      BY <1>4, <2>1, <3>1, <3>2
    <3> QED
      BY <3>1, <3>2, <3>3 DEF Splits
  <2> QED
    BY <2>1 DEF Kept
<1> QED
  BY <1>3, <1>5 DEF KInv

----------------------------------------------------------------------------
(* What the commands make of the line.                                     *)

\* In a whole state the cursor is in no character.
LEMMA WholeIsSound ==
  ASSUME Types, AllWhole
  PROVE  Sound /\ Whole(clip_board)
BY CutPrefix DEF Types, AllWhole, Sound

\* A command that makes a line of the cursor and the text, and in a whole state
\* a whole one with the cursor in no character.
FitEdit(fun, s, p) ==
  /\ fun \in {"other", "completion"} /\ s \in Text /\ p \in Int
  /\ Edit(fun, s, p)
  /\ AllWhole => Fits(s, p)

\* Commands that move the cursor.
LEMMA MotionsFit ==
  ASSUME Types, Motions \/ Idle
  PROVE  \E p : FitEdit("other", cmd, p)
<1>1. /\ cmd \in Text /\ Len(cmd) \in Nat /\ cursor_pos \in 0..Len(cmd) /\ cursor_pos \in Nat
      /\ 0 \in Int /\ Len(cmd) \in Int
  BY LenProperties DEF Types, Text
<1>2. ASSUME NEW p \in Int, Move(p), Sound => Fits(cmd, p)
      PROVE  FitEdit("other", cmd, p)
  BY <1>1, <1>2, WholeIsSound DEF FitEdit, Move
<1>3. \A p \in Int : Sound /\ (p <= 0 \/ p >= Len(cmd)) => Fits(cmd, p)
  BY <1>1, FitsCut DEF Sound
<1>4. \A p : Sound /\ Cut(cmd, p) => Fits(cmd, p)
  BY <1>1, FitsCut DEF Sound
<1>5. CASE Move(0)
  BY <1>1, <1>2, <1>3, <1>5
<1>6. CASE Move(Len(cmd))
  BY <1>1, <1>2, <1>3, <1>6
<1>7. CASE cursor_pos < Len(cmd) /\ Move(Over(cmd, cursor_pos + 1, {"lo"}))
  <2>1. cursor_pos + 1 \in 0..Len(cmd)
    BY <1>1, <1>7
  <2>2. /\ Over(cmd, cursor_pos + 1, {"lo"}) \in (cursor_pos + 1)..Len(cmd)
        /\ Sound => Cut(cmd, Over(cmd, cursor_pos + 1, {"lo"}))
    BY <1>1, <2>1, OverIs, CharCut DEF Sound
  <2> QED
    BY <1>2, <1>4, <1>7, <2>2
<1>8. CASE cursor_pos > 0 /\ Move(Lead(cmd, cursor_pos - 1))
  <2>1. cursor_pos - 1 \in -1..(Len(cmd) - 1)
    BY <1>1
  <2>2. /\ Lead(cmd, cursor_pos - 1) \in Int
        /\ Sound /\ Lead(cmd, cursor_pos - 1) # -1 => Cut(cmd, Lead(cmd, cursor_pos - 1))
    BY <1>1, <2>1, LeadIs, CharCut DEF Sound
  <2>3. -1 \in Int /\ -1 <= 0
    OBVIOUS
  <2>4. Sound => Fits(cmd, Lead(cmd, cursor_pos - 1))
    BY <1>3, <1>4, <2>2, <2>3
  <2> QED
    BY <1>2, <1>8, <2>2, <2>4
<1>9. CASE Move(skip_word_forward(cmd, cursor_pos))
  <2>1. /\ skip_word_forward(cmd, cursor_pos) \in Int
        /\ Sound => Cut(cmd, skip_word_forward(cmd, cursor_pos))
    BY <1>1, SkipsInside, ForwardCut DEF Sound
  <2> QED
    BY <1>2, <1>4, <1>9, <2>1
<1>10. CASE Move(skip_word_backward(cmd, cursor_pos))
  <2>1. /\ skip_word_backward(cmd, cursor_pos) \in Int
        /\ Sound => Cut(cmd, skip_word_backward(cmd, cursor_pos))
    BY <1>1, SkipsInside, BackwardCut DEF Sound
  <2> QED
    BY <1>2, <1>4, <1>10, <2>1
<1>11. CASE Idle
  <2>1. cursor_pos \in Int /\ (Sound => Cut(cmd, cursor_pos)) /\ Move(cursor_pos)
    BY <1>1, <1>11 DEF Sound, Idle
  <2> QED
    BY <1>2, <1>4, <2>1
<1> QED
  BY <1>5, <1>6, <1>7, <1>8, <1>9, <1>10, <1>11 DEF Motions

\* Commands that insert.
LEMMA InsertsFit ==
  ASSUME Types, NEW fun \in {"other", "completion"}, NEW t \in Text, AllWhole => Whole(t),
         Edit(fun, Inserted(cmd, cursor_pos, t), cursor_pos + Len(t))
  PROVE  \E s, p : FitEdit(fun, s, p)
<1>1. /\ cmd \in Text /\ cursor_pos \in 0..Len(cmd) /\ Len(cmd) \in Nat /\ Len(t) \in Nat
  BY LenProperties DEF Types, Text
<1>2. /\ Inserted(cmd, cursor_pos, t) \in Text
      /\ Whole(cmd) /\ Cut(cmd, cursor_pos) /\ Whole(t) =>
           Fits(Inserted(cmd, cursor_pos, t), cursor_pos + Len(t))
  BY <1>1, InsertFits
<1>3. AllWhole => Whole(cmd) /\ Cut(cmd, cursor_pos)
  BY WholeIsSound DEF Sound
<1>4. cursor_pos + Len(t) \in Int
  BY <1>1
<1>5. FitEdit(fun, Inserted(cmd, cursor_pos, t), cursor_pos + Len(t))
  BY <1>2, <1>3, <1>4 DEF FitEdit
<1> QED
  BY <1>5

\* The two words around the cursor change places.
LEMMA TransposesFit ==
  ASSUME Types, transpose_words
  PROVE  \E s, p : FitEdit("other", s, p)
<1> DEFINE p1 == skip_word_backward(cmd, cursor_pos)
           p2 == skip_word_forward(cmd, p1)
           p4 == skip_word_forward(cmd, cursor_pos)
           p3 == skip_word_backward(cmd, p4)
           a == Sub(cmd, 0, p1)
           b == Sub(cmd, p3, p4)
           c == Sub(cmd, p2, p3)
           d == Sub(cmd, p1, p2)
           s == a \o b \o c \o d
<1>1. cmd \in Text /\ Len(cmd) \in Nat /\ cursor_pos \in 0..Len(cmd)
  BY LenProperties DEF Types, Text
<1>2. /\ p1 < p2 /\ p2 <= cursor_pos /\ cursor_pos <= p3 /\ p3 < p4
      /\ Edit("other", s, p4)
  BY DEF transpose_words
<1>3. /\ p1 \in 0..Len(cmd) /\ p4 \in 0..Len(cmd)
      /\ Sound => Cut(cmd, p1) /\ Cut(cmd, p4) /\ Cut(cmd, 0)
  BY <1>1, SkipsInside, ForwardCut, BackwardCut, CutEnds DEF Sound
<1> HIDE DEF p1, p4
<1>4. p2 \in 0..Len(cmd) /\ p3 \in 0..Len(cmd)
  <2>1. p2 \in p1..Len(cmd)
    BY <1>1, <1>3, SkipsInside
  <2>2. p3 \in 0..p4
    BY <1>1, <1>3, SkipsInside
  <2> QED
    BY <1>1, <1>3, <2>1, <2>2
<1>5. Sound => Cut(cmd, p2) /\ Cut(cmd, p3)
  BY <1>1, <1>3, ForwardCut, BackwardCut DEF Sound
<1> HIDE DEF p2, p3
<1>6. /\ p2 \in p1..Len(cmd) /\ p3 \in p2..Len(cmd) /\ p4 \in p3..Len(cmd) /\ p1 \in 0..p4
      /\ p1 \in Int /\ p2 \in Int /\ p3 \in Int /\ p4 \in Int /\ 0 \in 0..Len(cmd)
      /\ p1 <= p2 /\ p2 <= p3 /\ p3 <= p4 /\ 0 <= p1
  BY <1>1, <1>2, <1>3, <1>4
<1>7. /\ a \in Text /\ b \in Text /\ c \in Text /\ d \in Text
      /\ Len(a) = p1 - 0 /\ Len(b) = p4 - p3 /\ Len(c) = p3 - p2 /\ Len(d) = p2 - p1
  BY <1>1, <1>3, <1>4, <1>6, SubIs
<1>8. Sound => Whole(a) /\ Whole(b) /\ Whole(c) /\ Whole(d)
  BY <1>1, <1>3, <1>5, <1>6, WholeSub DEF Sound
<1> HIDE DEF a, b, c, d
<1>9. a \o b \in Text /\ Len(a \o b) = Len(a) + Len(b) /\ (Sound => Whole(a \o b))
  BY <1>7, <1>8, SubOfConcat, WholeConcat
<1>10. /\ (a \o b) \o c \in Text /\ Len((a \o b) \o c) = Len(a \o b) + Len(c)
       /\ Sound => Whole((a \o b) \o c)
  BY <1>7, <1>8, <1>9, SubOfConcat, WholeConcat
<1>11. s \in Text /\ Len(s) = Len((a \o b) \o c) + Len(d) /\ (Sound => Whole(s))
  BY <1>7, <1>8, <1>10, SubOfConcat, WholeConcat
<1>12. Len(s) = p4
  BY <1>6, <1>7, <1>9, <1>10, <1>11
<1>13. Sound => Fits(s, p4)
  <2>1. p4 >= Len(s)
    BY <1>6, <1>12
  <2> QED
    BY <1>6, <1>11, <2>1, FitsCut
<1>14. FitEdit("other", s, p4)
  BY <1>2, <1>6, <1>11, <1>13, WholeIsSound DEF FitEdit
<1> QED
  BY <1>14

\* Two units change places, which may take a character apart.
LEMMA TransposeChars ==
  ASSUME Types, transpose_chars
  PROVE  \E s \in Text, p \in Int : Edit("other", s, p)
<1> DEFINE p == IF cursor_pos = Len(cmd) THEN cursor_pos - 1 ELSE cursor_pos
           x == Sub(cmd, 0, p - 1)
           y == << cmd[p + 1], cmd[p] >>
           z == Sub(cmd, p + 1, Len(cmd))
<1>1. cmd \in Text /\ Len(cmd) \in Nat /\ cursor_pos \in 0..Len(cmd)
  BY LenProperties DEF Types, Text
<1>2. Len(cmd) > 1 /\ cursor_pos > 0 /\ Edit("other", x \o y \o z, p + 1)
  BY DEF transpose_chars
<1>3. p \in 1..(Len(cmd) - 1)
  BY <1>1, <1>2
<1> HIDE DEF p
<1>4. /\ p \in 1..Len(cmd) /\ p + 1 \in 1..Len(cmd) /\ 0 \in 0..Len(cmd) /\ p - 1 \in 0..Len(cmd)
      /\ p + 1 \in 0..Len(cmd) /\ Len(cmd) \in (p + 1)..Len(cmd)
  BY <1>1, <1>3
<1>5. x \in Text /\ z \in Text
  BY <1>1, <1>4, SubIs
<1>6. y \in Text
  BY <1>1, <1>4, ElementOfSeq DEF Text
<1> HIDE DEF x, y, z
<1>7. x \o y \in Text
  BY <1>5, <1>6, SubOfConcat
<1>8. x \o y \o z \in Text
  BY <1>5, <1>7, SubOfConcat
<1>9. p + 1 \in Int
  BY <1>3
<1> QED
  BY <1>2, <1>8, <1>9

\* The character deleted lies beside the cursor.
LEMMA CharBeside ==
  ASSUME Types, NEW dir \in {-1, 1}, NEW start, NEW end,
         start = IF dir < 0 THEN Lead(cmd, cursor_pos - 1) ELSE cursor_pos,
         end = CharEnd(start), start >= 0, start < Len(cmd)
  PROVE  Beside(start, end, dir)
<1>1. /\ cmd \in Text /\ Len(cmd) \in Nat /\ cursor_pos \in 0..Len(cmd) /\ cursor_pos \in Nat
  BY LenProperties DEF Types, Text
<1>2. cursor_pos - 1 \in -1..(Len(cmd) - 1)
  BY <1>1
<1>3. /\ Lead(cmd, cursor_pos - 1) \in -1..(cursor_pos - 1)
      /\ \A r \in (Lead(cmd, cursor_pos - 1) + 1)..(cursor_pos - 1) : cmd[r + 1] = "lo"
  BY <1>1, <1>2, LeadIs
<1>4. start \in 0..Len(cmd) /\ start + 1 \in 0..Len(cmd) /\ start \in Nat
  BY <1>1, <1>3
<1>5. /\ end \in (start + 1)..Len(cmd)
      /\ end = Len(cmd) \/ cmd[end + 1] \notin {"lo"}
      /\ \A r \in (start + 1)..(end - 1) : cmd[r + 1] \in {"lo"}
  BY <1>1, <1>4, OverIs DEF CharEnd
<1>6. end \in start..Len(cmd) /\ end \in 0..Len(cmd) /\ end \in Nat
  BY <1>1, <1>4, <1>5
<1>7. ASSUME Sound PROVE Cut(cmd, start) /\ Cut(cmd, end)
  <2>1. Cut(cmd, end)
    BY <1>1, <1>4, <1>7, CharCut DEF Sound, CharEnd
  <2>2. CASE dir < 0
    <3>1. start = Lead(cmd, cursor_pos - 1) /\ start # -1
      BY <1>4, <2>2
    <3>2. Cut(cmd, start)
      BY <1>1, <1>2, <1>7, <3>1, CharCut DEF Sound
    <3> QED
      BY <2>1, <3>2
  <2>3. CASE ~(dir < 0)
    BY <1>7, <2>1, <2>3 DEF Sound
  <2> QED
    BY <2>2, <2>3
<1>8. ASSUME Sound, dir < 0 PROVE end = cursor_pos
  <2>1. start <= cursor_pos - 1 /\ \A r \in (start + 1)..(cursor_pos - 1) : cmd[r + 1] = "lo"
    BY <1>1, <1>3, <1>8
  <2>2. ASSUME end < cursor_pos PROVE FALSE
    <3>1. end \in (start + 1)..(cursor_pos - 1) /\ end # Len(cmd)
      BY <1>1, <1>4, <1>5, <2>2
    <3> QED
      BY <1>5, <2>1, <3>1
  <2>3. ASSUME end > cursor_pos PROVE FALSE
    <3>1. cursor_pos \in (start + 1)..(end - 1) /\ cursor_pos < Len(cmd)
      BY <1>1, <1>4, <1>5, <2>1, <2>3
    <3>2. cmd[cursor_pos + 1] = "lo"
      BY <1>5, <3>1
    <3> QED
      BY <1>8, <3>1, <3>2 DEF Sound, Cut
  <2> QED
    BY <1>1, <1>6, <2>2, <2>3
<1> QED
  BY <1>4, <1>6, <1>7, <1>8 DEF Beside

\* A character is deleted, or killed after a kill.
LEMMA DeletesFit ==
  ASSUME Types, NEW dir \in {-1, 1}, delete_char_dir(dir)
  PROVE  \/ \E s, p : FitEdit("other", s, p)
         \/ \E start, end : Beside(start, end, dir) /\ kill_region(start, end, dir)
<1> DEFINE start == IF dir < 0 THEN Lead(cmd, cursor_pos - 1) ELSE cursor_pos
           end == CharEnd(start)
           s == Sub(cmd, 0, start) \o Sub(cmd, end, Len(cmd))
<1>1. /\ start >= 0 /\ start < Len(cmd)
      /\ IF Killing THEN kill_region(start, end, dir) ELSE Edit("other", s, start)
  BY DEF delete_char_dir
<1>2. Beside(start, end, dir)
  <2> HIDE DEF start
  <2>1. start = IF dir < 0 THEN Lead(cmd, cursor_pos - 1) ELSE cursor_pos
    BY DEF start
  <2> QED
    BY <1>1, <2>1, CharBeside
<1> HIDE DEF start, end
<1>3. CASE Killing
  BY <1>1, <1>2, <1>3
<1>4. CASE ~Killing
  <2>1. cmd \in Text /\ start \in 0..Len(cmd) /\ end \in start..Len(cmd) /\ start \in Int
    BY <1>2 DEF Types, Beside
  <2>2. /\ s \in Text
        /\ Whole(cmd) /\ Cut(cmd, start) /\ Cut(cmd, end) => Fits(s, start)
    BY <2>1, CutOutFits
  <2>3. AllWhole => Fits(s, start)
    BY <1>2, <2>2, WholeIsSound DEF Beside, Sound
  <2>4. FitEdit("other", s, start)
    BY <1>1, <1>4, <2>1, <2>2, <2>3 DEF FitEdit
  <2> QED
    BY <2>4
<1> QED
  BY <1>3, <1>4

\* To the ends of the line and over words.
LEMMA KillsBeside ==
  ASSUME Types, Kills
  PROVE  \E start, end, dir : Beside(start, end, dir) /\ kill_region(start, end, dir)
<1>1. /\ cmd \in Text /\ Len(cmd) \in Nat /\ cursor_pos \in 0..Len(cmd) /\ cursor_pos \in Nat
      /\ Sound => Cut(cmd, 0) /\ Cut(cmd, Len(cmd)) /\ Cut(cmd, cursor_pos)
  BY LenProperties, CutEnds DEF Types, Text, Sound
<1>2. /\ skip_word_forward(cmd, cursor_pos) \in cursor_pos..Len(cmd)
      /\ skip_word_backward(cmd, cursor_pos) \in 0..cursor_pos
      /\ Sound => /\ Cut(cmd, skip_word_forward(cmd, cursor_pos))
                  /\ Cut(cmd, skip_word_backward(cmd, cursor_pos))
  BY <1>1, SkipsInside, ForwardCut, BackwardCut DEF Sound
<1>3. Beside(cursor_pos, Len(cmd), 1)
  BY <1>1 DEF Beside
<1>4. Beside(0, cursor_pos, -1)
  BY <1>1 DEF Beside
<1>5. Beside(cursor_pos, skip_word_forward(cmd, cursor_pos), 1)
  BY <1>1, <1>2 DEF Beside
<1>6. Beside(skip_word_backward(cmd, cursor_pos), cursor_pos, -1)
  <2>1. /\ skip_word_backward(cmd, cursor_pos) \in 0..Len(cmd)
        /\ cursor_pos \in skip_word_backward(cmd, cursor_pos)..Len(cmd)
    BY <1>1, <1>2
  <2> QED
    BY <1>1, <1>2, <2>1 DEF Beside
<1> QED
  BY <1>3, <1>4, <1>5, <1>6 DEF Kills

\* The keys that edit the line in place.
LEMMA EditKinds ==
  ASSUME Types,
         Motions \/ Type \/ yank \/ reset \/ Idle \/ transpose_words
  PROVE  \E fun, s, p : FitEdit(fun, s, p)
<1>1. CASE Motions \/ Idle
  BY <1>1, MotionsFit
<1>2. CASE Type
  <2>1. PICK t \in Typed : Edit("other", Inserted(cmd, cursor_pos, t), cursor_pos + Len(t))
    BY <1>2 DEF Type
  <2>2. t \in Text /\ Whole(t)
    BY TypedWhole
  <2>3. \E s, p : FitEdit("other", s, p)
    BY <2>1, <2>2, InsertsFit
  <2> QED
    BY <2>3
<1>3. CASE yank
  <2>1. clip_board \in Text /\ (AllWhole => Whole(clip_board))
    BY WholeIsSound DEF Types
  <2>2. \E s, p : FitEdit("other", s, p)
    BY <1>3, <2>1, InsertsFit DEF yank
  <2> QED
    BY <2>2
<1>4. CASE reset
  <2>1. << >> \in Text /\ Whole(<< >>) /\ 0 \in Int /\ 0 <= 0
    BY DEF Text, Whole
  <2>2. Fits(<< >>, 0)
    BY <2>1, FitsCut
  <2>3. FitEdit("other", << >>, 0)
    BY <1>4, <2>1, <2>2 DEF FitEdit, reset
  <2> QED
    BY <2>3
<1>5. CASE transpose_words
  BY <1>5, TransposesFit
<1> QED
  BY <1>1, <1>2, <1>3, <1>4, <1>5

----------------------------------------------------------------------------
(* Lines of the history.                                                   *)

\* A line of the history is shown, with the cursor in no character of it.
FitRecall(lns, i, p) ==
  /\ lns \in Seq(Text) /\ i \in 0..(Len(lns) - 1) /\ p \in Int
  /\ Recall(lns, i, p)
  /\ AllWhole => Fits(lns[i + 1], p) /\ \A k \in 1..Len(lns) : Whole(lns[k])

\* The history with the line put at its end.
LEMMA AppendLine ==
  ASSUME Types, NEW lns, lns = Append(history, cmd) \/ lns = history
  PROVE  /\ lns \in Seq(Text) /\ Len(lns) >= Len(history) /\ Len(lns) \in Nat
         /\ lns = Append(history, cmd) => Len(lns) = Len(history) + 1
         /\ AllWhole => \A k \in 1..Len(lns) : Whole(lns[k])
<1>1. history \in Seq(Text) /\ Len(history) \in Nat /\ cmd \in Text
  BY LenProperties DEF Types
<1>2. CASE lns = history
  BY <1>1, <1>2 DEF AllWhole
<1>3. CASE lns = Append(history, cmd)
  <2>1. /\ lns \in Seq(Text) /\ Len(lns) = Len(history) + 1
        /\ \A k \in 1..Len(history) : lns[k] = history[k]
        /\ lns[Len(history) + 1] = cmd
    BY <1>1, <1>3, AppendProperties
  <2>2. ASSUME AllWhole, NEW k \in 1..Len(lns) PROVE Whole(lns[k])
    <3>1. k \in 1..Len(history) \/ k = Len(history) + 1
      BY <1>1, <2>1
    <3> QED
      BY <2>1, <2>2, <3>1 DEF AllWhole
  <2> QED
    BY <1>1, <2>1, <2>2
<1> QED
  BY <1>2, <1>3

\* The previous line and the next, with the cursor at the end.
LEMMA EndRecalls ==
  ASSUME Types, previous_history \/ next_history
  PROVE  \E lns, i, p : FitRecall(lns, i, p)
<1>1. /\ history \in Seq(Text) /\ Len(history) \in Nat /\ cmd \in Text
      /\ history_index \in 0..Len(history)
  BY LenProperties DEF Types
<1>2. ASSUME NEW lns \in Seq(Text), NEW k \in 1..Len(lns), Recall(lns, k - 1, Len(lns[k])),
             AllWhole => \A j \in 1..Len(lns) : Whole(lns[j])
      PROVE  FitRecall(lns, k - 1, Len(lns[k]))
  <2>1. lns[k] \in Text /\ Len(lns) \in Nat
    BY LenProperties, ElementOfSeq
  <2>2. Len(lns[k]) \in Int /\ Len(lns[k]) >= Len(lns[k])
    BY <2>1, LenProperties DEF Text
  <2>3. AllWhole => Fits(lns[k], Len(lns[k]))
    BY <1>2, <2>1, <2>2, FitsCut
  <2>4. k - 1 \in 0..(Len(lns) - 1) /\ (k - 1) + 1 = k
    BY <2>1
  <2> QED
    BY <1>2, <2>2, <2>3, <2>4 DEF FitRecall
<1>3. CASE previous_history
  <2> DEFINE lns == IF history_index = Len(history) THEN Append(history, cmd) ELSE history
  <2>1. history_index > 0 /\ Recall(lns, history_index - 1, Len(lns[history_index]))
    BY <1>3 DEF previous_history
  <2>2. lns = Append(history, cmd) \/ lns = history
    OBVIOUS
  <2> HIDE DEF lns
  <2>3. /\ lns \in Seq(Text) /\ Len(lns) >= Len(history) /\ Len(lns) \in Nat
        /\ AllWhole => \A k \in 1..Len(lns) : Whole(lns[k])
    BY <2>2, AppendLine
  <2>4. history_index \in 1..Len(lns)
    BY <1>1, <2>1, <2>3
  <2>5. FitRecall(lns, history_index - 1, Len(lns[history_index]))
    BY <1>2, <2>1, <2>3, <2>4
  <2> QED
    BY <2>5
<1>4. CASE next_history
  <2>1. /\ history_index < Len(history) - 1
        /\ Recall(history, history_index + 1, Len(history[history_index + 2]))
    BY <1>4 DEF next_history
  <2>2. history_index + 2 \in 1..Len(history) /\ (history_index + 2) - 1 = history_index + 1
    BY <1>1, <2>1
  <2>3. AllWhole => \A k \in 1..Len(history) : Whole(history[k])
    BY DEF AllWhole
  <2>4. FitRecall(history, (history_index + 2) - 1, Len(history[history_index + 2]))
    BY <1>1, <1>2, <2>1, <2>2, <2>3
  <2> QED
    BY <2>4
<1> QED
  BY <1>3, <1>4

\* A line that begins as this one does up to the cursor is at least as long, and
\* the cursor may stand in it where it stands in this one.
LEMMA SameBeginning ==
  ASSUME Types, NEW s \in Text, Sub(s, 0, cursor_pos) = Sub(cmd, 0, cursor_pos)
  PROVE  AllWhole /\ Whole(s) => Fits(s, cursor_pos)
<1>1. /\ cmd \in Text /\ Len(cmd) \in Nat /\ cursor_pos \in 0..Len(cmd) /\ cursor_pos \in Nat
      /\ Len(s) \in Nat /\ 0 \in 0..Len(cmd) /\ 0 \in 0..Len(s) /\ cursor_pos \in Int
  BY LenProperties DEF Types, Text
<1>2. Len(Sub(cmd, 0, cursor_pos)) = cursor_pos - 0
  BY <1>1, SubIs
<1>3. cursor_pos \in 0..Len(s)
  <2>1. ASSUME cursor_pos > Len(s) PROVE FALSE
    <3>1. Min({cursor_pos, Len(s)}) = Len(s) /\ Min({Len(s), Len(s)}) = Len(s)
      BY <1>1, <2>1, MinOfTwo
    <3>2. Sub(s, 0, cursor_pos) = Sub(s, 0, Len(s))
      BY <3>1 DEF Sub
    <3>3. Sub(s, 0, cursor_pos) = s
      BY <3>2, SubAll
    <3> QED
      BY <1>1, <1>2, <2>1, <3>3
  <2> QED
    BY <1>1, <2>1
<1>4. ASSUME AllWhole, Whole(s) PROVE Fits(s, cursor_pos)
  <2>1. Whole(Sub(s, 0, cursor_pos))
    BY <1>4 DEF AllWhole
  <2>2. Cut(s, cursor_pos)
    BY <1>3, <1>4, <2>1, CutPrefix
  <2> QED
    BY <1>4, <2>2, FitsCut
<1> QED
  BY <1>4

\* The search finds such a line.
LEMMA SearchRecalls ==
  ASSUME Types, NEW dir \in {-1, 1}, history_search(dir)
  PROVE  \E lns, i, p : FitRecall(lns, i, p)
<1> DEFINE Index(i) == (Len(history) + i * dir + history_index) % Len(history)
           found == {i \in 1..Len(history) :
                       Sub(history[Index(i) + 1], 0, cursor_pos) = Sub(cmd, 0, cursor_pos)}
           m == Min(found)
<1>1. /\ history \in Seq(Text) /\ Len(history) \in Nat /\ history_index \in Nat
      /\ cursor_pos \in Int
  BY LenProperties DEF Types, Text
<1>2. found # {} /\ Recall(history, Index(m), cursor_pos)
  BY DEF history_search
<1>3. found \in SUBSET Nat
  BY <1>1
<1>4. m \in found
  <2> HIDE DEF found
  <2> QED
    BY <1>2, <1>3, MinIsLeast
<1>5. /\ m \in 1..Len(history)
      /\ Sub(history[Index(m) + 1], 0, cursor_pos) = Sub(cmd, 0, cursor_pos)
  <2> HIDE DEF m
  <2> QED
    BY <1>4
<1> HIDE DEF m
<1>6. m * dir \in Int /\ Len(history) > 0
  <2>1. m * (-1) \in Int /\ m * 1 \in Int
    BY <1>1, <1>5
  <2>2. dir = -1 \/ dir = 1
    OBVIOUS
  <2>3. m * dir \in Int
    <3>1. CASE dir = -1
      BY <2>1, <3>1
    <3>2. CASE dir = 1
      BY <2>1, <3>2
    <3> QED
      BY <2>2, <3>1, <3>2
  <2> QED
    BY <1>1, <1>5, <2>3
<1>7. Index(m) \in 0..(Len(history) - 1)
  <2> DEFINE n == Len(history) + m * dir + history_index
  <2>1. n \in Int
    BY <1>1, <1>6
  <2> HIDE DEF n
  <2>2. n % Len(history) \in 0..(Len(history) - 1)
    BY <1>1, <1>6, <2>1
  <2> QED
    BY <2>2 DEF n
<1> DEFINE j == Index(m)
<1>8. /\ j \in 0..(Len(history) - 1) /\ Recall(history, j, cursor_pos)
      /\ Sub(history[j + 1], 0, cursor_pos) = Sub(cmd, 0, cursor_pos)
  BY <1>2, <1>5, <1>7
<1> HIDE DEF Index, j, found
<1>9. j + 1 \in 1..Len(history)
  BY <1>1, <1>8
<1>10. history[j + 1] \in Text
  BY <1>1, <1>9, ElementOfSeq
<1>11. AllWhole => Fits(history[j + 1], cursor_pos) /\ \A k \in 1..Len(history) : Whole(history[k])
  <2>1. AllWhole => \A k \in 1..Len(history) : Whole(history[k])
    BY DEF AllWhole
  <2> QED
    BY <1>8, <1>9, <1>10, <2>1, SameBeginning
<1>12. FitRecall(history, j, cursor_pos)
  BY <1>1, <1>8, <1>11 DEF FitRecall
<1> QED
  BY <1>12

----------------------------------------------------------------------------
(* Every step.                                                             *)

\* The end of handle_key.
LEMMA SettleIs ==
  ASSUME NEW s \in Text, NEW p \in Int, Settle(s, p)
  PROVE  /\ cmd' \in Text /\ cursor_pos' \in 0..Len(cmd')
         /\ Fits(s, p) => Whole(cmd') /\ Whole(Sub(cmd', 0, cursor_pos'))
<1>1. cmd' = s /\ cursor_pos' = Clamped(p, s)
  BY DEF Settle
<1>2. Clamped(p, s) \in 0..Len(s)
  BY ClampedInside
<1>3. ASSUME Fits(s, p) PROVE Whole(s) /\ Whole(Sub(s, 0, Clamped(p, s)))
  BY <1>3, CutHalves DEF Fits
<1> QED
  BY <1>1, <1>2, <1>3

\* Any key is one of these.
LEMMA StepKinds ==
  ASSUME Types, Next
  PROVE  \/ \E fun, s, p : FitEdit(fun, s, p)
         \/ transpose_chars
         \/ \E start, end, dir : Beside(start, end, dir) /\ kill_region(start, end, dir)
         \/ \E lns, i, p : FitRecall(lns, i, p)
         \/ quoted_insert \/ Quoted \/ accept_line \/ abort \/ control_c \/ control_d
         \/ \E t \in Completed :
              /\ ~quote_flag
              /\ Reprint("completion", Inserted(cmd, cursor_pos, t), cursor_pos + Len(t))
<1>1. CASE Motions \/ Type \/ yank \/ reset \/ Idle \/ transpose_words
  BY <1>1, EditKinds
<1>2. CASE Kills
  BY <1>2, KillsBeside
<1>3. CASE \E dir \in {-1, 1} : delete_char_dir(dir)
  <2>1. PICK dir \in {-1, 1} : delete_char_dir(dir)
    BY <1>3
  <2> QED
    BY <2>1, DeletesFit
<1>4. CASE previous_history \/ next_history \/ \E dir \in {-1, 1} : history_search(dir)
  BY <1>4, EndRecalls, SearchRecalls
<1>5. CASE completion
  <2>1. PICK t \in Completed :
          \/ Edit("completion", Inserted(cmd, cursor_pos, t), cursor_pos + Len(t))
          \/ Reprint("completion", Inserted(cmd, cursor_pos, t), cursor_pos + Len(t))
    BY <1>5 DEF completion
  <2>2. t \in Text /\ Whole(t) /\ ~quote_flag
    BY <1>5, TypedWhole DEF completion
  <2>3. CASE Edit("completion", Inserted(cmd, cursor_pos, t), cursor_pos + Len(t))
    <3>1. \E s, p : FitEdit("completion", s, p)
      BY <2>2, <2>3, InsertsFit
    <3> QED
      BY <3>1
  <2> QED
    BY <2>1, <2>2, <2>3
<1> QED
  BY <1>1, <1>2, <1>3, <1>4, <1>5 DEF Next

\* Where the row of kills ends, or nothing happens to the text, there is nothing
\* to keep but the types.
LEMMA NoKillKeeps ==
  ASSUME Kept, Types', ~Killing' \/ before' = NoLine \/ UNCHANGED <<text, last_fun>>
  PROVE  KInv'
<1>1. CASE ~Killing' \/ before' = NoLine
  BY <1>1 DEF KInv, Kept
<1>2. CASE UNCHANGED <<text, last_fun>>
  <2>1. Sound' = Sound /\ (Killing' <=> Killing) /\ before' = before
    BY <1>2 DEF Sound, Killing, text
  <2>2. Splits(clip_board, before)' <=> Splits(clip_board, before)
    BY <1>2 DEF Splits, LeftOf, RightOf, text
  <2>3. Kept'
    BY <2>1, <2>2 DEF Kept
  <2> QED
    BY <2>3 DEF KInv
<1> QED
  BY <1>1, <1>2

\* A step other than a kill keeps the types, and the invariant.
LEMMA TextKeeps ==
  ASSUME KInv, cmd' \in Text, cursor_pos' \in 0..Len(cmd'), clip_board' = clip_board,
         history' \in Seq(Text), history_index' \in 0..Len(history'),
         last_fun' \in Funs, ~quote_flag' \/ (quote_flag' = TRUE /\ last_fun' = "other"),
         quote_flag' \in BOOLEAN, before' = NoLine
  PROVE  KInv'
<1>1. Types'
  BY DEF KInv, Types
<1> QED
  BY <1>1, NoKillKeeps DEF KInv

\* An edit ends the row of kills.
LEMMA EditKeeps ==
  ASSUME KInv, NEW fun \in {"other", "completion"}, NEW s \in Text, NEW p \in Int,
         Edit(fun, s, p)
  PROVE  KInv'
<1>1. cmd' \in Text /\ cursor_pos' \in 0..Len(cmd')
  BY SettleIs DEF Edit
<1>2. /\ clip_board' = clip_board /\ UNCHANGED lines /\ last_fun' = fun
      /\ quote_flag' = quote_flag /\ ~quote_flag /\ before' = NoLine
  BY DEF Edit
<1>3. history' \in Seq(Text) /\ history_index' \in 0..Len(history') /\ quote_flag' \in BOOLEAN
  BY <1>2 DEF KInv, Types, lines
<1>4. last_fun' \in Funs
  BY <1>2 DEF Funs
<1> QED
  BY <1>1, <1>2, <1>3, <1>4, TextKeeps

\* A line of the history, too.
LEMMA RecallKeeps ==
  ASSUME KInv, NEW lns, NEW i, NEW p, FitRecall(lns, i, p)
  PROVE  KInv'
<1>1. /\ lns \in Seq(Text) /\ i \in 0..(Len(lns) - 1) /\ p \in Int /\ Len(lns) \in Nat
      /\ Settle(lns[i + 1], p) /\ history' = lns /\ history_index' = i
      /\ last_fun' = "other" /\ before' = NoLine /\ clip_board' = clip_board
      /\ quote_flag' = quote_flag /\ ~quote_flag
  BY LenProperties DEF FitRecall, Recall
<1>2. lns[i + 1] \in Text /\ i \in 0..Len(lns)
  <2>1. i + 1 \in 1..Len(lns) /\ i \in 0..Len(lns)
    BY <1>1
  <2> QED
    BY <1>1, <2>1, ElementOfSeq
<1>3. cmd' \in Text /\ cursor_pos' \in 0..Len(cmd')
  BY <1>1, <1>2, SettleIs
<1>4. last_fun' \in Funs /\ quote_flag' \in BOOLEAN
  BY <1>1 DEF Funs, KInv, Types
<1> QED
  BY <1>1, <1>2, <1>3, <1>4, TextKeeps

\* A new line is empty.
LEMMA StartIs ==
  ASSUME NEW t, NEW more, readline_start(t, more)
  PROVE  /\ cmd' = << >> /\ cmd' \in Text /\ cursor_pos' \in 0..Len(cmd')
         /\ Whole(cmd') /\ Whole(Sub(cmd', 0, cursor_pos'))
<1>1. cmd' = << >> /\ cursor_pos' = 0
  BY DEF readline_start
<1>2. << >> \in Text /\ Len(<< >>) = 0 /\ 0 \in 0..0 /\ Whole(<< >>)
  BY DEF Text, Whole
<1>3. Sub(<< >>, 0, Len(<< >>)) = << >>
  BY <1>2, SubAll
<1> QED
  BY <1>1, <1>2, <1>3

\* The line is handed over.
LEMMA AcceptKeeps ==
  ASSUME Types, accept_line
  PROVE  /\ cmd' = << >> /\ cmd' \in Text /\ cursor_pos' \in 0..Len(cmd')
         /\ Whole(cmd') /\ Whole(Sub(cmd', 0, cursor_pos'))
         /\ history' \in Seq(Text) /\ history_index' \in 0..Len(history')
         /\ AllWhole => \A k \in 1..Len(history') : Whole(history'[k])
<1>1. PICK t, more : readline_start(t, more)
  BY DEF accept_line, handle_cmd
<1>2. PICK lns : lns = history'
  OBVIOUS
<1>3. lns = Append(history, cmd) \/ lns = history
  BY <1>2 DEF accept_line
<1>4. /\ lns \in Seq(Text) /\ Len(lns) \in Nat
      /\ AllWhole => \A k \in 1..Len(lns) : Whole(lns[k])
  BY <1>3, AppendLine
<1>5. history_index' = Len(lns)
  BY <1>2 DEF accept_line
<1> QED
  BY <1>1, <1>2, <1>4, <1>5, StartIs

\* Every step keeps the invariant.
LEMMA NextKInv == KInv /\ [Next]_vars => KInv'
<1> SUFFICES ASSUME KInv, [Next]_vars PROVE KInv'
  OBVIOUS
<1>1. Types /\ Kept
  BY DEF KInv
<1>2. CASE \E fun, s, p : FitEdit(fun, s, p)
  BY <1>2, EditKeeps DEF FitEdit
<1>3. CASE transpose_chars
  <2>1. PICK s \in Text, p \in Int : Edit("other", s, p)
    BY <1>1, <1>3, TransposeChars
  <2> QED
    BY <2>1, EditKeeps
<1>4. CASE \E start, end, dir : Beside(start, end, dir) /\ kill_region(start, end, dir)
  BY <1>4, KillKeeps
<1>5. CASE \E lns, i, p : FitRecall(lns, i, p)
  BY <1>5, RecallKeeps
<1>6. CASE quoted_insert
  <2>1. /\ cmd' = cmd /\ cursor_pos' = cursor_pos /\ clip_board' = clip_board
        /\ UNCHANGED lines /\ last_fun' = "other" /\ quote_flag' = TRUE /\ before' = NoLine
    BY <1>6 DEF quoted_insert
  <2> QED
    BY <1>1, <2>1, TextKeeps DEF Types, lines, Funs
<1>7. CASE Quoted
  <2>1. /\ clip_board' = clip_board /\ before' = before /\ UNCHANGED lines
        /\ last_fun' = last_fun /\ quote_flag /\ quote_flag' = FALSE
        /\ \/ \E t \in Typed : Settle(Inserted(cmd, cursor_pos, t), cursor_pos + Len(t))
           \/ Settle(cmd, cursor_pos)
    BY <1>7 DEF Quoted
  <2>2. cmd' \in Text /\ cursor_pos' \in 0..Len(cmd')
    <3>1. cmd \in Text /\ cursor_pos \in 0..Len(cmd) /\ cursor_pos \in Int
      BY <1>1 DEF Types
    <3>2. ASSUME NEW t \in Typed, Settle(Inserted(cmd, cursor_pos, t), cursor_pos + Len(t))
          PROVE  cmd' \in Text /\ cursor_pos' \in 0..Len(cmd')
      <4>1. t \in Text
        BY TypedWhole
      <4>2. Inserted(cmd, cursor_pos, t) \in Text /\ cursor_pos + Len(t) \in Int
        BY <3>1, <4>1, InsertFits, LenProperties DEF Text
      <4> QED
        BY <3>2, <4>2, SettleIs
    <3> QED
      BY <2>1, <3>1, <3>2, SettleIs
  <2>3. last_fun = "other"
    BY <1>1, <2>1 DEF Types
  <2>4. Types'
    BY <1>1, <2>1, <2>2, <2>3 DEF Types, lines
  <2>5. ~Killing'
    BY <2>1, <2>3 DEF Killing
  <2> QED
    BY <1>1, <2>4, <2>5, NoKillKeeps
<1>8. CASE accept_line
  <2>1. /\ clip_board' = clip_board /\ last_fun' = last_fun /\ quote_flag' = quote_flag
        /\ ~quote_flag /\ before' = NoLine
    BY <1>8 DEF accept_line
  <2>2. /\ cmd' \in Text /\ cursor_pos' \in 0..Len(cmd')
        /\ history' \in Seq(Text) /\ history_index' \in 0..Len(history')
    BY <1>1, <1>8, AcceptKeeps
  <2> QED
    BY <1>1, <2>1, <2>2, TextKeeps DEF Types
<1>9. CASE abort
  <2>1. /\ clip_board' = clip_board /\ last_fun' = last_fun /\ quote_flag' = quote_flag
        /\ ~quote_flag /\ before' = NoLine /\ history' = history
        /\ history_index' = Len(history)
    BY <1>9 DEF abort
  <2>2. cmd' \in Text /\ cursor_pos' \in 0..Len(cmd')
    BY <1>9, StartIs DEF abort
  <2>3. history \in Seq(Text) /\ Len(history) \in Nat
    BY <1>1, LenProperties DEF Types
  <2>4. history_index' \in 0..Len(history')
    BY <2>1, <2>3
  <2> QED
    BY <1>1, <2>1, <2>2, <2>4, TextKeeps DEF Types
<1>10. CASE UNCHANGED <<text, lines, last_fun, quote_flag>>
  <2>1. Types'
    BY <1>1, <1>10 DEF Types, text, lines
  <2> QED
    BY <1>1, <1>10, <2>1, NoKillKeeps
<1>11. ASSUME NEW fun \in Funs, NEW s \in Text, NEW p \in 0..Len(s), Reprint(fun, s, p),
              ~quote_flag
       PROVE  KInv'
  <2>1. /\ cmd' = s /\ cursor_pos' = p /\ last_fun' = fun /\ clip_board' = clip_board
        /\ UNCHANGED lines /\ quote_flag' = quote_flag /\ before' = NoLine
    BY <1>11 DEF Reprint
  <2> QED
    BY <1>1, <1>11, <2>1, TextKeeps DEF Types, lines
<1>12. CASE control_c
  <2>1. CASE last_fun = "control_c"
    BY <1>10, <1>12, <2>1 DEF control_c
  <2>2. CASE last_fun # "control_c"
    BY <1>1, <1>11, <1>12, <2>2 DEF control_c, Types, Funs
  <2> QED
    BY <2>1, <2>2
<1>13. CASE control_d
  BY <1>10, <1>13 DEF control_d
<1>14. ASSUME NEW t \in Completed, ~quote_flag,
              Reprint("completion", Inserted(cmd, cursor_pos, t), cursor_pos + Len(t))
       PROVE  KInv'
  <2>1. t \in Text
    BY TypedWhole
  <2>2. cmd \in Text /\ cursor_pos \in 0..Len(cmd)
    BY <1>1 DEF Types
  <2>3. /\ Inserted(cmd, cursor_pos, t) \in Text
        /\ cursor_pos + Len(t) \in 0..Len(Inserted(cmd, cursor_pos, t))
    BY <2>1, <2>2, InsertFits
  <2>4. "completion" \in Funs
    BY DEF Funs
  <2> QED
    BY <1>11, <1>14, <2>3, <2>4
<1>15. CASE UNCHANGED vars
  BY <1>10, <1>15 DEF vars
<1> QED
  BY <1>1, <1>2, <1>3, <1>4, <1>5, <1>6, <1>7, <1>8, <1>9, <1>12, <1>13, <1>14, <1>15,
     StepKinds

\* It holds when the prompt is shown first.
LEMMA InitKInv == Init => KInv
<1> SUFFICES ASSUME Init PROVE KInv
  OBVIOUS
<1>1. /\ cmd = << >> /\ cursor_pos = 0 /\ clip_board = << >> /\ history = << >>
      /\ history_index = 0 /\ last_fun = "other" /\ quote_flag = FALSE /\ before = NoLine
  BY DEF Init
<1>2. << >> \in Text /\ Len(<< >>) = 0 /\ << >> \in Seq(Text)
  BY DEF Text
<1>3. Types
  <2>1. cursor_pos \in 0..Len(cmd) /\ history_index \in 0..Len(history)
    BY <1>1, <1>2
  <2>2. cmd \in Text /\ clip_board \in Text /\ history \in Seq(Text)
    BY <1>1, <1>2
  <2>3. /\ last_fun \in Funs /\ quote_flag \in BOOLEAN /\ (quote_flag => last_fun = "other")
        /\ before = NoLine \/ before \in Text \X Text
    BY <1>1 DEF Funs
  <2> QED
    BY <2>1, <2>2, <2>3 DEF Types
<1>4. Kept
  BY <1>1 DEF Kept, Killing
<1> QED
  BY <1>3, <1>4 DEF KInv

\* The invariant holds in every state.
LEMMA Invariance == Spec => []KInv
<1> QED
  BY InitKInv, NextKInv, PTL DEF Spec

\* A yank after any row of kills and deletions gives the line back, in a line of
\* any length, if the row began at a whole line with the cursor in no character.
THEOREM YanksUndoKills == Spec => []YankUndoesKills
<1>1. KInv => YankUndoesKills
  <2> SUFFICES ASSUME KInv, Killing, before # NoLine, Whole(before[1]), Whole(before[2])
               PROVE  Inserted(cmd, cursor_pos, clip_board) = before[1] \o before[2]
    BY DEF YankUndoesKills
  <2>1. Types /\ Splits(clip_board, before) /\ clip_board \in Text
    BY DEF KInv, Kept, Types
  <2>2. PICK left \in Text, right \in Text : before = << left, right >>
    BY <2>1 DEF Types
  <2>3. Splits(clip_board, << left, right >>)
    BY <2>1, <2>2
  <2>4. Inserted(cmd, cursor_pos, clip_board) = left \o right
    BY <2>1, <2>3, SplitsGive
  <2> QED
    BY <2>2, <2>4
<1> QED
  BY <1>1, Invariance, PTL

----------------------------------------------------------------------------
(* Whole characters.                                                       *)

\* What a kill leaves, and what it takes, is whole.
LEMMA KillWhole ==
  ASSUME Types, AllWhole, NEW start, NEW end, NEW dir, Beside(start, end, dir),
         kill_region(start, end, dir)
  PROVE  AllWhole'
<1>1. Sound /\ Whole(clip_board)
  BY WholeIsSound
<1>2. /\ start \in 0..Len(cmd) /\ end \in start..Len(cmd) /\ dir \in {-1, 1}
      /\ Cut(cmd, start) /\ Cut(cmd, end) /\ cursor_pos \in {start, end}
      /\ cmd \in Text /\ Whole(cmd) /\ start \in Int /\ dir \in Int
  BY <1>1 DEF Beside, Sound, Types
<1> DEFINE s == Sub(cmd, 0, start) \o Sub(cmd, end, Len(cmd))
           piece == Sub(cmd, start, end)
<1>3. /\ cmd' = s /\ cursor_pos' = start
      /\ clip_board' = CollectedIs(piece, dir) /\ UNCHANGED lines
  BY <1>2, KillText
<1>4. s \in Text /\ Fits(s, start) /\ start \in 0..Len(s) /\ piece \in Text /\ Whole(piece)
  BY <1>2, CutOutFits
<1> HIDE DEF s, piece
<1>5. Standing \in Text /\ Whole(Standing)
  <2>1. Whole(<< >>)
    BY DEF Whole
  <2> QED
    BY <1>1, <1>2, <1>4, <2>1, CollectedStanding DEF Standing
<1>6. Whole(CollectedIs(piece, dir))
  BY <1>4, <1>5, WholeConcat DEF CollectedIs
<1>7. Clamped(start, s) = start
  BY <1>2, <1>4, ClampedInside
<1>8. Whole(s) /\ Whole(Sub(s, 0, start))
  BY <1>4, <1>7, CutHalves DEF Fits
<1> QED
  BY <1>3, <1>6, <1>8 DEF AllWhole, lines

\* A key but transpose_chars leaves all text whole.
LEMMA StepWhole ==
  ASSUME Types, AllWhole, Next
  PROVE  AllWhole' \/ transpose_chars
<1>1. /\ cmd \in Text /\ cursor_pos \in 0..Len(cmd) /\ cursor_pos \in Int
      /\ Whole(cmd) /\ Cut(cmd, cursor_pos)
  BY WholeIsSound DEF Types, Sound
<1>2. ASSUME Whole(cmd'), Whole(Sub(cmd', 0, cursor_pos')),
             clip_board' = clip_board, history' = history
      PROVE  AllWhole'
  BY <1>2 DEF AllWhole
<1>3. ASSUME NEW s \in Text, NEW p \in Int, Settle(s, p), Fits(s, p),
             clip_board' = clip_board, history' = history
      PROVE  AllWhole'
  BY <1>2, <1>3, SettleIs
<1>4. ASSUME NEW t \in Text, Whole(t)
      PROVE  /\ Inserted(cmd, cursor_pos, t) \in Text /\ cursor_pos + Len(t) \in Int
             /\ cursor_pos + Len(t) \in 0..Len(Inserted(cmd, cursor_pos, t))
             /\ Fits(Inserted(cmd, cursor_pos, t), cursor_pos + Len(t))
  BY <1>1, <1>4, InsertFits, LenProperties DEF Text
<1>5. ASSUME NEW fun, NEW s, NEW p, FitEdit(fun, s, p) PROVE AllWhole'
  BY <1>3, <1>5 DEF FitEdit, Edit, lines
<1>6. ASSUME NEW lns, NEW i, NEW p, FitRecall(lns, i, p) PROVE AllWhole'
  <2>1. /\ lns \in Seq(Text) /\ i \in 0..(Len(lns) - 1) /\ p \in Int /\ Len(lns) \in Nat
        /\ Settle(lns[i + 1], p) /\ history' = lns /\ clip_board' = clip_board
        /\ Fits(lns[i + 1], p) /\ \A k \in 1..Len(lns) : Whole(lns[k])
    BY <1>6, LenProperties DEF FitRecall, Recall
  <2>2. lns[i + 1] \in Text
    BY <2>1, ElementOfSeq
  <2>3. Whole(cmd') /\ Whole(Sub(cmd', 0, cursor_pos'))
    BY <2>1, <2>2, SettleIs
  <2> QED
    BY <2>1, <2>3 DEF AllWhole
<1>7. CASE quoted_insert
  BY <1>7 DEF AllWhole, quoted_insert, lines
<1>8. CASE Quoted
  <2>1. clip_board' = clip_board /\ history' = history
    BY <1>8 DEF Quoted, lines
  <2>2. ASSUME NEW t \in Typed, Settle(Inserted(cmd, cursor_pos, t), cursor_pos + Len(t))
        PROVE  AllWhole'
    <3>1. t \in Text /\ Whole(t)
      BY TypedWhole
    <3> QED
      BY <1>3, <1>4, <2>1, <2>2, <3>1
  <2>3. CASE Settle(cmd, cursor_pos)
    <3>1. Fits(cmd, cursor_pos)
      BY <1>1, FitsCut
    <3> QED
      BY <1>1, <1>3, <2>1, <2>3, <3>1
  <2> QED
    BY <1>8, <2>2, <2>3 DEF Quoted
<1>9. CASE accept_line
  <2>1. clip_board' = clip_board
    BY <1>9 DEF accept_line
  <2>2. /\ Whole(cmd') /\ Whole(Sub(cmd', 0, cursor_pos'))
        /\ \A k \in 1..Len(history') : Whole(history'[k])
    BY <1>9, AcceptKeeps
  <2> QED
    BY <2>1, <2>2 DEF AllWhole
<1>10. CASE abort
  <2>1. clip_board' = clip_board /\ history' = history
    BY <1>10 DEF abort
  <2>2. Whole(cmd') /\ Whole(Sub(cmd', 0, cursor_pos'))
    BY <1>10, StartIs DEF abort
  <2> QED
    BY <1>2, <2>1, <2>2
<1>11. CASE control_c \/ control_d
  <2>1. cmd' = cmd /\ cursor_pos' = cursor_pos /\ clip_board' = clip_board /\ history' = history
    BY <1>11 DEF control_c, control_d, Reprint, text, lines
  <2> QED
    BY <2>1 DEF AllWhole
<1>12. ASSUME NEW t \in Completed,
              Reprint("completion", Inserted(cmd, cursor_pos, t), cursor_pos + Len(t))
       PROVE  AllWhole'
  <2> DEFINE s == Inserted(cmd, cursor_pos, t)
             p == cursor_pos + Len(t)
  <2>1. t \in Text /\ Whole(t)
    BY TypedWhole
  <2>2. s \in Text /\ p \in Int /\ p \in 0..Len(s) /\ Fits(s, p)
    BY <1>4, <2>1
  <2>3. cmd' = s /\ cursor_pos' = p /\ clip_board' = clip_board /\ history' = history
    BY <1>12 DEF Reprint, lines
  <2> HIDE DEF s, p
  <2>4. Whole(s) /\ Cut(s, p)
    BY <2>2, ClampedInside DEF Fits
  <2>5. Whole(Sub(s, 0, p))
    BY <2>2, <2>4, CutHalves
  <2> QED
    BY <1>2, <2>3, <2>4, <2>5
<1> QED
  BY <1>5, <1>6, <1>7, <1>8, <1>9, <1>10, <1>11, <1>12, KillWhole, StepKinds

\* No key but transpose_chars takes a character of two units apart, in the line,
\* the clipboard or the history, or leaves the cursor inside of one.
THEOREM CharactersStayWhole == Spec => CharactersWhole
<1>1. KInv /\ [Next]_vars => [AllWhole => AllWhole' \/ transpose_chars]_vars
  BY StepWhole DEF KInv
<1> QED
  BY <1>1, Invariance, PTL DEF Spec, CharactersWhole

----------------------------------------------------------------------------
(* Columns: division by the width.                                         *)

\* A number is so many rows and the rest.
LEMMA RowsAndRest ==
  ASSUME NEW w \in Nat, w >= 1, NEW a \in Int
  PROVE  \E q \in Int : \E r \in 0..(w - 1) :
           q = a \div w /\ r = a % w /\ a = q * w + r
<1>1. a \div w \in Int /\ a % w \in 0..(w - 1)
  OBVIOUS
<1>2. \A d, e \in Int : d = a - (a \div w) * w /\ e = a % w => d = e
  OBVIOUS
<1>3. PICK q \in Int : q = a \div w
  BY <1>1
<1>4. PICK r \in 0..(w - 1) : r = a % w
  BY <1>1
<1>5. q * w \in Int
  OBVIOUS
<1>6. a - q * w = r
  BY <1>2, <1>3, <1>4, <1>5
<1>7. a = q * w + r
  BY <1>5, <1>6
<1> QED
  BY <1>3, <1>4, <1>7

\* There is one way to write it so.
LEMMA OneRest ==
  ASSUME NEW w \in Nat, w >= 1, NEW q \in Int, NEW r \in 0..(w - 1)
  PROVE  (q * w + r) \div w = q /\ (q * w + r) % w = r
<1> DEFINE a == q * w + r
<1>1. a \in Int
  OBVIOUS
<1>2. PICK q2 \in Int, r2 \in 0..(w - 1) : q2 = a \div w /\ r2 = a % w /\ a = q2 * w + r2
  <2> HIDE DEF a
  <2> QED
    BY <1>1, RowsAndRest
<1>3. (q - q2) * w = r2 - r
  BY <1>2
<1>4. ASSUME NEW d \in Int, NEW e \in Int, d * w = e, -w < e, e < w PROVE d = 0
  <2>1. d >= 1 => d * w >= w
    OBVIOUS
  <2>2. d <= -1 => d * w <= -w
    OBVIOUS
  <2> QED
    BY <1>4, <2>1, <2>2
<1>5. q - q2 = 0
  <2>1. q - q2 \in Int /\ r2 - r \in Int /\ -w < r2 - r /\ r2 - r < w
    OBVIOUS
  <2> HIDE DEF a
  <2> QED
    BY <1>3, <1>4, <2>1
<1>6. q2 = q /\ r2 = r
  BY <1>3, <1>5
<1> QED
  BY <1>2, <1>6

\* The rest of a sum.
LEMMA RestOfSum ==
  ASSUME NEW w \in Nat, w >= 1, NEW a \in Int, NEW n \in Int
  PROVE  ((a % w) + n) % w = (a + n) % w
<1>1. PICK q \in Int, r \in 0..(w - 1) : q = a \div w /\ r = a % w /\ a = q * w + r
  BY RowsAndRest
<1>2. r + n \in Int
  OBVIOUS
<1>3. PICK p \in Int, m \in 0..(w - 1) :
        p = (r + n) \div w /\ m = (r + n) % w /\ r + n = p * w + m
  BY <1>2, RowsAndRest
<1>4. a + n = (q + p) * w + m
  <2>1. q * w + p * w = (q + p) * w
    OBVIOUS
  <2>2. q * w \in Int /\ p * w \in Int
    OBVIOUS
  <2> QED
    BY <1>1, <1>3, <2>1, <2>2
<1>5. (a + n) % w = m
  <2>1. q + p \in Int
    OBVIOUS
  <2> QED
    <3>1. ((q + p) * w + m) % w = m
      BY <2>1, OneRest
    <3> QED
      BY <1>4, <3>1
<1> QED
  BY <1>1, <1>3, <1>5

----------------------------------------------------------------------------
(* The length of a text on the terminal.                                   *)

\* where the units of s between two positions are that take a column
Shown(s, i, j) == {m \in (i + 1)..j : s[m] # "lo"}

LEMMA ShownCount ==
  ASSUME NEW s \in Text, NEW i \in 0..Len(s), NEW j \in i..Len(s)
  PROVE  /\ IsFiniteSet(Shown(s, i, j))
         /\ ucs_length(Sub(s, i, j)) = Cardinality(Shown(s, i, j))
         /\ ucs_length(Sub(s, i, j)) \in Nat
<1> DEFINE A == {m \in 1..Len(Sub(s, i, j)) : Sub(s, i, j)[m] # "lo"}
           B == Shown(s, i, j)
           f == [m \in A |-> i + m]
<1>1. /\ Len(Sub(s, i, j)) = j - i
      /\ \A k \in 1..(j - i) : Sub(s, i, j)[k] = s[i + k]
  BY SubIs
<1>2. i \in Nat /\ j \in Nat /\ i <= j
  BY LenProperties DEF Text
<1>3. \A m : m \in A <=> m \in 1..(j - i) /\ s[i + m] # "lo"
  BY <1>1
<1>4. \A m : m \in B <=> m \in (i + 1)..j /\ s[m] # "lo"
  BY DEF Shown
<1>5. IsFiniteSet(A)
  <2>1. A \in SUBSET (1..(j - i)) /\ IsFiniteSet(1..(j - i))
    BY <1>2, <1>3, FS_Interval
  <2> HIDE DEF A
  <2> QED
    BY <2>1, FS_Subset
<1> HIDE DEF A, B
<1>6. \A m \in A : i + m \in B
  BY <1>2, <1>3, <1>4
<1>7. \A m \in B : m - i \in A /\ i + (m - i) = m
  BY <1>2, <1>3, <1>4
<1>8. f \in Bijection(A, B)
  <2>1. f \in [A -> B]
    BY <1>6
  <2>2. \A m, n \in A : f[m] = f[n] => m = n
    <3>1. \A m \in A : m \in Int
      BY <1>2, <1>3
    <3> QED
      BY <1>2, <3>1
  <2>3. \A m \in B : \E n \in A : f[n] = m
    <3> TAKE m \in B
    <3>1. m - i \in A /\ f[m - i] = m
      BY <1>7
    <3> QED
      BY <3>1
  <2> QED
    BY <2>1, <2>2, <2>3, Fun_IsBij
<1>9. IsFiniteSet(B) /\ Cardinality(B) = Cardinality(A)
  <2>1. ExistsBijection(A, B)
    BY <1>8 DEF ExistsBijection
  <2> QED
    BY <1>5, <2>1, FS_Bijection
<1>10. ucs_length(Sub(s, i, j)) = Cardinality(A)
  BY DEF ucs_length, A
<1> QED
  BY <1>5, <1>9, <1>10, FS_CardinalityType DEF B

\* The length of a text is that of its parts together, as ucs_length's comment
\* says, wherever it is cut.
LEMMA LengthsAdd ==
  ASSUME NEW s \in Text, NEW i \in 0..Len(s), NEW j \in i..Len(s), NEW k \in j..Len(s)
  PROVE  /\ ucs_length(Sub(s, i, j)) \in Nat /\ ucs_length(Sub(s, j, k)) \in Nat
         /\ ucs_length(Sub(s, i, k)) = ucs_length(Sub(s, i, j)) + ucs_length(Sub(s, j, k))
<1>1. /\ i \in Nat /\ j \in Nat /\ k \in Nat /\ i <= j /\ j <= k
      /\ j \in 0..Len(s) /\ k \in i..Len(s)
  BY LenProperties DEF Text
<1>2. /\ IsFiniteSet(Shown(s, i, j)) /\ ucs_length(Sub(s, i, j)) \in Nat
      /\ ucs_length(Sub(s, i, j)) = Cardinality(Shown(s, i, j))
  BY ShownCount
<1>3. /\ IsFiniteSet(Shown(s, j, k)) /\ ucs_length(Sub(s, j, k)) \in Nat
      /\ ucs_length(Sub(s, j, k)) = Cardinality(Shown(s, j, k))
  BY <1>1, ShownCount
<1>4. ucs_length(Sub(s, i, k)) = Cardinality(Shown(s, i, k))
  BY <1>1, ShownCount
<1>5. Shown(s, i, k) = Shown(s, i, j) \cup Shown(s, j, k)
  BY <1>1 DEF Shown
<1>6. Shown(s, i, j) \cap Shown(s, j, k) = {}
  BY <1>1 DEF Shown
<1>7. Cardinality(Shown(s, i, k))
        = Cardinality(Shown(s, i, j)) + Cardinality(Shown(s, j, k)) - 0
  <2>1. Cardinality(Shown(s, i, j) \cap Shown(s, j, k)) = 0
    BY <1>6, FS_EmptySet
  <2> HIDE DEF Shown
  <2>2. Cardinality(Shown(s, i, j) \cup Shown(s, j, k))
          = Cardinality(Shown(s, i, j)) + Cardinality(Shown(s, j, k))
              - Cardinality(Shown(s, i, j) \cap Shown(s, j, k))
    BY <1>2, <1>3, FS_Union
  <2> QED
    BY <1>5, <2>1, <2>2
<1> QED
  BY <1>2, <1>3, <1>4, <1>7

\* Nothing between a position and itself.
LEMMA LengthOfNothing ==
  ASSUME NEW s \in Text, NEW i \in 0..Len(s)
  PROVE  ucs_length(Sub(s, i, i)) = 0
<1>1. i \in Nat /\ i \in i..Len(s)
  BY LenProperties DEF Text
<1>2. Shown(s, i, i) = {}
  BY <1>1 DEF Shown
<1> QED
  BY <1>1, <1>2, ShownCount, FS_EmptySet

----------------------------------------------------------------------------
(* The terminal.                                                           *)

Terminal == [x : 0..(Width - 1), at : Int, pending : BOOLEAN,
             last : Text, lastpos : Nat, origin : Nat]

\* the column is that of the cell, and the cursor is not in the margin
Aligned(t) == ~t.pending /\ t.x = t.at % Width

\* what moving the cursor leaves alone
SameLineShown(t, u) == u.last = t.last /\ u.lastpos = t.lastpos /\ u.origin = t.origin

\* u is t with the cursor d cells on, if the column was right
Moved(t, u, d) ==
  /\ u \in Terminal /\ SameLineShown(t, u)
  /\ Aligned(t) => Aligned(u) /\ u.at = t.at + d

\* The column and the row of a cell.
LEMMA CellIs ==
  ASSUME NEW t \in Terminal, Aligned(t)
  PROVE  /\ Row(t) \in Int /\ Column(t) = t.x /\ t.x \in 0..(Width - 1)
         /\ t.at = Row(t) * Width + t.x
<1>1. t.at \in Int /\ t.x \in 0..(Width - 1) /\ Width \in Nat /\ Width >= 1
  BY WidthAssumption DEF Terminal
<1>2. PICK q \in Int, r \in 0..(Width - 1) :
        q = t.at \div Width /\ r = t.at % Width /\ t.at = q * Width + r
  BY <1>1, RowsAndRest
<1>3. ~t.pending /\ r = t.x
  BY <1>2 DEF Aligned
<1>4. Row(t) = q /\ Column(t) = r
  <2>1. Row(t) = t.at \div Width /\ Column(t) = t.at % Width
    BY <1>3 DEF Row, Column
  <2> QED
    BY <1>2, <2>1
<1>5. t.at = Row(t) * Width + t.x
  <2>1. t.at = q * Width + t.x
    BY <1>2, <1>3
  <2>2. Row(t) = q
    BY <1>4
  <2> QED
    BY <2>1, <2>2, Zenon
<1>6. Row(t) \in Int /\ Column(t) = t.x /\ t.x \in 0..(Width - 1)
  BY <1>1, <1>3, <1>4
<1> QED
  BY <1>5, <1>6, Zenon

\* Putting the cursor at a cell, and taking the column for y.
LEMMA PlaceIs ==
  ASSUME NEW t \in Terminal, NEW q \in Int, NEW c \in 0..(Width - 1), NEW y \in 0..(Width - 1)
  PROVE  /\ Place(t, q, c).x = t.x
         /\ [Place(t, q, c) EXCEPT !.x = y] \in Terminal
         /\ SameLineShown(t, [Place(t, q, c) EXCEPT !.x = y])
         /\ y = c => Aligned([Place(t, q, c) EXCEPT !.x = y])
         /\ [Place(t, q, c) EXCEPT !.x = y].at = q * Width + c
<1> DEFINE u == [Place(t, q, c) EXCEPT !.x = y]
<1>1. Width \in Nat /\ Width >= 1
  BY WidthAssumption
<1>2. q * Width + c \in Int
  BY <1>1
<1>3. PICK m \in Int : m = q * Width + c
  BY <1>2
<1>4. Place(t, q, c) = [x |-> t.x, at |-> m, pending |-> FALSE,
                        last |-> t.last, lastpos |-> t.lastpos, origin |-> t.origin]
  <2>1. Place(t, q, c) = [t EXCEPT !.at = m, !.pending = FALSE]
    BY <1>3, Zenon DEF Place
  <2>2. t = [x |-> t.x, at |-> t.at, pending |-> t.pending,
             last |-> t.last, lastpos |-> t.lastpos, origin |-> t.origin]
    BY DEF Terminal
  <2> QED
    BY <2>1, <2>2
<1>5. u = [x |-> y, at |-> m, pending |-> FALSE,
           last |-> t.last, lastpos |-> t.lastpos, origin |-> t.origin]
  <2> DEFINE b == Place(t, q, c)
  <2>1. u = [b EXCEPT !.x = y]
    OBVIOUS
  <2>2. b = [x |-> t.x, at |-> m, pending |-> FALSE,
             last |-> t.last, lastpos |-> t.lastpos, origin |-> t.origin]
    BY <1>4
  <2> HIDE DEF u, b
  <2> QED
    BY <2>1, <2>2
<1> HIDE DEF u
<1>6. u \in Terminal
  BY <1>5 DEF Terminal
<1>7. m % Width = c
  BY <1>1, <1>3, OneRest
<1>8. Place(t, q, c).x = t.x /\ SameLineShown(t, u) /\ (y = c => Aligned(u)) /\ u.at = m
  BY <1>4, <1>5, <1>7 DEF SameLineShown, Aligned
<1> QED
  BY <1>3, <1>6, <1>8, Zenon DEF u

\* The rows of any terminal are integers, and the columns are those there are.
LEMMA RowColumn ==
  ASSUME NEW t \in Terminal
  PROVE  Row(t) \in Int /\ Column(t) \in 0..(Width - 1)
<1>1. t.at \in Int /\ Width \in Nat /\ Width >= 2
  BY WidthAssumption DEF Terminal
<1>2. PICK q \in Int, r \in 0..(Width - 1) : q = t.at \div Width /\ r = t.at % Width
  BY <1>1, RowsAndRest
<1> QED
  BY <1>1, <1>2 DEF Row, Column

\* One column to the right, over the margin at the last.
LEMMA RightIs ==
  ASSUME NEW t \in Terminal
  PROVE  Moved(t, StepRight(t), 1)
<1>1. /\ t.at \in Int /\ t.x \in 0..(Width - 1) /\ Width \in Nat /\ Width >= 2
      /\ Row(t) \in Int /\ Column(t) \in 0..(Width - 1)
  BY WidthAssumption, RowColumn DEF Terminal
<1>2. CASE t.x = Width - 1
  <2> DEFINE u == [Place(t, Row(t) + 1, 0) EXCEPT !.x = 0]
  <2>1. /\ u \in Terminal /\ SameLineShown(t, u) /\ Aligned(u)
        /\ u.at = (Row(t) + 1) * Width + 0
    <3>1. Row(t) + 1 \in Int /\ 0 \in 0..(Width - 1)
      BY <1>1
    <3> QED
      BY <3>1, PlaceIs
  <2>2. ASSUME Aligned(t) PROVE (Row(t) + 1) * Width + 0 = t.at + 1
    <3>1. t.at = Row(t) * Width + (Width - 1)
      BY <1>2, <2>2, CellIs
    <3> QED
      BY <1>1, <3>1
  <2>3. StepRight(t) = u
    BY <1>2 DEF StepRight
  <2> HIDE DEF u
  <2> QED
    BY <2>1, <2>2, <2>3 DEF Moved
<1>3. CASE t.x # Width - 1
  <2> DEFINE c == Min({Column(t) + 1, Width - 1})
             u == [Place(t, Row(t), c) EXCEPT !.x = t.x + 1]
  <2>1. c \in 0..(Width - 1) /\ (Column(t) = t.x => c = t.x + 1) /\ t.x + 1 \in 0..(Width - 1)
    <3>1. c = IF Column(t) + 1 <= Width - 1 THEN Column(t) + 1 ELSE Width - 1
      BY <1>1, MinOfTwo
    <3> HIDE DEF c
    <3> QED
      BY <1>1, <1>3, <3>1
  <2>2. StepRight(t) = [Place(t, Row(t), c) EXCEPT !.x = @ + 1]
    BY <1>3 DEF StepRight
  <2> HIDE DEF c
  <2>3. Place(t, Row(t), c).x = t.x
    BY <1>1, <2>1, PlaceIs
  <2>4. StepRight(t) = u
    BY <2>2, <2>3
  <2>5. /\ u \in Terminal /\ SameLineShown(t, u) /\ u.at = Row(t) * Width + c
        /\ t.x + 1 = c => Aligned(u)
    BY <1>1, <2>1, PlaceIs
  <2> HIDE DEF u
  <2>6. ASSUME Aligned(t) PROVE Aligned(u) /\ u.at = t.at + 1
    <3>1. c = t.x + 1 /\ t.at = Row(t) * Width + t.x
      BY <2>1, <2>6, CellIs
    <3>2. Row(t) * Width \in Int
      BY <1>1
    <3> QED
      BY <1>1, <2>5, <3>1, <3>2
  <2> QED
    BY <2>4, <2>5, <2>6 DEF Moved
<1> QED
  BY <1>2, <1>3

\* One column to the left, over the beginning of the row.
LEMMA LeftIs ==
  ASSUME NEW t \in Terminal
  PROVE  Moved(t, StepLeft(t), -1)
<1>1. /\ t.at \in Int /\ t.x \in 0..(Width - 1) /\ Width \in Nat /\ Width >= 2
      /\ Row(t) \in Int /\ Column(t) \in 0..(Width - 1)
  BY WidthAssumption, RowColumn DEF Terminal
<1>2. CASE t.x = 0
  <2> DEFINE u == [Place(t, Row(t) - 1, Width - 1) EXCEPT !.x = Width - 1]
  <2>1. /\ u \in Terminal /\ SameLineShown(t, u) /\ Aligned(u)
        /\ u.at = (Row(t) - 1) * Width + (Width - 1)
    <3>1. Row(t) - 1 \in Int /\ Width - 1 \in 0..(Width - 1)
      BY <1>1
    <3> QED
      BY <3>1, PlaceIs
  <2>2. ASSUME Aligned(t) PROVE (Row(t) - 1) * Width + (Width - 1) = t.at + (-1)
    <3>1. t.at = Row(t) * Width + 0
      BY <1>2, <2>2, CellIs
    <3> QED
      BY <1>1, <3>1
  <2>3. StepLeft(t) = u
    BY <1>2 DEF StepLeft
  <2> HIDE DEF u
  <2> QED
    BY <2>1, <2>2, <2>3 DEF Moved
<1>3. CASE t.x # 0
  <2> DEFINE c == Max({Column(t) - 1, 0})
             u == [Place(t, Row(t), c) EXCEPT !.x = t.x - 1]
  <2>1. c \in 0..(Width - 1) /\ (Column(t) = t.x => c = t.x - 1) /\ t.x - 1 \in 0..(Width - 1)
    <3>1. c = IF Column(t) - 1 >= 0 THEN Column(t) - 1 ELSE 0
      BY <1>1, MaxOfTwo
    <3> HIDE DEF c
    <3> QED
      BY <1>1, <1>3, <3>1
  <2>2. StepLeft(t) = [Place(t, Row(t), c) EXCEPT !.x = @ - 1]
    BY <1>3 DEF StepLeft
  <2> HIDE DEF c
  <2>3. Place(t, Row(t), c).x = t.x
    BY <1>1, <2>1, PlaceIs
  <2>4. StepLeft(t) = u
    BY <2>2, <2>3
  <2>5. /\ u \in Terminal /\ SameLineShown(t, u) /\ u.at = Row(t) * Width + c
        /\ t.x - 1 = c => Aligned(u)
    BY <1>1, <2>1, PlaceIs
  <2> HIDE DEF u
  <2>6. ASSUME Aligned(t) PROVE Aligned(u) /\ u.at = t.at + (-1)
    <3>1. c = t.x - 1 /\ t.at = Row(t) * Width + t.x
      BY <2>1, <2>6, CellIs
    <3>2. Row(t) * Width \in Int
      BY <1>1
    <3> QED
      BY <1>1, <2>5, <3>1, <3>2
  <2> QED
    BY <2>4, <2>5, <2>6 DEF Moved
<1> QED
  BY <1>2, <1>3

\* Induction along a loop: what holds before it and is kept by each round.
LEMMA EachRound ==
  ASSUME NEW N \in Nat, NEW G, 0 \in G, \A k \in 1..N : k - 1 \in G => k \in G
  PROVE  \A k \in 0..N : k \in G
<1> DEFINE Bad == {k \in 0..N : k \notin G}
<1>1. SUFFICES ASSUME Bad # {} PROVE FALSE
  OBVIOUS
<1>2. Bad \in SUBSET Nat
  OBVIOUS
<1> HIDE DEF Bad
<1>3. Min(Bad) \in Bad /\ \A j \in Bad : Min(Bad) <= j
  BY <1>1, <1>2, MinIsLeast
<1>4. PICK k \in Bad : \A j \in Bad : k <= j
  BY <1>3
<1>5. k \in 1..N /\ k - 1 \in 0..N /\ ~(k <= k - 1) /\ k \notin G
  BY <1>4 DEF Bad
<1>6. k - 1 \in G
  BY <1>4, <1>5 DEF Bad
<1> QED
  BY <1>5, <1>6

\* f[k] is what a loop has after k rounds.
Unrolls(f, base, N, step) == f[0] = base /\ \A k \in 1..N : f[k] = step[f[k - 1]]

\* A loop of any number of rounds has values after each of them.
LEMMA Rounds ==
  ASSUME NEW S, NEW base \in S, NEW N \in Nat, NEW step \in [S -> S]
  PROVE  \E f \in [0..N -> S] : Unrolls(f, base, N, step)
<1> DEFINE Upto(n, f) == f[0] = base /\ \A k \in 1..n : f[k] = step[f[k - 1]]
           Done == {n \in 0..N : \E f \in [0..n -> S] : Upto(n, f)}
<1>1. 0 \in Done
  <2>1. [k \in 0..0 |-> base] \in [0..0 -> S] /\ Upto(0, [k \in 0..0 |-> base])
    OBVIOUS
  <2>2. \E f \in [0..0 -> S] : Upto(0, f)
    BY <2>1
  <2>3. 0 \in 0..N
    OBVIOUS
  <2> HIDE DEF Upto
  <2> QED
    BY <2>2, <2>3
<1>2. ASSUME NEW n \in 1..N, n - 1 \in Done PROVE n \in Done
  <2>1. PICK f \in [0..(n - 1) -> S] : Upto(n - 1, f)
    BY <1>2
  <2> DEFINE g == [k \in 0..n |-> IF k = n THEN step[f[n - 1]] ELSE f[k]]
  <2>2. n - 1 \in 0..(n - 1)
    OBVIOUS
  <2>3. step[f[n - 1]] \in S
    <3>1. f[n - 1] \in S
      BY <2>2
    <3> QED
      BY <3>1
  <2>4. g \in [0..n -> S]
    BY <2>3
  <2>5. \A k \in 0..(n - 1) : g[k] = f[k]
    OBVIOUS
  <2>6. g[n] = step[f[n - 1]]
    OBVIOUS
  <2> HIDE DEF g
  <2>7. g[0] = base
    BY <2>1, <2>5
  <2>8. ASSUME NEW k \in 1..n PROVE g[k] = step[g[k - 1]]
    <3>1. CASE k = n
      BY <2>5, <2>6, <3>1
    <3>2. CASE k # n
      <4>1. k \in 1..(n - 1) /\ k \in 0..(n - 1) /\ k - 1 \in 0..(n - 1)
        BY <3>2
      <4>2. g[k] = f[k] /\ g[k - 1] = f[k - 1]
        BY <2>5, <4>1
      <4> QED
        BY <2>1, <4>1, <4>2
    <3> QED
      BY <3>1, <3>2
  <2>9. Upto(n, g)
    BY <2>7, <2>8
  <2> QED
    BY <2>4, <2>9
<1> HIDE DEF Done
<1>3. N \in Done
  <2>1. \A k \in 0..N : k \in Done
    BY <1>1, <1>2, EachRound
  <2> QED
    BY <2>1
<1> QED
  BY <1>3 DEF Done, Unrolls

\* how far, and to which side
Cells(delta) == IF delta > 0 THEN delta ELSE -delta

Side(delta) == IF delta > 0 THEN 1 ELSE -1

\* s has what the terminal is after each column that move_cursor moves by
Trail(s, t, delta) ==
  /\ s \in [0..Cells(delta) -> Terminal]
  /\ s[0] = t
  /\ \A k \in 1..Cells(delta) : Moved(s[k - 1], s[k], Side(delta))
  /\ move_cursor(t, delta) = s[Cells(delta)]

LEMMA MovesSteps ==
  ASSUME NEW t \in Terminal, NEW delta \in Int
  PROVE  \E s : Trail(s, t, delta)
<1>n. PICK n \in Nat : n = Cells(delta) /\ n = IF delta > 0 THEN delta ELSE -delta
  BY DEF Cells
<1>u. PICK unit \in {-1, 1} : unit = Side(delta) /\ unit = IF delta > 0 THEN 1 ELSE -1
  BY DEF Side
<1> DEFINE Step(u) == IF delta > 0 THEN StepRight(u) ELSE StepLeft(u)
           step == [u \in Terminal |-> Step(u)]
           Is(f) == f = [k \in 0..n |-> IF k = 0 THEN t
                                        ELSE IF delta > 0 THEN StepRight(f[k - 1])
                                             ELSE StepLeft(f[k - 1])]
           s == CHOOSE f : Is(f)
<1>1. \A u \in Terminal : Moved(u, Step(u), unit)
  BY RightIs, LeftIs, <1>u
<1>2. \A u \in Terminal : Step(u) \in Terminal
  BY <1>1 DEF Moved
<1>3. step \in [Terminal -> Terminal]
  <2> HIDE DEF Step
  <2> QED
    BY <1>2
<1>4. \A u \in Terminal : step[u] = Step(u)
  OBVIOUS
<1>5. \A f, k : (IF delta > 0 THEN StepRight(f[k - 1]) ELSE StepLeft(f[k - 1])) = Step(f[k - 1])
  OBVIOUS
<1> HIDE DEF step, Step
<1>6. PICK f \in [0..n -> Terminal] : Unrolls(f, t, n, step)
  BY <1>3, Rounds
<1>7. Is(f)
  <2>1. \A k \in 1..n : k - 1 \in 0..n /\ k # 0
    OBVIOUS
  <2>2. \A k \in 1..n : f[k] = Step(f[k - 1])
    BY <1>4, <1>6, <2>1 DEF Unrolls
  <2>3. \A k \in 0..n : f[k] = IF k = 0 THEN t ELSE Step(f[k - 1])
    BY <1>6, <2>2 DEF Unrolls
  <2>4. f = [k \in 0..n |-> IF k = 0 THEN t ELSE Step(f[k - 1])]
    BY <2>3
  <2> QED
    BY <2>4 DEF Step
<1>8. Is(s)
  BY <1>7
<1>9. move_cursor(t, delta) = s[n]
  <2>1. n = IF delta > 0 THEN delta ELSE -delta
    BY <1>n
  <2> HIDE DEF Is
  <2>2. move_cursor(t, delta) = (CHOOSE g : Is(g))[n]
    BY <2>1 DEF move_cursor, Is
  <2> QED
    BY <2>2
<1> HIDE DEF s
<1>10. s[0] = t /\ \A k \in 1..n : s[k] = Step(s[k - 1])
  <2>1. s = [k \in 0..n |-> IF k = 0 THEN t ELSE Step(s[k - 1])]
    BY <1>8 DEF Step
  <2>2. \A k \in 0..n : s[k] = IF k = 0 THEN t ELSE Step(s[k - 1])
    BY <2>1
  <2> QED
    BY <2>2
<1>11. \A k \in 0..n : s[k] \in Terminal
  <2> DEFINE G == {k \in 0..n : s[k] \in Terminal}
  <2>1. 0 \in G
    BY <1>10
  <2>2. \A k \in 1..n : k - 1 \in G => k \in G
    BY <1>2, <1>10
  <2> HIDE DEF G
  <2>3. \A k \in 0..n : k \in G
    BY <2>1, <2>2, EachRound
  <2> QED
    BY <2>3 DEF G
<1>12. s \in [0..n -> Terminal]
  <2>1. s = [k \in 0..n |-> IF k = 0 THEN t ELSE Step(s[k - 1])]
    BY <1>8 DEF Step
  <2> QED
    BY <1>11, <2>1
<1>13. \A k \in 1..n : Moved(s[k - 1], s[k], unit)
  <2> TAKE k \in 1..n
  <2>1. s[k - 1] \in Terminal
    BY <1>11
  <2> QED
    BY <1>1, <1>10, <2>1
<1> QED
  BY <1>9, <1>10, <1>12, <1>13, <1>n, <1>u DEF Trail

\* move_cursor moves by delta cells, and nothing else.
LEMMA MoveIs ==
  ASSUME NEW t \in Terminal, NEW delta \in Int
  PROVE  /\ Moved(t, move_cursor(t, delta), delta)
         /\ delta = 0 => move_cursor(t, delta) = t
<1>1. PICK n \in Nat : n = Cells(delta) /\ n = IF delta > 0 THEN delta ELSE -delta
  BY DEF Cells
<1>2. PICK unit \in {-1, 1} : unit = Side(delta) /\ unit = IF delta > 0 THEN 1 ELSE -1
  BY DEF Side
<1>3. PICK s \in [0..n -> Terminal] :
        /\ s[0] = t
        /\ \A k \in 1..n : Moved(s[k - 1], s[k], unit)
        /\ move_cursor(t, delta) = s[n]
  <2>1. PICK s : Trail(s, t, delta)
    BY MovesSteps
  <2> QED
    BY <1>1, <1>2, <2>1 DEF Trail
<1> DEFINE By(k) == IF unit = 1 THEN k ELSE 0 - k
           G == {k \in 0..n : Moved(t, s[k], By(k))}
<1>4. 0 \in G
  <2>1. t.at + 0 = t.at
    BY DEF Terminal
  <2>2. Moved(t, s[0], 0)
    BY <1>3, <2>1 DEF Moved, SameLineShown
  <2>3. By(0) = 0
    OBVIOUS
  <2> HIDE DEF By
  <2> QED
    BY <2>2, <2>3
<1>5. ASSUME NEW k \in 1..n, k - 1 \in G PROVE k \in G
  <2>1. Moved(t, s[k - 1], By(k - 1)) /\ Moved(s[k - 1], s[k], unit)
    BY <1>3, <1>5
  <2>2. t.at \in Int /\ By(k - 1) \in Int /\ (By(k - 1) + unit = By(k))
    BY DEF Terminal
  <2> HIDE DEF By
  <2>3. t.at + By(k - 1) + unit = t.at + By(k)
    BY <2>2
  <2>4. Moved(t, s[k], By(k))
    BY <2>1, <2>3 DEF Moved, SameLineShown
  <2> QED
    BY <2>4 DEF G
<1> HIDE DEF G
<1>6. n \in G
  <2>1. \A k \in 0..n : k \in G
    BY <1>4, <1>5, EachRound
  <2> QED
    BY <2>1
<1>7. Moved(t, s[n], By(n))
  BY <1>6 DEF G
<1>8. By(n) = delta
  BY <1>1, <1>2
<1> HIDE DEF By
<1>9. delta = 0 => n = 0
  <2>1. \A d \in Int : -d = 0 - d
    OBVIOUS
  <2>2. delta <= 0 => n = 0 - delta
    BY <1>1, <2>1
  <2> QED
    BY <2>2
<1>10. Moved(t, s[n], delta)
  BY <1>7, <1>8
<1>11. n = 0 => s[n] = t
  BY <1>3
<1> QED
  BY <1>3, <1>9, <1>10, <1>11

\* the column is that of the cell; in the margin it is the one of the next row
Fair(t) == t.x = t.at % Width /\ (t.pending => t.x = 0)

\* Printing n characters.
LEMMA PutsIs ==
  ASSUME NEW t \in Terminal, NEW n \in Nat
  PROVE  \E m \in BOOLEAN :
           /\ Puts(t, n) = [x |-> t.x, at |-> t.at + n, pending |-> m, last |-> t.last,
                            lastpos |-> t.lastpos, origin |-> t.origin]
           /\ m = IF n = 0 THEN t.pending ELSE (t.at + n) % Width = 0
<1>1. t = [x |-> t.x, at |-> t.at, pending |-> t.pending,
           last |-> t.last, lastpos |-> t.lastpos, origin |-> t.origin]
      /\ t.at \in Int /\ t.pending \in BOOLEAN
  BY DEF Terminal
<1>2. CASE n = 0
  <2>1. Puts(t, n) = t
    BY <1>2 DEF Puts
  <2>2. t.at + n = t.at
    BY <1>1, <1>2
  <2> QED
    BY <1>1, <1>2, <2>1, <2>2
<1>3. CASE n # 0
  <2>1. PICK m \in BOOLEAN : m = ((t.at + n) % Width = 0)
    OBVIOUS
  <2>2. PICK a \in Int : a = t.at + n
    BY <1>1
  <2>3. Puts(t, n) = [t EXCEPT !.at = a, !.pending = m]
    <3>1. Puts(t, n) = [t EXCEPT !.at = @ + n, !.pending = ((t.at + n) % Width = 0)]
      BY <1>3, Zenon DEF Puts
    <3>2. [t EXCEPT !.at = @ + n, !.pending = ((t.at + n) % Width = 0)]
            = [t EXCEPT !.at = a, !.pending = m]
      BY <2>1, <2>2
    <3> QED
      BY <3>1, <3>2
  <2>4. Puts(t, n) = [x |-> t.x, at |-> a, pending |-> m, last |-> t.last,
                      lastpos |-> t.lastpos, origin |-> t.origin]
    BY <1>1, <2>3
  <2> QED
    BY <1>3, <2>1, <2>2, <2>4
<1> QED
  BY <1>2, <1>3

\* The line is printed: the cursor is behind it, on the next row if it ends at
\* the margin, and not in the margin.
LEMMA PrintedIs ==
  ASSUME NEW t \in Terminal, NEW s \in Text
  PROVE  /\ Printed(t, s) \in Terminal
         /\ Printed(t, s).last = s /\ Printed(t, s).lastpos = Len(s)
         /\ Printed(t, s).origin = t.origin
         /\ ucs_length(s) \in Nat
         /\ Fair(t) => /\ Aligned(Printed(t, s))
                       /\ Printed(t, s).at = t.at + ucs_length(s)
<1>1. PICK n \in Nat : n = ucs_length(s)
  <2>1. 0 \in 0..Len(s) /\ Len(s) \in 0..Len(s)
    BY LenProperties DEF Text
  <2> QED
    BY <2>1, ShownCount, SubAll
<1>2. /\ t.at \in Int /\ t.x \in 0..(Width - 1) /\ Width \in Nat /\ Width >= 2 /\ Width >= 1
      /\ Len(s) \in Nat /\ t.origin \in Nat
  BY WidthAssumption, LenProperties DEF Terminal, Text
<1>3. PICK m \in BOOLEAN :
        /\ Puts(t, n) = [x |-> t.x, at |-> t.at + n, pending |-> m, last |-> t.last,
                         lastpos |-> t.lastpos, origin |-> t.origin]
        /\ m = IF n = 0 THEN t.pending ELSE (t.at + n) % Width = 0
  BY PutsIs
<1>4. PICK c \in 0..(Width - 1) : c = (t.x + n) % Width
  <2>1. t.x + n \in Int
    BY <1>2
  <2> QED
    BY <1>2, <2>1, RowsAndRest
<1>5. PICK a \in Int : a = t.at + n
  BY <1>2
<1>6. ASSUME Fair(t) PROVE c = a % Width /\ (c # 0 => ~m)
  <2>1. (t.x + n) % Width = (t.at + n) % Width
    <3>1. ((t.at % Width) + n) % Width = (t.at + n) % Width
      <4>1. n \in Int
        OBVIOUS
      <4> QED
        BY <1>2, <4>1, RestOfSum
    <3>2. t.x = t.at % Width
      BY <1>6 DEF Fair
    <3> QED
      BY <3>1, <3>2, Zenon
  <2>2. c = a % Width
    BY <1>4, <1>5, <2>1
  <2>3. ASSUME n = 0 PROVE a = t.at
    BY <1>2, <1>5, <2>3
  <2> QED
    BY <1>3, <1>5, <1>6, <2>2, <2>3 DEF Fair
<1> DEFINE p == [x |-> c, at |-> a, pending |-> m, last |-> s,
                 lastpos |-> Len(s), origin |-> t.origin]
<1>7. [Puts(t, ucs_length(s)) EXCEPT !.x = (t.x + ucs_length(s)) % Width,
                                     !.last = s, !.lastpos = Len(s)] = p
  <2> DEFINE b == Puts(t, n)
  <2>1. b = [x |-> t.x, at |-> a, pending |-> m, last |-> t.last,
             lastpos |-> t.lastpos, origin |-> t.origin]
    BY <1>3, <1>5
  <2> HIDE DEF b
  <2>2. PICK l : l = Len(s)
    OBVIOUS
  <2>3. p = [x |-> c, at |-> a, pending |-> m, last |-> s, lastpos |-> l, origin |-> t.origin]
    BY <2>2
  <2> HIDE DEF p
  <2> DEFINE b1 == [b EXCEPT !.x = c]
             b2 == [b1 EXCEPT !.last = s]
  <2>4. b1 = [x |-> c, at |-> a, pending |-> m, last |-> t.last,
              lastpos |-> t.lastpos, origin |-> t.origin]
    BY ONLY <2>1
  <2>5. [b EXCEPT !.x = c, !.last = s, !.lastpos = l] = [b2 EXCEPT !.lastpos = l]
    OBVIOUS
  <2> HIDE DEF b1
  <2>6. b2 = [x |-> c, at |-> a, pending |-> m, last |-> s,
              lastpos |-> t.lastpos, origin |-> t.origin]
    BY ONLY <2>4
  <2> HIDE DEF b2
  <2>7. [b2 EXCEPT !.lastpos = l] = [x |-> c, at |-> a, pending |-> m, last |-> s,
                                     lastpos |-> l, origin |-> t.origin]
    BY ONLY <2>6
  <2> QED
    BY <1>1, <1>4, <2>2, <2>3, <2>5, <2>7 DEF b
<1>8. p \in Terminal
  BY <1>2 DEF Terminal
<1>9. Printed(t, s) = IF p.x # 0 THEN p
                      ELSE Place(Puts(p, 1), Row(Puts(p, 1)), Column(Puts(p, 1)) - 1)
  BY <1>7, Zenon DEF Printed
<1>10. CASE c # 0
  <2>1. Printed(t, s) = p
    BY <1>9, <1>10
  <2>2. ASSUME Fair(t) PROVE Aligned(p)
    BY <1>6, <1>10, <2>2 DEF Aligned
  <2>3. p.last = s /\ p.lastpos = Len(s) /\ p.origin = t.origin /\ p.at = a
    OBVIOUS
  <2> HIDE DEF p
  <2> QED
    BY <1>1, <1>5, <1>8, <2>1, <2>2, <2>3
<1>11. CASE c = 0
  <2> DEFINE b == Puts(p, 1)
             u == Place(b, Row(b), Column(b) - 1)
  <2>1. Printed(t, s) = u
    BY <1>9, <1>11
  <2>2. PICK k \in BOOLEAN :
          /\ b = [x |-> p.x, at |-> p.at + 1, pending |-> k, last |-> p.last,
                  lastpos |-> p.lastpos, origin |-> p.origin]
          /\ k = IF 1 = 0 THEN p.pending ELSE (p.at + 1) % Width = 0
    <3> HIDE DEF p
    <3> QED
      BY <1>8, PutsIs
  <2>3. /\ b = [x |-> 0, at |-> a + 1, pending |-> k, last |-> s,
                lastpos |-> Len(s), origin |-> t.origin]
        /\ k = ((a + 1) % Width = 0)
    BY <1>11, <2>2
  <2> HIDE DEF p, b
  <2>4. b \in Terminal
    <3>1. a + 1 \in Int /\ 0 \in 0..(Width - 1)
      BY <1>2
    <3> QED
      BY <1>2, <2>3, <3>1 DEF Terminal
  <2>5. Row(b) \in Int /\ Column(b) \in 0..(Width - 1)
    BY <2>4, RowColumn
  <2>6. PICK r \in Int : r = Row(b)
    BY <2>5
  <2>7. PICK d \in Int : d = Column(b) - 1
    BY <2>5
  <2>8. PICK e \in Int : e = r * Width + d
    BY <1>2
  <2>9. u = [x |-> 0, at |-> e, pending |-> FALSE, last |-> s,
             lastpos |-> Len(s), origin |-> t.origin]
    <3>1. u = Place(b, r, d)
      BY <2>6, <2>7
    <3>2. Place(b, r, d) = [b EXCEPT !.at = e, !.pending = FALSE]
      BY <2>8, Zenon DEF Place
    <3> HIDE DEF u
    <3> QED
      BY <2>3, <3>1, <3>2
  <2>10. u \in Terminal
    <3>1. 0 \in 0..(Width - 1)
      BY <1>2
    <3> HIDE DEF u
    <3> QED
      BY <1>2, <2>9, <3>1 DEF Terminal
  <2>11. ASSUME Fair(t) PROVE e = a /\ a % Width = 0
    <3>1. a % Width = 0
      BY <1>6, <1>11, <2>11
    <3>2. (a + 1) % Width = 1
      <4>1. ((a % Width) + 1) % Width = (a + 1) % Width
        <5>1. 1 \in Int
          OBVIOUS
        <5> QED
          BY <1>2, <5>1, RestOfSum
      <4>2. (0 * Width + 1) % Width = 1
        <5>1. 0 \in Int /\ 1 \in 0..(Width - 1)
          BY <1>2
        <5> QED
          BY <1>2, <5>1, OneRest
      <4>3. 0 * Width + 1 = 1 /\ 0 + 1 = 1
        BY <1>2
      <4>4. (0 + 1) % Width = (a + 1) % Width
        BY <3>1, <4>1, Zenon
      <4> QED
        BY <4>2, <4>3, <4>4, Zenon
    <3>3. ~b.pending /\ b.at = a + 1
      <4>1. b.pending = k /\ b.at = a + 1
        <5>1. b = [x |-> 0, at |-> a + 1, pending |-> k, last |-> s,
                   lastpos |-> Len(s), origin |-> t.origin]
          BY <2>3
        <5> QED
          BY ONLY <5>1
      <4>2. k = FALSE
        <5>1. k = ((a + 1) % Width = 0)
          BY <2>3
        <5>2. (a + 1) % Width # 0
          BY <3>2
        <5> QED
          BY <5>1, <5>2, Zenon
      <4>3. b.pending = FALSE
        BY <4>1, <4>2, Zenon
      <4> QED
        BY <4>1, <4>3, Zenon
    <3>4. Column(b) = 1 /\ r = (a + 1) \div Width
      BY <2>6, <3>2, <3>3 DEF Column, Row
    <3>5. PICK q \in Int, o \in 0..(Width - 1) :
            q = (a + 1) \div Width /\ o = (a + 1) % Width /\ a + 1 = q * Width + o
      <4>1. a + 1 \in Int
        OBVIOUS
      <4> QED
        BY <1>2, <4>1, RowsAndRest
    <3>6. q = r /\ o = 1 /\ d = 0
      BY <2>7, <3>2, <3>4, <3>5
    <3>7. r * Width \in Int
      BY <1>2
    <3>8. a + 1 = r * Width + 1
      BY <3>5, <3>6, Zenon
    <3>9. e = r * Width + 0
      BY <2>8, <3>6, Zenon
    <3> QED
      BY <3>1, <3>7, <3>8, <3>9
  <2>12. ASSUME Fair(t) PROVE Aligned(u) /\ u.at = a
    <3> HIDE DEF u
    <3> QED
      BY <2>9, <2>11, <2>12 DEF Aligned
  <2>13. u.last = s /\ u.lastpos = Len(s) /\ u.origin = t.origin
    <3> HIDE DEF u
    <3> QED
      BY <2>9
  <2> HIDE DEF u
  <2> QED
    BY <1>1, <1>5, <2>1, <2>10, <2>12, <2>13
<1> QED
  BY <1>10, <1>11

----------------------------------------------------------------------------
(* The line is shown.                                                      *)

Prompted(more) == IF more THEN Prompt2 ELSE Prompt

\* t shows the line it has with the cursor where it should be, if the prompt
\* began in the first column; in the margin it is only when there is no line
Shows(t, more) ==
  /\ t \in Terminal /\ t.lastpos \in 0..Len(t.last)
  /\ t.origin = 0 =>
       /\ Fair(t)
       /\ t.at = Prompted(more) + ucs_length(Sub(t.last, 0, t.lastpos))
       /\ t.pending => t.last = << >>

ShowsLine(t, more, s, p) == Shows(t, more) /\ t.last = s /\ t.lastpos = p

\* Half of update: the line itself is shown, if it is another than before.
LEMMA LineShown ==
  ASSUME NEW t, NEW more \in BOOLEAN, NEW s \in Text, Shows(t, more), s # t.last
  PROVE  ShowsLine(Printed(move_cursor(t, -ucs_length(Sub(t.last, 0, t.lastpos))), s),
                   more, s, Len(s))
<1>1. /\ t \in Terminal /\ t.last \in Text /\ t.lastpos \in 0..Len(t.last)
      /\ 0 \in 0..Len(t.last) /\ t.lastpos \in Int /\ t.at \in Int
      /\ Len(s) \in Nat /\ Len(s) \in 0..Len(s)
  BY LenProperties DEF Shows, Terminal, Text
<1>2. PICK n \in Nat : n = ucs_length(Sub(t.last, 0, t.lastpos))
  <2>1. t.lastpos \in 0..Len(t.last)
    BY <1>1
  <2> QED
    BY <1>1, ShownCount
<1>3. PICK d \in Int : d = 0 - n /\ d = -ucs_length(Sub(t.last, 0, t.lastpos))
  <2>1. \A k \in Nat : -k = 0 - k /\ 0 - k \in Int
    OBVIOUS
  <2> QED
    BY <1>2, <2>1
<1>4. PICK u : u = move_cursor(t, d)
  OBVIOUS
<1>5. Moved(t, u, d) /\ (d = 0 => u = t)
  BY <1>1, <1>4, MoveIs
<1>6. u \in Terminal /\ u.origin = t.origin
  BY <1>5 DEF Moved, SameLineShown
<1>7. PICK v : v = Printed(u, s)
  OBVIOUS
<1>8. /\ v \in Terminal /\ v.last = s /\ v.lastpos = Len(s) /\ v.origin = t.origin
      /\ ucs_length(s) \in Nat
      /\ Fair(u) => Aligned(v) /\ v.at = u.at + ucs_length(s)
  BY <1>6, <1>7, PrintedIs
<1>9. Sub(s, 0, Len(s)) = s
  BY SubAll
<1>10. ASSUME t.origin = 0
       PROVE  Fair(u) /\ u.at = Prompted(more)
  <2>1. Fair(t) /\ t.at = Prompted(more) + n /\ (t.pending => t.last = << >>)
    BY <1>2, <1>10 DEF Shows
  <2>2. Prompted(more) \in Int
    BY WidthAssumption DEF Prompted
  <2>3. CASE t.pending
    <3>1. t.last = << >> /\ t.lastpos = 0
      BY <1>1, <2>1, <2>3
    <3>2. n = 0
      BY <1>1, <1>2, <3>1, LengthOfNothing
    <3>3. u = t
      BY <1>3, <1>5, <3>2
    <3> QED
      BY <2>1, <2>2, <3>2, <3>3
  <2>4. CASE ~t.pending
    <3>1. Aligned(u) /\ u.at = t.at + d
      BY <1>5, <2>1, <2>4 DEF Aligned, Fair, Moved
    <3>2. u.at = Prompted(more)
      BY <1>3, <2>1, <2>2, <3>1
    <3> QED
      BY <3>1, <3>2 DEF Aligned, Fair
  <2> QED
    BY <2>3, <2>4
<1>11. Shows(v, more)
  <2>1. v \in Terminal /\ v.lastpos \in 0..Len(v.last)
    BY <1>1, <1>8
  <2>2. ASSUME v.origin = 0
        PROVE  /\ Fair(v) /\ ~v.pending
               /\ v.at = Prompted(more) + ucs_length(Sub(v.last, 0, v.lastpos))
    BY <1>8, <1>9, <1>10, <2>2 DEF Aligned, Fair
  <2> QED
    BY <2>1, <2>2 DEF Shows
<1> QED
  <2>1. v = Printed(move_cursor(t, -ucs_length(Sub(t.last, 0, t.lastpos))), s)
    BY <1>3, <1>4, <1>7
  <2> QED
    BY <1>8, <1>11, <2>1 DEF ShowsLine

\* The cursor of a terminal is taken for another position of its line.
LEMMA PosIs ==
  ASSUME NEW t \in Terminal, NEW p \in Nat
  PROVE  LET u == [t EXCEPT !.lastpos = p]
         IN  /\ u \in Terminal /\ u.lastpos = p /\ u.x = t.x /\ u.at = t.at
             /\ u.pending = t.pending /\ u.last = t.last /\ u.origin = t.origin
BY DEF Terminal

\* The length that update moves the cursor by from l to p, with its sign.
LEMMA DistanceIs ==
  ASSUME NEW s \in Text, NEW l \in 0..Len(s), NEW p \in 0..Len(s)
  PROVE  \E d \in Int :
           /\ d = IF p > l THEN ucs_length(Sub(s, l, p)) ELSE -ucs_length(Sub(s, p, l))
           /\ ucs_length(Sub(s, 0, p)) = ucs_length(Sub(s, 0, l)) + d
           /\ ucs_length(Sub(s, 0, l)) \in Nat
           /\ p = l => d = 0
<1>1. Len(s) \in Nat /\ l \in Nat /\ p \in Nat /\ 0 \in 0..Len(s) /\ l \in l..Len(s)
      /\ l \in 0..Len(s) /\ p \in 0..Len(s)
  BY LenProperties DEF Text
<1>2. CASE p > l
  <2>1. p \in l..Len(s)
    BY <1>1, <1>2
  <2>2. /\ ucs_length(Sub(s, 0, l)) \in Nat /\ ucs_length(Sub(s, l, p)) \in Nat
        /\ ucs_length(Sub(s, 0, p)) = ucs_length(Sub(s, 0, l)) + ucs_length(Sub(s, l, p))
    BY <1>1, <2>1, LengthsAdd
  <2> QED
    BY <1>1, <1>2, <2>2
<1>3. CASE ~(p > l)
  <2>1. l \in p..Len(s)
    BY <1>1, <1>3
  <2>2. /\ ucs_length(Sub(s, 0, p)) \in Nat /\ ucs_length(Sub(s, p, l)) \in Nat
        /\ ucs_length(Sub(s, 0, l)) = ucs_length(Sub(s, 0, p)) + ucs_length(Sub(s, p, l))
    BY <1>1, <2>1, LengthsAdd
  <2>3. PICK n \in Nat : n = ucs_length(Sub(s, p, l))
    BY <2>2
  <2>4. PICK d \in Int : d = -n /\ d = 0 - n
    <3>1. \A k \in Nat : -k = 0 - k /\ 0 - k \in Int
      OBVIOUS
    <3> QED
      BY <3>1
  <2>5. p = l => n = 0
    BY <2>3, LengthOfNothing
  <2>6. ucs_length(Sub(s, 0, p)) = ucs_length(Sub(s, 0, l)) + d
    BY <2>2, <2>3, <2>4
  <2>7. ucs_length(Sub(s, 0, l)) \in Nat
    BY <2>2
  <2> QED
    BY <1>3, <2>3, <2>4, <2>5, <2>6, <2>7
<1> QED
  BY <1>2, <1>3

\* The other half: the cursor is moved in the line that is shown.
LEMMA CursorMoved ==
  ASSUME NEW t, NEW more \in BOOLEAN, NEW p \in 0..Len(t.last), Shows(t, more)
  PROVE  LET d == IF p > t.lastpos THEN ucs_length(Sub(t.last, t.lastpos, p))
                  ELSE -ucs_length(Sub(t.last, p, t.lastpos))
         IN  ShowsLine([move_cursor(t, d) EXCEPT !.lastpos = p], more, t.last, p)
<1>1. /\ t \in Terminal /\ t.last \in Text /\ t.lastpos \in 0..Len(t.last)
      /\ t.at \in Int /\ Len(t.last) \in Nat /\ p \in Nat
  BY LenProperties DEF Shows, Terminal, Text
<1>2. PICK s \in Text, l \in 0..Len(t.last) : s = t.last /\ l = t.lastpos
  BY <1>1
<1>3. p \in 0..Len(s) /\ l \in 0..Len(s)
  BY <1>2
<1>4. PICK d \in Int :
        /\ d = IF p > l THEN ucs_length(Sub(s, l, p)) ELSE -ucs_length(Sub(s, p, l))
        /\ ucs_length(Sub(s, 0, p)) = ucs_length(Sub(s, 0, l)) + d
        /\ ucs_length(Sub(s, 0, l)) \in Nat
        /\ p = l => d = 0
  BY <1>3, DistanceIs
<1>5. PICK u : u = move_cursor(t, d)
  OBVIOUS
<1>6. Moved(t, u, d) /\ (d = 0 => u = t)
  BY <1>1, <1>5, MoveIs
<1>7. u \in Terminal /\ u.origin = t.origin /\ u.last = s
  BY <1>2, <1>6 DEF Moved, SameLineShown
<1>8. PICK v : v = [u EXCEPT !.lastpos = p]
  OBVIOUS
<1>9. /\ v \in Terminal /\ v.lastpos = p /\ v.x = u.x /\ v.at = u.at
      /\ v.pending = u.pending /\ v.last = s /\ v.origin = t.origin
  BY <1>1, <1>7, <1>8, PosIs
<1>10. ASSUME t.origin = 0
       PROVE  /\ Fair(u) /\ (u.pending => s = << >>)
              /\ u.at = Prompted(more) + ucs_length(Sub(s, 0, p))
  <2>1. /\ Fair(t) /\ t.at = Prompted(more) + ucs_length(Sub(s, 0, l))
        /\ t.pending => s = << >>
    BY <1>2, <1>10 DEF Shows
  <2>2. Prompted(more) \in Int
    BY WidthAssumption DEF Prompted
  <2>3. CASE t.pending
    <3>1. s = << >> /\ p = 0 /\ l = 0
      BY <1>3, <2>1, <2>3
    <3>2. u = t
      BY <1>4, <1>6, <3>1
    <3> QED
      BY <2>1, <3>1, <3>2
  <2>4. CASE ~t.pending
    <3>1. Aligned(u) /\ u.at = t.at + d
      BY <1>6, <2>1, <2>4 DEF Aligned, Fair, Moved
    <3>2. u.at = Prompted(more) + ucs_length(Sub(s, 0, p))
      BY <1>4, <2>1, <2>2, <3>1
    <3> QED
      BY <3>1, <3>2 DEF Aligned, Fair
  <2> QED
    BY <2>3, <2>4
<1>11. Shows(v, more)
  <2>1. v.origin = 0 =>
          /\ Fair(v) /\ (v.pending => v.last = << >>)
          /\ v.at = Prompted(more) + ucs_length(Sub(v.last, 0, v.lastpos))
    BY <1>9, <1>10 DEF Fair
  <2> QED
    BY <1>3, <1>9, <2>1 DEF Shows
<1>12. ShowsLine(v, more, s, p)
  BY <1>9, <1>11 DEF ShowsLine
<1> QED
  BY <1>2, <1>4, <1>5, <1>8, <1>12

\* update shows any line with the cursor anywhere in it.
LEMMA UpdateShows ==
  ASSUME NEW t, NEW more \in BOOLEAN, NEW s \in Text, NEW p \in 0..Len(s), Shows(t, more)
  PROVE  ShowsLine(update(t, s, p), more, s, p)
<1>1. PICK v : v = IF s = t.last THEN t
                   ELSE Printed(move_cursor(t, -ucs_length(Sub(t.last, 0, t.lastpos))), s)
  OBVIOUS
<1>2. Shows(v, more) /\ v.last = s
  BY <1>1, LineShown DEF ShowsLine
<1>3. PICK d : d = IF p > v.lastpos THEN ucs_length(Sub(s, v.lastpos, p))
                   ELSE -ucs_length(Sub(s, p, v.lastpos))
  OBVIOUS
<1>4. ShowsLine([move_cursor(v, d) EXCEPT !.lastpos = p], more, s, p)
  <2>1. p \in 0..Len(v.last)
    BY <1>2
  <2> QED
    BY <1>2, <1>3, <2>1, CursorMoved
<1>5. update(t, s, p) = [move_cursor(v, d) EXCEPT !.lastpos = p]
  BY <1>1, <1>3 DEF update
<1> QED
  BY <1>4, <1>5

\* where the prompt is printed: a terminal of an empty line, o columns in
Begun(o) == [x |-> 0, last |-> << >>, lastpos |-> 0, at |-> o, pending |-> FALSE, origin |-> o]

\* The prompt is shown, with an empty line behind it.
LEMMA PromptShows ==
  ASSUME NEW o \in Nat, NEW more \in BOOLEAN
  PROVE  Shows(print_prompt(Begun(o), more), more)
<1>1. PICK n \in Nat : n = Prompted(more) /\ n = (IF more THEN Prompt2 ELSE Prompt) /\ n # 0
  BY WidthAssumption DEF Prompted
<1>2. /\ Width \in Nat /\ Width >= 2 /\ Width >= 1 /\ n \in Int
      /\ << >> \in Text /\ Len(<< >>) = 0
  BY WidthAssumption DEF Text
<1>3. Begun(o) \in Terminal /\ Begun(o).at = o
  <2>1. 0 \in 0..(Width - 1)
    BY <1>2
  <2> QED
    BY <1>2, <2>1 DEF Begun, Terminal
<1>4. PICK m \in BOOLEAN :
        /\ Puts(Begun(o), n) = [x |-> Begun(o).x, at |-> Begun(o).at + n, pending |-> m,
                                last |-> Begun(o).last, lastpos |-> Begun(o).lastpos,
                                origin |-> Begun(o).origin]
        /\ m = IF n = 0 THEN Begun(o).pending ELSE (Begun(o).at + n) % Width = 0
  BY <1>3, PutsIs
<1>5. PICK c \in 0..(Width - 1) : c = n % Width
  BY <1>2, RowsAndRest
<1>6. PICK a \in Int : a = o + n
  BY <1>1
<1>7. m = (a % Width = 0)
  <2>1. m = ((Begun(o).at + n) % Width = 0)
    BY <1>1, <1>4
  <2> QED
    BY <1>3, <1>6, <2>1
<1> DEFINE p == [Puts(Begun(o), n) EXCEPT !.x = c, !.last = << >>, !.lastpos = 0]
<1>8. p = [x |-> c, at |-> a, pending |-> m, last |-> << >>, lastpos |-> 0, origin |-> o]
  <2> DEFINE b  == Puts(Begun(o), n)
             b1 == [b EXCEPT !.x = c]
             b2 == [b1 EXCEPT !.last = << >>]
  <2>1. b = [x |-> 0, at |-> a, pending |-> m, last |-> << >>, lastpos |-> 0, origin |-> o]
    BY <1>4, <1>6 DEF Begun
  <2> HIDE DEF b
  <2>2. b1 = [x |-> c, at |-> a, pending |-> m, last |-> << >>, lastpos |-> 0, origin |-> o]
    BY ONLY <2>1
  <2>3. [b EXCEPT !.x = c, !.last = << >>, !.lastpos = 0] = [b2 EXCEPT !.lastpos = 0]
    OBVIOUS
  <2> HIDE DEF b1
  <2>4. b2 = [x |-> c, at |-> a, pending |-> m, last |-> << >>, lastpos |-> 0, origin |-> o]
    BY ONLY <2>2
  <2> HIDE DEF b2
  <2>5. [b2 EXCEPT !.lastpos = 0]
          = [x |-> c, at |-> a, pending |-> m, last |-> << >>, lastpos |-> 0, origin |-> o]
    BY ONLY <2>4
  <2> QED
    BY <2>3, <2>5 DEF b
<1>9. print_prompt(Begun(o), more) = p
  BY <1>1, <1>5, Zenon DEF print_prompt
<1> HIDE DEF p
<1>10. /\ p.x = c /\ p.at = a /\ p.pending = m /\ p.last = << >> /\ p.lastpos = 0
       /\ p.origin = o
  BY ONLY <1>8
<1>11. p \in Terminal
  BY <1>2, <1>8 DEF Terminal
<1>12. ASSUME o = 0
       PROVE  /\ c = a % Width /\ (m => c = 0)
              /\ a = Prompted(more) + ucs_length(Sub(<< >>, 0, 0))
  <2>1. a = n
    BY <1>6, <1>12
  <2>2. ucs_length(Sub(<< >>, 0, 0)) = 0
    <3>1. 0 \in 0..Len(<< >>)
      BY <1>2
    <3> QED
      BY <1>2, <3>1, LengthOfNothing
  <2>3. c = a % Width
    BY <1>5, <2>1
  <2>4. m => c = 0
    BY <1>7, <2>3, Zenon
  <2> QED
    BY <1>1, <2>1, <2>2, <2>3, <2>4
<1>13. Shows(p, more)
  <2>1. 0 \in 0..Len(<< >>)
    BY <1>2
  <2>2. p.lastpos \in 0..Len(p.last)
    BY <1>10, <2>1, Zenon
  <2>3. ASSUME p.origin = 0
        PROVE  /\ Fair(p) /\ p.last = << >>
               /\ p.at = Prompted(more) + ucs_length(Sub(p.last, 0, p.lastpos))
    <3>1. o = 0
      BY <1>10, <2>3
    <3> QED
      BY <1>10, <1>12, <3>1, Zenon DEF Fair
  <2> QED
    BY <1>11, <2>2, <2>3 DEF Shows
<1> QED
  BY <1>9, <1>13

\* The types of the whole state, and the terminal shows the line being edited.
TInv ==
  /\ mexpr \in BOOLEAN /\ reading \in BOOLEAN
  /\ ShowsLine(term, mexpr, cmd, cursor_pos)

\* A prompt and a line after it.
LEMMA PromptedLine ==
  ASSUME NEW o \in Nat, NEW more \in BOOLEAN, NEW s \in Text, NEW p \in 0..Len(s)
  PROVE  ShowsLine(update(print_prompt(Begun(o), more), s, p), more, s, p)
BY PromptShows, UpdateShows

\* What a key does to what the terminal shows, now and after it.
LEMMA SettleShows ==
  ASSUME TInv, NEW s \in Text, NEW p \in Int, Settle(s, p), mexpr' = mexpr, reading' = reading
  PROVE  TInv'
<1>1. cmd' = s /\ cursor_pos' = Clamped(p, s) /\ term' = update(term, s, Clamped(p, s))
  BY DEF Settle
<1>2. Clamped(p, s) \in 0..Len(s)
  BY ClampedInside
<1>3. ShowsLine(update(term, s, Clamped(p, s)), mexpr, s, Clamped(p, s))
  BY <1>2, UpdateShows DEF TInv, ShowsLine
<1> QED
  BY <1>1, <1>3 DEF TInv

LEMMA StartShows ==
  ASSUME NEW o \in Nat, NEW more \in BOOLEAN, readline_start(Begun(o), more),
         reading' \in BOOLEAN
  PROVE  TInv'
<1>1. /\ cmd' = << >> /\ cursor_pos' = 0 /\ mexpr' = more
      /\ term' = update(print_prompt(Begun(o), more), << >>, 0)
  BY DEF readline_start
<1>2. << >> \in Text /\ 0 \in 0..Len(<< >>)
  BY DEF Text
<1>3. ShowsLine(update(print_prompt(Begun(o), more), << >>, 0), more, << >>, 0)
  BY <1>2, PromptedLine
<1> QED
  BY <1>1, <1>3 DEF TInv

\* The rows that prompts begin in.
LEMMA NewLineIs == NewLine = Begun(0)
BY DEF NewLine, Begun

LEMMA SameLineIs ==
  ASSUME term \in Terminal
  PROVE  \E o \in Nat : SameLine = Begun(o)
<1>1. Column(term) \in 0..(Width - 1) /\ Width \in Nat
  BY WidthAssumption, RowColumn
<1>2. PICK o \in Nat : o = Column(term)
  BY <1>1
<1>3. SameLine = [NewLine EXCEPT !.at = o, !.origin = o]
  BY <1>2, Zenon DEF SameLine
<1>4. SameLine = Begun(o)
  BY <1>3 DEF NewLine, Begun
<1> QED
  BY <1>4

LEMMA ReprintShows ==
  ASSUME TInv, NEW fun, NEW s \in Text, NEW p \in 0..Len(s), Reprint(fun, s, p)
  PROVE  TInv'
<1>1. /\ cmd' = s /\ cursor_pos' = p /\ mexpr' = mexpr /\ reading' = reading
      /\ term' = update(print_prompt(Begun(0), mexpr), s, p)
  BY NewLineIs DEF Reprint
<1>2. ShowsLine(update(print_prompt(Begun(0), mexpr), s, p), mexpr, s, p)
  BY PromptedLine DEF TInv
<1> QED
  BY <1>1, <1>2 DEF TInv

\* Every key leaves the line shown.
LEMMA NextTInv == KInv /\ TInv /\ [Next]_vars => TInv'
<1> SUFFICES ASSUME KInv, TInv, [Next]_vars PROVE TInv'
  OBVIOUS
<1>1. /\ Types /\ cmd \in Text /\ cursor_pos \in 0..Len(cmd) /\ cursor_pos \in Int
      /\ mexpr \in BOOLEAN /\ reading \in BOOLEAN /\ term \in Terminal
  BY DEF KInv, Types, TInv, ShowsLine, Shows
<1>2. ASSUME NEW fun, NEW s \in Text, NEW p \in Int, Edit(fun, s, p) PROVE TInv'
  <2>1. Settle(s, p) /\ mexpr' = mexpr /\ reading' = reading
    BY <1>2 DEF Edit
  <2> QED
    BY <2>1, SettleShows
<1>3. CASE \E fun, s, p : FitEdit(fun, s, p)
  BY <1>2, <1>3 DEF FitEdit
<1>4. CASE transpose_chars
  <2>1. PICK s \in Text, p \in Int : Edit("other", s, p)
    BY <1>1, <1>4, TransposeChars
  <2> QED
    BY <1>2, <2>1
<1>5. CASE \E start, end, dir : Beside(start, end, dir) /\ kill_region(start, end, dir)
  <2>1. PICK start, end, dir : Beside(start, end, dir) /\ kill_region(start, end, dir)
    BY <1>5
  <2>2. PICK s, p : Settle(s, p) /\ mexpr' = mexpr /\ reading' = reading
                    /\ s = Sub(cmd, 0, start) \o Sub(cmd, end, Len(cmd))
                    /\ p = IF cursor_pos > end THEN cursor_pos - (end - start)
                           ELSE IF cursor_pos > start THEN start ELSE cursor_pos
    BY <2>1 DEF kill_region
  <2>3. s \in Text /\ p \in Int
    <3>1. start \in 0..Len(cmd) /\ end \in start..Len(cmd) /\ Len(cmd) \in Nat
      BY <1>1, <2>1, LenProperties DEF Beside, Text
    <3>2. Sub(cmd, 0, start) \in Text /\ Sub(cmd, end, Len(cmd)) \in Text
      <4>1. /\ 0 \in 0..Len(cmd) /\ start \in 0..Len(cmd)
            /\ end \in 0..Len(cmd) /\ Len(cmd) \in end..Len(cmd)
        BY <3>1
      <4> QED
        BY <1>1, <4>1, SubIs
    <3>3. Sub(cmd, 0, start) \o Sub(cmd, end, Len(cmd)) \in Text
      BY <3>2 DEF Text
    <3>4. p \in Int
      BY <1>1, <2>2, <3>1
    <3> QED
      BY <2>2, <3>3, <3>4
  <2> QED
    BY <2>2, <2>3, SettleShows
<1>6. CASE \E lns, i, p : FitRecall(lns, i, p)
  <2>1. PICK lns, i, p : FitRecall(lns, i, p)
    BY <1>6
  <2>2. Settle(lns[i + 1], p) /\ mexpr' = mexpr /\ reading' = reading
    BY <2>1 DEF FitRecall, Recall
  <2>3. lns[i + 1] \in Text /\ p \in Int
    <3>1. lns \in Seq(Text) /\ i \in 0..(Len(lns) - 1) /\ Len(lns) \in Nat /\ p \in Int
      BY <2>1, LenProperties DEF FitRecall
    <3>2. i + 1 \in 1..Len(lns)
      BY <3>1
    <3> QED
      BY <3>1, <3>2, ElementOfSeq
  <2> QED
    BY <2>2, <2>3, SettleShows
<1>7. CASE UNCHANGED <<cmd, cursor_pos, mexpr, term>> /\ reading' \in BOOLEAN
  BY <1>7 DEF TInv
<1>8. CASE quoted_insert
  BY <1>1, <1>7, <1>8 DEF quoted_insert
<1>9. CASE Quoted
  <2>1. /\ mexpr' = mexpr /\ reading' = reading
        /\ \/ \E t \in Typed : Settle(Inserted(cmd, cursor_pos, t), cursor_pos + Len(t))
           \/ Settle(cmd, cursor_pos)
    BY <1>9 DEF Quoted
  <2>2. ASSUME NEW t \in Typed, Settle(Inserted(cmd, cursor_pos, t), cursor_pos + Len(t))
        PROVE  TInv'
    <3>1. t \in Text
      BY TypedWhole
    <3>2. Inserted(cmd, cursor_pos, t) \in Text /\ cursor_pos + Len(t) \in Int
      BY <1>1, <3>1, InsertFits, LenProperties DEF Text
    <3> QED
      BY <2>1, <2>2, <3>2, SettleShows
  <2> QED
    BY <1>1, <2>1, <2>2, SettleShows
<1>10. CASE accept_line
  <2>1. PICK more \in BOOLEAN : readline_start(Begun(0), more)
    BY <1>1, <1>10, NewLineIs DEF accept_line, handle_cmd
  <2>2. reading' \in BOOLEAN
    BY <1>1, <1>10 DEF accept_line
  <2> QED
    BY <2>1, <2>2, StartShows
<1>11. CASE abort
  <2>1. PICK o \in Nat : SameLine = Begun(o)
    BY <1>1, SameLineIs
  <2>2. readline_start(Begun(o), mexpr) /\ reading' \in BOOLEAN
    BY <1>1, <1>11, <2>1 DEF abort
  <2> QED
    BY <1>1, <2>2, StartShows
<1>12. CASE control_c
  <2>1. CASE last_fun = "control_c"
    BY <1>7, <1>12, <2>1 DEF control_c, text
  <2>2. CASE last_fun # "control_c"
    BY <1>1, <1>12, <2>2, ReprintShows DEF control_c
  <2> QED
    BY <2>1, <2>2
<1>13. CASE control_d
  BY <1>7, <1>13 DEF control_d, text
<1>14. ASSUME NEW t \in Completed,
              Reprint("completion", Inserted(cmd, cursor_pos, t), cursor_pos + Len(t))
       PROVE  TInv'
  <2>1. t \in Text
    BY TypedWhole
  <2>2. /\ Inserted(cmd, cursor_pos, t) \in Text
        /\ cursor_pos + Len(t) \in 0..Len(Inserted(cmd, cursor_pos, t))
    BY <1>1, <2>1, InsertFits
  <2> QED
    BY <1>14, <2>2, ReprintShows
<1>15. CASE UNCHANGED vars
  BY <1>1, <1>7, <1>15 DEF vars, text
<1> QED
  BY <1>1, <1>3, <1>4, <1>5, <1>6, <1>8, <1>9, <1>10, <1>11, <1>12, <1>13, <1>14, <1>15,
     StepKinds

\* It holds when the prompt is shown first.
LEMMA InitTInv == Init => TInv
<1> SUFFICES ASSUME Init PROVE TInv
  OBVIOUS
<1>1. /\ cmd = << >> /\ cursor_pos = 0 /\ mexpr = FALSE /\ reading = TRUE
      /\ term = update(print_prompt(Begun(0), FALSE), << >>, 0)
  BY NewLineIs DEF Init
<1>2. << >> \in Text /\ 0 \in 0..Len(<< >>)
  BY DEF Text
<1>3. ShowsLine(update(print_prompt(Begun(0), FALSE), << >>, 0), FALSE, << >>, 0)
  BY <1>2, PromptedLine
<1> QED
  BY <1>1, <1>3 DEF TInv

LEMMA LineStaysShown == Spec => [](KInv /\ TInv)
<1> QED
  BY InitKInv, NextKInv, InitTInv, NextTInv, PTL DEF Spec

\* The cursor of the terminal is where the line is edited, and term_cursor_x is
\* its column, in a window of any width, after any prompts and keys, over any
\* number of rows, if the prompt began in the first column.
THEOREM CursorIsShown == Spec => []CursorShown
<1>1. KInv /\ TInv => CursorShown
  <2> SUFFICES ASSUME TInv, term.origin = 0
               PROVE  /\ term.at = (IF mexpr THEN Prompt2 ELSE Prompt)
                                     + ucs_length(Sub(cmd, 0, cursor_pos))
                      /\ term.x = term.at % Width
                      /\ term.pending => cmd = << >>
    BY DEF CursorShown
  <2> QED
    BY DEF TInv, ShowsLine, Shows, Fair, Prompted
<1> QED
  BY <1>1, LineStaysShown, PTL

\* The types of the line, the history and the terminal.
THEOREM TypeCorrect == Spec => []TypeOK
<1>1. KInv /\ TInv => TypeOK
  BY DEF KInv, Types, TInv, ShowsLine, Shows, Terminal, TypeOK, Text
<1> QED
  BY <1>1, LineStaysShown, PTL
==============================================================================
