--------------------------- MODULE SequenceLemmas ---------------------------
(***************************************************************************)
(* Lemmas on numbers, sequences and texts: the library's theorems on       *)
(* induction and recursion take operators, these take sets and functions.  *)
(***************************************************************************)
EXTENDS Text, FiniteSetTheorems, SequenceTheorems, WellFoundedInduction, TLAPS

-----------------------------------------------------------------------------
(* Sequences whose elements need no common type. *)

IsSeq(s) == s \in Seq(Range(s))

LEMMA SeqIs ==
  ASSUME NEW S, NEW s \in Seq(S)
  PROVE  IsSeq(s)
BY SeqOfRange DEF IsSeq

LEMMA SeqShape ==
  ASSUME NEW s, IsSeq(s)
  PROVE  Len(s) \in Nat /\ DOMAIN s = 1 .. Len(s) /\ (s = <<>> <=> ~(Len(s) > 0))
BY LenProperties, EmptySeq DEF IsSeq

LEMMA AppendShape ==
  ASSUME NEW s, IsSeq(s), NEW e
  PROVE  /\ IsSeq(Append(s, e)) /\ Len(Append(s, e)) = Len(s) + 1
         /\ \A i \in 1 .. Len(s) : Append(s, e)[i] = s[i]
         /\ Append(s, e)[Len(s) + 1] = e
<1>. DEFINE S == Range(s) \cup {e}
<1>1. s \in Seq(S)
  BY SeqMonotonic DEF IsSeq
<1>2. Append(s, e) \in Seq(S) /\ Len(Append(s, e)) = Len(s) + 1
      /\ (\A i \in 1 .. Len(s) : Append(s, e)[i] = s[i]) /\ Append(s, e)[Len(s) + 1] = e
  BY <1>1, AppendProperties
<1>. QED
  BY <1>2, SeqIs

LEMMA FirstShape ==
  ASSUME NEW s, IsSeq(s), NEW n \in 0 .. Len(s)
  PROVE  /\ IsSeq(SubSeq(s, 1, n)) /\ Len(SubSeq(s, 1, n)) = n
         /\ \A i \in 1 .. n : SubSeq(s, 1, n)[i] = s[i]
<1>. DEFINE q == SubSeq(s, 1, n)
<1>1. Len(s) \in Nat /\ n \in Nat
  BY SeqShape
<1>2. \A i \in 1 .. n : s[i] \in Range(s)
  BY <1>1, ElementOfSeq DEF IsSeq
<1>3. q \in Seq(Range(s)) /\ Len(q) = (IF 1 <= n THEN n - 1 + 1 ELSE 0)
      /\ \A i \in 1 .. n - 1 + 1 : q[i] = s[1 + i - 1]
  BY <1>1, <1>2, SubSeqProperties
<1>4. IsSeq(q)
  BY <1>3, SeqIs
<1>. HIDE DEF q
<1>5. Len(q) = n /\ \A i \in 1 .. n : q[i] = s[i]
  BY <1>1, <1>3
<1>. QED
  BY <1>4, <1>5 DEF q

LEMMA ExceptShape ==
  ASSUME NEW s, IsSeq(s), NEW n \in 1 .. Len(s), NEW e
  PROVE  /\ IsSeq([s EXCEPT ![n] = e]) /\ Len([s EXCEPT ![n] = e]) = Len(s)
         /\ \A i \in 1 .. Len(s) : [s EXCEPT ![n] = e][i] = IF i = n THEN e ELSE s[i]
<1>. DEFINE S == Range(s) \cup {e}
<1>1. s \in Seq(S)
  BY SeqMonotonic DEF IsSeq
<1>. DEFINE q == [s EXCEPT ![n] = e]
<1>2. e \in S
  OBVIOUS
<1>. HIDE DEF S
<1>3. /\ q \in Seq(S) /\ Len(q) = Len(s)
      /\ \A i \in 1 .. Len(s) : q[i] = IF i = n THEN e ELSE s[i]
  BY <1>1, <1>2, ExceptSeq
<1>. HIDE DEF q
<1>4. IsSeq(q)
  BY <1>3, SeqIs
<1>. QED
  BY <1>3, <1>4 DEF q

LEMMA RestShape ==
  ASSUME NEW s, IsSeq(s), NEW n \in 0 .. Len(s)
  PROVE  LET r == SubSeq(s, n + 1, Len(s))
         IN /\ IsSeq(r) /\ Len(r) = Len(s) - n
            /\ (r = <<>> <=> n = Len(s))
            /\ n < Len(s) => Head(r) = s[n + 1] /\ Tail(r) = SubSeq(s, n + 2, Len(s))
<1>. DEFINE r == SubSeq(s, n + 1, Len(s))
<1>1. Len(s) \in Nat /\ n \in Nat /\ n + 1 \in Int /\ s \in Seq(Range(s))
  BY SeqShape DEF IsSeq
<1>2. \A i \in n + 1 .. Len(s) : s[i] \in Range(s)
  BY <1>1, ElementOfSeq
<1>3. r \in Seq(Range(s)) /\ Len(r) = IF n + 1 <= Len(s) THEN Len(s) - (n + 1) + 1 ELSE 0
  BY <1>1, <1>2, SubSeqProperties
<1>4. IsSeq(r)
  BY <1>3, SeqIs
<1>5. n < Len(s) => Head(r) = s[n + 1] /\ Tail(r) = SubSeq(s, n + 2, Len(s))
  <2>. SUFFICES ASSUME n < Len(s) PROVE Head(r) = s[n + 1] /\ Tail(r) = SubSeq(s, n + 2, Len(s))
    OBVIOUS
  <2>1. n + 1 \in 1 .. Len(s) /\ Len(s) \in n + 1 .. Len(s) /\ (n + 1) + 1 = n + 2
    BY <1>1
  <2>. QED
    BY <1>1, <2>1, HeadTailOfSubSeq
<1>. HIDE DEF r
<1>6. Len(r) = Len(s) - n
  BY <1>1, <1>3
<1>7. r = <<>> <=> n = Len(s)
  BY <1>1, <1>4, <1>6, SeqShape
<1>. QED
  BY <1>4, <1>5, <1>6, <1>7 DEF r

(* Sequences are equal when their elements are, and prefixes are too. *)
LEMMA SameSequence ==
  ASSUME NEW S, NEW s \in Seq(S), NEW T, NEW t \in Seq(T),
         Len(s) = Len(t), \A i \in 1 .. Len(s) : s[i] = t[i]
  PROVE  s = t
<1>1. s \in Seq(S \cup T) /\ t \in Seq(S \cup T)
  BY SeqMonotonic
<1>. QED
  BY <1>1, SeqEqual

LEMMA PrefixShape ==
  ASSUME NEW A, NEW s \in Seq(A), NEW t \in Seq(A)
  PROVE  IsPrefix(s, t) <=> Len(s) <= Len(t) /\ \A i \in 1 .. Len(s) : s[i] = t[i]
<1>1. IsSeq(s) /\ IsSeq(t)
  BY SeqIs
<1>2. Len(s) \in Nat /\ Len(t) \in Nat /\ (Len(s) <= Len(t) => Len(s) \in 0 .. Len(t)) /\ Len(s) \in 0 .. Len(s)
  BY <1>1, SeqShape
<1>. DEFINE a == SubSeq(s, 1, Len(s))
            b == SubSeq(t, 1, Len(s))
<1>3. IsSeq(a) /\ Len(a) = Len(s) /\ \A i \in 1 .. Len(s) : a[i] = s[i]
  BY <1>1, <1>2, FirstShape
<1>4. Len(s) <= Len(t) => IsSeq(b) /\ Len(b) = Len(s) /\ \A i \in 1 .. Len(s) : b[i] = t[i]
  BY <1>1, <1>2, FirstShape
<1>. HIDE DEF a, b
<1>5. ASSUME Len(s) <= Len(t), \A i \in 1 .. Len(s) : s[i] = t[i] PROVE a = b
  <2>1. a \in Seq(Range(a)) /\ b \in Seq(Range(b)) /\ Len(a) = Len(b)
    BY <1>3, <1>4, <1>5 DEF IsSeq
  <2>2. \A i \in 1 .. Len(a) : a[i] = b[i]
    BY <1>3, <1>4, <1>5
  <2>. QED
    BY <2>1, <2>2, SameSequence
<1>6. IsPrefix(s, t) <=> Len(s) <= Len(t) /\ a = b
  BY DEF IsPrefix, a, b
<1>. QED
  BY <1>3, <1>4, <1>5, <1>6

LEMMA PrefixOfAppend ==
  ASSUME NEW A, NEW s \in Seq(A), NEW t \in Seq(A), NEW e \in A, IsPrefix(s, Append(t, e))
  PROVE  s = Append(t, e) \/ IsPrefix(s, t)
<1>. DEFINE q == Append(t, e)
<1>1. q \in Seq(A) /\ Len(q) = Len(t) + 1 /\ \A i \in 1 .. Len(t) : q[i] = t[i]
  BY AppendProperties
<1>2. Len(s) \in Nat /\ Len(t) \in Nat
  BY LenProperties
<1>3. IsPrefix(s, q)
  OBVIOUS
<1>. HIDE DEF q
<1>4. Len(s) <= Len(q) /\ \A i \in 1 .. Len(s) : s[i] = q[i]
  BY <1>1, <1>3, PrefixShape
<1>5. CASE Len(s) = Len(q)
  BY <1>1, <1>4, <1>5, SameSequence DEF q
<1>6. CASE Len(s) <= Len(t)
  <2>1. \A i \in 1 .. Len(s) : i \in 1 .. Len(t)
    BY <1>2, <1>6
  <2>2. \A i \in 1 .. Len(s) : s[i] = t[i]
    BY <1>1, <1>4, <2>1
  <2>. QED
    BY <1>6, <2>2, PrefixShape
<1>. QED
  BY <1>1, <1>2, <1>4, <1>5, <1>6

-----------------------------------------------------------------------------
(* Least and greatest numbers, induction and recursion. *)

LEMMA MinIs ==
  ASSUME NEW S \in SUBSET Nat, S # {}
  PROVE  Min(S) \in S /\ \A y \in S : Min(S) <= y
<1>. DEFINE R == {ss \in Nat \X Nat : ss[1] < ss[2]}
<1>1. IsWellFoundedOn(R, Nat)
  BY NatLessThanWellFounded DEF OpToRel
<1>. HIDE DEF R
<1>2. PICK x \in S : \A y \in S : ~(<<y, x>> \in R)
  BY <1>1, WFMin
<1>3. ASSUME NEW y \in S PROVE x <= y
  <2>1. x \in Nat /\ y \in Nat /\ ~(<<y, x>> \in R)
    BY <1>2
  <2>2. ~(y < x)
    BY <2>1 DEF R
  <2>. QED
    BY <2>1, <2>2
<1>. QED
  BY <1>3 DEF Min

LEMMA MaxIs ==
  ASSUME NEW m \in Nat, NEW S \in SUBSET (1 .. m)
  PROVE  /\ S # {} => Max(S) \in S /\ \A y \in S : y <= Max(S)
         /\ \A x \in S : (\A y \in S : y <= x) => Max(S) = x
<1>1. ASSUME S # {} PROVE \E x \in S : \A y \in S : x >= y
  <2>. DEFINE T == {m - y : y \in S}
  <2>0. \A y \in S : y \in Nat /\ m - y \in Nat
    OBVIOUS
  <2>1. T \in SUBSET Nat /\ T # {}
    BY <1>1, <2>0
  <2>2. Min(T) \in T /\ \A z \in T : Min(T) <= z
    BY <2>1, MinIs
  <2>3. PICK x \in S : Min(T) = m - x
    BY <2>2
  <2>4. ASSUME NEW y \in S PROVE x >= y
    <3>1. m - y \in T
      OBVIOUS
    <3>2. m - x <= m - y
      BY <2>2, <2>3, <3>1
    <3>3. x \in Nat /\ y \in Nat
      BY <2>0
    <3>. QED
      BY <3>2, <3>3
  <2>. QED
    BY <2>4
<1>2. \A x, y \in S : x \in Nat /\ y \in Nat /\ (x >= y <=> y <= x) /\ (x <= y /\ y <= x => x = y)
  OBVIOUS
<1>3. S # {} => Max(S) \in S /\ \A y \in S : Max(S) >= y
  BY <1>1 DEF Max
<1>. QED
  BY <1>2, <1>3

LEMMA Induction ==
  ASSUME NEW S, 0 \in S, \A n \in Nat : n \in S => n + 1 \in S
  PROVE  Nat \subseteq S
<1>. SUFFICES ASSUME Nat \ S # {} PROVE FALSE
  OBVIOUS
<1>1. Min(Nat \ S) \in Nat \ S /\ \A n \in Nat \ S : Min(Nat \ S) <= n
  BY MinIs
<1>. QED
  BY <1>1

LEMMA SequenceInduction ==
  ASSUME NEW A, NEW S, <<>> \in S,
         \A s \in Seq(A), e \in A : s \in S => Append(s, e) \in S
  PROVE  Seq(A) \subseteq S
<1>. DEFINE T == {n \in Nat : \A s \in Seq(A) : Len(s) = n => s \in S}
<1>1. 0 \in T
  BY EmptySeq
<1>2. ASSUME NEW n \in Nat, n \in T PROVE n + 1 \in T
  <2>. SUFFICES ASSUME NEW s \in Seq(A), Len(s) = n + 1 PROVE s \in S
    OBVIOUS
  <2>1. s # <<>>
    BY EmptySeq
  <2>2. PICK t \in Seq(A), e \in A : s = Append(t, e)
    BY <2>1, SequenceEmptyOrAppend
  <2>3. Len(s) = Len(t) + 1 /\ Len(t) \in Nat
    BY <2>2, AppendProperties, LenProperties
  <2>4. t \in S
    BY <1>2, <2>3
  <2>. QED
    BY <2>2, <2>4
<1>3. Nat \subseteq T
  BY <1>1, <1>2, Induction
<1>4. \A s \in Seq(A) : Len(s) \in Nat
  BY LenProperties
<1>. QED
  BY <1>3, <1>4

(* Two functions that start and go on alike are the same. *)
Alike(f, g, m) == f[0] = g[0] /\ \A i \in 1 .. m : f[i - 1] = g[i - 1] => f[i] = g[i]

LEMMA SameRecursion ==
  ASSUME NEW m \in Nat, NEW f, NEW g, Alike(f, g, m)
  PROVE  \A i \in 0 .. m : f[i] = g[i]
<1>. USE DEF Alike
<1>. DEFINE S == {n \in Nat : n <= m => f[n] = g[n]}
<1>1. 0 \in S
  OBVIOUS
<1>2. ASSUME NEW n \in Nat, n \in S PROVE n + 1 \in S
  <2>1. n + 1 <= m => n + 1 \in 1 .. m /\ (n + 1) - 1 = n /\ n <= m
    OBVIOUS
  <2>. QED
    BY <1>2, <2>1
<1>3. Nat \subseteq S
  BY <1>1, <1>2, Induction
<1>. QED
  BY <1>3

(* Every step function has a course of values. *)
Course(m, V, base, F) ==
  {g \in [0 .. m -> V] : g[0] = base /\ \A i \in 1 .. m : g[i] = F[i][g[i - 1]]}

LEMMA Recursion ==
  ASSUME NEW m \in Nat, NEW V, NEW base \in V, NEW F \in [1 .. m -> [V -> V]]
  PROVE  Course(m, V, base, F) # {}
<1>. DEFINE Values(n) == \E g \in [0 .. n -> V] : g[0] = base /\ \A i \in 1 .. n : g[i] = F[i][g[i - 1]]
            S == {n \in Nat : n <= m => Values(n)}
<1>1. Values(0)
  <2>. DEFINE g == [i \in 0 .. 0 |-> base]
  <2>1. g \in [0 .. 0 -> V] /\ g[0] = base /\ 1 .. 0 = {}
    OBVIOUS
  <2>. QED
    BY <2>1
<1>2. ASSUME NEW n \in Nat, n \in S PROVE n + 1 \in S
  <2>. SUFFICES ASSUME n + 1 <= m PROVE Values(n + 1)
    OBVIOUS
  <2>1. PICK g \in [0 .. n -> V] : g[0] = base /\ \A i \in 1 .. n : g[i] = F[i][g[i - 1]]
    BY <1>2
  <2>. DEFINE h == [i \in 0 .. n + 1 |-> IF i = n + 1 THEN F[n + 1][g[n]] ELSE g[i]]
  <2>2. F[n + 1][g[n]] \in V
    OBVIOUS
  <2>3. h \in [0 .. n + 1 -> V]
    BY <2>2
  <2>4. h[0] = base /\ h[n + 1] = F[n + 1][g[n]] /\ \A i \in 0 .. n : h[i] = g[i]
    BY <2>1
  <2>. HIDE DEF h
  <2>5. ASSUME NEW i \in 1 .. n + 1 PROVE h[i] = F[i][h[i - 1]]
    <3>1. CASE i = n + 1
      BY <2>4, <3>1
    <3>2. CASE i \in 1 .. n
      <4>1. h[i] = g[i] /\ h[i - 1] = g[i - 1]
        BY <2>4, <3>2
      <4>. QED
        BY <2>1, <3>2, <4>1
    <3>. QED
      BY <3>1, <3>2
  <2>. QED
    BY <2>3, <2>4, <2>5
<1>. HIDE DEF Values
<1>3. Nat \subseteq S
  BY <1>1, <1>2, Induction
<1>. QED
  BY <1>3 DEF Values, Course

-----------------------------------------------------------------------------
(* The pieces of a text between separators. *)

Parts(Elem) == Seq(Seq(Elem)) \ {<<>>}

Grown(new, parts, char, sep) ==
  /\ char = sep => new = Append(parts, <<>>)
  /\ char # sep => /\ Len(new) = Len(parts)
                   /\ new[Len(parts)] = Append(parts[Len(parts)], char)
                   /\ \A i \in 1 .. Len(parts) - 1 : new[i] = parts[i]

LEMMA WithCharIs ==
  ASSUME NEW Elem, NEW sep, NEW parts \in Parts(Elem), NEW char \in Elem
  PROVE  /\ WithChar(parts, char, sep) \in Parts(Elem)
         /\ Grown(WithChar(parts, char, sep), parts, char, sep)
<1>. USE DEF Grown
<1>1. parts \in Seq(Seq(Elem)) /\ Len(parts) \in Nat /\ Len(parts) \in 1 .. Len(parts)
  BY LenProperties, EmptySeq DEF Parts
<1>2. CASE char = sep
  <2>1. <<>> \in Seq(Elem)
    BY EmptySeq
  <2>2. Append(parts, <<>>) \in Parts(Elem)
    BY <1>1, <2>1, AppendProperties DEF Parts
  <2>. QED
    BY <1>2, <2>2 DEF WithChar
<1>3. CASE char # sep
  <2>. DEFINE new == Append(parts[Len(parts)], char)
              q == [parts EXCEPT ![Len(parts)] = new]
  <2>1. new \in Seq(Elem)
    BY <1>1, ElementOfSeq, AppendProperties
  <2>. HIDE DEF new
  <2>2. /\ q \in Seq(Seq(Elem)) /\ Len(q) = Len(parts)
        /\ \A j \in 1 .. Len(parts) : q[j] = IF j = Len(parts) THEN new ELSE parts[j]
    BY <1>1, <2>1, ExceptSeq
  <2>3. WithChar(parts, char, sep) = q
    BY <1>3 DEF WithChar, new
  <2>. HIDE DEF q
  <2>4. q # <<>>
    BY <1>1, <2>2, EmptySeq
  <2>5. q[Len(parts)] = new /\ \A i \in 1 .. Len(parts) - 1 : q[i] = parts[i]
    <3>1. \A i \in 1 .. Len(parts) - 1 : i \in 1 .. Len(parts) /\ i # Len(parts)
      BY <1>1
    <3>. QED
      BY <1>1, <2>2, <3>1
  <2>. QED
    BY <1>3, <2>2, <2>3, <2>4, <2>5 DEF Parts, new
<1>. QED
  BY <1>2, <1>3

SplitsTo(parts, text, sep) ==
  /\ parts[0] = << <<>> >>
  /\ \A i \in 1 .. Len(text) : parts[i] = WithChar(parts[i - 1], text[i], sep)
  /\ SplitAt(text, sep) = parts[Len(text)]

LEMMA SplitIs ==
  ASSUME NEW Elem, NEW sep, NEW text \in Seq(Elem)
  PROVE  \E parts \in [0 .. Len(text) -> Parts(Elem)] : SplitsTo(parts, text, sep)
<1>. DEFINE n == Len(text)
            F == [i \in 1 .. n |-> [p \in Parts(Elem) |-> WithChar(p, text[i], sep)]]
<1>1. n \in Nat /\ \A i \in 1 .. n : text[i] \in Elem
  BY LenProperties, ElementOfSeq
<1>2. F \in [1 .. n -> [Parts(Elem) -> Parts(Elem)]]
  BY <1>1, WithCharIs
<1>3. << <<>> >> \in Parts(Elem)
  <2>1. <<>> \in Seq(Elem)
    BY EmptySeq
  <2>. QED
    BY <2>1 DEF Parts
<1>. HIDE DEF F, n
<1>4. Course(n, Parts(Elem), << <<>> >>, F) # {}
  BY <1>1, <1>2, <1>3, Recursion
<1>5. PICK g \in [0 .. n -> Parts(Elem)] : g[0] = << <<>> >> /\ \A i \in 1 .. n : g[i] = F[i][g[i - 1]]
  BY <1>4 DEF Course
<1>6. ASSUME NEW i \in 1 .. n PROVE g[i] = WithChar(g[i - 1], text[i], sep)
  <2>1. g[i - 1] \in Parts(Elem)
    BY <1>1, <1>5
  <2>. QED
    BY <1>5, <2>1 DEF F
<1>. DEFINE Is(f) == f = [i \in 0 .. n |->
                            IF i = 0 THEN << <<>> >> ELSE WithChar(f[i - 1], text[i], sep)]
            h == CHOOSE f : Is(f)
<1>7. Is(g)
  <2>1. \A i \in 0 .. n : i = 0 \/ i \in 1 .. n
    BY <1>1
  <2>2. \A i \in 0 .. n : g[i] = IF i = 0 THEN << <<>> >> ELSE WithChar(g[i - 1], text[i], sep)
    BY <1>5, <1>6, <2>1
  <2>3. g = [i \in 0 .. n |-> g[i]]
    BY <1>5
  <2>. QED
    BY <2>2, <2>3
<1>8. Is(h)
  BY <1>7
<1>9. SplitAt(text, sep) = h[n]
  BY DEF SplitAt, n
<1>. HIDE DEF h
<1>10. h[0] = << <<>> >> /\ \A i \in 1 .. n : h[i] = WithChar(h[i - 1], text[i], sep)
  <2>1. 0 \in 0 .. n /\ \A i \in 1 .. n : i \in 0 .. n /\ i # 0
    BY <1>1
  <2>. QED
    BY <1>8, <2>1
<1>11. Alike(g, h, n)
  BY <1>5, <1>6, <1>10 DEF Alike
<1>13. \A i \in 0 .. n : g[i] = h[i]
  BY <1>1, <1>11, SameRecursion
<1>14. n \in 0 .. n
  BY <1>1
<1>15. SplitAt(text, sep) = g[n]
  BY <1>9, <1>13, <1>14
<1>. QED
  BY <1>5, <1>6, <1>15 DEF n, SplitsTo

LEMMA SplitOfEmpty ==
  ASSUME NEW sep
  PROVE  SplitAt(<<>>, sep) = << <<>> >>
<1>1. <<>> \in Seq({}) /\ Len(<<>>) = 0
  BY EmptySeq
<1>2. \E parts \in [0 .. Len(<<>>) -> Parts({})] : SplitsTo(parts, <<>>, sep)
  BY <1>1, SplitIs
<1>. QED
  BY <1>1, <1>2 DEF SplitsTo

LEMMA SplitGrows ==
  ASSUME NEW Elem, NEW sep, NEW text \in Seq(Elem), NEW char \in Elem
  PROVE  /\ SplitAt(text, sep) \in Parts(Elem)
         /\ SplitAt(Append(text, char), sep) = WithChar(SplitAt(text, sep), char, sep)
<1>. DEFINE n == Len(text)
            longer == Append(text, char)
<1>1. /\ n \in Nat /\ longer \in Seq(Elem) /\ Len(longer) = n + 1
      /\ longer[n + 1] = char /\ \A i \in 1 .. n : longer[i] = text[i]
  BY LenProperties, AppendProperties
<1>2. PICK g \in [0 .. n -> Parts(Elem)] :
        /\ g[0] = << <<>> >> /\ \A i \in 1 .. n : g[i] = WithChar(g[i - 1], text[i], sep)
        /\ SplitAt(text, sep) = g[n]
  <2>1. PICK g \in [0 .. Len(text) -> Parts(Elem)] : SplitsTo(g, text, sep)
    BY SplitIs
  <2>. QED
    BY <2>1 DEF SplitsTo
<1>. HIDE DEF longer
<1>3. PICK h \in [0 .. n + 1 -> Parts(Elem)] :
        /\ h[0] = << <<>> >> /\ \A i \in 1 .. n + 1 : h[i] = WithChar(h[i - 1], longer[i], sep)
        /\ SplitAt(longer, sep) = h[n + 1]
  <2>1. PICK h \in [0 .. Len(longer) -> Parts(Elem)] : SplitsTo(h, longer, sep)
    BY <1>1, SplitIs
  <2>. QED
    BY <1>1, <2>1 DEF SplitsTo
<1>. HIDE DEF n
<1>4. Alike(g, h, n)
  <2>1. \A i \in 1 .. n : i \in 1 .. n + 1
    BY <1>1
  <2>. QED
    BY <1>1, <1>2, <1>3, <2>1 DEF Alike
<1>5. \A i \in 0 .. n : g[i] = h[i]
  BY <1>1, <1>4, SameRecursion, SMTT(30)
<1>6. n \in 0 .. n /\ n + 1 \in 1 .. n + 1 /\ (n + 1) - 1 = n
  BY <1>1
<1>7. SplitAt(longer, sep) = WithChar(g[n], char, sep)
  BY <1>1, <1>3, <1>5, <1>6
<1>. QED
  BY <1>2, <1>6, <1>7 DEF longer

LEMMA WithCharApart ==
  ASSUME NEW Elem, NEW sep, NEW a \in Parts(Elem), NEW b \in Parts(Elem), NEW c \in Elem, NEW d \in Elem
  PROVE  /\ WithChar(a, c, sep) = WithChar(b, d, sep) => a = b /\ c = d
         /\ WithChar(a, c, sep) # << <<>> >>
<1>0. \A q \in Parts(Elem), e \in Elem : WithChar(q, e, sep) \in Parts(Elem) /\ Grown(WithChar(q, e, sep), q, e, sep)
  BY WithCharIs
<1>1. \A p \in Parts(Elem) : /\ p \in Seq(Seq(Elem)) /\ Len(p) \in Nat /\ Len(p) \in 1 .. Len(p)
                       /\ p[Len(p)] \in Seq(Elem)
  <2>. SUFFICES ASSUME NEW p \in Parts(Elem)
                PROVE  /\ p \in Seq(Seq(Elem)) /\ Len(p) \in Nat /\ Len(p) \in 1 .. Len(p)
                       /\ p[Len(p)] \in Seq(Elem)
    OBVIOUS
  <2>1. p \in Seq(Seq(Elem)) /\ Len(p) \in Nat /\ Len(p) \in 1 .. Len(p)
    BY LenProperties, EmptySeq DEF Parts
  <2>. QED
    BY <2>1, ElementOfSeq
<1>2. <<>> \in Seq(Elem)
  BY EmptySeq
(* The last piece is empty behind a separator only. *)
<1>3. ASSUME NEW p \in Parts(Elem), NEW e \in Elem
      PROVE  LET q == WithChar(p, e, sep)
             IN /\ q \in Parts(Elem)
                /\ e = sep => Len(q) = Len(p) + 1 /\ q[Len(q)] = <<>> /\ \A i \in 1 .. Len(p) : q[i] = p[i]
                /\ e # sep => /\ Len(q) = Len(p) /\ q[Len(q)] = Append(p[Len(p)], e) /\ q[Len(q)] # <<>>
                              /\ \A i \in 1 .. Len(p) - 1 : q[i] = p[i]
  <2>1. CASE e = sep
    <3>. DEFINE q == Append(p, <<>>)
    <3>1. WithChar(p, e, sep) = q /\ WithChar(p, e, sep) \in Parts(Elem)
      BY <2>1, <1>0 DEF Grown
    <3>2. p \in Seq(Seq(Elem)) /\ <<>> \in Seq(Elem)
      BY <1>1, <1>2
    <3>3. Len(q) = Len(p) + 1 /\ (\A i \in 1 .. Len(p) : q[i] = p[i]) /\ q[Len(p) + 1] = <<>>
      BY <3>2, AppendProperties
    <3>. HIDE DEF q
    <3>. QED
      BY <2>1, <3>1, <3>3
  <2>2. CASE e # sep
    <3>1. p[Len(p)] \in Seq(Elem)
      BY <1>1
    <3>2. Append(p[Len(p)], e) # <<>>
      BY <3>1, AppendProperties
    <3>3. /\ WithChar(p, e, sep) \in Parts(Elem) /\ Len(WithChar(p, e, sep)) = Len(p)
          /\ WithChar(p, e, sep)[Len(p)] = Append(p[Len(p)], e)
          /\ \A i \in 1 .. Len(p) - 1 : WithChar(p, e, sep)[i] = p[i]
      BY <2>2, <1>0 DEF Grown
    <3>. QED
      BY <2>2, <3>2, <3>3
  <2>. QED
    BY <2>1, <2>2
<1>. DEFINE x == WithChar(a, c, sep)
            y == WithChar(b, d, sep)
<1>4. ASSUME x = y PROVE a = b /\ c = d
  <2>1. x \in Parts(Elem) /\ (c = sep <=> x[Len(x)] = <<>>)
    BY <1>3
  <2>2. y \in Parts(Elem) /\ (d = sep <=> y[Len(y)] = <<>>)
    BY <1>3
  <2>3. CASE c = sep
    <3>1. d = sep
      BY <1>4, <2>1, <2>2, <2>3
    <3>2. Len(x) = Len(a) + 1 /\ \A i \in 1 .. Len(a) : x[i] = a[i]
      BY <1>3, <2>3
    <3>3. Len(y) = Len(b) + 1 /\ \A i \in 1 .. Len(b) : y[i] = b[i]
      BY <1>3, <3>1
    <3>. HIDE DEF x, y
    <3>4. Len(a) = Len(b)
      BY <1>1, <1>4, <3>2, <3>3
    <3>5. \A i \in 1 .. Len(a) : a[i] = b[i]
      BY <1>4, <3>2, <3>3, <3>4
    <3>6. a = b
      BY <1>1, <3>4, <3>5, SameSequence
    <3>. QED
      BY <2>3, <3>1, <3>6
  <2>4. CASE c # sep
    <3>1. d # sep
      BY <1>4, <2>1, <2>2, <2>4
    <3>2. /\ Len(x) = Len(a) /\ x[Len(x)] = Append(a[Len(a)], c)
          /\ \A i \in 1 .. Len(a) - 1 : x[i] = a[i]
      BY <1>3, <2>4
    <3>3. /\ Len(y) = Len(b) /\ y[Len(y)] = Append(b[Len(b)], d)
          /\ \A i \in 1 .. Len(b) - 1 : y[i] = b[i]
      BY <1>3, <3>1
    <3>. HIDE DEF x, y
    <3>4. Len(a) = Len(b) /\ Append(a[Len(a)], c) = Append(b[Len(b)], d)
      BY <1>4, <3>2, <3>3
    <3>5. a[Len(a)] \in Seq(Elem) /\ b[Len(b)] \in Seq(Elem)
      BY <1>1
    <3>. HIDE DEF Parts
    <3>0. \A s, t \in Seq(Elem) : Append(s, c) = Append(t, d) => s = t /\ c = d
      BY AppendInjective
    <3>6. a[Len(a)] = b[Len(b)] /\ c = d
      BY <3>0, <3>4, <3>5
    <3>7. \A i \in 1 .. Len(a) : i = Len(a) \/ i \in 1 .. Len(a) - 1
      BY <1>1
    <3>8. \A i \in 1 .. Len(a) : a[i] = b[i]
      BY <1>4, <3>2, <3>3, <3>4, <3>6, <3>7
    <3>9. a = b
      BY <1>1, <3>4, <3>8, SameSequence
    <3>. QED
      BY <3>6, <3>9
  <2>. QED
    BY <2>3, <2>4
<1>5. x # << <<>> >>
  <2>. SUFFICES ASSUME x = << <<>> >> PROVE FALSE
    OBVIOUS
  <2>1. Len(x) = 1 /\ x[1] = <<>>
    OBVIOUS
  <2>2. CASE c = sep
    <3>1. Len(x) = Len(a) + 1 /\ Len(a) \in Nat /\ Len(a) \in 1 .. Len(a)
      BY <1>1, <1>3, <2>2
    <3>. HIDE DEF x
    <3>. QED
      BY <2>1, <3>1
  <2>3. CASE c # sep
    <3>1. x[Len(x)] # <<>>
      BY <1>3, <2>3
    <3>. QED
      BY <2>1, <3>1
  <2>. QED
    BY <2>2, <2>3
<1>. QED
  BY <1>4, <1>5

LEMMA SplitTells ==
  ASSUME NEW Elem, NEW sep, NEW p \in Seq(Elem), NEW q \in Seq(Elem), SplitAt(p, sep) = SplitAt(q, sep)
  PROVE  p = q
<1>. DEFINE S == {s \in Seq(Elem) : \A t \in Seq(Elem) : SplitAt(s, sep) = SplitAt(t, sep) => s = t}
<1>1. \A t \in Seq(Elem) : t = <<>> \/ \E r \in Seq(Elem), d \in Elem : t = Append(r, d)
  BY SequenceEmptyOrAppend
<1>2. ASSUME NEW r \in Seq(Elem), NEW d \in Elem
      PROVE  SplitAt(Append(r, d), sep) = WithChar(SplitAt(r, sep), d, sep) /\ SplitAt(r, sep) \in Parts(Elem)
             /\ SplitAt(Append(r, d), sep) # << <<>> >>
  BY SplitGrows, WithCharApart
<1>3. <<>> \in S
  <2>1. <<>> \in Seq(Elem)
    BY EmptySeq
  <2>2. ASSUME NEW t \in Seq(Elem), SplitAt(<<>>, sep) = SplitAt(t, sep) PROVE <<>> = t
    <3>1. ~\E r \in Seq(Elem), d \in Elem : t = Append(r, d)
      BY <1>2, <2>2, SplitOfEmpty
    <3>. QED
      BY <1>1, <3>1
  <2>. QED
    BY <2>1, <2>2
<1>4. ASSUME NEW s \in Seq(Elem), NEW c \in Elem, s \in S PROVE Append(s, c) \in S
  <2>1. Append(s, c) \in Seq(Elem)
    BY AppendProperties
  <2>2. ASSUME NEW t \in Seq(Elem), SplitAt(Append(s, c), sep) = SplitAt(t, sep) PROVE Append(s, c) = t
    <3>1. t # <<>>
      BY <1>2, <2>2, SplitOfEmpty
    <3>2. PICK r \in Seq(Elem), d \in Elem : t = Append(r, d)
      BY <1>1, <3>1
    <3>3. WithChar(SplitAt(s, sep), c, sep) = WithChar(SplitAt(r, sep), d, sep)
      BY <1>2, <2>2, <3>2
    <3>4. SplitAt(s, sep) \in Parts(Elem) /\ SplitAt(r, sep) \in Parts(Elem)
      BY <1>2
    <3>5. SplitAt(s, sep) = SplitAt(r, sep) /\ c = d
      BY <3>3, <3>4, WithCharApart
    <3>6. s = r
      BY <1>4, <3>5
    <3>. QED
      BY <3>2, <3>5, <3>6
  <2>. QED
    BY <2>1, <2>2
<1>5. Seq(Elem) \subseteq S
  BY <1>3, <1>4, SequenceInduction
<1>. QED
  BY <1>5

(* The pieces of two texts with a separator between them. *)
LEMMA SplitOfTwo ==
  ASSUME NEW Elem, NEW sep, sep \in Elem, NEW p \in Seq(Elem), NEW w \in Seq(Elem)
  PROVE  /\ Append(p, sep) \o w \in Seq(Elem)
         /\ SplitAt(Append(p, sep) \o w, sep) = SplitAt(p, sep) \o SplitAt(w, sep)
<1>0. \A q \in Parts(Elem), e \in Elem : WithChar(q, e, sep) \in Parts(Elem) /\ Grown(WithChar(q, e, sep), q, e, sep)
  BY WithCharIs
<1>. DEFINE pre == Append(p, sep)
            A == SplitAt(p, sep)
            S == {s \in Seq(Elem) : SplitAt(pre \o s, sep) = A \o SplitAt(s, sep)}
<1>1. sep \in Elem
  OBVIOUS
<1>2. pre \in Seq(Elem) /\ A \in Parts(Elem) /\ A \in Seq(Seq(Elem)) /\ Len(A) \in Nat
  BY <1>1, AppendProperties, SplitGrows, LenProperties DEF Parts
<1>3. SplitAt(pre, sep) = Append(A, <<>>)
  <2>1. SplitAt(pre, sep) = WithChar(A, sep, sep)
    BY <1>1, SplitGrows
  <2>. HIDE DEF A
  <2>2. WithChar(A, sep, sep) = Append(A, <<>>)
    BY <1>1, <1>2, <1>0 DEF Grown
  <2>. QED
    BY <2>1, <2>2
<1>. HIDE DEF pre, A
<1>4. <<>> \in S
  <2>1. <<>> \in Seq(Elem) /\ pre \o <<>> = pre
    BY <1>2, EmptySeq, ConcatEmptySeq
  <2>2. Append(A, <<>>) = A \o << <<>> >>
    BY <1>2, <2>1, AppendIsConcat
  <2>. QED
    BY <1>3, <2>1, <2>2, SplitOfEmpty
<1>5. ASSUME NEW s \in Seq(Elem), NEW c \in Elem, s \in S PROVE Append(s, c) \in S
  <2>. DEFINE B == SplitAt(s, sep)
              AB == A \o B
  <2>1. B \in Parts(Elem) /\ B \in Seq(Seq(Elem)) /\ Len(B) \in Nat /\ Len(B) \in 1 .. Len(B)
    BY SplitGrows, LenProperties, EmptySeq DEF Parts
  <2>2. pre \o s \in Seq(Elem) /\ pre \o Append(s, c) = Append(pre \o s, c)
    <3>. DEFINE left == pre \o Append(s, c)
                right == Append(pre \o s, c)
    <3>1. pre \o s \in Seq(Elem) /\ Append(s, c) \in Seq(Elem) /\ <<c>> \in Seq(Elem)
      BY <1>2, ConcatProperties, AppendProperties
    <3>2. right = (pre \o s) \o <<c>> /\ Append(s, c) = s \o <<c>>
      BY <3>1, AppendIsConcat
    <3>3. (pre \o s) \o <<c>> = pre \o (s \o <<c>>)
      BY <1>2, <3>1, ConcatAssociative, SMTT(30)
    <3>. QED
      BY <3>1, <3>2, <3>3
  <2>. HIDE DEF B
  <2>3. /\ AB \in Seq(Seq(Elem)) /\ Len(AB) = Len(A) + Len(B)
        /\ \A i \in 1 .. Len(A) + Len(B) : AB[i] = IF i <= Len(A) THEN A[i] ELSE B[i - Len(A)]
    BY <1>2, <2>1, ConcatProperties
  <2>. HIDE DEF AB
  <2>4. AB \in Parts(Elem) /\ Len(AB) \in Nat
    BY <1>2, <2>1, <2>3, EmptySeq DEF Parts
  <2>5. SplitAt(pre \o Append(s, c), sep) = WithChar(AB, c, sep)
    BY <1>5, <2>2, SplitGrows DEF AB, B
  <2>. DEFINE C == WithChar(B, c, sep)
              left == WithChar(AB, c, sep)
  <2>6. C = SplitAt(Append(s, c), sep)
    BY SplitGrows DEF B
  <2>7. C \in Parts(Elem) /\ C \in Seq(Seq(Elem)) /\ left \in Seq(Seq(Elem))
    BY <2>1, <2>4, <1>0 DEF Grown, Parts
  <2>8. left = A \o C
    <3>1. CASE c = sep
      <4>0. <<>> \in Seq(Elem) /\ << <<>> >> \in Seq(Seq(Elem))
        BY EmptySeq
      <4>1. left = AB \o << <<>> >> /\ C = B \o << <<>> >>
        <5>1. left = Append(AB, <<>>) /\ C = Append(B, <<>>)
          BY <2>1, <2>4, <3>1, <1>0 DEF Grown
        <5>. QED
          BY <2>1, <2>3, <4>0, <5>1, AppendIsConcat
      <4>2. (A \o B) \o << <<>> >> = A \o (B \o << <<>> >>)
        <5>. DEFINE T == Seq(Elem)
        <5>1. A \in Seq(T) /\ B \in Seq(T) /\ << <<>> >> \in Seq(T)
          BY <1>2, <2>1, <4>0
        <5>. HIDE DEF T
        <5>. QED
          BY <5>1, ConcatAssociative, SMTT(30)
      <4>. QED
        BY <4>1, <4>2 DEF AB
    <3>2. CASE c # sep
      <4>1. /\ Len(left) = Len(AB) /\ left[Len(AB)] = Append(AB[Len(AB)], c)
            /\ \A i \in 1 .. Len(AB) - 1 : left[i] = AB[i]
        BY <2>4, <3>2, <1>0 DEF Grown
      <4>2. /\ Len(C) = Len(B) /\ C[Len(B)] = Append(B[Len(B)], c)
            /\ \A i \in 1 .. Len(B) - 1 : C[i] = B[i]
        BY <2>1, <3>2, <1>0 DEF Grown
      <4>. DEFINE right == A \o C
      <4>. HIDE DEF C, left
      <4>3. /\ right \in Seq(Seq(Elem)) /\ Len(right) = Len(A) + Len(C)
            /\ \A i \in 1 .. Len(A) + Len(C) : right[i] = IF i <= Len(A) THEN A[i] ELSE C[i - Len(A)]
        BY <1>2, <2>7, ConcatProperties
      <4>. HIDE DEF right
      <4>4. ASSUME NEW i \in 1 .. Len(left) PROVE left[i] = right[i]
        <5>0. Len(left) = Len(A) + Len(B) /\ Len(C) = Len(B)
          BY <2>3, <4>1, <4>2
        <5>. DEFINE a == Len(A)
                    b == Len(B)
        <5>00. i \in 1 .. a + b /\ a \in Nat /\ b \in Nat /\ b >= 1
          BY <1>2, <2>1, <5>0
        <5>. HIDE DEF a, b
        <5>1. CASE i = Len(A) + Len(B)
          <6>0. i = a + b /\ ~(i <= a) /\ i - a = b
            BY <5>00, <5>1 DEF a, b
          <6>1. AB[i] = B[Len(B)] /\ right[i] = C[Len(B)]
            BY <2>3, <4>3, <5>0, <5>00, <6>0 DEF a, b
          <6>. QED
            BY <2>3, <4>1, <4>2, <5>1, <6>1
        <5>2. CASE i # Len(A) + Len(B)
          <6>0. i \in 1 .. (a + b) - 1
            BY <5>00, <5>2 DEF a, b
          <6>1. left[i] = AB[i]
            BY <2>3, <4>1, <6>0 DEF a, b
          <6>2. CASE i <= Len(A)
            BY <1>2, <2>1, <2>3, <4>1, <4>2, <4>3, <6>1, <6>2
          <6>3. CASE ~(i <= Len(A))
            <7>1. i - Len(A) \in 1 .. Len(B) - 1
              BY <5>00, <6>0, <6>3 DEF a, b
            <7>2. AB[i] = B[i - Len(A)] /\ right[i] = C[i - Len(A)]
              BY <1>2, <2>1, <2>3, <4>1, <4>2, <4>3, <6>3
            <7>. QED
              BY <4>2, <6>1, <7>1, <7>2
          <6>. QED
            BY <6>2, <6>3
        <5>. QED
          BY <5>1, <5>2
      <4>5. Len(left) = Len(right)
        BY <2>3, <4>1, <4>2, <4>3
      <4>6. left = right
        BY <2>7, <4>3, <4>4, <4>5, SameSequence
      <4>. QED
        BY <4>6 DEF right
    <3>. QED
      BY <3>1, <3>2
  <2>9. Append(s, c) \in Seq(Elem)
    BY AppendProperties
  <2>. QED
    BY <2>5, <2>6, <2>8, <2>9
<1>6. Seq(Elem) \subseteq S
  BY <1>4, <1>5, SequenceInduction
<1>7. pre \o w \in Seq(Elem)
  BY <1>2, ConcatProperties
<1>. QED
  BY <1>6, <1>7 DEF pre, A

(* A text has at least one piece. *)
LEMMA SplitType ==
  ASSUME NEW Elem, NEW sep, NEW text \in Seq(Elem)
  PROVE  SplitAt(text, sep) \in Parts(Elem) /\ Len(SplitAt(text, sep)) \in Nat
<1>1. PICK g \in [0 .. Len(text) -> Parts(Elem)] : SplitAt(text, sep) = g[Len(text)]
  <2>1. PICK g \in [0 .. Len(text) -> Parts(Elem)] : SplitsTo(g, text, sep)
    BY SplitIs
  <2>. QED
    BY <2>1 DEF SplitsTo
<1>2. Len(text) \in Nat
  BY LenProperties
<1>3. SplitAt(text, sep) \in Parts(Elem)
  BY <1>1, <1>2
<1>. QED
  BY <1>3, LenProperties DEF Parts

EndsPiece(p, u, sep, Elem) == p = u \/ \E w \in Seq(Elem) : u = Append(p, sep) \o w

(* Components that are first pieces end at a separator, or at the end. *)
LEMMA FirstPieces ==
  ASSUME NEW Elem, NEW sep, sep \in Elem, NEW p \in Seq(Elem), NEW u \in Seq(Elem), IsPrefix(SplitAt(p, sep), SplitAt(u, sep))
  PROVE  EndsPiece(p, u, sep, Elem)
<1>0. \A q \in Parts(Elem), e \in Elem : WithChar(q, e, sep) \in Parts(Elem) /\ Grown(WithChar(q, e, sep), q, e, sep)
  BY WithCharIs
<1>. DEFINE Behind(s) == \E w \in Seq(Elem) : s = Append(p, sep) \o w
            S == {s \in Seq(Elem) : IsPrefix(SplitAt(p, sep), SplitAt(s, sep)) => p = s \/ Behind(s)}
            P == SplitAt(p, sep)
<1>1. \A s \in Seq(Elem) : SplitAt(s, sep) \in Parts(Elem)
  BY SplitType
<1>2. \A x \in Parts(Elem) : x \in Seq(Seq(Elem)) /\ Len(x) \in Nat /\ Len(x) >= 1
  BY LenProperties, EmptySeq DEF Parts
<1>3. sep \in Elem
  OBVIOUS
<1>4. Append(p, sep) \in Seq(Elem) /\ <<>> \in Seq(Elem)
  BY <1>3, AppendProperties, EmptySeq
<1>5. <<>> \in S
  <2>. SUFFICES ASSUME IsPrefix(P, SplitAt(<<>>, sep)) PROVE p = <<>>
    BY <1>4
  <2>. DEFINE E == << <<>> >>
  <2>1. E \in Seq(Seq(Elem)) /\ Len(E) = 1 /\ P \in Seq(Seq(Elem)) /\ Len(P) \in Nat /\ Len(P) >= 1
    BY <1>1, <1>2, <1>4
  <2>2. IsPrefix(P, E)
    BY SplitOfEmpty
  <2>. HIDE DEF E, P
  <2>3. Len(P) <= Len(E) /\ \A i \in 1 .. Len(P) : P[i] = E[i]
    <3>. DEFINE T == Seq(Elem)
    <3>1. E \in Seq(T) /\ P \in Seq(T)
      BY <2>1
    <3>. HIDE DEF T
    <3>. QED
      BY <2>2, <3>1, PrefixShape
  <2>4. Len(P) = Len(E)
    BY <2>1, <2>3
  <2>5. P = E
    BY <2>1, <2>3, <2>4, SameSequence
  <2>6. SplitAt(p, sep) = SplitAt(<<>>, sep)
    BY <2>5, SplitOfEmpty DEF P, E
  <2>. QED
    BY <1>4, <2>6, SplitTells
<1>6. ASSUME NEW s \in Seq(Elem), NEW c \in Elem, s \in S PROVE Append(s, c) \in S
  <2>. DEFINE A == SplitAt(s, sep)
              B == SplitAt(Append(s, c), sep)
  <2>1. Append(s, c) \in Seq(Elem)
    BY AppendProperties
  <2>. SUFFICES ASSUME IsPrefix(P, B) PROVE p = Append(s, c) \/ Behind(Append(s, c))
    BY <2>1
  <2>2. A \in Parts(Elem) /\ B \in Parts(Elem) /\ P \in Parts(Elem) /\ B = WithChar(A, c, sep)
    BY <1>1, <2>1, SplitGrows
  <2>3. c = sep => B = Append(A, <<>>)
    BY <2>2, <1>0 DEF Grown
  <2>4. c # sep => Len(B) = Len(A) /\ \A i \in 1 .. Len(A) - 1 : B[i] = A[i]
    <3>1. Grown(B, A, c, sep)
      BY <2>2, <1>0
    <3>. HIDE DEF A, B
    <3>. QED
      BY <3>1 DEF Grown
  <2>. HIDE DEF P, A, B
  <2>5. /\ A \in Seq(Seq(Elem)) /\ B \in Seq(Seq(Elem)) /\ P \in Seq(Seq(Elem))
        /\ Len(A) \in Nat /\ Len(B) \in Nat /\ Len(P) \in Nat
    BY <1>2, <2>2
  <2>6. Len(P) <= Len(B) /\ \A i \in 1 .. Len(P) : P[i] = B[i]
    <3>. DEFINE T == Seq(Elem)
    <3>1. B \in Seq(T) /\ P \in Seq(T) /\ IsPrefix(P, B)
      BY <2>5
    <3>. HIDE DEF T
    <3>. QED
      BY <3>1, PrefixShape
  <2>7. CASE P = B
    <3>1. p = Append(s, c)
      BY <2>1, <2>7, SplitTells DEF P, B
    <3>. QED
      BY <3>1
  <2>8. CASE P # B
    <3>1. IsPrefix(P, A) /\ (c # sep => Len(P) < Len(A))
      <4>1. CASE c = sep
        <5>1. <<>> \in Seq(Elem) /\ IsPrefix(P, Append(A, <<>>)) /\ P # Append(A, <<>>)
          BY <2>3, <2>8, <4>1, EmptySeq
        <5>. DEFINE T == Seq(Elem)
        <5>2. A \in Seq(T) /\ P \in Seq(T) /\ <<>> \in T
          BY <2>5, <5>1
        <5>. HIDE DEF T
        <5>. QED
          BY <4>1, <5>1, <5>2, PrefixOfAppend
      <4>2. CASE c # sep
        <5>1. Len(P) # Len(B)
          BY <2>5, <2>6, <2>8, SameSequence
        <5>2. Len(P) < Len(A)
          BY <2>4, <2>5, <2>6, <4>2, <5>1
        <5>3. \A i \in 1 .. Len(P) : i \in 1 .. Len(A) - 1
          BY <2>5, <5>2
        <5>4. \A i \in 1 .. Len(P) : P[i] = A[i]
          BY <2>4, <2>6, <4>2, <5>3
        <5>5. IsPrefix(P, A)
          <6>. DEFINE T == Seq(Elem)
          <6>1. A \in Seq(T) /\ P \in Seq(T) /\ Len(P) <= Len(A)
            BY <2>5, <5>2
          <6>. HIDE DEF T
          <6>. QED
            BY <5>4, <6>1, PrefixShape
        <5>. QED
          BY <5>2, <5>5
      <4>. QED
        BY <4>1, <4>2
    <3>2. p = s \/ Behind(s)
      BY <1>6, <3>1 DEF P, A
    <3>3. CASE p = s
      <4>1. c = sep
        BY <2>5, <3>1, <3>3 DEF P, A
      <4>2. Append(s, c) = Append(p, sep) \o <<>>
        BY <1>4, <3>3, <4>1, ConcatEmptySeq
      <4>. QED
        BY <1>4, <4>2
    <3>4. CASE Behind(s)
      <4>1. PICK w \in Seq(Elem) : s = Append(p, sep) \o w
        BY <3>4
      <4>. DEFINE pre == Append(p, sep)
      <4>2. pre \in Seq(Elem) /\ <<c>> \in Seq(Elem) /\ Append(w, c) \in Seq(Elem)
        BY <1>4, AppendProperties
      <4>. HIDE DEF pre
      <4>3. Append(s, c) = s \o <<c>> /\ Append(w, c) = w \o <<c>>
        BY AppendIsConcat
      <4>4. (pre \o w) \o <<c>> = pre \o (w \o <<c>>)
        BY <4>2, ConcatAssociative, SMTT(30)
      <4>5. Append(s, c) = pre \o Append(w, c)
        BY <4>1, <4>3, <4>4 DEF pre
      <4>. QED
        BY <4>2, <4>5 DEF pre
    <3>. QED
      BY <3>2, <3>3, <3>4
  <2>. QED
    BY <2>7, <2>8
<1>. HIDE DEF Behind
<1>7. Seq(Elem) \subseteq S
  BY <1>5, <1>6, SequenceInduction
<1>. QED
  BY <1>7 DEF Behind, EndsPiece

(* A longer text has no fewer pieces. *)
LEMMA SplitOfPrefix ==
  ASSUME NEW Elem, NEW sep, NEW p \in Seq(Elem), NEW q \in Seq(Elem), IsPrefix(p, q)
  PROVE  Len(SplitAt(p, sep)) <= Len(SplitAt(q, sep))
<1>0. \A a \in Parts(Elem), e \in Elem : WithChar(a, e, sep) \in Parts(Elem) /\ Grown(WithChar(a, e, sep), a, e, sep)
  BY WithCharIs
<1>. DEFINE S == {s \in Seq(Elem) : IsPrefix(p, s) => Len(SplitAt(p, sep)) <= Len(SplitAt(s, sep))}
<1>1. \A s \in Seq(Elem) : SplitAt(s, sep) \in Parts(Elem) /\ Len(SplitAt(s, sep)) \in Nat
  BY SplitType
<1>2. <<>> \in S
  <2>1. <<>> \in Seq(Elem)
    BY EmptySeq
  <2>2. ASSUME IsPrefix(p, <<>>) PROVE p = <<>>
    <3>1. Len(p) <= Len(<<>>)
      BY <2>2 DEF IsPrefix
    <3>. QED
      BY <3>1, EmptySeq, LenProperties
  <2>. QED
    BY <1>1, <2>1, <2>2
<1>3. ASSUME NEW s \in Seq(Elem), NEW c \in Elem, s \in S PROVE Append(s, c) \in S
  <2>1. Append(s, c) \in Seq(Elem)
    BY AppendProperties
  <2>2. ASSUME IsPrefix(p, Append(s, c)) PROVE Len(SplitAt(p, sep)) <= Len(SplitAt(Append(s, c), sep))
    <3>1. CASE p = Append(s, c)
      BY <1>1, <2>1, <3>1
    <3>2. CASE IsPrefix(p, s)
      <4>. DEFINE A == SplitAt(s, sep)
                  B == WithChar(A, c, sep)
      <4>1. SplitAt(Append(s, c), sep) = B /\ A \in Parts(Elem)
        BY SplitGrows
      <4>. HIDE DEF A
      <4>2. Len(A) \in Nat /\ A \in Seq(Seq(Elem)) /\ <<>> \in Seq(Elem)
        BY <4>1, LenProperties, EmptySeq DEF Parts
      <4>3. Len(Append(A, <<>>)) = Len(A) + 1
        BY <4>2, AppendProperties
      <4>4. Len(B) = Len(A) \/ Len(B) = Len(A) + 1
        BY <4>1, <4>3, <1>0 DEF Grown
      <4>5. Len(SplitAt(p, sep)) <= Len(A)
        BY <1>3, <3>2 DEF A
      <4>. HIDE DEF B
      <4>. QED
        BY <1>1, <4>1, <4>2, <4>4, <4>5
    <3>. QED
      BY <2>2, <3>1, <3>2, PrefixOfAppend
  <2>. QED
    BY <2>1, <2>2
<1>4. Seq(Elem) \subseteq S
  BY <1>2, <1>3, SequenceInduction
<1>. QED
  BY <1>4

-----------------------------------------------------------------------------
(* Sequences put together. *)

Flattens(g, seqs) ==
  /\ g[0] = <<>>
  /\ \A i \in 1 .. Len(seqs) : g[i] = g[i - 1] \o seqs[i]
  /\ FlattenSeq(seqs) = g[Len(seqs)]

LEMMA FlattenIs ==
  ASSUME NEW Elem, NEW seqs \in Seq(Seq(Elem))
  PROVE  \E g \in [0 .. Len(seqs) -> Seq(Elem)] : Flattens(g, seqs)
<1>. DEFINE n == Len(seqs)
            V == Seq(Elem)
            F == [i \in 1 .. n |-> [x \in V |-> x \o seqs[i]]]
<1>1. n \in Nat /\ (\A i \in 1 .. n : seqs[i] \in V) /\ <<>> \in V /\ (n = 0 => seqs = <<>>)
  BY LenProperties, ElementOfSeq, EmptySeq
<1>2. F \in [1 .. n -> [V -> V]]
  BY <1>1, ConcatProperties
<1>. HIDE DEF F, n
<1>3. Course(n, V, <<>>, F) # {}
  BY <1>1, <1>2, Recursion
<1>4. PICK g \in [0 .. n -> V] : g[0] = <<>> /\ \A i \in 1 .. n : g[i] = F[i][g[i - 1]]
  BY <1>3 DEF Course
<1>5. ASSUME NEW i \in 1 .. n PROVE g[i] = g[i - 1] \o seqs[i] /\ g[i - 1] \in V
  <2>1. g[i - 1] \in V
    BY <1>1, <1>4
  <2>. QED
    BY <1>4, <2>1 DEF F
<1>6. CASE n = 0
  BY <1>1, <1>4, <1>5, <1>6 DEF n, Flattens, FlattenSeq
<1>7. CASE n # 0
  <2>. DEFINE Is(f) == f = [i \in 1 .. n |-> IF i = 1 THEN seqs[i] ELSE f[i - 1] \o seqs[i]]
              h == CHOOSE f : Is(f)
              k == [i \in 1 .. n |-> g[i]]
              hh == [i \in 0 .. n |-> IF i = 0 THEN <<>> ELSE h[i]]
  <2>1. 1 \in 1 .. n /\ n \in 1 .. n /\ n \in 0 .. n
    BY <1>1, <1>7
  <2>2. g[1] = seqs[1]
    <3>1. g[1] = g[0] \o seqs[1]
      <4>1. \A i \in 1 .. n : i = 1 => g[i] = g[0] \o seqs[i]
        <5>1. \A i \in 1 .. n : g[i] = g[i - 1] \o seqs[i]
          BY <1>5
        <5>2. \A i \in 1 .. n : i = 1 => i - 1 = 0
          OBVIOUS
        <5>. QED
          BY <5>1, <5>2
      <4>. QED
        BY <2>1, <4>1
    <3>2. seqs[1] \in Seq(Elem)
      BY <1>1, <2>1
    <3>. QED
      BY <1>4, <3>1, <3>2, ConcatEmptySeq
  <2>3. Is(k)
    <3>1. \A i \in 1 .. n : i # 1 => i - 1 \in 1 .. n
      BY <1>1
    <3>2. \A i \in 1 .. n : k[i] = IF i = 1 THEN seqs[i] ELSE k[i - 1] \o seqs[i]
      BY <1>5, <2>2, <3>1
    <3>3. k = [i \in 1 .. n |-> k[i]]
      OBVIOUS
    <3>. HIDE DEF k
    <3>. QED
      BY <3>2, <3>3
  <2>. HIDE DEF k
  <2>4. Is(h)
    BY <2>3
  <2>. HIDE DEF h
  <2>5. ASSUME NEW i \in 1 .. n, g[i - 1] = hh[i - 1] PROVE g[i] = hh[i]
    <3>1. CASE i = 1
      BY <2>1, <2>2, <2>4, <3>1
    <3>2. CASE i # 1
      <4>1. i - 1 \in 1 .. n /\ i - 1 # 0 /\ i - 1 \in 0 .. n /\ i \in 0 .. n /\ i # 0
        BY <1>1, <3>2
      <4>2. hh[i] = h[i] /\ hh[i - 1] = h[i - 1]
        BY <4>1
      <4>. HIDE DEF hh
      <4>3. h[i] = h[i - 1] \o seqs[i]
        BY <2>4, <3>2
      <4>. QED
        BY <1>5, <2>5, <4>2, <4>3
    <3>. QED
      BY <3>1, <3>2
  <2>8. hh[n] = h[n] /\ hh[0] = <<>> /\ n \in Nat
    BY <1>1, <1>7, <2>1
  <2>. HIDE DEF hh
  <2>6. Alike(g, hh, n)
    BY <1>4, <2>5, <2>8 DEF Alike
  <2>7. g[n] = hh[n]
    <3>1. \A i \in 0 .. n : g[i] = hh[i]
      BY <2>6, <2>8, SameRecursion
    <3>. QED
      BY <2>1, <3>1
  <2>9. FlattenSeq(seqs) = h[n]
    BY <1>7 DEF FlattenSeq, h, n
  <2>. QED
    BY <1>4, <1>5, <2>7, <2>8, <2>9 DEF n, Flattens
<1>. QED
  BY <1>6, <1>7

LEMMA FlattenOfEmpty == FlattenSeq(<<>>) = <<>>
  BY DEF FlattenSeq

LEMMA FlattenGrows ==
  ASSUME NEW Elem, NEW seqs \in Seq(Seq(Elem)), NEW s \in Seq(Elem)
  PROVE  /\ FlattenSeq(seqs) \in Seq(Elem)
         /\ FlattenSeq(Append(seqs, s)) = FlattenSeq(seqs) \o s
<1>. DEFINE n == Len(seqs)
            longer == Append(seqs, s)
<1>1. /\ n \in Nat /\ longer \in Seq(Seq(Elem)) /\ Len(longer) = n + 1
      /\ longer[n + 1] = s /\ \A i \in 1 .. n : longer[i] = seqs[i]
  <2>. DEFINE T == Seq(Elem)
  <2>1. seqs \in Seq(T) /\ s \in T
    OBVIOUS
  <2>. HIDE DEF T
  <2>2. /\ n \in Nat /\ longer \in Seq(T) /\ Len(longer) = n + 1
        /\ longer[n + 1] = s /\ \A i \in 1 .. n : longer[i] = seqs[i]
    BY <2>1, LenProperties, AppendProperties
  <2>. QED
    BY <2>2 DEF T
<1>2. PICK g \in [0 .. n -> Seq(Elem)] : Flattens(g, seqs)
  BY FlattenIs
<1>. HIDE DEF longer
<1>3. PICK h \in [0 .. n + 1 -> Seq(Elem)] : Flattens(h, longer)
  BY <1>1, FlattenIs
<1>4. g[0] = <<>> /\ (\A i \in 1 .. n : g[i] = g[i - 1] \o seqs[i]) /\ FlattenSeq(seqs) = g[n]
  BY <1>2 DEF Flattens
<1>5. h[0] = <<>> /\ (\A i \in 1 .. n + 1 : h[i] = h[i - 1] \o longer[i]) /\ FlattenSeq(longer) = h[n + 1]
  BY <1>1, <1>3 DEF Flattens
<1>. HIDE DEF n
<1>6. Alike(g, h, n)
  <2>1. \A i \in 1 .. n : i \in 1 .. n + 1
    BY <1>1
  <2>2. \A i \in 1 .. n : h[i] = h[i - 1] \o seqs[i]
    BY <1>1, <1>5, <2>1
  <2>. QED
    BY <1>4, <1>5, <2>2 DEF Alike
<1>7. \A i \in 0 .. n : g[i] = h[i]
  <2>1. n \in Nat
    BY <1>1
  <2>. QED
    BY <2>1, <1>6, SameRecursion
<1>8. n \in 0 .. n /\ n + 1 \in 1 .. n + 1 /\ (n + 1) - 1 = n
  BY <1>1
<1>9. FlattenSeq(longer) = g[n] \o s
  BY <1>1, <1>5, <1>7, <1>8
<1>. QED
  BY <1>4, <1>8, <1>9 DEF longer

LEMMA FlattenType ==
  ASSUME NEW Elem, NEW seqs \in Seq(Seq(Elem))
  PROVE  FlattenSeq(seqs) \in Seq(Elem)
<1>1. PICK g \in [0 .. Len(seqs) -> Seq(Elem)] : Flattens(g, seqs)
  BY FlattenIs
<1>2. Len(seqs) \in 0 .. Len(seqs)
  <2>. DEFINE T == Seq(Elem)
  <2>1. seqs \in Seq(T)
    OBVIOUS
  <2>. HIDE DEF T
  <2>2. Len(seqs) \in Nat
    BY <2>1, LenProperties
  <2>. QED
    BY <2>2
<1>. QED
  BY <1>1, <1>2 DEF Flattens

LEMMA FlattenOfTwo ==
  ASSUME NEW Elem, NEW a \in Seq(Seq(Elem)), NEW b \in Seq(Seq(Elem))
  PROVE  FlattenSeq(a \o b) = FlattenSeq(a) \o FlattenSeq(b)
<1>. DEFINE Row == Seq(Elem)
            A == FlattenSeq(a)
            S == {s \in Seq(Row) : FlattenSeq(a \o s) = A \o FlattenSeq(s)}
<1>1. a \in Seq(Row) /\ b \in Seq(Row) /\ A \in Row /\ <<>> \in Row
  BY FlattenType, EmptySeq
<1>2. \A s \in Seq(Row), r \in Row : FlattenSeq(s) \in Row /\ FlattenSeq(Append(s, r)) = FlattenSeq(s) \o r
  BY FlattenGrows
<1>3. \A x, y, z \in Row : (x \o y) \o z = x \o (y \o z) /\ x \o <<>> = x
  BY ConcatAssociative, ConcatEmptySeq, SMTT(30)
<1>. HIDE DEF Row, A
<1>4. <<>> \in S
  <2>1. <<>> \in Seq(Row) /\ a \o <<>> = a
    BY <1>1, EmptySeq, ConcatEmptySeq
  <2>. QED
    BY <1>1, <1>3, <2>1, FlattenOfEmpty DEF A
<1>5. ASSUME NEW s \in Seq(Row), NEW r \in Row, s \in S PROVE Append(s, r) \in S
  <2>1. a \o s \in Seq(Row) /\ <<r>> \in Seq(Row) /\ Append(s, r) \in Seq(Row)
    BY <1>1, ConcatProperties, AppendProperties
  <2>2. Append(s, r) = s \o <<r>> /\ Append(a \o s, r) = (a \o s) \o <<r>>
    BY <2>1, AppendIsConcat
  <2>3. (a \o s) \o <<r>> = a \o (s \o <<r>>)
    BY <1>1, <2>1, ConcatAssociative, SMTT(30)
  <2>4. a \o Append(s, r) = Append(a \o s, r)
    BY <2>2, <2>3
  <2>5. FlattenSeq(Append(a \o s, r)) = (A \o FlattenSeq(s)) \o r
    BY <1>2, <1>5, <2>1
  <2>6. (A \o FlattenSeq(s)) \o r = A \o FlattenSeq(Append(s, r))
    <3>1. FlattenSeq(s) \in Row /\ FlattenSeq(Append(s, r)) = FlattenSeq(s) \o r
      BY <1>2
    <3>. DEFINE x == FlattenSeq(s)
                y == FlattenSeq(Append(s, r))
    <3>2. x \in Row /\ y = x \o r
      BY <3>1
    <3>. HIDE DEF x, y
    <3>3. (A \o x) \o r = A \o (x \o r)
      BY <1>1, <1>3, <3>2, SMTT(30)
    <3>4. (A \o x) \o r = A \o y
      BY <3>2, <3>3
    <3>. QED
      BY <3>4 DEF x, y
  <2>. QED
    BY <2>1, <2>4, <2>5, <2>6
<1>6. Seq(Row) \subseteq S
  BY <1>4, <1>5, SequenceInduction
<1>. QED
  BY <1>1, <1>6 DEF A

-----------------------------------------------------------------------------
(* Sequences made element by element. *)

Mapped(t, F) == [i \in DOMAIN t |-> F[t[i]]]
IsMap(F, A, V) == F \in [A -> V]

LEMMA MappedGrows ==
  ASSUME NEW A, NEW V, NEW F, IsMap(F, A, V), NEW t \in Seq(A), NEW e \in A
  PROVE  /\ Mapped(t, F) \in Seq(V) /\ Len(Mapped(t, F)) = Len(t)
         /\ Mapped(Append(t, e), F) = Append(Mapped(t, F), F[e])
<1>1. Len(t) \in Nat /\ DOMAIN t = 1 .. Len(t) /\ (\A i \in 1 .. Len(t) : t[i] \in A) /\ F[e] \in V
  BY LenProperties, ElementOfSeq DEF IsMap
<1>2. /\ Append(t, e) \in Seq(A) /\ Len(Append(t, e)) = Len(t) + 1
      /\ Append(t, e)[Len(t) + 1] = e /\ \A i \in 1 .. Len(t) : Append(t, e)[i] = t[i]
  BY AppendProperties
<1>. DEFINE n == Len(t)
            longer == Append(t, e)
            m == Mapped(t, F)
            M == Mapped(longer, F)
<1>3. DOMAIN longer = 1 .. n + 1
  BY <1>1, <1>2, LenProperties
<1>. HIDE DEF n, longer
<1>4. m \in Seq(V) /\ Len(m) = n /\ \A i \in 1 .. n : m[i] = F[t[i]]
  <2>1. m \in [1 .. n -> V] /\ n \in Nat
    BY <1>1 DEF Mapped, n, IsMap
  <2>2. \A i \in 1 .. n : m[i] = F[t[i]]
    BY <1>1 DEF Mapped, n
  <2>. HIDE DEF m
  <2>. QED
    BY <2>1, <2>2, SeqDef, LenProperties
<1>5. M \in Seq(V) /\ Len(M) = n + 1 /\ \A i \in 1 .. n + 1 : M[i] = F[longer[i]]
  <2>1. \A i \in 1 .. n + 1 : longer[i] \in A
    BY <1>1, <1>2, ElementOfSeq DEF n, longer
  <2>2. M \in [1 .. n + 1 -> V] /\ n + 1 \in Nat
    BY <1>1, <1>3, <2>1 DEF Mapped, n, IsMap
  <2>3. \A i \in 1 .. n + 1 : M[i] = F[longer[i]]
    BY <1>3 DEF Mapped
  <2>. HIDE DEF M
  <2>. QED
    BY <2>2, <2>3, SeqDef, LenProperties
<1>. HIDE DEF m, M
<1>6. /\ Append(m, F[e]) \in Seq(V) /\ Len(Append(m, F[e])) = n + 1
      /\ Append(m, F[e])[n + 1] = F[e] /\ \A i \in 1 .. n : Append(m, F[e])[i] = m[i]
  BY <1>1, <1>4, AppendProperties
<1>7. \A i \in 1 .. n + 1 : M[i] = Append(m, F[e])[i]
  <2>1. n \in Nat /\ longer[n + 1] = e /\ \A i \in 1 .. n : longer[i] = t[i]
    BY <1>1, <1>2 DEF n, longer
  <2>. QED
    BY <1>4, <1>5, <1>6, <2>1
<1>8. M = Append(m, F[e])
  BY <1>5, <1>6, <1>7, SameSequence
<1>. QED
  BY <1>4, <1>8 DEF m, M, longer, n

LEMMA MappedOfEmpty ==
  ASSUME NEW F
  PROVE  Mapped(<<>>, F) = <<>>
BY DEF Mapped

(* The elements of a sequence, each replaced by a short one. *)
Spread(t, F) == FlattenSeq(Mapped(t, F))

LEMMA SpreadGrows ==
  ASSUME NEW A, NEW Elem, NEW F, IsMap(F, A, Seq(Elem)), NEW t \in Seq(A), NEW e \in A
  PROVE  /\ Spread(t, F) \in Seq(Elem) /\ Spread(<<>>, F) = <<>>
         /\ Spread(Append(t, e), F) = Spread(t, F) \o F[e]
<1>. DEFINE V == Seq(Elem)
<1>1. IsMap(F, A, V) /\ F[e] \in Seq(Elem)
  BY DEF IsMap
<1>. HIDE DEF V
<1>2. Mapped(t, F) \in Seq(V) /\ Mapped(Append(t, e), F) = Append(Mapped(t, F), F[e])
  BY <1>1, MappedGrows
<1>3. Mapped(t, F) \in Seq(Seq(Elem))
  BY <1>2 DEF V
<1>4. /\ FlattenSeq(Mapped(t, F)) \in Seq(Elem)
      /\ FlattenSeq(Append(Mapped(t, F), F[e])) = FlattenSeq(Mapped(t, F)) \o F[e]
  BY <1>1, <1>3, FlattenGrows
<1>. QED
  BY <1>2, <1>4, MappedOfEmpty, FlattenOfEmpty DEF Spread

(* What is left when some characters go. *)
KeptOf(new, old, char, chars) == new = IF char \in chars THEN old ELSE Append(old, char)

LEMMA DroppingGrows ==
  ASSUME NEW Elem, NEW chars, NEW t \in Seq(Elem), NEW e \in Elem
  PROVE  /\ Dropping(t, chars) \in Seq(Elem) /\ Dropping(t, chars) \in Seq(Elem \ chars)
         /\ Dropping(<<>>, chars) = <<>>
         /\ KeptOf(Dropping(Append(t, e), chars), Dropping(t, chars), e, chars)
<1>. DEFINE F == [c \in Elem |-> IF c \in chars THEN <<>> ELSE <<c>>]
            Left == Elem \ chars
<1>0. Seq(Left) \subseteq Seq(Elem)
  BY SeqMonotonic
<1>1. IsMap(F, Elem, Seq(Left))
  <2>1. \A c \in Elem : <<>> \in Seq(Left) /\ (c \notin chars => <<c>> \in Seq(Left))
    OBVIOUS
  <2>. QED
    BY <2>1 DEF IsMap
<1>2. ASSUME NEW s \in Seq(Elem) PROVE Dropping(s, chars) = Spread(s, F)
  <2>1. \A i \in DOMAIN s : s[i] \in Elem
    BY ElementOfSeq, LenProperties
  <2>2. \A i \in DOMAIN s : F[s[i]] = IF s[i] \in chars THEN <<>> ELSE <<s[i]>>
    BY <2>1
  <2>. HIDE DEF F
  <2>. QED
    BY <2>2 DEF Dropping, Spread, Mapped
<1>3. F[e] = IF e \in chars THEN <<>> ELSE <<e>>
  OBVIOUS
<1>. HIDE DEF F, Left
<1>4. Append(t, e) \in Seq(Elem) /\ <<>> \in Seq(Elem)
  BY AppendProperties
<1>5. Spread(t, F) \in Seq(Left) /\ Spread(<<>>, F) = <<>> /\ Spread(Append(t, e), F) = Spread(t, F) \o F[e]
  BY <1>1, SpreadGrows
<1>. DEFINE d == Dropping(t, chars)
<1>6. d \in Seq(Elem) /\ d \in Seq(Left) /\ Dropping(<<>>, chars) = <<>> /\ Dropping(Append(t, e), chars) = d \o F[e]
  BY <1>0, <1>2, <1>4, <1>5
<1>. HIDE DEF d
<1>7. d \o <<>> = d /\ d \o <<e>> = Append(d, e)
  BY <1>6, ConcatEmptySeq, AppendIsConcat
<1>. QED
  BY <1>3, <1>6, <1>7 DEF d, Left, KeptOf

LEMMA DroppingKeeps ==
  ASSUME NEW Elem, NEW chars, NEW t \in Seq(Elem), NEW Some, Dropping(t, chars) \in Seq(Some)
  PROVE  t \in Seq(Some \cup chars)
<1>. DEFINE All == Some \cup chars
            S == {s \in Seq(Elem) : Dropping(s, chars) \in Seq(Some) => s \in Seq(All)}
<1>. HIDE DEF S
<1>0. ASSUME NEW s \in Seq(Elem), NEW e \in Elem
      PROVE  /\ Dropping(s, chars) \in Seq(Elem)
             /\ KeptOf(Dropping(Append(s, e), chars), Dropping(s, chars), e, chars)
  BY DroppingGrows
<1>. USE DEF S
<1>1. <<>> \in S
  OBVIOUS
<1>2. ASSUME NEW s \in Seq(Elem), NEW e \in Elem, s \in S PROVE Append(s, e) \in S
  <2>. DEFINE d == Dropping(s, chars)
  <2>1. /\ d \in Seq(Elem) /\ Append(s, e) \in Seq(Elem)
        /\ Dropping(Append(s, e), chars) = IF e \in chars THEN d ELSE Append(d, e)
    BY <1>0, AppendProperties DEF KeptOf
  <2>2. ASSUME Dropping(Append(s, e), chars) \in Seq(Some) PROVE d \in Seq(Some) /\ e \in All
    <3>. HIDE DEF d
    <3>1. CASE e \in chars
      BY <2>1, <2>2, <3>1
    <3>2. CASE e \notin chars
      <4>1. Append(d, e) \in Seq(Some) /\ Len(d) \in Nat /\ DOMAIN d = 1 .. Len(d)
            /\ Len(Append(d, e)) = Len(d) + 1 /\ Append(d, e)[Len(d) + 1] = e
            /\ \A i \in 1 .. Len(d) : Append(d, e)[i] = d[i]
        BY <2>1, <2>2, <3>2, AppendProperties, LenProperties
      <4>2. \A i \in 1 .. Len(d) + 1 : Append(d, e)[i] \in Some
        BY <4>1, ElementOfSeq
      <4>3. e \in Some /\ \A i \in 1 .. Len(d) : d[i] \in Some
        BY <4>1, <4>2
      <4>4. d = [i \in 1 .. Len(d) |-> d[i]]
        BY <2>1, LenProperties, SeqDef
      <4>. QED
        BY <4>1, <4>3, <4>4, SeqDef
    <3>. QED
      BY <3>1, <3>2
  <2>3. ASSUME Dropping(Append(s, e), chars) \in Seq(Some) PROVE Append(s, e) \in Seq(All)
    <3>1. s \in Seq(All) /\ e \in All
      BY <1>2, <2>2, <2>3
    <3>. QED
      BY <3>1, AppendProperties
  <2>. QED
    BY <2>1, <2>3
<1>3. Seq(Elem) \subseteq S
  BY <1>1, <1>2, SequenceInduction
<1>. QED
  BY <1>3

LEMMA ConcatShape ==
  ASSUME NEW s, IsSeq(s), NEW t, IsSeq(t)
  PROVE  /\ IsSeq(s \o t) /\ Len(s \o t) = Len(s) + Len(t)
         /\ \A i \in 1 .. Len(s) + Len(t) : (s \o t)[i] = IF i <= Len(s) THEN s[i] ELSE t[i - Len(s)]
<1>. DEFINE S == Range(s) \cup Range(t)
<1>1. s \in Seq(S) /\ t \in Seq(S)
  BY SeqMonotonic DEF IsSeq
<1>. HIDE DEF S
<1>2. s \o t \in Seq(S) /\ Len(s \o t) = Len(s) + Len(t)
      /\ \A i \in 1 .. Len(s) + Len(t) : (s \o t)[i] = IF i <= Len(s) THEN s[i] ELSE t[i - Len(s)]
  BY <1>1, ConcatProperties
<1>. QED
  BY <1>2, SeqIs

LEMMA FlattenShape ==
  ASSUME NEW seqs, IsSeq(seqs), \A i \in 1 .. Len(seqs) : IsSeq(seqs[i])
  PROVE  IsSeq(FlattenSeq(seqs))
<1>. DEFINE Elem == UNION {Range(seqs[i]) : i \in 1 .. Len(seqs)}
            Row == Seq(Elem)
<1>1. Len(seqs) \in Nat /\ DOMAIN seqs = 1 .. Len(seqs) /\ seqs = [i \in 1 .. Len(seqs) |-> seqs[i]]
  BY LenProperties, SeqDef DEF IsSeq
<1>2. \A i \in 1 .. Len(seqs) : seqs[i] \in Row
  <2>1. ASSUME NEW i \in 1 .. Len(seqs) PROVE seqs[i] \in Row
    <3>1. Range(seqs[i]) \subseteq Elem
      OBVIOUS
    <3>. HIDE DEF Elem
    <3>. QED
      BY <3>1, SeqMonotonic DEF IsSeq
  <2>. QED
    BY <2>1
<1>. HIDE DEF Elem, Row
<1>3. seqs \in Seq(Row)
  BY <1>1, <1>2, SeqDef
<1>4. FlattenSeq(seqs) \in Seq(Elem)
  BY <1>3, FlattenType DEF Row
<1>. QED
  BY <1>4, SeqIs

-----------------------------------------------------------------------------
(* What is found in a text, and what is cut out of it. *)

LEMMA CutType ==
  ASSUME NEW Elem, NEW t \in Seq(Elem), NEW a \in Int, NEW b \in Int, 1 <= a, b <= Len(t)
  PROVE  SubSeq(t, a, b) \in Seq(Elem)
<1>1. \A i \in a .. b : t[i] \in Elem
  <2>1. Len(t) \in Nat /\ \A i \in 1 .. Len(t) : t[i] \in Elem
    BY LenProperties, ElementOfSeq
  <2>2. \A i \in a .. b : i \in 1 .. Len(t)
    BY <2>1
  <2>. QED
    BY <2>1, <2>2
<1>. QED
  BY <1>1, SubSeqProperties

LEMMA WithoutIs ==
  ASSUME NEW Elem, NEW t \in Seq(Elem), NEW c
  PROVE  /\ Without(t, c) \in Seq(Elem)
         /\ Without(Append(t, c), c) = t
         /\ ~EndsIn(t, c) => Without(t, c) = t
<1>1. Len(t) \in Nat
  BY LenProperties
<1>2. Without(t, c) \in Seq(Elem)
  <2>1. SubSeq(t, 1, Len(t) - 1) \in Seq(Elem)
    BY <1>1, CutType
  <2>. QED
    BY <2>1 DEF Without
<1>3. Without(Append(t, c), c) = t
  <2>. DEFINE s == Append(t, c)
  <2>1. IsSeq(t) /\ IsSeq(s) /\ Len(s) = Len(t) + 1 /\ s[Len(t) + 1] = c /\ \A i \in 1 .. Len(t) : s[i] = t[i]
    BY SeqIs, AppendShape
  <2>. HIDE DEF s
  <2>2. EndsIn(s, c)
    BY <1>1, <2>1, SeqShape DEF EndsIn, IsEmpty
  <2>3. Len(s) - 1 = Len(t) /\ Len(t) \in 0 .. Len(s)
    BY <1>1, <2>1
  <2>. DEFINE r == SubSeq(s, 1, Len(t))
  <2>4. IsSeq(r) /\ Len(r) = Len(t) /\ \A i \in 1 .. Len(t) : r[i] = s[i]
    BY <2>1, <2>3, FirstShape
  <2>5. r = t
    <3>. HIDE DEF r
    <3>. QED
      BY <2>1, <2>4, SameSequence DEF IsSeq
  <2>. QED
    BY <2>2, <2>3, <2>5 DEF Without, s
<1>. QED
  BY <1>2, <1>3 DEF Without

(* The first place where a text has a word. *)
FirstPlace(p, t, word, from) ==
  /\ p \in Nat
  /\ p # npos => p \in from .. Len(t) /\ StartsWith(t, p, word)
  /\ \A i \in from .. Len(t) : StartsWith(t, i, word) => p # npos /\ p <= i

LEMMA FindIs ==
  ASSUME NEW t, IsSeq(t), NEW word, NEW from \in Nat, from >= 1
  PROVE  FirstPlace(Find(t, word, from), t, word, from)
<1>. DEFINE S == {i \in from .. Len(t) : StartsWith(t, i, word)}
<1>1. Len(t) \in Nat /\ S \in SUBSET Nat /\ Find(t, word, from) = FirstOrNpos(S)
      /\ S = {i \in from .. Len(t) : StartsWith(t, i, word)}
  BY SeqShape DEF Find
<1>. HIDE DEF S
<1>2. CASE S = {}
  BY <1>1, <1>2 DEF FirstPlace, FirstOrNpos, npos
<1>3. CASE S # {}
  <2>. DEFINE p == Min(S)
  <2>1. p \in S /\ \A y \in S : p <= y
    BY <1>1, <1>3, MinIs
  <2>2. Find(t, word, from) = p
    BY <1>1, <1>3 DEF FirstOrNpos
  <2>. HIDE DEF p
  <2>3. p \in from .. Len(t) /\ StartsWith(t, p, word) /\ p \in Nat /\ p # npos
    BY <1>1, <2>1 DEF npos
  <2>4. \A i \in from .. Len(t) : StartsWith(t, i, word) => p <= i
    BY <1>1, <2>1
  <2>. QED
    BY <2>2, <2>3, <2>4 DEF FirstPlace
<1>. QED
  BY <1>2, <1>3

LEMMA TrimType ==
  ASSUME NEW Elem, NEW t \in Seq(Elem), NEW chars
  PROVE  TrimOf(t, chars) \in Seq(Elem)
<1>. DEFINE kept == {i \in DOMAIN t : t[i] \notin chars}
            n == Len(t)
<1>1. n \in Nat /\ DOMAIN t = 1 .. n
  BY LenProperties
<1>2. kept \in SUBSET (1 .. n) /\ kept \in SUBSET Nat
  BY <1>1
<1>3. CASE kept = {}
  BY <1>3 DEF TrimOf
<1>4. CASE kept # {}
  <2>1. Min(kept) \in kept /\ Max(kept) \in kept
    <3>. HIDE DEF kept, n
    <3>. QED
      BY <1>1, <1>2, <1>4, MinIs, MaxIs
  <2>. DEFINE a == Min(kept)
              b == Max(kept)
  <2>2. a \in Int /\ b \in Int /\ 1 <= a /\ b <= Len(t)
    BY <1>1, <1>2, <2>1
  <2>3. TrimOf(t, chars) = SubSeq(t, a, b)
    BY <1>4 DEF TrimOf
  <2>. HIDE DEF a, b
  <2>. QED
    BY <2>2, <2>3, CutType
<1>. QED
  BY <1>3, <1>4

LEMMA CutShape ==
  ASSUME NEW t, IsSeq(t), NEW a \in Int, NEW b \in Int
  PROVE  IsSeq(SubSeq(t, a, b))
<1>. DEFINE S == Range(t) \cup {t[i] : i \in a .. b}
<1>1. t \in Seq(S)
  <2>1. Range(t) \subseteq S /\ t \in Seq(Range(t))
    BY DEF IsSeq
  <2>. HIDE DEF S
  <2>. QED
    BY <2>1, SeqMonotonic
<1>2. \A i \in a .. b : t[i] \in S
  OBVIOUS
<1>. HIDE DEF S
<1>3. SubSeq(t, a, b) \in Seq(S)
  BY <1>1, <1>2, SubSeqProperties
<1>. QED
  BY <1>3, SeqIs

LEMMA MadeShape ==
  ASSUME NEW n \in Nat, NEW f, DOMAIN f = 1 .. n, f = [i \in 1 .. n |-> f[i]]
  PROVE  IsSeq(f) /\ Len(f) = n
<1>. DEFINE S == {f[i] : i \in 1 .. n}
<1>1. f \in [1 .. n -> S]
  <2>1. \A i \in 1 .. n : f[i] \in S
    OBVIOUS
  <2>. HIDE DEF S
  <2>. QED
    BY <2>1
<1>. HIDE DEF S
<1>2. f \in Seq(S)
  BY <1>1, SeqDef
<1>. QED
  BY <1>2, SeqIs, LenProperties

LEMMA TupleShape ==
  /\ IsSeq(<<>>)
  /\ \A a : IsSeq(<<a>>)
  /\ \A a, b : IsSeq(<<a, b>>)
  /\ \A a, b, c : IsSeq(<<a, b, c>>)
  /\ \A a, b, c, d : IsSeq(<<a, b, c, d>>)
  /\ \A a, b, c, d, e : IsSeq(<<a, b, c, d, e>>)
<1>1. IsSeq(<<>>)
  <2>1. <<>> \in Seq({})
    OBVIOUS
  <2>. QED
    BY <2>1, SeqIs
<1>2. ASSUME NEW a PROVE IsSeq(<<a>>)
  <2>1. <<a>> \in Seq({a})
    OBVIOUS
  <2>. QED
    BY <2>1, SeqIs
<1>3. ASSUME NEW a, NEW b PROVE IsSeq(<<a, b>>)
  <2>1. <<a, b>> \in Seq({a, b})
    OBVIOUS
  <2>. QED
    BY <2>1, SeqIs
<1>4. ASSUME NEW a, NEW b, NEW c PROVE IsSeq(<<a, b, c>>)
  <2>1. <<a, b, c>> \in Seq({a, b, c})
    OBVIOUS
  <2>. QED
    BY <2>1, SeqIs
<1>5. ASSUME NEW a, NEW b, NEW c, NEW d PROVE IsSeq(<<a, b, c, d>>)
  <2>1. <<a, b, c, d>> \in Seq({a, b, c, d})
    OBVIOUS
  <2>. QED
    BY <2>1, SeqIs
<1>6. ASSUME NEW a, NEW b, NEW c, NEW d, NEW e PROVE IsSeq(<<a, b, c, d, e>>)
  <2>1. <<a, b, c, d, e>> \in Seq({a, b, c, d, e})
    OBVIOUS
  <2>. QED
    BY <2>1, SeqIs
<1>. QED
  BY <1>1, <1>2, <1>3, <1>4, <1>5, <1>6

LEMMA PartsOfTwo ==
  ASSUME NEW Elem, NEW s \in Seq(Elem), NEW t \in Seq(Elem)
  PROVE  /\ SubSeq(s \o t, 1, Len(s)) = s
         /\ SubSeq(s \o t, Len(s) + 1, Len(s \o t)) = t
<1>. DEFINE n == Len(s)
            m == Len(t)
            x == s \o t
            a == SubSeq(x, 1, n)
            b == SubSeq(x, n + 1, n + m)
<1>1. /\ n \in Nat /\ m \in Nat /\ x \in Seq(Elem) /\ Len(x) = n + m
      /\ \A i \in 1 .. n + m : x[i] = IF i <= n THEN s[i] ELSE t[i - n]
  BY LenProperties, ConcatProperties
<1>2. \A i \in 1 .. n + m : x[i] \in Elem
  <2>. HIDE DEF x
  <2>. QED
    BY <1>1, ElementOfSeq
<1>. HIDE DEF x, n, m
<1>3. a \in Seq(Elem) /\ Len(a) = n /\ \A i \in 1 .. n : a[i] = s[i]
  <2>1. \A i \in 1 .. n : i \in 1 .. n + m /\ i <= n
    BY <1>1
  <2>2. n \in Int /\ \A i \in 1 .. n : x[i] \in Elem
    BY <1>1, <1>2, <2>1
  <2>3. a \in Seq(Elem) /\ Len(a) = (IF 1 <= n THEN n - 1 + 1 ELSE 0)
        /\ \A i \in 1 .. n - 1 + 1 : a[i] = x[1 + i - 1]
    BY <1>1, <2>2, SubSeqProperties
  <2>. HIDE DEF a
  <2>4. Len(a) = n /\ \A i \in 1 .. n : a[i] = x[i]
    BY <1>1, <2>3
  <2>. QED
    BY <1>1, <2>1, <2>3, <2>4
<1>4. b \in Seq(Elem) /\ Len(b) = m /\ \A i \in 1 .. m : b[i] = t[i]
  <2>1. \A i \in n + 1 .. n + m : i \in 1 .. n + m
    BY <1>1
  <2>2. n + 1 \in Int /\ n + m \in Int /\ \A i \in n + 1 .. n + m : x[i] \in Elem
    BY <1>1, <1>2, <2>1
  <2>3. b \in Seq(Elem) /\ Len(b) = (IF n + 1 <= n + m THEN (n + m) - (n + 1) + 1 ELSE 0)
        /\ \A i \in 1 .. (n + m) - (n + 1) + 1 : b[i] = x[(n + 1) + i - 1]
    BY <1>1, <2>2, SubSeqProperties
  <2>. HIDE DEF b
  <2>4. Len(b) = m /\ (n + m) - (n + 1) + 1 = m
    BY <1>1, <2>3
  <2>5. \A i \in 1 .. m : (n + 1) + i - 1 = n + i /\ n + i \in 1 .. n + m /\ ~(n + i <= n) /\ (n + i) - n = i
    BY <1>1
  <2>6. \A i \in 1 .. m : b[i] = t[i]
    BY <1>1, <2>3, <2>4, <2>5
  <2>. QED
    BY <2>3, <2>4, <2>6
<1>. HIDE DEF a, b
<1>5. a = s /\ b = t
  BY <1>3, <1>4, SameSequence DEF n, m
<1>. QED
  BY <1>1, <1>5 DEF a, b, n, m, x

(* A word of one character. *)
LEMMA StartsWithChar ==
  ASSUME NEW Elem, NEW t \in Seq(Elem), NEW i \in 1 .. Len(t), NEW c
  PROVE  StartsWith(t, i, <<c>>) <=> t[i] = c
<1>1. Len(t) \in Nat /\ Len(<<c>>) = 1 /\ <<c>>[1] = c
  BY LenProperties
<1>2. i \in Int /\ 1 <= i /\ i <= Len(t) /\ i + 1 - 1 = i /\ ~(i > Len(t))
  BY <1>1
<1>3. Slice(t, i, 1) = SubSeq(t, i, i)
  BY <1>2 DEF Slice
<1>. DEFINE q == SubSeq(t, i, i)
<1>4. q \in Seq(Elem) /\ Len(q) = (IF i <= i THEN i - i + 1 ELSE 0) /\ \A k \in 1 .. i - i + 1 : q[k] = t[i + k - 1]
  <2>1. \A k \in i .. i : t[k] \in Elem
    BY <1>2, ElementOfSeq
  <2>. QED
    BY <1>2, <2>1, SubSeqProperties
<1>. HIDE DEF q
<1>5. Len(q) = 1 /\ q[1] = t[i]
  BY <1>2, <1>4
<1>6. t[i] = c => q = <<c>>
  <2>1. <<c>> \in Seq({c}) /\ \A k \in 1 .. 1 : k = 1
    OBVIOUS
  <2>. QED
    BY <1>1, <1>4, <1>5, <2>1, SameSequence
<1>. QED
  BY <1>1, <1>3, <1>5, <1>6 DEF StartsWith, q

LEMMA FindChar ==
  ASSUME NEW Elem, NEW t \in Seq(Elem), NEW c, NEW k \in 1 .. Len(t), t[k] = c, \A i \in 1 .. k - 1 : t[i] # c
  PROVE  Find(t, <<c>>, 1) = k
<1>. DEFINE p == Find(t, <<c>>, 1)
            n == Len(t)
<1>1. n \in Nat /\ FirstPlace(p, t, <<c>>, 1)
  BY SeqIs, FindIs, LenProperties
<1>. HIDE DEF p
<1>2. \A i \in 1 .. n : StartsWith(t, i, <<c>>) <=> t[i] = c
  BY StartsWithChar
<1>3. p \in Nat /\ p # npos /\ p <= k
  BY <1>1, <1>2 DEF FirstPlace
<1>4. p \in 1 .. n /\ t[p] = c
  BY <1>1, <1>2, <1>3 DEF FirstPlace
<1>5. ~(p < k)
  <2>1. p < k => p \in 1 .. k - 1
    BY <1>1, <1>4
  <2>. QED
    BY <1>4, <2>1
<1>. QED
  BY <1>1, <1>3, <1>5 DEF p

(* A text without separator is one piece. *)
LEMMA SplitOfPlain ==
  ASSUME NEW Elem, NEW sep, sep \notin Elem, NEW t \in Seq(Elem)
  PROVE  SplitAt(t, sep) = <<t>>
<1>. DEFINE S == {s \in Seq(Elem) : SplitAt(s, sep) = <<s>>}
<1>1. <<>> \in S
  BY SplitOfEmpty
<1>2. ASSUME NEW s \in Seq(Elem), NEW c \in Elem, s \in S PROVE Append(s, c) \in S
  <2>1. SplitAt(Append(s, c), sep) = WithChar(<<s>>, c, sep) /\ Append(s, c) \in Seq(Elem)
    BY <1>2, SplitGrows, AppendProperties
  <2>2. c # sep
    OBVIOUS
  <2>3. WithChar(<<s>>, c, sep) = <<Append(s, c)>>
    <3>1. WithChar(<<s>>, c, sep) = [<<s>> EXCEPT ![Len(<<s>>)] = Append(@, c)]
      BY <2>2 DEF WithChar
    <3>2. Len(<<s>>) = 1
      OBVIOUS
    <3>. QED
      BY <3>1, <3>2
  <2>. QED
    BY <2>1, <2>3
<1>3. Seq(Elem) \subseteq S
  BY <1>1, <1>2, SequenceInduction
<1>. QED
  BY <1>3

(* Pieces with a separator between them, and the pieces of that. *)
Cell(i, row, sep) == IF i = 1 THEN row ELSE <<sep>> \o row
Cells(rows, sep) == [i \in DOMAIN rows |-> Cell(i, rows[i], sep)]
Joined(rows, sep) == FlattenSeq(Cells(rows, sep))

LEMMA CellsGrow ==
  ASSUME NEW Elem, NEW sep, sep \in Elem, NEW rows \in Seq(Seq(Elem)), NEW r \in Seq(Elem)
  PROVE  /\ Cells(rows, sep) \in Seq(Seq(Elem))
         /\ Cells(Append(rows, r), sep) = Append(Cells(rows, sep), Cell(Len(rows) + 1, r, sep))
         /\ Cell(Len(rows) + 1, r, sep) \in Seq(Elem)
<1>. DEFINE Row == Seq(Elem)
            n == Len(rows)
            longer == Append(rows, r)
            c == Cells(rows, sep)
            d == Cells(longer, sep)
            last == Cell(n + 1, r, sep)
<1>1. \A x \in Row : \A i : Cell(i, x, sep) \in Row
  <2>1. <<sep>> \in Seq(Elem)
    OBVIOUS
  <2>2. \A x \in Seq(Elem) : <<sep>> \o x \in Seq(Elem)
    BY <2>1, ConcatProperties
  <2>. QED
    BY <2>2 DEF Cell
<1>. HIDE DEF Row
<1>2. rows \in Seq(Row) /\ r \in Row
  BY DEF Row
<1>3. /\ n \in Nat /\ DOMAIN rows = 1 .. n /\ (\A i \in 1 .. n : rows[i] \in Row)
      /\ longer \in Seq(Row) /\ Len(longer) = n + 1 /\ longer[n + 1] = r /\ \A i \in 1 .. n : longer[i] = rows[i]
  BY <1>2, LenProperties, ElementOfSeq, AppendProperties
<1>. HIDE DEF longer, n
<1>4. DOMAIN longer = 1 .. n + 1 /\ \A i \in 1 .. n + 1 : longer[i] \in Row
  BY <1>3, LenProperties, ElementOfSeq
<1>5. c \in Seq(Row) /\ Len(c) = n /\ \A i \in 1 .. n : c[i] = Cell(i, rows[i], sep)
  <2>1. c \in [1 .. n -> Row] /\ \A i \in 1 .. n : c[i] = Cell(i, rows[i], sep)
    BY <1>1, <1>3 DEF Cells
  <2>. HIDE DEF c
  <2>. QED
    BY <1>3, <2>1, SeqDef, LenProperties
<1>6. d \in Seq(Row) /\ Len(d) = n + 1 /\ \A i \in 1 .. n + 1 : d[i] = Cell(i, longer[i], sep)
  <2>1. d \in [1 .. n + 1 -> Row] /\ \A i \in 1 .. n + 1 : d[i] = Cell(i, longer[i], sep)
    BY <1>1, <1>4 DEF Cells
  <2>. DEFINE m == n + 1
  <2>2. m \in Nat /\ d \in [1 .. m -> Row] /\ \A i \in 1 .. m : d[i] = Cell(i, longer[i], sep)
    BY <1>3, <2>1
  <2>. HIDE DEF d, m
  <2>3. d \in Seq(Row) /\ Len(d) = m
    BY <2>2, SeqDef, LenProperties
  <2>. QED
    BY <2>2, <2>3 DEF m
<1>7. last \in Row
  BY <1>1, <1>2
<1>. HIDE DEF c, d, last
<1>8. /\ Append(c, last) \in Seq(Row) /\ Len(Append(c, last)) = n + 1
      /\ Append(c, last)[n + 1] = last /\ \A i \in 1 .. n : Append(c, last)[i] = c[i]
  BY <1>5, <1>7, AppendProperties
<1>9. \A i \in 1 .. n + 1 : d[i] = Append(c, last)[i]
  BY <1>3, <1>5, <1>6, <1>8 DEF last
<1>10. d = Append(c, last)
  BY <1>6, <1>8, <1>9, SameSequence
<1>. QED
  BY <1>5, <1>7, <1>10 DEF c, d, last, longer, n, Row

LEMMA JoinedOfEmpty ==
  ASSUME NEW sep
  PROVE  Joined(<<>>, sep) = <<>>
BY FlattenOfEmpty DEF Joined, Cells

MoreJoined(longer, rows, r, sep) ==
  /\ rows = <<>> => Joined(longer, sep) = r
  /\ rows # <<>> => Joined(longer, sep) = Append(Joined(rows, sep), sep) \o r

LEMMA JoinedGrows ==
  ASSUME NEW Elem, NEW sep, sep \in Elem, NEW rows \in Seq(Seq(Elem)), NEW r \in Seq(Elem)
  PROVE  Joined(rows, sep) \in Seq(Elem) /\ MoreJoined(Append(rows, r), rows, r, sep)
<1>. DEFINE c == Cells(rows, sep)
            last == Cell(Len(rows) + 1, r, sep)
            j == FlattenSeq(c)
<1>1. c \in Seq(Seq(Elem)) /\ last \in Seq(Elem) /\ Cells(Append(rows, r), sep) = Append(c, last)
  BY CellsGrow
<1>2. Len(rows) \in Nat /\ (rows # <<>> => Len(rows) # 0) /\ (rows = <<>> => Len(rows) = 0)
  BY LenProperties, EmptySeq
<1>3. (rows = <<>> => last = r) /\ (rows # <<>> => last = <<sep>> \o r)
  <2>1. (rows = <<>> => Len(rows) + 1 = 1) /\ (rows # <<>> => Len(rows) + 1 # 1)
    BY <1>2
  <2>. QED
    BY <2>1 DEF Cell
<1>4. rows = <<>> => j = <<>>
  BY JoinedOfEmpty DEF Joined
<1>. HIDE DEF c, last
<1>5. j \in Seq(Elem) /\ Joined(Append(rows, r), sep) = j \o last
  <2>1. FlattenSeq(c) \in Seq(Elem) /\ FlattenSeq(Append(c, last)) = FlattenSeq(c) \o last
    BY <1>1, FlattenGrows
  <2>. QED
    BY <1>1, <2>1 DEF Joined
<1>. HIDE DEF j
<1>6. <<>> \o r = r /\ Append(j, sep) = j \o <<sep>> /\ j \o (<<sep>> \o r) = (j \o <<sep>>) \o r
  <2>1. <<sep>> \in Seq(Elem)
    OBVIOUS
  <2>. QED
    BY <1>5, <2>1, ConcatEmptySeq, AppendIsConcat, ConcatAssociative
<1>7. Joined(rows, sep) = j
  BY DEF Joined, j, c
<1>. QED
  BY <1>3, <1>4, <1>5, <1>6, <1>7 DEF MoreJoined

LEMMA SplitOfJoined ==
  ASSUME NEW Elem, NEW sep, sep \notin Elem, NEW rows \in Seq(Seq(Elem)), rows # <<>>
  PROVE  SplitAt(Joined(rows, sep), sep) = rows
<1>. DEFINE Wide == Elem \cup {sep}
            Row == Seq(Elem)
            S == {s \in Seq(Row) : s # <<>> => SplitAt(Joined(s, sep), sep) = s}
<1>1. sep \in Wide /\ Seq(Elem) \subseteq Seq(Wide) /\ Seq(Row) \subseteq Seq(Seq(Wide))
  <2>1. Seq(Elem) \subseteq Seq(Wide)
    BY SeqMonotonic
  <2>. DEFINE WideRow == Seq(Wide)
  <2>2. Row \subseteq WideRow
    BY <2>1
  <2>. HIDE DEF Row, WideRow
  <2>3. Seq(Row) \subseteq Seq(WideRow)
    BY <2>2, SeqMonotonic
  <2>. QED
    BY <2>1, <2>3 DEF WideRow
<1>. HIDE DEF Wide
<1>2. <<>> \in S
  OBVIOUS
<1>3. ASSUME NEW s \in Seq(Row), NEW r \in Row, s \in S PROVE Append(s, r) \in S
  <2>1. Append(s, r) \in Seq(Row)
    <3>. HIDE DEF Row
    <3>. QED
      BY AppendProperties
  <2>2. SplitAt(r, sep) = <<r>>
    BY SplitOfPlain
  <2>3. s \in Seq(Seq(Wide)) /\ r \in Seq(Wide)
    BY <1>1
  <2>. DEFINE j == Joined(s, sep)
              k == Joined(Append(s, r), sep)
  <2>4. j \in Seq(Wide) /\ (s = <<>> => k = r) /\ (s # <<>> => k = Append(j, sep) \o r)
    <3>1. sep \in Wide /\ s \in Seq(Seq(Wide)) /\ r \in Seq(Wide)
      BY <1>1, <2>3
    <3>. HIDE DEF S, Row
    <3>2. Joined(s, sep) \in Seq(Wide) /\ MoreJoined(Append(s, r), s, r, sep)
      BY <3>1, JoinedGrows
    <3>. QED
      BY <3>2 DEF MoreJoined
  <2>5. CASE s = <<>>
    <3>1. Append(<<>>, r) = <<r>>
      OBVIOUS
    <3>. QED
      BY <2>1, <2>2, <2>4, <2>5, <3>1
  <2>6. CASE s # <<>>
    <3>1. SplitAt(j, sep) = s
      BY <1>3, <2>6
    <3>. HIDE DEF j
    <3>2. SplitAt(Append(j, sep) \o r, sep) = SplitAt(j, sep) \o SplitAt(r, sep)
      <4>1. sep \in Wide /\ j \in Seq(Wide) /\ r \in Seq(Wide)
        BY <1>1, <2>3, <2>4
      <4>. HIDE DEF S, Row
      <4>. QED
        BY <4>1, SplitOfTwo
    <3>3. s \o <<r>> = Append(s, r)
      <4>. HIDE DEF Row
      <4>. QED
        BY AppendIsConcat
    <3>. HIDE DEF k
    <3>4. SplitAt(k, sep) = Append(s, r)
      BY <2>2, <2>4, <2>6, <3>1, <3>2, <3>3
    <3>. QED
      BY <2>1, <3>4 DEF k
  <2>. QED
    BY <2>5, <2>6
<1>4. Seq(Row) \subseteq S
  <2>. HIDE DEF Row, S
  <2>. QED
    BY <1>2, <1>3, SequenceInduction
<1>. QED
  BY <1>4

-----------------------------------------------------------------------------
(* Rows of sequences, and sequences put together, without a common type. *)

LEMMA SameShape ==
  ASSUME NEW s, IsSeq(s), NEW t, IsSeq(t), Len(s) = Len(t), \A i \in 1 .. Len(s) : s[i] = t[i]
  PROVE  s = t
BY SameSequence DEF IsSeq

LEMMA ConcatOfNone ==
  ASSUME NEW s, IsSeq(s)
  PROVE  s \o <<>> = s /\ <<>> \o s = s
BY ConcatEmptySeq DEF IsSeq

LEMMA ConcatOfThree ==
  ASSUME NEW a, IsSeq(a), NEW b, IsSeq(b), NEW c, IsSeq(c)
  PROVE  (a \o b) \o c = a \o (b \o c)
<1>. DEFINE S == Range(a) \cup Range(b) \cup Range(c)
<1>1. a \in Seq(S) /\ b \in Seq(S) /\ c \in Seq(S)
  BY SeqMonotonic DEF IsSeq
<1>. HIDE DEF S
<1>. QED
  BY <1>1, ConcatAssociative

IsRows(rows) == IsSeq(rows) /\ \A i \in DOMAIN rows : IsSeq(rows[i])

LEMMA RowsType ==
  ASSUME NEW a, IsRows(a), NEW b, IsRows(b)
  PROVE  \E Elem : a \in Seq(Seq(Elem)) /\ b \in Seq(Seq(Elem))
<1>. DEFINE Elem == UNION ({Range(a[i]) : i \in DOMAIN a} \cup {Range(b[i]) : i \in DOMAIN b})
            Row == Seq(Elem)
<1>1. ASSUME NEW r, IsRows(r), \A i \in DOMAIN r : Range(r[i]) \subseteq Elem PROVE r \in Seq(Row)
  <2>. HIDE DEF Elem
  <2>1. \A i \in DOMAIN r : r[i] \in Row
    BY <1>1, SeqMonotonic DEF IsRows, IsSeq
  <2>. HIDE DEF Row
  <2>2. r = [i \in 1 .. Len(r) |-> r[i]] /\ DOMAIN r = 1 .. Len(r) /\ Len(r) \in Nat
    BY <1>1, LenProperties, SeqDef DEF IsRows, IsSeq
  <2>. QED
    BY <2>1, <2>2, SeqDef
<1>2. \A i \in DOMAIN a : Range(a[i]) \subseteq Elem
  OBVIOUS
<1>3. \A i \in DOMAIN b : Range(b[i]) \subseteq Elem
  OBVIOUS
<1>4. a \in Seq(Row) /\ b \in Seq(Row)
  BY <1>1, <1>2, <1>3
<1>. QED
  BY <1>4

LEMMA FlattenOfRows ==
  ASSUME NEW a, IsRows(a), NEW b, IsRows(b)
  PROVE  /\ FlattenSeq(a \o b) = FlattenSeq(a) \o FlattenSeq(b)
         /\ IsSeq(FlattenSeq(a))
<1>1. PICK Elem : a \in Seq(Seq(Elem)) /\ b \in Seq(Seq(Elem))
  BY RowsType
<1>2. FlattenSeq(a \o b) = FlattenSeq(a) \o FlattenSeq(b)
  BY <1>1, FlattenOfTwo
<1>3. FlattenSeq(a) \in Seq(Elem)
  BY <1>1, FlattenType
<1>. QED
  BY <1>2, <1>3, SeqIs

LEMMA FlattenOfOne ==
  ASSUME NEW s, IsSeq(s)
  PROVE  FlattenSeq(<<s>>) = s
<1>. DEFINE Elem == Range(s)
<1>1. s \in Seq(Elem)
  BY DEF IsSeq
<1>. HIDE DEF Elem
<1>2. <<>> \in Seq(Seq(Elem)) /\ Append(<<>>, s) = <<s>>
  BY EmptySeq
<1>3. FlattenSeq(Append(<<>>, s)) = FlattenSeq(<<>>) \o s
  BY <1>1, <1>2, FlattenGrows
<1>4. <<>> \o s = s
  BY ConcatOfNone
<1>. QED
  BY <1>2, <1>3, <1>4, FlattenOfEmpty

(* The last element of a sequence and what is before it. *)
LEMMA FrontShape ==
  ASSUME NEW s, IsSeq(s), s # <<>>
  PROVE  IsSeq(Front(s)) /\ s = Append(Front(s), Last(s))
<1>1. Len(s) \in Nat /\ Len(s) > 0
  BY SeqShape
<1>2. Len(s) - 1 \in 0 .. Len(s) /\ Len(s) - 1 + 1 = Len(s)
  BY <1>1
<1>. DEFINE n == Len(s) - 1
            f == SubSeq(s, 1, n)
<1>3. IsSeq(f) /\ Len(f) = n /\ \A i \in 1 .. n : f[i] = s[i]
  BY <1>2, FirstShape
<1>. HIDE DEF f
<1>. DEFINE q == Append(f, Last(s))
<1>4. IsSeq(q) /\ Len(q) = n + 1 /\ (\A i \in 1 .. n : q[i] = f[i]) /\ q[n + 1] = Last(s)
  BY <1>3, AppendShape
<1>. HIDE DEF q
<1>5. \A i \in 1 .. Len(s) : i \in 1 .. n \/ i = n + 1
  BY <1>1
<1>6. Last(s) = s[n + 1]
  BY <1>2 DEF Last
<1>7. Len(q) = Len(s)
  BY <1>2, <1>4
<1>8. \A i \in 1 .. Len(s) : q[i] = s[i]
  BY <1>3, <1>4, <1>5, <1>6
<1>9. q = s
  BY <1>4, <1>7, <1>8, SameShape
<1>. QED
  BY <1>3, <1>9 DEF q, f, Front

LEMMA FlattenOfSingles ==
  ASSUME NEW s, IsSeq(s)
  PROVE  FlattenSeq([i \in DOMAIN s |-> <<s[i]>>]) = s
<1>. DEFINE A == Range(s)
            F == [e \in A |-> <<e>>]
            S == {t \in Seq(A) : Spread(t, F) = t}
<1>1. s \in Seq(A)
  BY DEF IsSeq
<1>2. [i \in DOMAIN s |-> <<s[i]>>] = Mapped(s, F)
  <2>1. \A i \in DOMAIN s : F[s[i]] = <<s[i]>>
    BY DEF Range
  <2>. HIDE DEF F
  <2>. QED
    BY <2>1 DEF Mapped
<1>3. IsMap(F, A, Seq(A))
  BY DEF IsMap
<1>4. \A e \in A : F[e] = <<e>>
  OBVIOUS
<1>. HIDE DEF A, F
<1>5. <<>> \in Seq(A)
  BY EmptySeq
<1>6. <<>> \in S
  BY <1>5, MappedOfEmpty, FlattenOfEmpty DEF Spread
<1>7. ASSUME NEW t \in Seq(A), NEW e \in A, t \in S PROVE Append(t, e) \in S
  <2>1. Spread(Append(t, e), F) = Spread(t, F) \o F[e]
    BY <1>3, SpreadGrows
  <2>2. Append(t, e) \in Seq(A) /\ Append(t, e) = t \o <<e>>
    BY AppendProperties, AppendIsConcat
  <2>. QED
    BY <1>4, <1>7, <2>1, <2>2
<1>8. Seq(A) \subseteq S
  BY <1>6, <1>7, SequenceInduction
<1>. QED
  BY <1>1, <1>2, <1>8 DEF Spread

LEMMA AppendIsConcatShape ==
  ASSUME NEW s, IsSeq(s), NEW e
  PROVE  Append(s, e) = s \o <<e>>
<1>. DEFINE S == Range(s) \cup {e}
<1>1. s \in Seq(S) /\ e \in S
  BY SeqMonotonic DEF IsSeq
<1>. HIDE DEF S
<1>. QED
  BY <1>1, AppendIsConcat

LEMMA AppendBehind ==
  ASSUME NEW a, IsSeq(a), NEW b, IsSeq(b), NEW e
  PROVE  a \o Append(b, e) = Append(a \o b, e) /\ IsSeq(a \o b) /\ IsSeq(Append(b, e))
<1>1. IsSeq(<<e>>) /\ IsSeq(a \o b) /\ IsSeq(Append(b, e))
  BY TupleShape, ConcatShape, AppendShape
<1>2. Append(b, e) = b \o <<e>> /\ Append(a \o b, e) = (a \o b) \o <<e>>
  BY <1>1, AppendIsConcatShape
<1>3. (a \o b) \o <<e>> = a \o (b \o <<e>>)
  BY <1>1, ConcatOfThree
<1>. QED
  BY <1>1, <1>2, <1>3

(* What Append leaves. *)
LEMMA FrontOfAppend ==
  ASSUME NEW b, IsSeq(b), NEW e
  PROVE  Front(Append(b, e)) = b /\ Last(Append(b, e)) = e /\ Append(b, e) # <<>>
<1>. DEFINE q == Append(b, e)
            n == Len(b)
            f == SubSeq(q, 1, n)
<1>1. n \in Nat
  BY SeqShape
<1>2. IsSeq(q) /\ Len(q) = n + 1 /\ (\A i \in 1 .. n : q[i] = b[i]) /\ q[n + 1] = e
  BY AppendShape
<1>. HIDE DEF q
<1>3. n \in 0 .. Len(q) /\ Len(q) - 1 = n /\ Len(q) > 0
  BY <1>1, <1>2
<1>4. IsSeq(f) /\ Len(f) = n /\ \A i \in 1 .. n : f[i] = q[i]
  BY <1>2, <1>3, FirstShape
<1>5. q # <<>>
  BY <1>2, <1>3, SeqShape
<1>6. Front(q) = f /\ Last(q) = e
  BY <1>2, <1>3 DEF Front, Last
<1>. HIDE DEF f, n
<1>7. f = b
  BY <1>2, <1>4, SameShape DEF n
<1>. QED
  BY <1>5, <1>6, <1>7 DEF q

-----------------------------------------------------------------------------
(***************************************************************************)
(* Words in texts: where they stand, and where Find finds them.            *)
(***************************************************************************)

(* The word w stands in t at position p. *)
At(t, p, w) == p + Len(w) - 1 <= Len(t) /\ \A k \in 1 .. Len(w) : t[p + k - 1] = w[k]

LEMMA CutIs ==
  ASSUME NEW t, IsSeq(t), NEW a \in Nat, a >= 1, NEW b \in Int, b <= Len(t), b >= a - 1
  PROVE  /\ IsSeq(SubSeq(t, a, b)) /\ Len(SubSeq(t, a, b)) = b - a + 1
         /\ \A k \in 1 .. b - a + 1 : SubSeq(t, a, b)[k] = t[a + k - 1]
<1>. DEFINE S == Range(t)
<1>1. t \in Seq(S) /\ Len(t) \in Nat
  BY SeqShape DEF IsSeq
<1>2. \A i \in a .. b : t[i] \in S
  BY <1>1, ElementOfSeq
<1>. DEFINE q == SubSeq(t, a, b)
<1>3. q \in Seq(S) /\ Len(q) = (IF a <= b THEN b - a + 1 ELSE 0) /\ \A k \in 1 .. b - a + 1 : q[k] = t[a + k - 1]
  BY <1>1, <1>2, SubSeqProperties
<1>4. IsSeq(q)
  BY <1>3, SeqIs
<1>. HIDE DEF q
<1>5. Len(q) = b - a + 1
  BY <1>3
<1>. QED
  BY <1>3, <1>4, <1>5 DEF q

LEMMA AtCut ==
  ASSUME NEW t, IsSeq(t), NEW w, IsSeq(w), NEW p \in Nat, p >= 1, At(t, p, w)
  PROVE  SubSeq(t, p, p + Len(w) - 1) = w
<1>. DEFINE q == SubSeq(t, p, p + Len(w) - 1)
<1>1. Len(t) \in Nat /\ Len(w) \in Nat /\ p + Len(w) - 1 <= Len(t)
  BY SeqShape DEF At
<1>2. p + Len(w) - 1 \in Int /\ p + Len(w) - 1 >= p - 1 /\ (p + Len(w) - 1) - p + 1 = Len(w)
  BY <1>1
<1>3. IsSeq(q) /\ Len(q) = Len(w) /\ \A k \in 1 .. Len(w) : q[k] = t[p + k - 1]
  BY <1>1, <1>2, CutIs
<1>. HIDE DEF q
<1>4. \A k \in 1 .. Len(q) : q[k] = w[k]
  BY <1>3 DEF At
<1>5. q = w
  BY <1>3, <1>4, SameShape
<1>. QED
  BY <1>5 DEF q

LEMMA AtIsStart ==
  ASSUME NEW t, IsSeq(t), NEW w, IsSeq(w), NEW p \in Nat, p >= 1, p <= Len(t) + 1
  PROVE  StartsWith(t, p, w) <=> At(t, p, w)
<1>. DEFINE n == Len(w)
            end == IF p + n - 1 > Len(t) THEN Len(t) ELSE p + n - 1
            q == SubSeq(t, p, end)
<1>1. Len(t) \in Nat /\ n \in Nat
  BY SeqShape
<1>2. StartsWith(t, p, w) <=> q = w
  BY DEF StartsWith, Slice
<1>3. end \in Int /\ end <= Len(t) /\ end >= p - 1
  BY <1>1
<1>4. IsSeq(q) /\ Len(q) = end - p + 1 /\ \A k \in 1 .. end - p + 1 : q[k] = t[p + k - 1]
  BY <1>1, <1>3, CutIs
<1>5. ASSUME q = w PROVE At(t, p, w)
  <2>1. n = end - p + 1
    BY <1>4, <1>5
  <2>2. p + n - 1 <= Len(t)
    BY <1>1, <1>3, <2>1
  <2>. HIDE DEF q
  <2>3. \A k \in 1 .. n : t[p + k - 1] = w[k]
    BY <1>4, <1>5, <2>1
  <2>. QED
    BY <2>2, <2>3 DEF At
<1>6. ASSUME At(t, p, w) PROVE q = w
  <2>1. end = p + Len(w) - 1
    BY <1>1, <1>6 DEF At
  <2>. QED
    BY <1>6, <2>1, AtCut
<1>. QED
  BY <1>2, <1>5, <1>6

LEMMA AtOfTwo ==
  ASSUME NEW t, IsSeq(t), NEW x, IsSeq(x), NEW y, IsSeq(y), NEW p \in Nat, p >= 1
  PROVE  At(t, p, x \o y) <=> At(t, p, x) /\ At(t, p + Len(x), y)
<1>. DEFINE z == x \o y
<1>1. Len(t) \in Nat /\ Len(x) \in Nat /\ Len(y) \in Nat
  BY SeqShape
<1>2. Len(z) = Len(x) + Len(y) /\ \A i \in 1 .. Len(x) + Len(y) : z[i] = IF i <= Len(x) THEN x[i] ELSE y[i - Len(x)]
  BY ConcatShape
<1>. HIDE DEF z
<1>3. ASSUME At(t, p, z) PROVE At(t, p, x) /\ At(t, p + Len(x), y)
  <2>1. p + Len(x) + Len(y) - 1 <= Len(t)
    BY <1>1, <1>2, <1>3 DEF At
  <2>2. ASSUME NEW k \in 1 .. Len(x) PROVE t[p + k - 1] = x[k]
    <3>1. k \in 1 .. Len(z) /\ k <= Len(x)
      BY <1>1, <1>2
    <3>. QED
      BY <1>2, <1>3, <3>1 DEF At
  <2>3. ASSUME NEW k \in 1 .. Len(y) PROVE t[p + Len(x) + k - 1] = y[k]
    <3>1. Len(x) + k \in 1 .. Len(z) /\ ~(Len(x) + k <= Len(x)) /\ Len(x) + k - Len(x) = k
          /\ p + (Len(x) + k) - 1 = p + Len(x) + k - 1
      BY <1>1, <1>2
    <3>2. t[p + (Len(x) + k) - 1] = z[Len(x) + k] /\ z[Len(x) + k] = y[Len(x) + k - Len(x)]
      BY <1>2, <1>3, <3>1 DEF At
    <3>. QED
      BY <3>1, <3>2
  <2>4. p + Len(x) - 1 <= Len(t)
    BY <1>1, <2>1
  <2>. QED
    BY <2>1, <2>2, <2>3, <2>4 DEF At
<1>4. ASSUME At(t, p, x), At(t, p + Len(x), y) PROVE At(t, p, z)
  <2>1. p + Len(z) - 1 <= Len(t)
    BY <1>1, <1>2, <1>4 DEF At
  <2>2. ASSUME NEW k \in 1 .. Len(z) PROVE t[p + k - 1] = z[k]
    <3>1. k \in 1 .. Len(x) + Len(y)
      BY <1>2
    <3>2. CASE k <= Len(x)
      <4>1. k \in 1 .. Len(x)
        BY <1>1, <3>2
      <4>. QED
        BY <1>2, <1>4, <3>1, <3>2, <4>1 DEF At
    <3>3. CASE ~(k <= Len(x))
      <4>1. k - Len(x) \in 1 .. Len(y) /\ p + Len(x) + (k - Len(x)) - 1 = p + k - 1
        BY <1>1, <3>1, <3>3
      <4>2. t[p + Len(x) + (k - Len(x)) - 1] = y[k - Len(x)]
        BY <1>4, <4>1 DEF At
      <4>. QED
        BY <1>2, <3>1, <3>3, <4>1, <4>2
    <3>. QED
      BY <3>2, <3>3
  <2>. QED
    BY <2>1, <2>2 DEF At
<1>. QED
  BY <1>3, <1>4 DEF z

LEMMA AtOfLonger ==
  ASSUME NEW u, IsSeq(u), NEW v, IsSeq(v), NEW w, IsSeq(w), NEW p \in Nat, p >= 1
  PROVE  /\ At(u, p, w) => At(u \o v, p, w)
         /\ At(v, p, w) => At(u \o v, Len(u) + p, w)
<1>. DEFINE z == u \o v
<1>1. Len(u) \in Nat /\ Len(v) \in Nat /\ Len(w) \in Nat
  BY SeqShape
<1>2. Len(z) = Len(u) + Len(v) /\ \A i \in 1 .. Len(u) + Len(v) : z[i] = IF i <= Len(u) THEN u[i] ELSE v[i - Len(u)]
  BY ConcatShape
<1>. HIDE DEF z
<1>3. ASSUME At(u, p, w) PROVE At(z, p, w)
  <2>1. p + Len(w) - 1 <= Len(u) /\ p + Len(w) - 1 <= Len(z)
    BY <1>1, <1>2, <1>3 DEF At
  <2>2. ASSUME NEW k \in 1 .. Len(w) PROVE z[p + k - 1] = w[k]
    <3>1. p + k - 1 \in 1 .. Len(u) + Len(v) /\ p + k - 1 <= Len(u)
      BY <1>1, <2>1
    <3>. QED
      BY <1>2, <1>3, <3>1 DEF At
  <2>. QED
    BY <2>1, <2>2 DEF At
<1>4. ASSUME At(v, p, w) PROVE At(z, Len(u) + p, w)
  <2>1. p + Len(w) - 1 <= Len(v) /\ Len(u) + p + Len(w) - 1 <= Len(z)
    BY <1>1, <1>2, <1>4 DEF At
  <2>2. ASSUME NEW k \in 1 .. Len(w) PROVE z[Len(u) + p + k - 1] = w[k]
    <3>1. /\ Len(u) + p + k - 1 \in 1 .. Len(u) + Len(v) /\ ~(Len(u) + p + k - 1 <= Len(u))
          /\ Len(u) + p + k - 1 - Len(u) = p + k - 1
      BY <1>1, <2>1
    <3>2. v[p + k - 1] = w[k]
      BY <1>4 DEF At
    <3>. QED
      BY <1>2, <3>1, <3>2
  <2>. QED
    BY <2>1, <2>2 DEF At
<1>. QED
  BY <1>3, <1>4 DEF z

LEMMA FindAt ==
  ASSUME NEW t, IsSeq(t), NEW w, IsSeq(w), Len(w) > 0, NEW from \in Nat, from >= 1
  PROVE  /\ \A p \in Nat : from <= p /\ At(t, p, w) /\ (\A i \in from .. p - 1 : ~At(t, i, w)) => Find(t, w, from) = p
         /\ (\A i \in from .. Len(t) : ~At(t, i, w)) => Find(t, w, from) = npos
<1>. DEFINE f == Find(t, w, from)
<1>1. Len(t) \in Nat /\ Len(w) \in Nat
  BY SeqShape
<1>2. FirstPlace(f, t, w, from)
  BY FindIs
<1>. HIDE DEF f
<1>3. \A i \in from .. Len(t) : StartsWith(t, i, w) <=> At(t, i, w)
  BY <1>1, AtIsStart
<1>4. f \in Nat /\ (f # npos => f \in from .. Len(t) /\ At(t, f, w))
      /\ \A i \in from .. Len(t) : At(t, i, w) => f # npos /\ f <= i
  BY <1>2, <1>3 DEF FirstPlace
<1>5. ASSUME NEW p \in Nat, from <= p, At(t, p, w), \A i \in from .. p - 1 : ~At(t, i, w) PROVE f = p
  <2>1. p \in from .. Len(t)
    BY <1>1, <1>5 DEF At
  <2>2. f # npos /\ f <= p /\ f \in from .. Len(t) /\ At(t, f, w)
    BY <1>4, <1>5, <2>1
  <2>3. ~(f \in from .. p - 1)
    BY <1>5, <2>2
  <2>. QED
    BY <1>1, <1>4, <2>2, <2>3
<1>6. ASSUME \A i \in from .. Len(t) : ~At(t, i, w) PROVE f = npos
  BY <1>4, <1>6
<1>. QED
  BY <1>5, <1>6 DEF f

(* A word that Find does not find stands nowhere. *)
LEMMA WordNowhere ==
  ASSUME NEW t, IsSeq(t), NEW w, IsSeq(w), ~HasWord(t, w)
  PROVE  \A i \in 1 .. Len(t) : ~At(t, i, w)
<1>1. Len(t) \in Nat
  BY SeqShape
<1>2. FirstPlace(npos, t, w, 1)
  <2>. DEFINE one == 1
  <2>1. one \in Nat /\ one >= 1
    OBVIOUS
  <2>2. Find(t, w, one) = npos
    BY DEF HasWord
  <2>. HIDE DEF one
  <2>3. FirstPlace(npos, t, w, one)
    BY <2>1, <2>2, FindIs
  <2>. QED
    BY <2>3 DEF one
<1>3. \A i \in 1 .. Len(t) : ~StartsWith(t, i, w)
  BY <1>2 DEF FirstPlace
<1>4. ASSUME NEW i \in 1 .. Len(t) PROVE ~At(t, i, w)
  <2>1. i \in Nat /\ i >= 1 /\ i <= Len(t) + 1
    BY <1>1
  <2>2. ~StartsWith(t, i, w)
    BY <1>3
  <2>. QED
    BY <1>1, <2>1, <2>2, AtIsStart
<1>. QED
  BY <1>4

LEMMA CharAt ==
  ASSUME NEW t, IsSeq(t), NEW i \in 1 .. Len(t), NEW c
  PROVE  (StartsWith(t, i, <<c>>) <=> t[i] = c) /\ (At(t, i, <<c>>) <=> t[i] = c)
<1>1. t \in Seq(Range(t))
  BY DEF IsSeq
<1>2. StartsWith(t, i, <<c>>) <=> t[i] = c
  BY <1>1, StartsWithChar
<1>3. Len(t) \in Nat /\ i \in Nat /\ i >= 1 /\ i <= Len(t) + 1 /\ IsSeq(<<c>>)
  BY SeqShape, TupleShape
<1>. QED
  BY <1>2, <1>3, AtIsStart

(* What stands in t, character by character. *)
LEMMA AtChars ==
  ASSUME NEW t, IsSeq(t), NEW w, IsSeq(w), NEW p \in Nat, p >= 1, At(t, p, w)
  PROVE  /\ Len(t) \in Nat /\ Len(w) \in Nat /\ p + Len(w) - 1 <= Len(t)
         /\ \A i \in p .. p + Len(w) - 1 : i \in 1 .. Len(t) /\ i - p + 1 \in 1 .. Len(w) /\ t[i] = w[i - p + 1]
<1>1. Len(t) \in Nat /\ Len(w) \in Nat /\ p + Len(w) - 1 <= Len(t)
  BY SeqShape DEF At
<1>2. ASSUME NEW i \in p .. p + Len(w) - 1 PROVE i \in 1 .. Len(t) /\ i - p + 1 \in 1 .. Len(w) /\ t[i] = w[i - p + 1]
  <2>1. i \in 1 .. Len(t) /\ i - p + 1 \in 1 .. Len(w) /\ p + (i - p + 1) - 1 = i
    BY <1>1
  <2>2. t[p + (i - p + 1) - 1] = w[i - p + 1]
    BY <2>1 DEF At
  <2>. QED
    BY <2>1, <2>2
<1>. QED
  BY <1>1, <1>2

LEMMA AtWithin ==
  ASSUME NEW t, IsSeq(t), NEW f, IsSeq(f), NEW w, IsSeq(w), NEW p \in Nat, p >= 1, NEW q \in Nat, q >= 1,
         At(t, p, f), At(f, q, w)
  PROVE  At(t, p + q - 1, w)
<1>1. Len(t) \in Nat /\ Len(f) \in Nat /\ Len(w) \in Nat /\ p + Len(f) - 1 <= Len(t) /\ q + Len(w) - 1 <= Len(f)
  BY SeqShape DEF At
<1>2. ASSUME NEW k \in 1 .. Len(w) PROVE t[p + q - 1 + k - 1] = w[k]
  <2>1. q + k - 1 \in 1 .. Len(f) /\ p + (q + k - 1) - 1 = p + q - 1 + k - 1
    BY <1>1
  <2>2. t[p + (q + k - 1) - 1] = f[q + k - 1]
    BY <2>1 DEF At
  <2>3. f[q + k - 1] = w[k]
    BY DEF At
  <2>. QED
    BY <2>1, <2>2, <2>3
<1>3. p + q - 1 + Len(w) - 1 <= Len(t)
  BY <1>1
<1>. QED
  BY <1>2, <1>3 DEF At

=============================================================================
