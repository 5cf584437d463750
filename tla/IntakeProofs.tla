---------------------------- MODULE IntakeProofs ----------------------------
(***************************************************************************)
(* Proofs of what a request means: the name that an upload is stored       *)
(* under, the fields of a form, and the URL that is stored, for every text *)
(* that a client sends.                                                    *)
(***************************************************************************)
EXTENDS IntakeProps, SequenceLemmas

-----------------------------------------------------------------------------
(* Texts whose last character stays. *)

(* The first character of t that is none of these. *)
FirstKept(t, chars, a) == a \in 1 .. Len(t) /\ t[a] \notin chars /\ \A i \in 1 .. a - 1 : t[i] \in chars

LEMMA TrimToEnd ==
  ASSUME NEW Elem, NEW t \in Seq(Elem), NEW chars, Len(t) > 0, t[Len(t)] \notin chars
  PROVE  \E a \in 1 .. Len(t) : /\ FirstKept(t, chars, a)
                                /\ TrimOf(t, chars) = SubSeq(t, a, Len(t))
                                /\ LeftTrimOf(t, chars) = SubSeq(t, a, Len(t))
<1>. DEFINE n == Len(t)
            kept == {i \in DOMAIN t : t[i] \notin chars}
<1>1. n \in Nat /\ DOMAIN t = 1 .. n
  BY LenProperties
<1>2. n \in kept /\ kept \in SUBSET (1 .. n) /\ kept \in SUBSET Nat /\ kept # {}
  BY <1>1
<1>3. Min(kept) \in kept /\ (\A y \in kept : Min(kept) <= y)
  BY <1>2, MinIs
<1>4. Max(kept) = n
  <2>1. \A y \in kept : y <= n
    BY <1>1
  <2>. HIDE DEF kept, n
  <2>. QED
    BY <1>1, <1>2, <2>1, MaxIs
<1>5. FirstKept(t, chars, Min(kept))
  <2>. DEFINE m == Min(kept)
  <2>1. m \in 1 .. n /\ t[m] \notin chars
    BY <1>1, <1>3
  <2>2. \A i \in 1 .. m - 1 : i \in DOMAIN t /\ i \notin kept
    <3>. HIDE DEF m
    <3>1. m \in Nat /\ m <= n /\ \A y \in kept : m <= y
      BY <1>1, <1>3, <2>1 DEF m
    <3>. HIDE DEF kept
    <3>2. \A i \in 1 .. m - 1 : i \in 1 .. n /\ ~(m <= i)
      BY <1>1, <3>1
    <3>. QED
      BY <1>1, <3>1, <3>2
  <2>. QED
    BY <2>1, <2>2 DEF FirstKept
<1>6. TrimOf(t, chars) = SubSeq(t, Min(kept), n) /\ LeftTrimOf(t, chars) = SubSeq(t, Min(kept), n)
  BY <1>2, <1>4 DEF TrimOf, LeftTrimOf, From
<1>. QED
  BY <1>1, <1>3, <1>5, <1>6

LEMMA RestIs ==
  ASSUME NEW Elem, NEW t \in Seq(Elem), NEW a \in 1 .. Len(t)
  PROVE  /\ SubSeq(t, a, Len(t)) \in Seq(Elem) /\ Len(SubSeq(t, a, Len(t))) = Len(t) - a + 1
         /\ \A i \in 1 .. Len(t) - a + 1 : SubSeq(t, a, Len(t))[i] = t[a + i - 1]
<1>1. Len(t) \in Nat /\ a \in Nat /\ a >= 1 /\ a <= Len(t) /\ \A i \in 1 .. Len(t) : t[i] \in Elem
  BY LenProperties, ElementOfSeq
<1>2. \A i \in a .. Len(t) : t[i] \in Elem
  BY <1>1
<1>3. /\ SubSeq(t, a, Len(t)) \in Seq(Elem)
      /\ Len(SubSeq(t, a, Len(t))) = IF a <= Len(t) THEN Len(t) - a + 1 ELSE 0
      /\ \A i \in 1 .. Len(t) - a + 1 : SubSeq(t, a, Len(t))[i] = t[a + i - 1]
  BY <1>1, <1>2, SubSeqProperties
<1>. QED
  BY <1>1, <1>3

LEMMA LastDotIs ==
  ASSUME NEW Elem, NEW t \in Seq(Elem), NEW d \in 1 .. Len(t), t[d] = ".",
         \A i \in 1 .. Len(t) : i > d => t[i] # "."
  PROVE  FindLastOf(t, {"."}) = d
<1>. DEFINE n == Len(t)
            dots == {i \in DOMAIN t : t[i] \in {"."}}
<1>1. n \in Nat /\ DOMAIN t = 1 .. n
  BY LenProperties
<1>2. dots \in SUBSET (1 .. n) /\ d \in dots /\ \A y \in dots : y <= d
  BY <1>1
<1>3. Max(dots) = d
  <2>. HIDE DEF dots, n
  <2>. QED
    BY <1>1, <1>2, MaxIs
<1>. QED
  BY <1>2, <1>3 DEF FindLastOf, LastOrNpos

-----------------------------------------------------------------------------
(* Names that end in a dot and an extension of one character or word. *)

EndsDotted(t, c) == Len(t) >= 2 /\ t[Len(t) - 1] = "." /\ t[Len(t)] = c
Plain(c) == c \notin {".", " ", "_"} \cup Blank \cup Control \cup Dangerous

LEMMA DottedIs ==
  ASSUME NEW Elem, NEW t \in Seq(Elem), NEW c, EndsDotted(t, c), c # "."
  PROVE  /\ FindLastOf(t, {"."}) = Len(t) - 1
         /\ WithoutExtension(t) = SubSeq(t, 1, Len(t) - 2)
         /\ Extension(t) = ToLower(<<c>>)
<1>. DEFINE n == Len(t)
<1>1. n \in Nat /\ n >= 2 /\ n - 1 \in 1 .. n /\ n \in 1 .. n /\ t[n - 1] = "." /\ t[n] = c
  BY LenProperties DEF EndsDotted
<1>2. FindLastOf(t, {"."}) = n - 1
  <2>1. \A i \in 1 .. n : i > n - 1 => t[i] # "."
    BY <1>1
  <2>. QED
    BY <1>1, <2>1, LastDotIs
<1>3. n - 1 # npos /\ OrEnd(n - 1, t) - 1 = n - 2
  BY <1>1 DEF npos, OrEnd
<1>4. From(t, (n - 1) + 1) = <<c>>
  <2>. DEFINE e == SubSeq(t, n, Len(t))
  <2>1. e \in Seq(Elem) /\ Len(e) = 1 /\ e[1] = c
    BY <1>1, RestIs
  <2>2. From(t, (n - 1) + 1) = e
    BY <1>1 DEF From
  <2>3. <<c>> \in Seq({c}) /\ Len(<<c>>) = 1 /\ <<c>>[1] = c
    OBVIOUS
  <2>. HIDE DEF e
  <2>4. \A i \in 1 .. Len(e) : e[i] = <<c>>[i]
    BY <2>1
  <2>. QED
    BY <2>1, <2>2, <2>3, <2>4, SameSequence
<1>. QED
  BY <1>2, <1>3, <1>4 DEF WithoutExtension, Extension

LEMMA AllowedIs ==
  ASSUME NEW Elem, NEW t \in Seq(Elem), Extension(t) \in AllowedExtension
  PROVE  \E c : EndsDotted(t, c) /\ Plain(c)
<1>. DEFINE n == Len(t)
            d == FindLastOf(t, {"."})
            e == From(t, d + 1)
            dots == {i \in DOMAIN t : t[i] \in {"."}}
<1>1. n \in Nat /\ DOMAIN t = 1 .. n
  BY LenProperties
<1>2. d # npos /\ ToLower(e) \in AllowedExtension
  BY DEF Extension, AllowedExtension
<1>3. dots # {} /\ d = Max(dots) /\ dots \in SUBSET (1 .. n)
  BY <1>1, <1>2 DEF FindLastOf, LastOrNpos
<1>4. d \in dots
  <2>. HIDE DEF dots, d, n
  <2>. QED
    BY <1>1, <1>3, MaxIs
<1>5. d \in 1 .. n /\ t[d] = "."
  BY <1>3, <1>4
<1>. HIDE DEF d, dots
<1>6. /\ DOMAIN ToLower(e) = DOMAIN e
      /\ \A i \in DOMAIN e : ToLower(e)[i] = IF e[i] \in DOMAIN LowerCase THEN LowerCase[e[i]] ELSE e[i]
  BY DEF ToLower, Change
<1>7. DOMAIN e = {1} /\ ToLower(e)[1] \in {"txt", "png", "c", "odt"}
  BY <1>2, <1>6 DEF AllowedExtension
<1>8. d + 1 \in 1 .. n
  <2>1. d # n
    <3>1. ASSUME d = n PROVE DOMAIN e = {}
      BY <1>1, <3>1 DEF From
    <3>. HIDE DEF e
    <3>. QED
      BY <1>7, <3>1
  <2>. HIDE DEF n, e
  <2>. QED
    BY <1>1, <1>5, <2>1
<1>9. Len(e) = n - d /\ DOMAIN e = 1 .. Len(e) /\ e[1] = t[d + 1]
  <2>1. e \in Seq(Elem) /\ Len(e) = n - (d + 1) + 1 /\ \A i \in 1 .. n - (d + 1) + 1 : e[i] = t[(d + 1) + i - 1]
    BY <1>8, RestIs DEF From
  <2>. HIDE DEF e
  <2>2. Len(e) = n - d /\ 1 \in 1 .. n - (d + 1) + 1 /\ (d + 1) + 1 - 1 = d + 1
    BY <1>1, <1>5, <1>8, <2>1
  <2>. QED
    BY <2>1, <2>2, LenProperties
<1>. HIDE DEF e
<1>10. n - d = 1
  <2>1. n - d \in Nat /\ 1 .. n - d = {1}
    BY <1>1, <1>5, <1>7, <1>9
  <2>2. n - d > 1 => 2 \in 1 .. n - d
    BY <2>1
  <2>. QED
    BY <2>1, <2>2
<1>11. EndsDotted(t, e[1])
  BY <1>1, <1>5, <1>9, <1>10 DEF EndsDotted
<1>12. e[1] \in {"txt", "png", "c", "odt", "TXT"}
  <2>1. CASE e[1] \in DOMAIN LowerCase
    BY <1>6, <1>7, <2>1 DEF LowerCase
  <2>2. CASE e[1] \notin DOMAIN LowerCase
    BY <1>6, <1>7, <2>2
  <2>. QED
    BY <2>1, <2>2
<1>13. Plain(e[1])
  BY <1>12 DEF Plain, Blank, Control, Dangerous, LF, CR
<1>. QED
  BY <1>11, <1>13

(* The name with the end apart. *)
LEMMA DottedParts ==
  ASSUME NEW Elem, NEW t \in Seq(Elem), NEW c, EndsDotted(t, c)
  PROVE  LET q == SubSeq(t, 1, Len(t) - 2)
         IN /\ q \in Seq(Elem) /\ Len(q) = Len(t) - 2 /\ \A i \in 1 .. Len(t) - 2 : q[i] = t[i]
            /\ "." \in Elem /\ c \in Elem
            /\ t = Append(Append(q, "."), c)
<1>. DEFINE n == Len(t)
            q == SubSeq(t, 1, n - 2)
            whole == Append(Append(q, "."), c)
<1>1. n \in Nat /\ n >= 2 /\ n - 2 \in 0 .. n /\ t[n - 1] = "." /\ t[n] = c /\ \A i \in 1 .. n : t[i] \in Elem
  BY LenProperties, ElementOfSeq DEF EndsDotted
<1>2. q \in Seq(Elem) /\ Len(q) = n - 2 /\ \A i \in 1 .. n - 2 : q[i] = t[i]
  <2>1. IsSeq(t)
    BY SeqIs
  <2>2. Len(q) = n - 2 /\ \A i \in 1 .. n - 2 : q[i] = t[i]
    BY <1>1, <2>1, FirstShape
  <2>3. q \in Seq(Elem)
    <3>1. n - 2 \in Int /\ 1 \in Int /\ \A i \in 1 .. n - 2 : t[i] \in Elem
      BY <1>1
    <3>. QED
      BY <3>1, SubSeqProperties
  <2>. QED
    BY <2>2, <2>3
<1>3. "." \in Elem /\ c \in Elem
  <2>1. n - 1 \in 1 .. n /\ n \in 1 .. n
    BY <1>1
  <2>. QED
    BY <1>1, <2>1
<1>. HIDE DEF q
<1>4. /\ Append(q, ".") \in Seq(Elem) /\ Len(Append(q, ".")) = n - 1
      /\ Append(q, ".")[n - 1] = "." /\ \A i \in 1 .. n - 2 : Append(q, ".")[i] = q[i]
  <2>1. (n - 2) + 1 = n - 1
    BY <1>1
  <2>. HIDE DEF n
  <2>. QED
    BY <1>2, <1>3, <2>1, AppendProperties
<1>5. whole \in Seq(Elem) /\ Len(whole) = n /\ whole[n] = c /\ \A i \in 1 .. n - 1 : whole[i] = Append(q, ".")[i]
  <2>1. (n - 1) + 1 = n
    BY <1>1
  <2>. HIDE DEF n
  <2>. QED
    BY <1>3, <1>4, <2>1, AppendProperties
<1>. HIDE DEF whole
<1>6. t = whole
  <2>1. \A i \in 1 .. n : t[i] = whole[i]
    <3>1. ASSUME NEW i \in 1 .. n PROVE t[i] = whole[i]
      <4>. HIDE DEF n
      <4>1. CASE i = n
        BY <1>1, <1>5, <4>1
      <4>2. CASE i = n - 1
        <5>1. n - 1 \in 1 .. n - 1
          BY <1>1
        <5>. QED
          BY <1>1, <1>4, <1>5, <4>2, <5>1
      <4>3. CASE i # n /\ i # n - 1
        <5>1. i \in 1 .. n - 1 /\ i \in 1 .. n - 2
          BY <1>1, <4>3
        <5>. QED
          BY <1>2, <1>4, <1>5, <5>1
      <4>. QED
        BY <4>1, <4>2, <4>3
    <3>. QED
      BY <3>1
  <2>. QED
    BY <1>5, <2>1, SameSequence
<1>. QED
  BY <1>2, <1>3, <1>6 DEF whole, q

(* Characters that the path of a file may have. *)
Safe(Elem) == ((Elem \cup {"_"}) \ Dangerous) \ Control

(* What comes before the extension is dots and blanks. *)
OnlyDots(t) == WithoutExtension(t) \in Seq({"."} \cup Blank \cup Control)

(* A name that may be cut: it keeps its extension and does not begin with a dot. *)
Named(t, c, Elem) ==
  /\ t \in Seq(Safe(Elem))
  /\ t = <<c>> \/ (EndsDotted(t, c) /\ Len(t) >= 3 /\ t[1] # ".")

LEMMA CleanedIs ==
  ASSUME NEW Elem, NEW t \in Seq(Elem), NEW c, EndsDotted(t, c), Plain(c)
  PROVE  Named(Cleaned(t), c, Elem) /\ (Cleaned(t) = <<c>> => OnlyDots(t))
<1>. DEFINE n == Len(t)
            replaced == [i \in DOMAIN t |-> IF t[i] \in Dangerous THEN "_" ELSE t[i]]
            E2 == (Elem \cup {"_"}) \ Dangerous
            q == SubSeq(replaced, 1, Len(replaced) - 2)
            P == Dropping(q, Control)
            printable == Dropping(replaced, Control)
            m == Len(printable)
<1>1. n \in Nat /\ n >= 2 /\ DOMAIN t = 1 .. n /\ t[n - 1] = "." /\ t[n] = c /\ \A i \in 1 .. n : t[i] \in Elem
  BY LenProperties, ElementOfSeq DEF EndsDotted
<1>2. c \notin {".", " ", "_"} /\ c \notin Blank /\ c \notin Control /\ c \notin Dangerous
      /\ "." \notin Blank /\ "." \notin Control /\ "." \notin Dangerous /\ "_" \notin Dangerous
  BY DEF Plain, Blank, Control, Dangerous, LF, CR
<1>3. /\ replaced \in Seq(E2) /\ Len(replaced) = n /\ EndsDotted(replaced, c)
      /\ \A i \in 1 .. n : replaced[i] = IF t[i] \in Dangerous THEN "_" ELSE t[i]
  <2>1. \A i \in 1 .. n : replaced[i] = IF t[i] \in Dangerous THEN "_" ELSE t[i]
    BY <1>1
  <2>2. replaced \in [1 .. n -> E2]
    BY <1>1, <1>2
  <2>. HIDE DEF replaced, E2
  <2>3. replaced \in Seq(E2) /\ Len(replaced) = n
    BY <1>1, <2>2, SeqDef, LenProperties
  <2>4. n - 1 \in 1 .. n /\ n \in 1 .. n
    BY <1>1
  <2>5. replaced[n - 1] = "." /\ replaced[n] = c
    BY <1>1, <1>2, <2>1, <2>4
  <2>. QED
    BY <1>1, <2>1, <2>3, <2>5 DEF EndsDotted
<1>. HIDE DEF replaced, E2
<1>4. /\ q \in Seq(E2) /\ Len(q) = n - 2 /\ (\A i \in 1 .. n - 2 : q[i] = replaced[i])
      /\ "." \in E2 /\ c \in E2 /\ replaced = Append(Append(q, "."), c)
  BY <1>3, DottedParts
<1>. HIDE DEF q, P
<1>5. /\ P \in Seq(E2) /\ P \in Seq(E2 \ Control)
      /\ printable = Append(Append(P, "."), c)
  <2>1. Append(q, ".") \in Seq(E2)
    BY <1>4, AppendProperties
  <2>2. P \in Seq(E2) /\ P \in Seq(E2 \ Control) /\ KeptOf(Dropping(Append(q, "."), Control), P, ".", Control)
    BY <1>4, DroppingGrows DEF P
  <2>3. KeptOf(Dropping(Append(Append(q, "."), c), Control), Dropping(Append(q, "."), Control), c, Control)
    BY <1>4, <2>1, DroppingGrows
  <2>4. Dropping(Append(q, "."), Control) = Append(P, ".")
    BY <1>2, <2>2 DEF KeptOf
  <2>5. Dropping(Append(Append(q, "."), c), Control) = Append(Append(P, "."), c)
    BY <1>2, <2>3, <2>4 DEF KeptOf
  <2>. QED
    BY <1>4, <2>2, <2>5
<1>. HIDE DEF P, printable
<1>. DEFINE E3 == E2 \ Control
<1>6. /\ printable \in Seq(E3) /\ m = Len(P) + 2 /\ Len(P) \in Nat
      /\ printable[m - 1] = "." /\ printable[m] = c /\ \A i \in 1 .. m - 2 : printable[i] = P[i]
  <2>. DEFINE s == Append(P, ".")
              k == Len(P)
  <2>1. "." \in E3 /\ c \in E3 /\ P \in Seq(E3)
    BY <1>2, <1>4, <1>5
  <2>. HIDE DEF E3
  <2>2. k \in Nat /\ s \in Seq(E3) /\ Len(s) = k + 1 /\ s[k + 1] = "." /\ \A i \in 1 .. k : s[i] = P[i]
    BY <2>1, AppendProperties, LenProperties
  <2>. HIDE DEF s
  <2>3. /\ Append(s, c) \in Seq(E3) /\ Len(Append(s, c)) = (k + 1) + 1 /\ Append(s, c)[(k + 1) + 1] = c
        /\ \A i \in 1 .. k + 1 : Append(s, c)[i] = s[i]
    BY <2>1, <2>2, AppendProperties
  <2>. HIDE DEF k
  <2>4. m = k + 2 /\ (k + 1) + 1 = m /\ m - 1 = k + 1 /\ m - 2 = k /\ k + 1 \in 1 .. k + 1
        /\ \A i \in 1 .. k : i \in 1 .. k + 1
    BY <1>5, <2>2, <2>3 DEF s
  <2>5. printable = Append(s, c)
    BY <1>5 DEF s
  <2>. HIDE DEF m
  <2>. QED
    BY <2>2, <2>3, <2>4, <2>5 DEF k
<1>. HIDE DEF E3, m
<1>7. m \in Nat /\ m >= 2 /\ m - 1 \in 1 .. m /\ m \in 1 .. m
  BY <1>6
<1>8. PICK a \in 1 .. m : FirstKept(printable, Blank, a) /\ TrimOf(printable, Blank) = SubSeq(printable, a, m)
  <2>1. Len(printable) > 0 /\ printable[Len(printable)] \notin Blank
    <3>0. printable[m] = c /\ c \notin Blank
      BY <1>2, <1>6
    <3>1. m > 0 /\ printable[m] \notin Blank
      BY <1>7, <3>0
    <3>. QED
      BY <3>1 DEF m
  <2>. QED
    BY <1>6, <2>1, TrimToEnd DEF m
<1>9. a <= m - 1 /\ \A i \in 1 .. a - 1 : printable[i] \in Blank
  <2>1. a = m => m - 1 \in 1 .. a - 1
    BY <1>7
  <2>. QED
    <3>1. \A i \in 1 .. a - 1 : printable[i] \in Blank
      BY <1>8 DEF FirstKept
    <3>2. m - 1 \in 1 .. a - 1 => printable[m - 1] \in Blank
      BY <3>1
    <3>3. a # m
      BY <1>2, <1>6, <2>1, <3>2
    <3>. QED
      BY <1>7, <3>1, <3>3
<1>. DEFINE T == SubSeq(printable, a, m)
            l == m - a + 1
<1>10. T \in Seq(E3) /\ Len(T) = l /\ \A i \in 1 .. l : T[i] = printable[a + i - 1]
  <2>1. a \in 1 .. Len(printable)
    BY DEF m
  <2>. QED
    BY <1>6, <2>1, RestIs DEF m
<1>. HIDE DEF T
<1>11. l \in Nat /\ l >= 2 /\ T[l - 1] = "." /\ T[l] = c
  <2>1. l \in Nat /\ l >= 2 /\ l - 1 \in 1 .. l /\ l \in 1 .. l /\ a + (l - 1) - 1 = m - 1 /\ a + l - 1 = m
    BY <1>7, <1>9
  <2>. HIDE DEF l
  <2>. QED
    BY <1>6, <1>10, <2>1
<1>. DEFINE dots == {".", " "}
<1>12. PICK b \in 1 .. l : FirstKept(T, dots, b) /\ LeftTrimOf(T, dots) = SubSeq(T, b, l)
  <2>1. Len(T) = l /\ Len(T) > 0 /\ T[Len(T)] \notin dots
    <3>0. T[l] = c /\ c \notin dots
      BY <1>2, <1>11
    <3>. HIDE DEF l, dots
    <3>1. Len(T) = l /\ l > 0 /\ T[l] = c /\ c \notin dots
      <4>1. Len(T) = l
        BY <1>10
      <4>2. l > 0
        BY <1>11
      <4>. QED
        BY <3>0, <4>1, <4>2
    <3>. QED
      BY <3>1
  <2>. HIDE DEF dots, l
  <2>. QED
    BY <1>10, <2>1, TrimToEnd
<1>. HIDE DEF l
<1>13. T[b] \notin dots /\ \A i \in 1 .. b - 1 : T[i] \in dots
  BY <1>12 DEF FirstKept
<1>. DEFINE R == SubSeq(T, b, l)
<1>14. Cleaned(t) = R
  BY <1>8, <1>12 DEF Cleaned, printable, replaced, T
<1>15. R \in Seq(E3) /\ Len(R) = l - b + 1 /\ \A i \in 1 .. l - b + 1 : R[i] = T[b + i - 1]
  BY <1>10, RestIs, SMTT(30)
<1>. HIDE DEF R
<1>16. E3 = Safe(Elem)
  BY DEF E3, E2, Safe
<1>17. CASE b < l
  <2>1. b # l - 1
    BY <1>11, <1>13
  <2>2. Len(R) >= 3 /\ 1 \in 1 .. l - b + 1 /\ b + 1 - 1 = b
        /\ (l - b + 1) - 1 \in 1 .. l - b + 1 /\ l - b + 1 \in 1 .. l - b + 1
        /\ b + ((l - b + 1) - 1) - 1 = l - 1 /\ b + (l - b + 1) - 1 = l
    BY <1>11, <1>15, <1>17, <2>1
  <2>3. R[1] = T[b] /\ R[Len(R) - 1] = "." /\ R[Len(R)] = c
    BY <1>11, <1>15, <2>2
  <2>4. EndsDotted(R, c) /\ R[1] # "."
    <3>1. Len(R) \in Nat /\ Len(R) >= 2 /\ R[1] # "."
      <4>1. Len(R) \in Nat /\ Len(R) >= 2
        BY <1>15, <2>2, LenProperties
      <4>. QED
        BY <1>13, <2>3, <4>1
    <3>. QED
      BY <2>3, <3>1 DEF EndsDotted
  <2>5. R # <<c>>
    <3>1. Len(<<c>>) = 1 /\ Len(R) # 1
      BY <1>15, <2>2, LenProperties
    <3>. QED
      BY <3>1
  <2>. QED
    BY <1>14, <1>15, <1>16, <2>2, <2>4, <2>5 DEF Named
<1>18. CASE b = l
  <2>1. Len(R) = 1 /\ R[1] = c
    <3>1. l - b + 1 = 1 /\ b + 1 - 1 = l
      BY <1>11, <1>18
    <3>. QED
      BY <1>11, <1>15, <3>1
  <2>2. R = <<c>>
    <3>1. <<c>> \in Seq({c}) /\ Len(<<c>>) = 1 /\ <<c>>[1] = c
      OBVIOUS
    <3>2. \A i \in 1 .. Len(R) : R[i] = <<c>>[i]
      BY <2>1
    <3>. QED
      BY <1>15, <2>1, <3>1, <3>2, SameSequence
  <2>3. \A i \in 1 .. m - 2 : P[i] \in {"."} \cup Blank
    <3>1. ASSUME NEW i \in 1 .. m - 2 PROVE P[i] \in {"."} \cup Blank
      <4>1. CASE i < a
        <5>1. i \in 1 .. a - 1
          BY <1>7, <4>1
        <5>. QED
          BY <1>6, <1>9, <5>1
      <4>2. CASE i >= a
        <5>1. i - a + 1 \in 1 .. l /\ i - a + 1 \in 1 .. b - 1 /\ a + (i - a + 1) - 1 = i
          BY <1>7, <1>18, <4>2 DEF l
        <5>2. printable[i] \in dots
          BY <1>10, <1>13, <5>1
        <5>3. dots \subseteq {"."} \cup Blank
          BY DEF Blank
        <5>. QED
          BY <1>6, <5>2, <5>3
      <4>. QED
        BY <1>7, <4>1, <4>2
    <3>. QED
      BY <3>1
  <2>. DEFINE Some == {"."} \cup Blank
  <2>4. P \in Seq(Some)
    <3>1. P = [i \in 1 .. m - 2 |-> P[i]] /\ m - 2 \in Nat
      <4>1. m - 2 = Len(P)
        BY <1>6
      <4>2. DOMAIN P = 1 .. Len(P) /\ P \in [1 .. Len(P) -> E2]
        BY <1>5, LenProperties
      <4>. QED
        BY <1>6, <4>1, <4>2
    <3>. QED
      BY <2>3, <3>1, SeqDef
  <2>5. q \in Seq(Some \cup Control)
    <3>. HIDE DEF Some
    <3>. QED
      BY <1>4, <2>4, DroppingKeeps DEF P
  <2>6. \A i \in 1 .. n - 2 : q[i] \in Some \cup Control
    BY <1>4, <2>5, ElementOfSeq
  <2>7. \A i \in 1 .. n - 2 : t[i] \in Some \cup Control
    <3>1. "_" \notin Some \cup Control
      BY DEF Blank, Control, LF, CR
    <3>2. \A i \in 1 .. n - 2 : i \in 1 .. n
      BY <1>1
    <3>. HIDE DEF Some
    <3>. QED
      BY <1>3, <1>4, <2>6, <3>1, <3>2
  <2>8. SubSeq(t, 1, n - 2) \in Seq(Some \cup Control)
    <3>1. n - 2 \in Int
      BY <1>1
    <3>2. SubSeq(t, 1, n - 2) = [i \in 1 .. n - 2 |-> t[i]]
      <4>1. SubSeq(t, 1, n - 2) \in Seq(Elem) /\ Len(SubSeq(t, 1, n - 2)) = n - 2
            /\ \A i \in 1 .. n - 2 : SubSeq(t, 1, n - 2)[i] = t[i]
        BY DottedParts
      <4>2. DOMAIN SubSeq(t, 1, n - 2) = 1 .. n - 2
        BY <4>1, LenProperties
      <4>. QED
        BY <4>1, <4>2
    <3>3. n - 2 \in Nat
      BY <1>1
    <3>. HIDE DEF Some, n
    <3>. QED
      BY <2>7, <3>2, <3>3, SeqDef
  <2>9. WithoutExtension(t) = SubSeq(t, 1, n - 2)
    BY <1>2, DottedIs
  <2>10. OnlyDots(t)
    BY <2>8, <2>9 DEF OnlyDots
  <2>. QED
    BY <1>14, <1>15, <1>16, <2>2, <2>10 DEF Named
<1>. QED
  BY <1>11, <1>17, <1>18

LEMMA OneIs ==
  ASSUME NEW c
  PROVE  <<c>> \in Seq({c}) /\ Len(<<c>>) = 1 /\ <<c>>[1] = c
OBVIOUS

LEMMA ShortenedIs ==
  ASSUME NEW Elem, NEW c, Plain(c), NEW t, Named(t, c, Elem)
  PROVE  /\ Named(Shortened(t), c, Elem) /\ Len(Shortened(t)) <= MaxName
         /\ Shortened(t) = <<c>> => t = <<c>>
<1>. DEFINE E == Safe(Elem)
            n == Len(t)
            k == MaxName - 2
            a == SubSeq(t, 1, k)
            b == SubSeq(t, n - 1, n)
<1>1. MaxName \in Nat /\ MaxName >= 4 /\ Slack \in Nat /\ Slack >= 2 /\ Slack <= MaxName
  BY FileAssumption
<1>2. t \in Seq(E) /\ n \in Nat
  BY LenProperties DEF Named
<1>3. CASE n <= MaxName
  BY <1>3 DEF Shortened
<1>4. CASE n > MaxName
  <2>1. EndsDotted(t, c) /\ t[1] # "."
    <3>0. n # 1 /\ Len(<<c>>) = 1
      <4>1. n # 1
        <5>. HIDE DEF n
        <5>. QED
          BY <1>1, <1>2, <1>4
      <4>. QED
        BY <4>1, OneIs
    <3>1. t # <<c>>
      BY <3>0
    <3>. QED
      BY <3>1 DEF Named
  <2>. HIDE DEF E
  <2>2. FindLastOf(t, {"."}) = n - 1
    <3>1. c # "."
      BY DEF Plain
    <3>. QED
      BY <1>2, <2>1, <3>1, DottedIs
  <2>3. /\ n - 1 # npos /\ (n - 1) - 1 > MaxName - Slack /\ ~(n <= MaxName)
        /\ MaxName - (n - ((n - 1) - 1)) = k
    <3>. HIDE DEF n
    <3>. QED
      BY <1>1, <1>2, <1>4 DEF npos
  <2>4. Shortened(t) = a \o b
    BY <2>2, <2>3 DEF Shortened, From
  <2>5. a \in Seq(E) /\ Len(a) = k /\ \A i \in 1 .. k : a[i] = t[i]
    <3>1. k \in 0 .. n /\ k \in Int
      BY <1>1, <1>2, <1>4
    <3>2. IsSeq(t)
      BY <1>2, SeqIs
    <3>3. Len(a) = k /\ \A i \in 1 .. k : a[i] = t[i]
      BY <3>1, <3>2, FirstShape
    <3>4. \A i \in 1 .. k : t[i] \in E
      BY <1>2, <3>1, ElementOfSeq
    <3>. HIDE DEF k
    <3>. QED
      BY <3>1, <3>3, <3>4, SubSeqProperties
  <2>6. b \in Seq(E) /\ Len(b) = 2 /\ b[1] = "." /\ b[2] = c
    <3>1. n - 1 \in 1 .. Len(t) /\ Len(t) - (n - 1) + 1 = 2 /\ (n - 1) + 1 - 1 = n - 1 /\ (n - 1) + 2 - 1 = n
      BY <1>1, <1>2, <1>4
    <3>2. b \in Seq(E) /\ Len(b) = 2 /\ \A i \in 1 .. 2 : b[i] = t[(n - 1) + i - 1]
      <4>1. b \in Seq(E) /\ Len(b) = Len(t) - (n - 1) + 1
            /\ \A i \in 1 .. Len(t) - (n - 1) + 1 : b[i] = t[(n - 1) + i - 1]
        BY <1>2, <3>1, RestIs
      <4>. QED
        BY <3>1, <4>1
    <3>3. 1 \in 1 .. 2 /\ 2 \in 1 .. 2
      OBVIOUS
    <3>4. b[1] = t[n - 1] /\ b[2] = t[n]
      BY <3>1, <3>2, <3>3
    <3>. QED
      BY <2>1, <3>2, <3>4 DEF EndsDotted
  <2>. DEFINE s == a \o b
  <2>. HIDE DEF a, b
  <2>7. s \in Seq(E) /\ Len(s) = MaxName /\ (\A i \in 1 .. k : s[i] = a[i]) /\ s[k + 1] = b[1] /\ s[k + 2] = b[2]
    <3>1. s \in Seq(E) /\ Len(s) = Len(a) + Len(b)
          /\ \A i \in 1 .. Len(a) + Len(b) : s[i] = IF i <= Len(a) THEN a[i] ELSE b[i - Len(a)]
      BY <2>5, <2>6, ConcatProperties
    <3>2. k \in Nat /\ k + 2 = MaxName /\ (\A i \in 1 .. k : i <= k /\ i \in 1 .. k + 2)
          /\ k + 1 \in 1 .. k + 2 /\ ~(k + 1 <= k) /\ (k + 1) - k = 1
          /\ k + 2 \in 1 .. k + 2 /\ ~(k + 2 <= k) /\ (k + 2) - k = 2
      BY <1>1
    <3>. HIDE DEF s, k
    <3>. QED
      BY <2>5, <2>6, <3>1, <3>2
  <2>. HIDE DEF s
  <2>8. s[1] = t[1] /\ Len(s) - 1 = k + 1 /\ Len(s) = k + 2
    <3>1. 1 \in 1 .. k
      BY <1>1
    <3>2. MaxName - 1 = k + 1 /\ MaxName = k + 2
      BY <1>1
    <3>. HIDE DEF k
    <3>. QED
      BY <2>5, <2>7, <3>1, <3>2
  <2>9. EndsDotted(s, c) /\ s[1] # "." /\ Len(s) >= 3
    <3>1. Len(s) >= 2 /\ Len(s) >= 3
      BY <1>1, <2>7
    <3>. HIDE DEF k
    <3>. QED
      BY <2>1, <2>6, <2>7, <2>8, <3>1 DEF EndsDotted
  <2>10. s # <<c>>
    BY <1>1, <2>7, OneIs
  <2>11. s \in Seq(Safe(Elem))
    BY <2>7 DEF E
  <2>12. Named(s, c, Elem)
    BY <2>9, <2>11 DEF Named
  <2>13. Len(s) <= MaxName
    BY <1>1, <2>7
  <2>. QED
    BY <2>4, <2>10, <2>12, <2>13 DEF s
<1>. QED
  BY <1>1, <1>2, <1>3, <1>4

LEMMA UnreservedIs ==
  ASSUME NEW Elem, NEW c, Plain(c), NEW t, Named(t, c, Elem), Len(t) <= MaxName
  PROVE  LET u == Unreserved(t)
         IN /\ u \in Seq(Safe(Elem) \cup {"_"}) /\ Len(u) <= MaxName /\ Len(u) > 0 /\ u[Len(u)] = c
            /\ EndsDotted(u, c) \/ t = <<c>>
<1>. DEFINE E == Safe(Elem) \cup {"_"}
            u == Unreserved(t)
            v == <<"_">> \o t
            n == Len(t)
<1>1. t \in Seq(E) /\ n \in Nat /\ DOMAIN t = 1 .. n
  <2>1. t \in Seq(Safe(Elem))
    BY DEF Named
  <2>. QED
    BY <2>1, SeqMonotonic, LenProperties
<1>2. MaxName \in Nat /\ MaxName >= 4
  BY FileAssumption
<1>. HIDE DEF E
<1>3. n > 0 /\ t[n] = c
  <2>1. CASE t = <<c>>
    BY <2>1, OneIs
  <2>2. CASE EndsDotted(t, c)
    BY <1>1, <2>2 DEF EndsDotted
  <2>. QED
    BY <2>1, <2>2 DEF Named
<1>4. v \in Seq(E) /\ Len(v) = n + 1 /\ v[n + 1] = t[n] /\ (n >= 2 => v[n] = t[n - 1])
  <2>. DEFINE w == <<"_">>
  <2>0. w \in Seq(E) /\ Len(w) = 1
    BY OneIs DEF E
  <2>. HIDE DEF w
  <2>1. w \o t \in Seq(E) /\ Len(w \o t) = 1 + n
        /\ \A i \in 1 .. 1 + n : (w \o t)[i] = IF i <= 1 THEN w[i] ELSE t[i - 1]
    <3>1. w \o t \in Seq(E) /\ Len(w \o t) = Len(w) + Len(t)
          /\ \A i \in 1 .. Len(w) + Len(t) : (w \o t)[i] = IF i <= Len(w) THEN w[i] ELSE t[i - Len(w)]
      BY <1>1, <2>0, ConcatProperties
    <3>. QED
      BY <2>0, <3>1
  <2>2. 1 + n = n + 1 /\ n + 1 \in 1 .. 1 + n /\ ~(n + 1 <= 1) /\ (n + 1) - 1 = n
        /\ (n >= 2 => n \in 1 .. 1 + n /\ ~(n <= 1))
    BY <1>1, <1>3
  <2>3. v = w \o t
    BY DEF w
  <2>. HIDE DEF n, v
  <2>. QED
    BY <2>1, <2>2, <2>3
<1>. HIDE DEF v
<1>5. CASE u = t
  <2>1. EndsDotted(t, c) \/ t = <<c>>
    BY DEF Named
  <2>. QED
    BY <1>1, <1>3, <1>5, <2>1 DEF E
<1>6. CASE u # t
  <2>1. u = v /\ ToUpper(WithoutExtension(t)) \in Reserved
    BY <1>6 DEF Unreserved, v
  <2>2. n <= 3
    <3>1. CASE t = <<c>>
      BY <3>1, OneIs
    <3>2. CASE EndsDotted(t, c)
      <4>. DEFINE x == WithoutExtension(t)
      <4>1. c # "."
        BY DEF Plain
      <4>2. x = SubSeq(t, 1, n - 2) /\ Len(x) = n - 2 /\ x \in Seq(E)
        BY <1>1, <3>2, <4>1, DottedIs, DottedParts
      <4>3. DOMAIN ToUpper(x) = DOMAIN x
        BY DEF ToUpper, Change
      <4>4. ToUpper(x) = <<"CON">>
        BY <2>1 DEF Reserved
      <4>5. DOMAIN x = {1}
        BY <4>3, <4>4
      <4>. HIDE DEF x, n
      <4>6. DOMAIN x = 1 .. n - 2
        BY <4>2, LenProperties
      <4>7. ~(n <= 3) => 2 \in 1 .. n - 2
        BY <1>1
      <4>8. 2 \notin 1 .. n - 2
        BY <4>5, <4>6
      <4>. QED
        BY <4>7, <4>8
    <3>. QED
      BY <3>1, <3>2 DEF Named
  <2>3. Len(v) <= MaxName /\ Len(v) > 0 /\ v[Len(v)] = c
    BY <1>1, <1>2, <1>3, <1>4, <2>2
  <2>4. EndsDotted(v, c) \/ t = <<c>>
    <3>1. ASSUME EndsDotted(t, c) PROVE EndsDotted(v, c)
      <4>1. n >= 2 /\ t[n - 1] = "." /\ t[n] = c
        BY <3>1 DEF EndsDotted
      <4>2. Len(v) >= 2 /\ Len(v) - 1 = n /\ Len(v) = n + 1
        BY <1>1, <1>4, <4>1
      <4>. HIDE DEF n
      <4>. QED
        BY <1>4, <4>1, <4>2 DEF EndsDotted
    <3>. QED
      BY <3>1 DEF Named
  <2>. QED
    BY <1>4, <2>1, <2>3, <2>4 DEF E
<1>. QED
  BY <1>5, <1>6

(* sanitize_filename of a name whose extension is allowed. *)
NameIsSound(name, filename) ==
  /\ name \notin {<<>>, <<".">>, <<".", ".">>}
  /\ "/" \notin Elements(name) /\ Elements(name) \cap Control = {}
  /\ Len(name) <= MaxName
  /\ \/ Extension(name) = Extension(filename) /\ Extension(name) \in AllowedExtension
     \/ Elements(WithoutExtension(filename)) \subseteq {"."} \cup Blank \cup Control

LEMMA SanitizedIs ==
  ASSUME NEW Elem, NEW t \in Seq(Elem), Extension(t) \in AllowedExtension
  PROVE  NameIsSound(SanitizeFilename(t), t)
<1>1. PICK c : EndsDotted(t, c) /\ Plain(c)
  BY AllowedIs
<1>. DEFINE s == Shortened(Cleaned(t))
            u == Unreserved(s)
            E == Safe(Elem) \cup {"_"}
<1>2. Named(Cleaned(t), c, Elem) /\ (Cleaned(t) = <<c>> => OnlyDots(t))
  BY <1>1, CleanedIs
<1>3. Named(s, c, Elem) /\ Len(s) <= MaxName /\ (s = <<c>> => OnlyDots(t))
  BY <1>1, <1>2, ShortenedIs
<1>. HIDE DEF s
<1>4. u \in Seq(E) /\ Len(u) <= MaxName /\ Len(u) > 0 /\ u[Len(u)] = c /\ (EndsDotted(u, c) \/ s = <<c>>)
  BY <1>1, <1>3, UnreservedIs
<1>5. /\ c \notin {".", "_"} /\ c \notin Blank /\ "/" \in Dangerous /\ "_" # "/" /\ "_" \notin Control
  BY <1>1 DEF Plain, Control, Blank, Dangerous, LF, CR
<1>. HIDE DEF u, E
<1>6. Len(u) \in Nat /\ DOMAIN u = 1 .. Len(u) /\ Len(u) \in DOMAIN u
  <2>1. Len(u) \in Nat /\ DOMAIN u = 1 .. Len(u)
    BY <1>4, LenProperties
  <2>. QED
    BY <1>4, <2>1
<1>7. u \notin {<<>>, <<".">>, <<".", ".">>}
  <2>1. u # <<>>
    BY <1>4
  <2>2. u[Len(u)] # "."
    BY <1>4, <1>5
  <2>3. /\ Len(<<".">>) = 1 /\ <<".">>[1] = "."
        /\ Len(<<".", ".">>) = 2 /\ <<".", ".">>[2] = "."
    OBVIOUS
  <2>. QED
    BY <2>1, <2>2, <2>3
<1>8. ~\A i \in DOMAIN u : u[i] \in {"_"} \cup Blank
  BY <1>4, <1>5, <1>6
<1>9. t # <<>>
  <2>1. Len(t) >= 2
    BY <1>1 DEF EndsDotted
  <2>. QED
    BY <2>1
<1>10. SanitizeFilename(t) = u
  BY <1>7, <1>8, <1>9 DEF SanitizeFilename, IsEmpty, u, s
<1>11. "/" \notin Elements(u) /\ Elements(u) \cap Control = {}
  <2>1. Elements(u) \subseteq E
    BY <1>4, <1>6, ElementOfSeq DEF Elements
  <2>2. "/" \notin E /\ E \cap Control = {}
    BY <1>5 DEF E, Safe
  <2>. HIDE DEF E
  <2>. QED
    BY <2>1, <2>2
<1>12. CASE EndsDotted(u, c)
  <2>. HIDE DEF E
  <2>1. Extension(u) = ToLower(<<c>>) /\ Extension(t) = ToLower(<<c>>)
    BY <1>1, <1>4, <1>5, <1>12, DottedIs
  <2>. QED
    BY <1>4, <1>7, <1>10, <1>11, <2>1 DEF NameIsSound
<1>13. CASE s = <<c>>
  <2>. DEFINE x == WithoutExtension(t)
              A == {"."} \cup Blank \cup Control
  <2>1. x \in Seq(A)
    BY <1>3, <1>13 DEF OnlyDots
  <2>. HIDE DEF x, A
  <2>2. Elements(x) \subseteq A
    <3>1. DOMAIN x = 1 .. Len(x) /\ \A i \in 1 .. Len(x) : x[i] \in A
      BY <2>1, LenProperties, ElementOfSeq
    <3>. QED
      BY <3>1 DEF Elements
  <2>. QED
    BY <1>4, <1>7, <1>10, <1>11, <2>2 DEF NameIsSound, x, A
<1>. QED
  BY <1>4, <1>12, <1>13

-----------------------------------------------------------------------------
(* Maps from texts to texts: fields of a form, headers. *)

FieldsOf(Elem) == UNION {[D -> Seq(Elem)] : D \in SUBSET Seq(Elem)}

(* new has the value under the name, and is old elsewhere. *)
Updated(new, old, name, value) ==
  /\ DOMAIN new = DOMAIN old \cup {name} /\ new[name] = value
  /\ \A n \in DOMAIN old : n # name => new[n] = old[n]

LEMMA WithIs ==
  ASSUME NEW fs, NEW name, NEW value
  PROVE  Updated(With(fs, name, value), fs, name, value)
BY DEF With, Updated

LEMMA WithType ==
  ASSUME NEW Elem, NEW fs \in FieldsOf(Elem), NEW name \in Seq(Elem), NEW value \in Seq(Elem)
  PROVE  With(fs, name, value) \in FieldsOf(Elem)
<1>. DEFINE Row == Seq(Elem)
            w == With(fs, name, value)
            D == DOMAIN fs \cup {name}
<1>1. PICK D0 \in SUBSET Row : fs \in [D0 -> Row]
  BY DEF FieldsOf
<1>2. name \in Row /\ value \in Row
  OBVIOUS
<1>. HIDE DEF Row
<1>3. w = [n \in D |-> w[n]]
  BY DEF With
<1>4. \A n \in D : w[n] \in Row
  <2>1. \A n \in D : w[n] = IF n = name THEN value ELSE fs[n]
    BY DEF With
  <2>2. \A n \in D : n # name => fs[n] \in Row
    BY <1>1
  <2>. HIDE DEF w, D
  <2>. QED
    BY <1>2, <2>1, <2>2
<1>5. D \in SUBSET Row
  BY <1>1, <1>2
<1>. HIDE DEF w, D
<1>6. w \in [D -> Row]
  BY <1>3, <1>4
<1>. QED
  BY <1>5, <1>6 DEF FieldsOf, Row, w

LEMMA NoFieldsType ==
  ASSUME NEW Elem
  PROVE  NoFields \in FieldsOf(Elem) /\ DOMAIN NoFields = {}
<1>1. NoFields \in [{} -> Seq(Elem)] /\ DOMAIN NoFields = {}
  BY DEF NoFields
<1>2. {} \in SUBSET Seq(Elem)
  OBVIOUS
<1>. QED
  BY <1>1, <1>2 DEF FieldsOf

-----------------------------------------------------------------------------
(* What a request is parsed into. *)

LEMMA LinesType ==
  ASSUME NEW Elem, NEW t \in Seq(Elem), NEW sep
  PROVE  GetLines(t, sep) \in Seq(Seq(Elem)) /\ Len(GetLines(t, sep)) \in Nat
<1>. DEFINE Row == Seq(Elem)
            parts == SplitAt(t, sep)
<1>1. parts \in Seq(Row)
  BY SplitType DEF Parts
<1>. HIDE DEF Row, parts
<1>2. Without(parts, <<>>) \in Seq(Row)
  BY <1>1, WithoutIs
<1>3. GetLines(t, sep) \in Seq(Row)
  BY <1>2 DEF GetLines, parts
<1>. QED
  BY <1>3, LenProperties DEF Row

LEMMA AddHeaderType ==
  ASSUME NEW Elem, NEW fs \in FieldsOf(Elem), NEW line \in Seq(Elem)
  PROVE  AddHeader(fs, line) \in FieldsOf(Elem)
<1>. DEFINE colon == Find(line, <<":">>, 1)
            spaced == {i \in colon + 1 .. Len(line) : line[i] \notin Blank}
            value == IF spaced = {} THEN <<>> ELSE From(line, Min(spaced))
            name == SubSeq(line, 1, colon - 1)
<1>1. Len(line) \in Nat /\ colon \in Nat /\ (colon # npos => colon <= Len(line))
  <2>1. IsSeq(line) /\ Len(line) \in Nat
    BY SeqIs, LenProperties
  <2>2. FirstPlace(colon, line, <<":">>, 1)
    BY <2>1, FindIs
  <2>. QED
    BY <2>1, <2>2 DEF FirstPlace
<1>. HIDE DEF colon
<1>2. CASE colon = npos
  BY <1>2 DEF AddHeader, colon
<1>3. CASE colon # npos
  <2>1. name \in Seq(Elem)
    BY <1>1, <1>3, CutType
  <2>2. value \in Seq(Elem)
    <3>1. spaced \in SUBSET Nat /\ \A i \in spaced : i >= 1
      BY <1>1
    <3>2. CASE spaced = {}
      BY <3>2
    <3>3. CASE spaced # {}
      <4>1. Min(spaced) \in spaced
        <5>. HIDE DEF spaced
        <5>. QED
          BY <3>1, <3>3, MinIs
      <4>. DEFINE a == Min(spaced)
      <4>2. a \in Nat /\ a >= 1 /\ value = SubSeq(line, a, Len(line))
        BY <3>1, <3>3, <4>1 DEF From
      <4>. HIDE DEF a, value
      <4>. QED
        BY <1>1, <4>2, CutType
    <3>. QED
      BY <3>2, <3>3
  <2>3. AddHeader(fs, line) = With(fs, name, value)
    BY <1>3 DEF AddHeader, colon
  <2>. HIDE DEF name, value
  <2>. QED
    BY <2>1, <2>2, <2>3, WithType
<1>. QED
  BY <1>2, <1>3

LEMMA BlankLineIs ==
  ASSUME NEW Elem, NEW lines \in Seq(Seq(Elem))
  PROVE  /\ BlankLine(lines) \in Nat /\ BlankLine(lines) <= Len(lines) + 1
         /\ Len(lines) >= 1 => BlankLine(lines) >= 2
         /\ Len(lines) \in Nat
<1>. DEFINE Row == Seq(Elem)
            S == {i \in 2 .. Len(lines) : IsEmpty(Without(lines[i], CR))}
<1>1. Len(lines) \in Nat
  BY LenProperties DEF Row
<1>2. S \in SUBSET Nat /\ BlankLine(lines) = OrEnd(FirstOrNpos(S), lines) /\ \A i \in S : i >= 2 /\ i <= Len(lines)
  BY <1>1 DEF BlankLine
<1>. HIDE DEF S
<1>3. CASE S = {}
  BY <1>1, <1>2, <1>3 DEF OrEnd, FirstOrNpos, npos
<1>4. CASE S # {}
  <2>1. Min(S) \in S
    BY <1>2, <1>4, MinIs
  <2>. DEFINE a == Min(S)
  <2>2. a # npos /\ a \in Nat /\ a >= 2 /\ a <= Len(lines)
    <3>1. a \in Nat /\ a >= 2 /\ a <= Len(lines)
      BY <1>2, <2>1
    <3>. HIDE DEF a
    <3>. QED
      BY <3>1 DEF npos
  <2>3. BlankLine(lines) = a
    BY <1>2, <1>4, <2>2 DEF OrEnd, FirstOrNpos
  <2>. HIDE DEF a
  <2>. QED
    BY <1>1, <2>2, <2>3
<1>. QED
  BY <1>3, <1>4

LEMMA HeadersType ==
  ASSUME NEW Elem, NEW lines \in Seq(Seq(Elem)), Len(lines) >= 1
  PROVE  HeadersOf(lines) \in FieldsOf(Elem)
<1>. DEFINE n == BlankLine(lines) - 2
            V == FieldsOf(Elem)
            step(i) == Without(lines[i + 1], CR)
            F == [i \in 1 .. n |-> [fs \in V |-> AddHeader(fs, step(i))]]
<1>1. n \in Nat /\ n + 1 <= Len(lines)
  BY BlankLineIs
<1>2. \A i \in 1 .. n : step(i) \in Seq(Elem)
  <2>. DEFINE Row == Seq(Elem)
  <2>1. lines \in Seq(Row)
    OBVIOUS
  <2>2. \A i \in 1 .. Len(lines) : lines[i] \in Row
    <3>. HIDE DEF Row
    <3>. QED
      BY <2>1, ElementOfSeq
  <2>3. \A i \in 1 .. n : i + 1 \in 1 .. Len(lines)
    BY <1>1, BlankLineIs
  <2>. QED
    BY <2>2, <2>3, WithoutIs
<1>. HIDE DEF n, V, step
<1>3. F \in [1 .. n -> [V -> V]]
  BY <1>2, AddHeaderType DEF V
<1>4. NoFields \in V
  BY NoFieldsType DEF V
<1>. HIDE DEF F
<1>5. Course(n, V, NoFields, F) # {}
  BY <1>1, <1>3, <1>4, Recursion
<1>6. PICK g \in [0 .. n -> V] : g[0] = NoFields /\ \A i \in 1 .. n : g[i] = F[i][g[i - 1]]
  BY <1>5 DEF Course
<1>7. ASSUME NEW i \in 1 .. n PROVE g[i] = AddHeader(g[i - 1], step(i))
  <2>1. g[i - 1] \in V
    <3>1. i - 1 \in 0 .. n
      BY <1>1
    <3>. QED
      BY <1>6, <3>1
  <2>. QED
    BY <1>6, <2>1 DEF F
<1>. DEFINE Is(f) == f = [i \in 0 .. n |-> IF i = 0 THEN NoFields ELSE AddHeader(f[i - 1], Without(lines[i + 1], CR))]
            h == CHOOSE f : Is(f)
<1>8. Is(g)
  <2>1. \A i \in 0 .. n : i = 0 \/ i \in 1 .. n
    BY <1>1
  <2>2. \A i \in 0 .. n : g[i] = IF i = 0 THEN NoFields ELSE AddHeader(g[i - 1], Without(lines[i + 1], CR))
    BY <1>6, <1>7, <2>1 DEF step
  <2>3. g = [i \in 0 .. n |-> g[i]]
    BY <1>6
  <2>. QED
    BY <2>2, <2>3
<1>9. Is(h)
  BY <1>8
<1>10. HeadersOf(lines) = h[n]
  BY DEF HeadersOf, n
<1>. HIDE DEF h
<1>11. h[0] = NoFields /\ \A i \in 1 .. n : h[i] = AddHeader(h[i - 1], step(i))
  <2>1. 0 \in 0 .. n /\ \A i \in 1 .. n : i \in 0 .. n /\ i # 0
    BY <1>1
  <2>. QED
    BY <1>9, <2>1 DEF step
<1>12. Alike(g, h, n)
  BY <1>6, <1>7, <1>11 DEF Alike
<1>13. \A i \in 0 .. n : g[i] = h[i]
  BY <1>1, <1>12, SameRecursion
<1>14. n \in 0 .. n
  BY <1>1
<1>15. HeadersOf(lines) = g[n] /\ g[n] \in V
  BY <1>6, <1>10, <1>13, <1>14
<1>. QED
  BY <1>15 DEF V

LEMMA BodyType ==
  ASSUME NEW Elem, LF \in Elem, NEW lines \in Seq(Seq(Elem))
  PROVE  BodyOf(lines) \in Seq(Elem)
<1>. DEFINE Row == Seq(Elem)
            behind == SubSeq(lines, BlankLine(lines) + 1, Len(lines))
            rows == [i \in DOMAIN behind |-> behind[i] \o <<LF>>]
<1>1. BlankLine(lines) \in Nat /\ Len(lines) \in Nat
  BY BlankLineIs
<1>2. behind \in Seq(Row)
  <2>1. lines \in Seq(Row) /\ BlankLine(lines) + 1 \in Int /\ 1 <= BlankLine(lines) + 1
    BY <1>1
  <2>. HIDE DEF Row
  <2>. QED
    BY <1>1, <2>1, CutType
<1>. HIDE DEF behind
<1>3. rows \in Seq(Row)
  <2>. DEFINE k == Len(behind)
  <2>1. DOMAIN behind = 1 .. k /\ k \in Nat /\ \A i \in 1 .. k : behind[i] \in Row
    <3>. HIDE DEF Row
    <3>. QED
      BY <1>2, LenProperties, ElementOfSeq
  <2>. HIDE DEF k
  <2>2. ASSUME NEW i \in 1 .. k PROVE behind[i] \o <<LF>> \in Row
    <3>. DEFINE b == behind[i]
    <3>1. b \in Seq(Elem) /\ <<LF>> \in Seq(Elem)
      BY <2>1
    <3>. HIDE DEF b
    <3>2. b \o <<LF>> \in Seq(Elem)
      BY <3>1, ConcatProperties
    <3>. QED
      BY <3>2 DEF b
  <2>. HIDE DEF Row
  <2>3. rows \in [1 .. k -> Row]
    BY <2>1, <2>2
  <2>. QED
    BY <2>1, <2>3, SeqDef
<1>. HIDE DEF rows
<1>4. FlattenSeq(rows) \in Seq(Elem)
  BY <1>3, FlattenType
<1>5. Without(FlattenSeq(rows), LF) \in Seq(Elem)
  BY <1>4, WithoutIs
<1>. QED
  BY <1>5 DEF BodyOf, rows, behind

(* A line with a character is read. *)
LEMMA SomeLines ==
  ASSUME NEW Elem, NEW t \in Seq(Elem), t # <<>>, NEW sep
  PROVE  Len(GetLines(t, sep)) >= 1
<1>. DEFINE Row == Seq(Elem)
<1>1. PICK u \in Seq(Elem), c \in Elem : t = Append(u, c)
  BY SequenceEmptyOrAppend
<1>. DEFINE old == SplitAt(u, sep)
            new == SplitAt(t, sep)
            k == Len(old)
<1>2. old \in Parts(Elem) /\ new \in Parts(Elem) /\ new = WithChar(old, c, sep)
  BY <1>1, SplitGrows, SplitType
<1>3. Grown(new, old, c, sep)
  BY <1>2, WithCharIs
<1>4. old \in Seq(Row) /\ new \in Seq(Row) /\ k \in Nat /\ k >= 1
  <2>1. old \in Seq(Row) /\ new \in Seq(Row) /\ old # <<>>
    BY <1>2 DEF Parts
  <2>. HIDE DEF old, new, Row
  <2>. QED
    BY <2>1, LenProperties, EmptySeq
<1>. HIDE DEF old, new
<1>5. CASE c = sep
  <2>1. Without(new, <<>>) = old
    <3>1. new = Append(old, <<>>)
      BY <1>3, <1>5 DEF Grown
    <3>. HIDE DEF Row
    <3>. QED
      BY <1>4, <3>1, WithoutIs
  <2>. QED
    BY <1>4, <2>1 DEF GetLines, new
<1>6. CASE c # sep
  <2>1. Len(new) = k /\ new[k] = Append(old[k], c)
    BY <1>3, <1>6 DEF Grown
  <2>2. old[k] \in Seq(Elem)
    <3>1. k \in 1 .. Len(old)
      BY <1>4
    <3>2. old[k] \in Row
      <4>. HIDE DEF Row, k
      <4>. QED
        BY <1>4, <3>1, ElementOfSeq
    <3>. QED
      BY <3>2
  <2>. DEFINE last == old[k]
  <2>3. Append(last, c) # <<>>
    <3>. HIDE DEF last
    <3>1. Len(Append(last, c)) = Len(last) + 1 /\ Len(last) \in Nat
      BY <2>2, AppendProperties, LenProperties DEF last
    <3>2. Len(Append(last, c)) # 0 /\ Len(<<>>) = 0
      BY <3>1
    <3>. QED
      BY <3>2
  <2>4. ~EndsIn(new, <<>>)
    BY <2>1, <2>3 DEF EndsIn
  <2>5. Without(new, <<>>) = new
    BY <2>4 DEF Without
  <2>. QED
    BY <1>4, <2>1, <2>5 DEF GetLines, new
<1>. QED
  BY <1>5, <1>6

LEMMA RequestType ==
  ASSUME NEW Elem, LF \in Elem, NEW t \in Seq(Elem), t # <<>>
  PROVE  ParseRequest(t).body \in Seq(Elem) /\ ParseRequest(t).headers \in FieldsOf(Elem)
<1>. DEFINE lines == GetLines(t, LF)
<1>1. lines \in Seq(Seq(Elem)) /\ Len(lines) >= 1
  BY LinesType, SomeLines
<1>2. BodyOf(lines) \in Seq(Elem) /\ HeadersOf(lines) \in FieldsOf(Elem)
  <2>. HIDE DEF lines
  <2>. QED
    BY <1>1, BodyType, HeadersType
<1>3. ParseRequest(t).body = BodyOf(lines) /\ ParseRequest(t).headers = HeadersOf(lines)
  BY DEF ParseRequest
<1>. QED
  BY <1>2, <1>3

-----------------------------------------------------------------------------
(* The texts that clients send are texts. *)

LEMMA EncodedShape ==
  ASSUME NEW t, IsSeq(t)
  PROVE  IsSeq(UrlEncode(t))
<1>. DEFINE f == [i \in DOMAIN t |-> Encoded(t[i])]
<1>1. Len(t) \in Nat /\ DOMAIN t = 1 .. Len(t)
  BY SeqShape
<1>2. IsSeq(f) /\ Len(f) = Len(t)
  BY <1>1, MadeShape
<1>3. \A c : IsSeq(Encoded(c))
  <2>1. \A c : (\E a : Encoded(c) = <<a>>) \/ (\E a, b, d : Encoded(c) = <<a, b, d>>)
    BY DEF Encoded
  <2>. QED
    BY <2>1, TupleShape
<1>4. \A i \in 1 .. Len(f) : IsSeq(f[i])
  BY <1>1, <1>2, <1>3
<1>. HIDE DEF f
<1>5. IsSeq(FlattenSeq(f))
  BY <1>2, <1>4, FlattenShape
<1>. QED
  BY <1>5 DEF UrlEncode, f

LEMMA FormBodyShape ==
  ASSUME NEW pairs, IsSeq(pairs), \A i \in 1 .. Len(pairs) : IsSeq(pairs[i].name) /\ IsSeq(pairs[i].value)
  PROVE  IsSeq(FormBody(pairs))
<1>. DEFINE f == [i \in DOMAIN pairs |->
                    (IF i = 1 THEN <<>> ELSE <<"&">>)
                      \o UrlEncode(pairs[i].name) \o <<"=">> \o UrlEncode(pairs[i].value)]
<1>1. Len(pairs) \in Nat /\ DOMAIN pairs = 1 .. Len(pairs)
  BY SeqShape
<1>2. IsSeq(f) /\ Len(f) = Len(pairs)
  BY <1>1, MadeShape
<1>3. \A i \in 1 .. Len(f) : IsSeq(f[i])
  <2>1. ASSUME NEW i \in 1 .. Len(f) PROVE IsSeq(f[i])
    <3>. DEFINE a == IF i = 1 THEN <<>> ELSE <<"&">>
                x == UrlEncode(pairs[i].name)
                y == UrlEncode(pairs[i].value)
    <3>1. IsSeq(x) /\ IsSeq(y)
      BY <1>2, EncodedShape
    <3>2. IsSeq(a) /\ IsSeq(<<"=">>)
      BY TupleShape
    <3>3. f[i] = a \o x \o <<"=">> \o y
      BY <1>1, <1>2
    <3>. HIDE DEF a, x, y, f
    <3>4. IsSeq(a \o x)
      BY <3>1, <3>2, ConcatShape
    <3>5. IsSeq(a \o x \o <<"=">>)
      BY <3>2, <3>4, ConcatShape
    <3>6. IsSeq(a \o x \o <<"=">> \o y)
      BY <3>1, <3>5, ConcatShape
    <3>. QED
      BY <3>3, <3>6
  <2>. QED
    BY <2>1
<1>. HIDE DEF f
<1>4. IsSeq(FlattenSeq(f))
  BY <1>2, <1>3, FlattenShape
<1>. QED
  BY <1>4 DEF FormBody, f

LEMMA ConcatsAre ==
  \A s, t : IsSeq(s) /\ IsSeq(t) => IsSeq(s \o t)
BY ConcatShape

LEMMA PartTextShape ==
  ASSUME NEW part, NEW eol, IsSeq(eol), IsSeq(part.name), IsSeq(part.filename), IsSeq(part.content)
  PROVE  IsSeq(PartText(part, eol))
<1>. DEFINE h == <<"Content-Disposition", ":", " ", "form-data", ";", " ", "name", "=", "\"">>
            f1 == <<";", " ", "file", "name", "=", "\"">>
            f2 == <<";", " ", "file", "name", "=">>
            q == <<"\"">>
            x == IF IsEmpty(part.filename) THEN <<>>
                 ELSE IF part.quoted THEN f1 \o part.filename \o q ELSE f2 \o part.filename
            m == <<"-", "-">> \o Boundary
<1>1. IsSeq(h) /\ IsSeq(f1)
  <2>1. h \in Seq({"Content-Disposition", ":", " ", "form-data", ";", "name", "=", "\""})
    OBVIOUS
  <2>2. f1 \in Seq({";", " ", "file", "name", "=", "\""})
    OBVIOUS
  <2>. HIDE DEF h, f1
  <2>. QED
    BY <2>1, <2>2, SeqIs
<1>2. IsSeq(f2) /\ IsSeq(q) /\ IsSeq(<<>>)
  BY TupleShape
<1>3. IsSeq(<<"-", "-">>) /\ IsSeq(Boundary)
  BY TupleShape DEF Boundary
<1>4. IsSeq(m)
  BY <1>3, ConcatsAre
<1>5. PartText(part, eol) =
        m \o eol \o h \o part.name \o q \o x \o eol \o eol \o part.content \o eol
  BY DEF PartText
<1>. HIDE DEF h, f1, f2, q, m
<1>6. IsSeq(x)
  <2>1. IsSeq(f1 \o part.filename \o q) /\ IsSeq(f2 \o part.filename)
    BY <1>1, <1>2, ConcatsAre
  <2>. QED
    BY <1>2, <2>1
<1>. HIDE DEF x
<1>7. IsSeq(m \o eol \o h \o part.name \o q)
  BY <1>1, <1>2, <1>4, ConcatsAre
<1>8. IsSeq(m \o eol \o h \o part.name \o q \o x \o eol \o eol \o part.content \o eol)
  BY <1>6, <1>7, ConcatsAre
<1>. QED
  BY <1>5, <1>8

LEMMA MultipartShape ==
  ASSUME NEW parts, IsSeq(parts), NEW eol, IsSeq(eol),
         \A i \in 1 .. Len(parts) : IsSeq(parts[i].name) /\ IsSeq(parts[i].filename) /\ IsSeq(parts[i].content)
  PROVE  IsSeq(MultipartBody(parts, eol))
<1>. DEFINE f == [i \in DOMAIN parts |-> PartText(parts[i], eol)]
            b == FlattenSeq(f)
            d == <<"-", "-">>
<1>1. Len(parts) \in Nat /\ DOMAIN parts = 1 .. Len(parts)
  BY SeqShape
<1>2. IsSeq(f) /\ Len(f) = Len(parts)
  BY <1>1, MadeShape
<1>3. \A i \in 1 .. Len(f) : IsSeq(f[i])
  BY <1>1, <1>2, PartTextShape
<1>. HIDE DEF f
<1>4. IsSeq(b)
  BY <1>2, <1>3, FlattenShape
<1>5. IsSeq(d) /\ IsSeq(Boundary)
  BY TupleShape DEF Boundary
<1>6. MultipartBody(parts, eol) = b \o d \o Boundary \o d \o eol
  BY DEF MultipartBody, f
<1>. HIDE DEF b, d
<1>7. IsSeq(b \o d \o Boundary \o d \o eol)
  BY <1>4, <1>5, ConcatsAre
<1>. QED
  BY <1>6, <1>7

LEMMA RequestTextShape ==
  ASSUME NEW method, NEW uri, IsSeq(uri), NEW header, NEW value, IsSeq(value), NEW content, IsSeq(content),
         NEW eol, IsSeq(eol)
  PROVE  LET text == RequestText(method, uri, header, value, content, eol)
         IN IsSeq(text) /\ text # <<>>
<1>. DEFINE a == <<method, " ">>
            b == <<" ", "HTTP/1.1">>
            c == <<"Host", ":", " ", "b">>
            d == <<header, ":", " ">>
            rest == uri \o b \o eol \o c \o eol \o d \o value \o eol \o eol \o content
            text == a \o uri \o b \o eol \o c \o eol \o d \o value \o eol \o eol \o content
            text1 == a \o uri \o b \o eol \o c \o eol
            text2 == text1 \o d \o value \o eol \o eol
<1>1. IsSeq(a) /\ IsSeq(b) /\ IsSeq(c) /\ IsSeq(d) /\ Len(a) = 2
  BY TupleShape
<1>2. RequestText(method, uri, header, value, content, eol) = text /\ text = text2 \o content
  BY DEF RequestText
<1>. HIDE DEF a, b, c, d
<1>3. \A s, t : IsSeq(s) /\ IsSeq(t) /\ Len(s) >= 2 => IsSeq(s \o t) /\ Len(s \o t) >= 2
  <2>1. ASSUME NEW s, NEW t, IsSeq(s), IsSeq(t), Len(s) >= 2 PROVE IsSeq(s \o t) /\ Len(s \o t) >= 2
    <3>1. IsSeq(s \o t) /\ Len(s \o t) = Len(s) + Len(t) /\ Len(s) \in Nat /\ Len(t) \in Nat
      BY <2>1, ConcatShape, SeqShape
    <3>. QED
      BY <2>1, <3>1
  <2>. QED
    BY <2>1
<1>4. IsSeq(text1) /\ Len(text1) >= 2
  <2>1. Len(a) >= 2
    BY <1>1
  <2>. QED
    BY <1>1, <1>3, <2>1
<1>. HIDE DEF text1
<1>5. IsSeq(text2) /\ Len(text2) >= 2
  BY <1>1, <1>3, <1>4
<1>. HIDE DEF text2, text
<1>6. IsSeq(text) /\ Len(text) >= 2
  BY <1>2, <1>3, <1>5
<1>7. text # <<>>
  <2>1. Len(<<>>) = 0
    OBVIOUS
  <2>. QED
    BY <1>6, <2>1
<1>. QED
  BY <1>2, <1>6, <1>7

LEMMA RowShape ==
  ASSUME NEW Row, NEW rows \in Seq(Row)
  PROVE  IsSeq(rows) /\ \A i \in 1 .. Len(rows) : rows[i] \in Row
BY SeqIs, ElementOfSeq

LEMMA TextShape ==
  ASSUME NEW a \in Asks
  PROVE  IsSeq(TextOf(a)) /\ TextOf(a) # <<>>
<1>1. IsSeq(CRLF) /\ IsSeq(<<LF>>) /\ IsSeq(<<>>) /\ IsSeq(Boundary) /\ IsSeq(Code)
  BY TupleShape DEF CRLF, Boundary, Code
<1>2. CASE a.route = "shorten"
  <2>. DEFINE Row == [name : Seq(FormChar), value : Seq(FormChar)]
  <2>1. a.pairs \in Seq(Row)
    BY <1>2, AsksAssumption
  <2>2. \A r \in Row : IsSeq(r.name) /\ IsSeq(r.value)
    BY SeqIs
  <2>. HIDE DEF Row
  <2>3. IsSeq(a.pairs) /\ \A i \in 1 .. Len(a.pairs) : a.pairs[i] \in Row
    BY <2>1, RowShape
  <2>4. IsSeq(FormBody(a.pairs))
    BY <2>2, <2>3, FormBodyShape
  <2>5. IsSeq(<<"/shorten">>) /\ IsSeq(<<"urlencoded">>)
    BY TupleShape
  <2>6. TextOf(a) = RequestText("POST", <<"/shorten">>, "Content-Type", <<"urlencoded">>, FormBody(a.pairs), CRLF)
    BY <1>2 DEF TextOf
  <2>. QED
    BY <1>1, <2>4, <2>5, <2>6, RequestTextShape
<1>3. CASE a.route = "upload"
  <2>. DEFINE Row == [name : Seq(STRING), filename : Seq(STRING), quoted : BOOLEAN, content : Seq(STRING)]
              q == <<"\"">>
              p == <<"multipart", ";", " ", "boundary", "=">>
              v == p \o (IF a.quoted THEN q \o Boundary \o q ELSE Boundary)
  <2>1. a.parts \in Seq(Row) /\ a.eol \in {CRLF, <<LF>>}
    BY <1>3, AsksAssumption
  <2>2. \A r \in Row : IsSeq(r.name) /\ IsSeq(r.filename) /\ IsSeq(r.content)
    BY SeqIs
  <2>. HIDE DEF Row
  <2>3. IsSeq(a.parts) /\ \A i \in 1 .. Len(a.parts) : a.parts[i] \in Row
    BY <2>1, RowShape
  <2>4. IsSeq(a.eol)
    BY <1>1, <2>1
  <2>5. IsSeq(MultipartBody(a.parts, a.eol))
    BY <2>2, <2>3, <2>4, MultipartShape
  <2>6. IsSeq(<<"/upload">>) /\ IsSeq(q) /\ IsSeq(p)
    BY TupleShape
  <2>7. TextOf(a) = RequestText("POST", <<"/upload">>, a.header, v, MultipartBody(a.parts, a.eol), a.eol)
    BY <1>3 DEF TextOf
  <2>. HIDE DEF q, p
  <2>8. IsSeq(v)
    BY <1>1, <2>6, ConcatsAre
  <2>. HIDE DEF v
  <2>. QED
    BY <2>4, <2>5, <2>6, <2>7, <2>8, RequestTextShape
<1>4. CASE a.route = "stats"
  <2>. DEFINE u == <<"/stats/">> \o Code \o (IF a.by = "query" THEN <<"?raw=1">> ELSE <<>>)
              h == IF a.by = "query" THEN "User-Agent" ELSE "Accept"
  <2>1. IsSeq(<<"/stats/">>) /\ IsSeq(<<"application/json">>) /\ IsSeq(IF a.by = "query" THEN <<"?raw=1">> ELSE <<>>)
    BY TupleShape
  <2>2. IsSeq(u)
    BY <1>1, <2>1, ConcatsAre
  <2>3. TextOf(a) = RequestText("GET", u, h, <<"application/json">>, <<>>, CRLF)
    BY <1>4 DEF TextOf
  <2>. HIDE DEF u, h
  <2>. QED
    BY <1>1, <2>1, <2>2, <2>3, RequestTextShape
<1>5. CASE a.route = "other"
  <2>1. IsSeq(a.uri) /\ IsSeq(<<"text/html">>)
    BY <1>5, AsksAssumption, TupleShape, SeqIs
  <2>2. TextOf(a) = RequestText(a.method, a.uri, "Accept", <<"text/html">>, <<>>, CRLF)
    BY <1>5 DEF TextOf
  <2>. QED
    BY <1>1, <2>1, <2>2, RequestTextShape
<1>. QED
  BY <1>2, <1>3, <1>4, <1>5, AsksAssumption

-----------------------------------------------------------------------------
(* The parts of an upload. *)

LEMMA FindBounds ==
  ASSUME NEW t, IsSeq(t), NEW word, NEW from \in Nat, from >= 1
  PROVE  LET p == Find(t, word, from)
         IN /\ p \in Nat /\ (p # npos => from <= p /\ p <= Len(t))
            /\ OrEnd(p, t) \in Nat /\ OrEnd(p, t) <= Len(t) + 1
<1>. DEFINE p == Find(t, word, from)
<1>1. Len(t) \in Nat
  BY SeqShape
<1>2. FirstPlace(p, t, word, from)
  BY FindIs
<1>. HIDE DEF p
<1>3. p \in Nat /\ (p # npos => from <= p /\ p <= Len(t))
  BY <1>1, <1>2 DEF FirstPlace
<1>. QED
  BY <1>1, <1>3 DEF p, OrEnd

LEMMA ParameterShape ==
  ASSUME NEW header, IsSeq(header), NEW name, IsSeq(name)
  PROVE  IsSeq(Parameter(header, name))
<1>. DEFINE at == Find(header, name, 1)
            start == at + Len(name)
            quote == Find(header, <<"\"">>, start + 1)
            stop == OrEnd(Find(header, <<";">>, start), header)
<1>1. Len(header) \in Nat /\ Len(name) \in Nat /\ at \in Nat
  BY SeqShape, FindBounds
<1>2. CASE at = npos \/ start > Len(header)
  BY <1>2, TupleShape DEF Parameter
<1>3. CASE ~(at = npos \/ start > Len(header))
  <2>1. start \in Nat /\ start >= 1
    <3>1. at # npos
      BY <1>3
    <3>. HIDE DEF at
    <3>. QED
      BY <1>1, <3>1 DEF npos
  <2>. HIDE DEF start
  <2>2. quote \in Nat /\ stop \in Nat
    <3>1. start + 1 \in Nat /\ start + 1 >= 1
      BY <2>1
    <3>. QED
      BY <2>1, <3>1, FindBounds
  <2>. HIDE DEF quote, stop
  <2>7. start \in Int /\ start + 1 \in Int /\ quote - 1 \in Int /\ stop - 1 \in Int
    BY <2>1, <2>2
  <2>3. IsSeq(SubSeq(header, start + 1, quote - 1))
    BY <2>7, CutShape
  <2>4. IsSeq(SubSeq(header, start, stop - 1))
    BY <2>7, CutShape
  <2>5. IsSeq(Trim(SubSeq(header, start, stop - 1)))
    <3>. DEFINE x == SubSeq(header, start, stop - 1)
    <3>1. x \in Seq(Range(x))
      BY <2>4 DEF IsSeq
    <3>. HIDE DEF x
    <3>2. Trim(x) \in Seq(Range(x))
      BY <3>1, TrimType DEF Trim
    <3>3. IsSeq(Trim(x))
      BY <3>2, SeqIs
    <3>. QED
      BY <3>3 DEF x
  <2>6. Parameter(header, name) \in
          {<<>>, SubSeq(header, start + 1, quote - 1), Trim(SubSeq(header, start, stop - 1))}
    BY <1>3 DEF Parameter, start, quote, stop
  <2>. QED
    BY <2>3, <2>5, <2>6, TupleShape
<1>. QED
  BY <1>2, <1>3

LEMMA HeaderLineShape ==
  ASSUME NEW t, IsSeq(t), NEW name
  PROVE  IsSeq(HeaderLine(t, name))
<1>. DEFINE at == Find(t, name, 1)
            stop == OrEnd(Find(t, <<LF>>, at), t)
<1>1. at \in Nat /\ (at # npos => 1 <= at)
  BY FindBounds
<1>2. CASE at = npos
  BY <1>2, TupleShape DEF HeaderLine
<1>3. CASE at # npos
  <2>1. HeaderLine(t, name) = SubSeq(t, at, stop - 1)
    BY <1>3 DEF HeaderLine
  <2>. HIDE DEF at
  <2>2. stop \in Nat
    BY <1>1, <1>3, FindBounds
  <2>. HIDE DEF stop
  <2>. QED
    BY <1>1, <2>1, <2>2, CutShape
<1>. QED
  BY <1>2, <1>3

LEMMA PartIs ==
  ASSUME NEW t, IsSeq(t), NEW boundary, IsSeq(boundary), NEW p \in Nat, p >= 1, PartAt(t, boundary, p).found
  PROVE  /\ IsSeq(PartAt(t, boundary, p).filename)
         /\ PartAt(t, boundary, p).behind \in Nat /\ PartAt(t, boundary, p).behind >= 1
<1>. DEFINE start == SkipLineEnd(t, p)
            data == HeadersEnd(t, start)
            next == Find(t, Marker(boundary), data)
            headers == SubSeq(t, start, data - 3)
            disposition == HeaderLine(headers, <<"Content-Disposition", ":">>)
            filename == Parameter(disposition, <<"file", "name", "=">>)
<1>1. ~(p > Len(t) \/ data = npos \/ next = npos)
  BY DEF PartAt, NoPart
<1>2. start \in Nat /\ start >= 1
  BY DEF SkipLineEnd
<1>. HIDE DEF start
<1>3. data \in Nat /\ data >= 1
  <2>1. Find(t, CRLF \o CRLF, start) \in Nat /\ Find(t, <<LF, LF>>, start) \in Nat
    BY <1>2, FindBounds
  <2>. QED
    BY <1>1, <2>1 DEF HeadersEnd, npos
<1>. HIDE DEF data
<1>4. next \in Nat
  BY <1>3, FindBounds
<1>. HIDE DEF next
<1>5. IsSeq(headers)
  BY <1>2, <1>3, CutShape
<1>. HIDE DEF headers
<1>6. IsSeq(disposition)
  BY <1>5, HeaderLineShape
<1>. HIDE DEF disposition
<1>7. IsSeq(filename)
  <2>1. IsSeq(<<"file", "name", "=">>)
    BY TupleShape
  <2>. QED
    BY <1>6, <2>1, ParameterShape
<1>. HIDE DEF filename
<1>8. Len(Marker(boundary)) \in Nat
  <2>1. IsSeq(<<"-", "-">>)
    BY TupleShape
  <2>. QED
    BY <2>1, ConcatShape, SeqShape DEF Marker
<1>9. /\ PartAt(t, boundary, p).filename = filename
      /\ PartAt(t, boundary, p).behind = next + Len(Marker(boundary))
  BY <1>1 DEF PartAt, start, data, next, headers, disposition, filename
<1>10. next >= 1
  BY <1>1, <1>4 DEF npos
<1>. QED
  BY <1>4, <1>7, <1>8, <1>9, <1>10

LEMMA BoundaryShape ==
  ASSUME NEW t, IsSeq(t), t # <<>>
  PROVE  IsSeq(BoundaryOf(ParseRequest(t))) /\ IsSeq(ParseRequest(t).body)
<1>. DEFINE Elem == Range(t) \cup {LF}
            request == ParseRequest(t)
            header == GetHeader(request, <<"Content-Type">>)
<1>1. t \in Seq(Elem) /\ LF \in Elem
  BY SeqMonotonic DEF IsSeq
<1>. HIDE DEF Elem
<1>2. request.body \in Seq(Elem) /\ request.headers \in FieldsOf(Elem)
  BY <1>1, RequestType
<1>. HIDE DEF request
<1>3. IsSeq(header)
  <2>. DEFINE same == {h \in DOMAIN request.headers : ToLower(h) = ToLower(<<"Content-Type">>)}
  <2>1. \A h \in DOMAIN request.headers : request.headers[h] \in Seq(Elem)
    BY <1>2 DEF FieldsOf
  <2>2. header = <<>> \/ \E h \in DOMAIN request.headers : header = request.headers[h]
    BY DEF GetHeader
  <2>. HIDE DEF header
  <2>. QED
    BY <2>1, <2>2, TupleShape, SeqIs
<1>. HIDE DEF header
<1>4. IsSeq(<<"boundary", "=">>)
  BY TupleShape
<1>5. IsSeq(Parameter(header, <<"boundary", "=">>))
  BY <1>3, <1>4, ParameterShape
<1>. QED
  BY <1>2, <1>5, SeqIs DEF BoundaryOf, ExtractBoundary, header, request

-----------------------------------------------------------------------------
(***************************************************************************)
(* The name that an upload is stored under.  What parse_multipart_form has *)
(* found of a name is some text, and nothing more is known of it.          *)
(***************************************************************************)

NameInv ==
  /\ pc # "compose" => IsSeq(raw) /\ raw # <<>>
  /\ pc \notin {"compose", "handle_request"} => IsSeq(body)
  /\ pc = "parse_part" => pos \in Nat /\ pos >= 1
  /\ \A n \in DOMAIN files : IsSeq(files[n].filename)
  /\ stored.kind = "file" => NameIsSound(stored.name, stored.filename)

LEMMA NameInit == Init => NameInv
BY NoFieldsType DEF Init, NameInv, Nothing

LEMMA NameStep == NameInv /\ [Next]_vars => NameInv'
<1>. SUFFICES ASSUME NameInv, [Next]_vars PROVE NameInv'
  OBVIOUS
<1>. USE DEF NameInv
<1>1. CASE Compose
  <2>1. IsSeq(raw') /\ raw' # <<>>
    BY <1>1, TextShape DEF Compose
  <2>. QED
    BY <1>1, <2>1 DEF Compose
<1>2. CASE HandleRequest
  <2>1. IsSeq(raw) /\ raw # <<>> /\ pc = "handle_request"
    BY <1>2 DEF HandleRequest
  <2>2. IsSeq(body')
    BY <1>2, <2>1, BoundaryShape DEF HandleRequest
  <2>3. pc' # "parse_part" /\ pc' # "compose"
    BY <1>2 DEF HandleRequest, Fail, Respond
  <2>4. UNCHANGED <<raw, files, stored>>
    BY <1>2 DEF HandleRequest
  <2>. QED
    BY <2>1, <2>2, <2>3, <2>4
<1>3. CASE ParseForm
  BY <1>3 DEF ParseForm, Fail, Respond
<1>4. CASE ShortenUrl
  <2>1. stored' = stored \/ stored'.kind = "url"
    <3>1. stored' = stored \/ \E url : stored' = [kind |-> "url", url |-> url]
      BY <1>4 DEF ShortenUrl
    <3>. QED
      BY <3>1
  <2>. QED
    BY <1>4, <2>1 DEF ShortenUrl, Fail, Succeed, Respond
<1>5. CASE FindFirstBoundary
  <2>. DEFINE boundary == BoundaryOf(ParseRequest(raw))
              first == Find(body, Marker(boundary), 1)
  <2>1. IsSeq(raw) /\ raw # <<>> /\ IsSeq(body)
    BY <1>5 DEF FindFirstBoundary
  <2>2. IsSeq(boundary) /\ first \in Nat /\ (first # npos => first >= 1)
    BY <2>1, BoundaryShape, FindBounds
  <2>3. Len(Marker(boundary)) \in Nat
    <3>1. IsSeq(<<"-", "-">>)
      BY TupleShape
    <3>. QED
      BY <2>2, <3>1, ConcatShape, SeqShape DEF Marker
  <2>4. pc' = "parse_part" => first # npos /\ pos' = first + Len(Marker(boundary))
    BY <1>5 DEF FindFirstBoundary, NoFileUploaded, Fail, Respond
  <2>. HIDE DEF first, boundary
  <2>5. pc' = "parse_part" => pos' \in Nat /\ pos' >= 1
    BY <2>2, <2>3, <2>4
  <2>. QED
    BY <1>5, <2>1, <2>5 DEF FindFirstBoundary, NoFileUploaded, Fail, Respond
<1>6. CASE ParsePart
  <2>. DEFINE boundary == BoundaryOf(ParseRequest(raw))
              part == PartAt(body, boundary, pos)
  <2>1. IsSeq(raw) /\ raw # <<>> /\ IsSeq(body) /\ pos \in Nat /\ pos >= 1
    BY <1>6 DEF ParsePart
  <2>2. IsSeq(boundary)
    BY <2>1, BoundaryShape
  <2>3. part.found => IsSeq(part.filename) /\ part.behind \in Nat /\ part.behind >= 1
    BY <2>1, <2>2, PartIs
  <2>4. files' = files \/ (part.found /\ files' = With(files, part.name, [filename |-> part.filename, data |-> part.content]))
    BY <1>6 DEF ParsePart
  <2>5. pc' = "parse_part" => part.found /\ pos' = part.behind
    BY <1>6 DEF ParsePart
  <2>6. pc' \in {"parse_part", "file_of_form"} /\ UNCHANGED <<raw, body, stored>>
    BY <1>6 DEF ParsePart
  <2>. HIDE DEF part
  <2>7. \A n \in DOMAIN files' : IsSeq(files'[n].filename)
    <3>. DEFINE file == [filename |-> part.filename, data |-> part.content]
    <3>1. CASE files' = files
      BY <3>1
    <3>2. CASE part.found /\ files' = With(files, part.name, file)
      <4>1. Updated(files', files, part.name, file) /\ file.filename = part.filename
        BY <3>2, WithIs
      <4>. HIDE DEF file
      <4>. QED
        BY <2>3, <3>2, <4>1 DEF Updated
    <3>. QED
      BY <2>4, <3>1, <3>2
  <2>. QED
    BY <2>1, <2>3, <2>5, <2>6, <2>7
<1>7. CASE UploadFile
  <2>. DEFINE file == files[<<"file">>]
              name == SanitizeFilename(file.filename)
  <2>1. stored' = stored \/ (~NoFileField /\ stored' = [kind |-> "file", filename |-> file.filename, data |-> file.data, name |-> name]
                             /\ ValidateFileType(file.filename, file.data).is_valid)
    BY <1>7 DEF UploadFile
  <2>2. ASSUME ~NoFileField, ValidateFileType(file.filename, file.data).is_valid
        PROVE  NameIsSound(name, file.filename)
    <3>1. IsSeq(file.filename)
      BY <2>2 DEF NoFileField
    <3>2. Extension(file.filename) \in AllowedExtension
      BY <2>2 DEF ValidateFileType
    <3>. HIDE DEF file
    <3>. QED
      BY <3>1, <3>2, SanitizedIs DEF IsSeq
  <2>3. stored'.kind = "file" => NameIsSound(stored'.name, stored'.filename)
    <3>1. CASE stored' = stored
      BY <3>1
    <3>2. CASE stored' # stored
      <4>. HIDE DEF file, name
      <4>1. NameIsSound(name, file.filename) /\ stored'.name = name /\ stored'.filename = file.filename
        BY <2>1, <2>2, <3>2
      <4>. QED
        BY <4>1
    <3>. QED
      BY <3>1, <3>2
  <2>4. UNCHANGED <<raw, body, files>> /\ pc' = "done" /\ pc = "file_of_form"
    BY <1>7 DEF UploadFile, Fail, Succeed, Respond
  <2>. QED
    BY <2>3, <2>4
<1>8. CASE HandleStats
  BY <1>8 DEF HandleStats, Fail, Succeed, Respond
<1>9. CASE HandleQrCode
  BY <1>9 DEF HandleQrCode, Fail, Respond
<1>10. CASE UNCHANGED vars
  BY <1>10 DEF vars
<1>. QED
  BY <1>1, <1>2, <1>3, <1>4, <1>5, <1>6, <1>7, <1>8, <1>9, <1>10 DEF Next

(***************************************************************************)
(* Whatever a client sends, the name that its file gets on disk is one     *)
(* path component of bounded length, not a directory's, and has the        *)
(* extension that validate_file_type accepted, if any letter comes before. *)
(***************************************************************************)
THEOREM StoredNamesAreSound == Spec => []StoredNameSound
<1>1. NameInv => StoredNameSound
  BY DEF NameInv, NameIsSound, StoredNameSound
<1>. QED
  BY <1>1, NameInit, NameStep, PTL DEF Spec

-----------------------------------------------------------------------------
(* Percent encoding, and back. *)

LEMMA DigitsAre ==
  /\ \A n \in 0 .. 9 : DigitOf[n] \in Digit /\ DigitValue[DigitOf[n]] = n
  /\ \A c \in Digit : DigitValue[c] \in 0 .. 9
<1>1. \A n \in 0 .. 9 : \E c \in Digit : DigitValue[c] = n
  BY DEF Digit, DigitValue
<1>2. \A n \in 0 .. 9 : DigitOf[n] = CHOOSE c \in Digit : DigitValue[c] = n
  BY DEF DigitOf
<1>3. \A c \in Digit : DigitValue[c] \in 0 .. 9
  BY DEF Digit, DigitValue
<1>. QED
  BY <1>1, <1>2, <1>3

HexChar == Digit \cup {"A", "B", "C", "D", "E", "F"}

LEMMA HexIs ==
  \A n \in 0 .. 15 : HexDigit[n] \in HexChar /\ HexValue(HexDigit[n]) = n
<1>1. ASSUME NEW n \in 0 .. 9 PROVE HexDigit[n] \in HexChar /\ HexValue(HexDigit[n]) = n
  <2>1. HexDigit[n] = DigitOf[n]
    BY DEF HexDigit
  <2>2. DigitOf[n] \in Digit /\ DigitValue[DigitOf[n]] = n
    BY DigitsAre
  <2>. QED
    BY <2>1, <2>2 DEF HexChar, HexValue
<1>2. HexDigit[10] = "A" /\ HexDigit[11] = "B" /\ HexDigit[12] = "C" /\ HexDigit[13] = "D"
      /\ HexDigit[14] = "E" /\ HexDigit[15] = "F"
  BY DEF HexDigit
<1>3. ASSUME NEW n \in 10 .. 15 PROVE HexDigit[n] \in HexChar /\ HexValue(HexDigit[n]) = n
  <2>1. n = 10 \/ n = 11 \/ n = 12 \/ n = 13 \/ n = 14 \/ n = 15
    OBVIOUS
  <2>. QED
    BY <1>2, <2>1 DEF HexChar, HexValue, Digit
<1>4. \A n \in 0 .. 15 : n \in 0 .. 9 \/ n \in 10 .. 15
  OBVIOUS
<1>. QED
  BY <1>1, <1>3, <1>4

LEMMA BytesAre ==
  \A c \in DOMAIN Byte :
    /\ CharOf(Byte[c]) = c
    /\ Byte[c] \in 0 .. 255 /\ Byte[c] \div 16 \in 0 .. 15 /\ Byte[c] % 16 \in 0 .. 15
    /\ 16 * (Byte[c] \div 16) + (Byte[c] % 16) = Byte[c]
<1>. DEFINE C == DOMAIN Byte
            comma == ","
            semicolon == ";"
<1>5. C = {"\t", LF, CR, "!", "#", "%", "&", "+", comma, "/", ":", semicolon, "<", "=", "?", "@", "[", "]"}
  BY DEF Byte
<1>6. /\ Byte["\t"] = 9 /\ Byte[LF] = 10 /\ Byte[CR] = 13 /\ Byte["!"] = 33 /\ Byte["#"] = 35 /\ Byte["%"] = 37
      /\ Byte["&"] = 38 /\ Byte["+"] = 43 /\ Byte[comma] = 44 /\ Byte["/"] = 47 /\ Byte[":"] = 58 /\ Byte[semicolon] = 59
      /\ Byte["<"] = 60 /\ Byte["="] = 61 /\ Byte["?"] = 63 /\ Byte["@"] = 64 /\ Byte["["] = 91 /\ Byte["]"] = 93
  BY DEF Byte, LF, CR
<1>. HIDE DEF C, comma, semicolon
<1>1. \A c \in C : Byte[c] \in 0 .. 255
  BY <1>5, <1>6
<1>2. \A c, d \in C : Byte[c] = Byte[d] => c = d
  BY <1>5, <1>6
<1>. USE DEF C
<1>3. \A b \in 0 .. 255 : b \div 16 \in 0 .. 15 /\ b % 16 \in 0 .. 15 /\ 16 * (b \div 16) + (b % 16) = b
  OBVIOUS
<1>4. \A c \in DOMAIN Byte : CharOf(Byte[c]) = c
  BY <1>2 DEF CharOf
<1>. QED
  BY <1>1, <1>3, <1>4

(* What a form is written with; it has no blank, line end, = and &. *)
CodeChar == {c \in STRING : IsLetterOrDigit(c)} \cup {"-", "_", ".", "~", "+", "%"} \cup HexChar

PlainCode(c) == Encoded(c) = <<c>> /\ c \notin {"%", "+"} /\ c \in CodeChar
BlankCode(c) == Encoded(c) = <<"+">> /\ c = " " /\ "+" \in CodeChar
EscapeCode(c, h, l) ==
  /\ Encoded(c) = <<"%", h, l>> /\ h \in HexChar /\ l \in HexChar
  /\ HexValue(h) # -1 /\ HexValue(l) # -1
  /\ CharOf(16 * HexValue(h) + HexValue(l)) = c

LEMMA EncodedIs ==
  ASSUME NEW c \in FormChar
  PROVE  PlainCode(c) \/ BlankCode(c) \/ \E h, l : EscapeCode(c, h, l)
<1>1. CASE c \in STRING /\ IsLetterOrDigit(c)
  <2>1. c \notin {"%", "+"}
    BY <1>1 DEF IsLetterOrDigit, IsLetter, Punctuation, Digit
  <2>. QED
    BY <1>1, <2>1 DEF PlainCode, Encoded, CodeChar
<1>2. CASE c \in {"-", "_", ".", "~"}
  BY <1>2 DEF PlainCode, Encoded, CodeChar
<1>3. CASE c = " "
  <2>1. ~IsLetterOrDigit(c) /\ c \notin {"-", "_", ".", "~"}
    BY <1>3 DEF IsLetterOrDigit, IsLetter, Blank, Digit
  <2>. QED
    BY <1>3, <2>1 DEF BlankCode, Encoded, CodeChar
<1>4. CASE c \in DOMAIN Byte
  <2>1. ~IsLetterOrDigit(c) /\ c \notin {"-", "_", ".", "~"} /\ c # " "
    BY <1>4 DEF IsLetterOrDigit, IsLetter, Blank, Punctuation, Digit, Byte, LF, CR
  <2>. DEFINE h == HexDigit[Byte[c] \div 16]
              l == HexDigit[Byte[c] % 16]
  <2>2. Encoded(c) = <<"%", h, l>>
    BY <2>1 DEF Encoded
  <2>3. h \in HexChar /\ l \in HexChar /\ HexValue(h) = Byte[c] \div 16 /\ HexValue(l) = Byte[c] % 16
    BY <1>4, BytesAre, HexIs
  <2>4. HexValue(h) # -1 /\ HexValue(l) # -1 /\ 16 * HexValue(h) + HexValue(l) = Byte[c]
    BY <1>4, <2>3, BytesAre
  <2>. HIDE DEF h, l
  <2>5. EscapeCode(c, h, l)
    BY <1>4, <2>2, <2>3, <2>4, BytesAre DEF EscapeCode
  <2>. QED
    BY <2>5
<1>. QED
  BY <1>1, <1>2, <1>3, <1>4 DEF FormChar

LEMMA HexCharsAre ==
  HexChar \subseteq CodeChar /\ "%" \notin HexChar /\ "+" \notin HexChar
BY DEF CodeChar, HexChar, Digit

LEMMA CodeCharsArePlain ==
  \A c \in {"=", "&", LF, CR, " "} : c \notin CodeChar
BY DEF CodeChar, HexChar, Digit, IsLetterOrDigit, IsLetter, Blank, Punctuation, LF, CR

(* No escape is cut off at the end. *)
Closed(e) == \A i \in 1 .. Len(e) : e[i] = "%" => i + 2 <= Len(e)

Escapes(t) == {i \in DOMAIN t : IsEscape(t, i)}
Pieces(t) == [i \in DOMAIN t |-> Decoded(t, Escapes(t), i)]

LEMMA DecodeIs == \A t : UrlDecode(t) = FlattenSeq(Pieces(t))
BY DEF UrlDecode, Pieces, Escapes

(* The characters that come out of what is written. *)
Readable == CodeChar \cup DOMAIN Byte \cup {" ", "other"}

LEMMA NoOverlap ==
  \A t \in Seq(CodeChar) : \A i \in Escapes(t) : i - 1 \notin Escapes(t) /\ i - 2 \notin Escapes(t)
<1>. SUFFICES ASSUME NEW t \in Seq(CodeChar), NEW i \in Escapes(t)
              PROVE  i - 1 \notin Escapes(t) /\ i - 2 \notin Escapes(t)
  OBVIOUS
<1>1. HexValue("%") = -1
  BY DEF HexValue, Digit
<1>2. t[i] = "%"
  BY DEF Escapes, IsEscape
<1>3. \A k \in Int : k \in Escapes(t) => HexValue(t[k + 1]) # -1 /\ HexValue(t[k + 2]) # -1
  BY DEF Escapes, IsEscape
<1>4. i \in Nat /\ i - 1 \in Int /\ i - 2 \in Int /\ (i - 1) + 1 = i /\ (i - 2) + 2 = i
  BY LenProperties DEF Escapes
<1>. QED
  BY <1>1, <1>2, <1>3, <1>4

LEMMA PieceType ==
  ASSUME NEW t \in Seq(CodeChar), NEW i \in DOMAIN t
  PROVE  Decoded(t, Escapes(t), i) \in Seq(Readable)
<1>. DEFINE escape == Escapes(t)
<1>0. i \in escape => i - 1 \notin escape /\ i - 2 \notin escape
  BY NoOverlap
<1>. HIDE DEF escape
<1>1. t[i] \in CodeChar
  BY LenProperties, ElementOfSeq
<1>2. \A byte : CharOf(byte) \in Readable
  BY DEF CharOf, Readable
<1>3. \A c \in Readable : <<c>> \in Seq(Readable)
  OBVIOUS
<1>4. (IF t[i] = "+" THEN " " ELSE t[i]) \in Readable
  BY <1>1 DEF Readable
<1>5. CASE i \in escape
  <2>1. Decoded(t, escape, i) = <<CharOf(16 * HexValue(t[i + 1]) + HexValue(t[i + 2]))>>
    BY <1>0, <1>5 DEF Decoded
  <2>. QED
    BY <1>2, <1>3, <2>1 DEF escape
<1>6. CASE i \notin escape /\ (i - 1 \in escape \/ i - 2 \in escape)
  <2>1. Decoded(t, escape, i) = <<>>
    BY <1>6 DEF Decoded
  <2>. QED
    BY <2>1 DEF escape
<1>7. CASE ~(i \in escape) /\ ~(i - 1 \in escape \/ i - 2 \in escape)
  <2>. DEFINE c == IF t[i] = "+" THEN " " ELSE t[i]
  <2>1. Decoded(t, escape, i) = <<c>>
    BY <1>7 DEF Decoded
  <2>2. c \in Readable
    BY <1>4
  <2>. HIDE DEF c
  <2>. QED
    BY <1>3, <2>1, <2>2 DEF escape
<1>. QED
  BY <1>5, <1>6, <1>7 DEF escape

LEMMA PiecesType ==
  ASSUME NEW t \in Seq(CodeChar)
  PROVE  /\ Pieces(t) \in Seq(Seq(Readable)) /\ Len(Pieces(t)) = Len(t)
         /\ \A i \in 1 .. Len(t) : Pieces(t)[i] = Decoded(t, Escapes(t), i)
<1>. DEFINE Row == Seq(Readable)
            p == Pieces(t)
            n == Len(t)
<1>1. n \in Nat /\ DOMAIN t = 1 .. n
  BY LenProperties
<1>2. \A i \in 1 .. n : p[i] = Decoded(t, Escapes(t), i) /\ Decoded(t, Escapes(t), i) \in Row
  BY <1>1, PieceType DEF Pieces
<1>3. p = [i \in 1 .. n |-> p[i]]
  BY <1>1 DEF Pieces
<1>. HIDE DEF p, n, Row
<1>4. p \in [1 .. n -> Row]
  BY <1>2, <1>3
<1>5. p \in Seq(Row) /\ Len(p) = n
  BY <1>1, <1>4, SeqDef, LenProperties
<1>. QED
  BY <1>2, <1>5 DEF p, n, Row

(* What stands in front of a closed text and behind it changes no escape. *)
LEMMA EscapesOfTwo ==
  ASSUME NEW e \in Seq(CodeChar), Closed(e), NEW w \in Seq(CodeChar)
  PROVE  /\ e \o w \in Seq(CodeChar) /\ Len(e \o w) = Len(e) + Len(w)
         /\ \A i \in 1 .. Len(e) : Decoded(e \o w, Escapes(e \o w), i) = Decoded(e, Escapes(e), i)
         /\ \A j \in 1 .. Len(w) :
              Decoded(e \o w, Escapes(e \o w), Len(e) + j) = Decoded(w, Escapes(w), j)
<1>. DEFINE t == e \o w
            n == Len(e)
            m == Len(w)
<1>1. /\ n \in Nat /\ m \in Nat /\ DOMAIN e = 1 .. n /\ DOMAIN w = 1 .. m
      /\ t \in Seq(CodeChar) /\ Len(t) = n + m
      /\ \A i \in 1 .. n + m : t[i] = IF i <= n THEN e[i] ELSE w[i - n]
  BY LenProperties, ConcatProperties
<1>2. DOMAIN t = 1 .. n + m
  BY <1>1, LenProperties
<1>3. \A i \in 1 .. n : e[i] = "%" => i + 2 <= n
  BY DEF Closed
<1>. HIDE DEF t
<1>4. (\A i \in 1 .. n : t[i] = e[i]) /\ \A j \in 1 .. m : t[n + j] = w[j]
  <2>1. \A i \in 1 .. n : i \in 1 .. n + m /\ i <= n
    BY <1>1
  <2>2. \A j \in 1 .. m : n + j \in 1 .. n + m /\ ~(n + j <= n) /\ (n + j) - n = j
    BY <1>1
  <2>. HIDE DEF n, m
  <2>. QED
    BY <1>1, <2>1, <2>2
<1>. DEFINE A == Escapes(e)
            B == Escapes(w)
            C == Escapes(t)
<1>5. /\ A = {i \in 1 .. n : IsEscape(e, i)} /\ B = {i \in 1 .. m : IsEscape(w, i)}
      /\ C = {i \in 1 .. n + m : IsEscape(t, i)}
  BY <1>1, <1>2 DEF Escapes
<1>6. \A i \in 1 .. n : IsEscape(t, i) <=> IsEscape(e, i)
  <2>. SUFFICES ASSUME NEW i \in 1 .. n PROVE IsEscape(t, i) <=> IsEscape(e, i)
    OBVIOUS
  <2>1. t[i] = e[i]
    BY <1>4
  <2>2. CASE e[i] # "%"
    BY <2>1, <2>2 DEF IsEscape
  <2>3. CASE e[i] = "%"
    <3>1. i + 2 <= n /\ i + 2 <= n + m /\ i + 1 \in 1 .. n /\ i + 2 \in 1 .. n
      BY <1>1, <1>3, <2>3
    <3>2. t[i + 1] = e[i + 1] /\ t[i + 2] = e[i + 2]
      BY <1>4, <3>1
    <3>. QED
      BY <1>1, <2>1, <3>1, <3>2 DEF IsEscape
  <2>. QED
    BY <2>2, <2>3
<1>7. \A j \in 1 .. m : IsEscape(t, n + j) <=> IsEscape(w, j)
  <2>. SUFFICES ASSUME NEW j \in 1 .. m PROVE IsEscape(t, n + j) <=> IsEscape(w, j)
    OBVIOUS
  <2>1. t[n + j] = w[j] /\ ((n + j) + 2 <= n + m <=> j + 2 <= m)
    BY <1>1, <1>4
  <2>2. CASE ~(j + 2 <= m)
    BY <1>1, <2>1, <2>2 DEF IsEscape
  <2>3. CASE j + 2 <= m
    <3>1. j + 1 \in 1 .. m /\ j + 2 \in 1 .. m /\ (n + j) + 1 = n + (j + 1) /\ (n + j) + 2 = n + (j + 2)
      BY <1>1, <2>3
    <3>2. t[(n + j) + 1] = w[j + 1] /\ t[(n + j) + 2] = w[j + 2]
      BY <1>4, <3>1
    <3>. QED
      BY <1>1, <2>1, <3>2 DEF IsEscape
  <2>. QED
    BY <2>2, <2>3
<1>8. \A i \in A : i + 2 <= n
  BY <1>3, <1>5 DEF IsEscape
<1>9. \A i \in 1 .. n : /\ i \in C <=> i \in A
                        /\ i - 1 \in C <=> i - 1 \in A
                        /\ i - 2 \in C <=> i - 2 \in A
  <2>1. \A k \in Int : k <= n => (k \in C <=> k \in A)
    BY <1>1, <1>5, <1>6
  <2>2. \A i \in 1 .. n : i \in Int /\ i - 1 \in Int /\ i - 2 \in Int /\ i <= n /\ i - 1 <= n /\ i - 2 <= n
    BY <1>1
  <2>. HIDE DEF A, C
  <2>. QED
    BY <2>1, <2>2
<1>10. \A j \in 1 .. m : /\ n + j \in C <=> j \in B
                         /\ (n + j) - 1 \in C <=> j - 1 \in B
                         /\ (n + j) - 2 \in C <=> j - 2 \in B
  <2>1. ASSUME NEW k \in Int, k <= m, k >= -1 PROVE n + k \in C <=> k \in B
    <3>1. CASE k >= 1
      <4>1. k \in 1 .. m /\ n + k \in 1 .. n + m
        BY <1>1, <2>1, <3>1
      <4>. QED
        BY <1>5, <1>7, <4>1
    <3>2. CASE k < 1
      <4>1. k \notin B
        BY <1>5, <3>2
      <4>2. n + k \notin C
        <5>. SUFFICES ASSUME n + k \in C PROVE FALSE
          OBVIOUS
        <5>1. n + k \in 1 .. n
          BY <1>1, <1>5, <3>2
        <5>2. n + k \in A
          BY <1>9, <5>1
        <5>3. (n + k) + 2 <= n
          BY <1>8, <5>2
        <5>. QED
          BY <1>1, <2>1, <5>3
      <4>. QED
        BY <4>1, <4>2
    <3>. QED
      BY <2>1, <3>1, <3>2
  <2>2. \A j \in 1 .. m : /\ j \in Int /\ j <= m /\ j >= -1
                          /\ j - 1 \in Int /\ j - 1 <= m /\ j - 1 >= -1 /\ (n + j) - 1 = n + (j - 1)
                          /\ j - 2 \in Int /\ j - 2 <= m /\ j - 2 >= -1 /\ (n + j) - 2 = n + (j - 2)
    BY <1>1
  <2>. HIDE DEF B, C, n, m
  <2>. QED
    BY <2>1, <2>2
<1>11. ASSUME NEW i \in 1 .. n PROVE Decoded(t, C, i) = Decoded(e, A, i)
  <2>1. t[i] = e[i] /\ (i \in C <=> i \in A) /\ (i - 1 \in C <=> i - 1 \in A) /\ (i - 2 \in C <=> i - 2 \in A)
    BY <1>4, <1>9
  <2>2. i \in A => t[i + 1] = e[i + 1] /\ t[i + 2] = e[i + 2]
    <3>1. i \in A => i + 1 \in 1 .. n /\ i + 2 \in 1 .. n
      BY <1>1, <1>8
    <3>. QED
      BY <1>4, <3>1
  <2>. HIDE DEF A, C
  <2>. QED
    BY <2>1, <2>2 DEF Decoded
<1>12. ASSUME NEW j \in 1 .. m PROVE Decoded(t, C, n + j) = Decoded(w, B, j)
  <2>1. /\ t[n + j] = w[j] /\ (n + j \in C <=> j \in B) /\ ((n + j) - 1 \in C <=> j - 1 \in B)
        /\ ((n + j) - 2 \in C <=> j - 2 \in B)
    BY <1>4, <1>10
  <2>2. j \in B => t[(n + j) + 1] = w[j + 1] /\ t[(n + j) + 2] = w[j + 2]
    <3>1. j \in B => j + 2 <= m
      BY <1>5 DEF IsEscape
    <3>2. j \in B => j + 1 \in 1 .. m /\ j + 2 \in 1 .. m /\ (n + j) + 1 = n + (j + 1) /\ (n + j) + 2 = n + (j + 2)
      BY <1>1, <3>1
    <3>. QED
      BY <1>4, <3>2
  <2>. HIDE DEF B, C, n
  <2>. QED
    BY <2>1, <2>2 DEF Decoded
<1>. QED
  BY <1>1, <1>11, <1>12 DEF t

LEMMA DecodeOfTwo ==
  ASSUME NEW e \in Seq(CodeChar), Closed(e), NEW w \in Seq(CodeChar)
  PROVE  UrlDecode(e \o w) = UrlDecode(e) \o UrlDecode(w)
<1>. DEFINE t == e \o w
            p == Pieces(e)
            q == Pieces(w)
            r == Pieces(t)
            n == Len(e)
            m == Len(w)
            Row == Seq(Readable)
<1>1. /\ t \in Seq(CodeChar) /\ Len(t) = n + m
      /\ \A i \in 1 .. n : Decoded(t, Escapes(t), i) = Decoded(e, Escapes(e), i)
      /\ \A j \in 1 .. m : Decoded(t, Escapes(t), n + j) = Decoded(w, Escapes(w), j)
  BY EscapesOfTwo
<1>2. n \in Nat /\ m \in Nat
  BY LenProperties
<1>. HIDE DEF t
<1>3. /\ p \in Seq(Row) /\ q \in Seq(Row) /\ r \in Seq(Row)
      /\ Len(p) = n /\ Len(q) = m /\ Len(r) = n + m
      /\ \A i \in 1 .. n : p[i] = Decoded(e, Escapes(e), i)
      /\ \A j \in 1 .. m : q[j] = Decoded(w, Escapes(w), j)
      /\ \A i \in 1 .. n + m : r[i] = Decoded(t, Escapes(t), i)
  BY <1>1, PiecesType
<1>. HIDE DEF p, q, r, n, m, Row
<1>4. p \o q \in Seq(Row) /\ Len(p \o q) = n + m
      /\ \A i \in 1 .. n + m : (p \o q)[i] = IF i <= n THEN p[i] ELSE q[i - n]
  BY <1>3, ConcatProperties
<1>5. ASSUME NEW i \in 1 .. n + m PROVE r[i] = (p \o q)[i]
  <2>1. CASE i <= n
    <3>1. i \in 1 .. n
      BY <1>2, <2>1
    <3>. QED
      BY <1>1, <1>3, <1>4, <2>1, <3>1
  <2>2. CASE ~(i <= n)
    <3>1. i - n \in 1 .. m /\ n + (i - n) = i
      BY <1>2, <2>2
    <3>. QED
      BY <1>1, <1>3, <1>4, <2>2, <3>1
  <2>. QED
    BY <2>1, <2>2
<1>6. r = p \o q
  BY <1>3, <1>4, <1>5, SameSequence
<1>7. FlattenSeq(p \o q) = FlattenSeq(p) \o FlattenSeq(q)
  BY <1>3, FlattenOfTwo DEF Row
<1>. QED
  BY <1>6, <1>7, DecodeIs DEF p, q, r, t

LEMMA FlattenWithNone ==
  ASSUME NEW Elem, NEW s \in Seq(Elem)
  PROVE  FlattenSeq(<<s>>) = s /\ FlattenSeq(<<s, <<>>, <<>>>>) = s
<1>. DEFINE Row == Seq(Elem)
            a == <<s>>
            b == <<s, <<>>>>
            c == <<s, <<>>, <<>>>>
<1>1. <<>> \in Row /\ s \in Row /\ s \o <<>> = s /\ <<>> \o s = s
  BY EmptySeq, ConcatEmptySeq
<1>2. a = Append(<<>>, s) /\ b = Append(a, <<>>) /\ c = Append(b, <<>>)
  OBVIOUS
<1>3. a \in Seq(Row) /\ b \in Seq(Row) /\ <<>> \in Seq(Row)
  <2>. HIDE DEF Row
  <2>. QED
    BY <1>1
<1>. HIDE DEF a, b, c
<1>4. FlattenSeq(a) = <<>> \o s
  BY <1>1, <1>2, <1>3, FlattenGrows, FlattenOfEmpty
<1>5. FlattenSeq(b) = FlattenSeq(a) \o <<>> /\ FlattenSeq(c) = FlattenSeq(b) \o <<>>
  BY <1>1, <1>2, <1>3, FlattenGrows
<1>. QED
  BY <1>1, <1>4, <1>5 DEF a, c

(* The code of one character: what it is written with, and what it reads. *)
CodeIs(c) ==
  /\ Encoded(c) \in Seq(CodeChar) /\ Len(Encoded(c)) > 0 /\ Closed(Encoded(c))
  /\ UrlDecode(Encoded(c)) = <<c>>

ReadAs(c, d) == d = IF c = "+" THEN " " ELSE c

LEMMA OneCharDecodes ==
  ASSUME NEW c, NEW d, c # "%", ReadAs(c, d)
  PROVE  UrlDecode(<<c>>) = <<d>> /\ Closed(<<c>>)
<1>. DEFINE t == <<c>>
<1>1. DOMAIN t = {1} /\ t[1] = c /\ Len(t) = 1
  OBVIOUS
<1>2. Escapes(t) = {}
  BY <1>1 DEF Escapes, IsEscape
<1>3. Decoded(t, {}, 1) = <<d>>
  <2>1. 1 \notin {} /\ 1 - 1 \notin {} /\ 1 - 2 \notin {}
    OBVIOUS
  <2>. QED
    BY <1>1, <2>1 DEF Decoded, ReadAs
<1>4. Pieces(t) = << <<d>> >>
  <2>1. Pieces(t) = [i \in {1} |-> Decoded(t, {}, i)]
    BY <1>1, <1>2 DEF Pieces
  <2>. HIDE DEF t
  <2>2. Pieces(t) = [i \in 1 .. 1 |-> <<d>>]
    BY <1>3, <2>1
  <2>. QED
    BY <2>2
<1>5. FlattenSeq(<< <<d>> >>) = <<d>>
  <2>1. <<d>> \in Seq({d})
    OBVIOUS
  <2>. QED
    BY <2>1, FlattenWithNone
<1>. QED
  BY <1>1, <1>4, <1>5, DecodeIs DEF Closed

LEMMA EscapeDecodes ==
  ASSUME NEW c, NEW h, NEW l, EscapeCode(c, h, l)
  PROVE  UrlDecode(<<"%", h, l>>) = <<c>> /\ Closed(<<"%", h, l>>)
<1>. DEFINE t == <<"%", h, l>>
<1>1. DOMAIN t = {1, 2, 3} /\ t[1] = "%" /\ t[2] = h /\ t[3] = l /\ Len(t) = 3
  OBVIOUS
<1>2. h # "%" /\ l # "%" /\ HexValue(h) # -1 /\ HexValue(l) # -1
      /\ CharOf(16 * HexValue(h) + HexValue(l)) = c
  BY HexCharsAre DEF EscapeCode
<1>. HIDE DEF t
<1>3. 1 + 1 = 2 /\ 1 + 2 = 3 /\ 2 - 1 = 1 /\ 3 - 2 = 1 /\ 3 <= 3 /\ 2 # 1 /\ 3 # 1 /\ 1 - 1 = 0 /\ 0 # 1 /\ 1 - 2 # 1
  OBVIOUS
<1>4. IsEscape(t, 1) /\ ~IsEscape(t, 2) /\ ~IsEscape(t, 3)
  BY <1>1, <1>2, <1>3 DEF IsEscape
<1>5. Escapes(t) = {1}
  BY <1>1, <1>4 DEF Escapes
<1>6. Decoded(t, {1}, 1) = <<c>>
  BY <1>1, <1>2, <1>3 DEF Decoded
<1>7. Decoded(t, {1}, 2) = <<>> /\ Decoded(t, {1}, 3) = <<>>
  BY <1>3 DEF Decoded
<1>8. Pieces(t) = << <<c>>, <<>>, <<>> >>
  <2>1. Pieces(t) = [i \in {1, 2, 3} |-> Decoded(t, {1}, i)]
    BY <1>1, <1>5 DEF Pieces
  <2>2. 1 .. 3 = {1, 2, 3}
    OBVIOUS
  <2>3. Pieces(t) = [i \in 1 .. 3 |-> IF i = 1 THEN <<c>> ELSE <<>>]
    BY <1>6, <1>7, <2>1, <2>2
  <2>. QED
    BY <2>3
<1>9. FlattenSeq(<< <<c>>, <<>>, <<>> >>) = <<c>>
  <2>1. <<c>> \in Seq({c})
    OBVIOUS
  <2>. QED
    BY <2>1, FlattenWithNone
<1>10. Closed(t)
  <2>1. 1 .. 3 = {1, 2, 3}
    OBVIOUS
  <2>. QED
    BY <1>1, <1>2, <1>3, <2>1 DEF Closed
<1>. QED
  BY <1>8, <1>9, <1>10, DecodeIs DEF t

LEMMA EncodedDecodes == \A c \in FormChar : CodeIs(c)
<1>. SUFFICES ASSUME NEW c \in FormChar PROVE CodeIs(c)
  OBVIOUS
<1>1. CASE PlainCode(c)
  <2>1. Encoded(c) = <<c>> /\ c # "%" /\ c # "+" /\ c \in CodeChar
    BY <1>1 DEF PlainCode
  <2>2. UrlDecode(<<c>>) = <<c>> /\ Closed(<<c>>)
    BY <2>1, OneCharDecodes DEF ReadAs
  <2>3. <<c>> \in Seq(CodeChar) /\ Len(<<c>>) > 0
    BY <2>1
  <2>. QED
    BY <2>1, <2>2, <2>3 DEF CodeIs
<1>2. CASE BlankCode(c)
  <2>. DEFINE plus == "+"
  <2>1. Encoded(c) = <<plus>> /\ plus \in CodeChar /\ plus # "%" /\ ReadAs(plus, c)
    BY <1>2 DEF BlankCode, ReadAs
  <2>. HIDE DEF plus
  <2>2. UrlDecode(<<plus>>) = <<c>> /\ Closed(<<plus>>)
    BY <2>1, OneCharDecodes
  <2>3. <<plus>> \in Seq(CodeChar) /\ Len(<<plus>>) > 0
    BY <2>1
  <2>. QED
    BY <2>1, <2>2, <2>3 DEF CodeIs
<1>3. ASSUME NEW h, NEW l, EscapeCode(c, h, l) PROVE CodeIs(c)
  <2>1. Encoded(c) = <<"%", h, l>> /\ "%" \in CodeChar /\ h \in CodeChar /\ l \in CodeChar
    BY <1>3, HexCharsAre DEF EscapeCode, CodeChar
  <2>2. UrlDecode(<<"%", h, l>>) = <<c>> /\ Closed(<<"%", h, l>>)
    BY <1>3, EscapeDecodes
  <2>3. <<"%", h, l>> \in Seq(CodeChar) /\ Len(<<"%", h, l>>) > 0
    BY <2>1
  <2>. QED
    BY <2>1, <2>2, <2>3 DEF CodeIs
<1>. QED
  BY <1>1, <1>2, <1>3, EncodedIs

ReadsBack(t, e) ==
  e \in Seq(CodeChar) /\ Closed(e) /\ UrlDecode(e) = t /\ (e = <<>> <=> t = <<>>)

(* Whatever is written in percent encoding is read again as it was. *)
LEMMA EncodingReadsBack == \A t \in Seq(FormChar) : ReadsBack(t, UrlEncode(t))
<1>. DEFINE F == [c \in FormChar |-> Encoded(c)]
            S == {t \in Seq(FormChar) : ReadsBack(t, Spread(t, F))}
<1>1. IsMap(F, FormChar, Seq(CodeChar)) /\ \A c \in FormChar : F[c] = Encoded(c)
  <2>1. \A c \in FormChar : Encoded(c) \in Seq(CodeChar)
    BY EncodedDecodes DEF CodeIs
  <2>. QED
    BY <2>1 DEF IsMap
<1>2. \A t \in Seq(FormChar) : UrlEncode(t) = Spread(t, F)
  <2>. SUFFICES ASSUME NEW t \in Seq(FormChar) PROVE UrlEncode(t) = Spread(t, F)
    OBVIOUS
  <2>1. \A i \in DOMAIN t : t[i] \in FormChar
    BY ElementOfSeq, LenProperties
  <2>2. \A i \in DOMAIN t : F[t[i]] = Encoded(t[i])
    BY <1>1, <2>1
  <2>. HIDE DEF F
  <2>. QED
    BY <2>2 DEF UrlEncode, Spread, Mapped
<1>. HIDE DEF F
<1>3. <<>> \in S
  <2>1. Spread(<<>>, F) = <<>>
    BY MappedOfEmpty, FlattenOfEmpty DEF Spread
  <2>2. Pieces(<<>>) = <<>>
    BY DEF Pieces
  <2>3. UrlDecode(<<>>) = <<>>
    BY <2>2, DecodeIs, FlattenOfEmpty
  <2>4. Closed(<<>>) /\ <<>> \in Seq(CodeChar) /\ <<>> \in Seq(FormChar)
    BY DEF Closed
  <2>. QED
    BY <2>1, <2>3, <2>4 DEF ReadsBack
<1>4. ASSUME NEW t \in Seq(FormChar), NEW c \in FormChar, t \in S PROVE Append(t, c) \in S
  <2>. DEFINE e == Spread(t, F)
              w == Encoded(c)
  <2>1. Spread(Append(t, c), F) = e \o w
    <3>. HIDE DEF S
    <3>1. Spread(Append(t, c), F) = Spread(t, F) \o F[c]
      BY <1>1, SpreadGrows
    <3>. QED
      BY <1>1, <3>1
  <2>2. e \in Seq(CodeChar) /\ Closed(e) /\ UrlDecode(e) = t
    BY <1>4 DEF ReadsBack
  <2>3. w \in Seq(CodeChar) /\ Len(w) > 0 /\ Closed(w) /\ UrlDecode(w) = <<c>>
    BY EncodedDecodes DEF CodeIs
  <2>. HIDE DEF e, w
  <2>4. UrlDecode(e \o w) = Append(t, c)
    <3>1. UrlDecode(e \o w) = UrlDecode(e) \o UrlDecode(w)
      BY <2>2, <2>3, DecodeOfTwo
    <3>2. Append(t, c) = t \o <<c>>
      BY AppendIsConcat
    <3>. QED
      BY <2>2, <2>3, <3>1, <3>2
  <2>5. /\ Len(e) \in Nat /\ Len(w) \in Nat /\ e \o w \in Seq(CodeChar) /\ Len(e \o w) = Len(e) + Len(w)
        /\ \A i \in 1 .. Len(e) + Len(w) : (e \o w)[i] = IF i <= Len(e) THEN e[i] ELSE w[i - Len(e)]
    BY <2>2, <2>3, ConcatProperties, LenProperties
  <2>6. Closed(e \o w)
    <3>. DEFINE n == Len(e)
                m == Len(w)
                x == e \o w
    <3>1. ASSUME NEW i \in 1 .. n + m, x[i] = "%" PROVE i + 2 <= n + m
      <4>1. CASE i <= n
        <5>1. i \in 1 .. n /\ e[i] = "%"
          BY <2>5, <3>1, <4>1
        <5>2. i + 2 <= n
          BY <2>2, <5>1 DEF Closed
        <5>. QED
          BY <2>5, <5>2
      <4>2. CASE ~(i <= n)
        <5>1. i - n \in 1 .. m /\ w[i - n] = "%"
          BY <2>5, <3>1, <4>2
        <5>2. (i - n) + 2 <= m
          BY <2>3, <5>1 DEF Closed
        <5>. QED
          BY <2>5, <5>2
      <4>. QED
        BY <4>1, <4>2
    <3>. QED
      BY <2>5, <3>1 DEF Closed
  <2>7. e \o w # <<>> /\ Append(t, c) # <<>> /\ Append(t, c) \in Seq(FormChar)
    <3>1. Len(e \o w) # 0
      BY <2>3, <2>5
    <3>. QED
      BY <3>1, AppendProperties
  <2>. QED
    BY <2>1, <2>4, <2>5, <2>6, <2>7 DEF ReadsBack
<1>5. Seq(FormChar) \subseteq S
  BY <1>3, <1>4, SequenceInduction
<1>. QED
  BY <1>2, <1>5

-----------------------------------------------------------------------------
(* A form: the lines of its body, and what parse_form_data makes of each. *)

Pair == [name : Seq(FormChar), value : Seq(FormChar)]
PairText(p) == UrlEncode(p.name) \o <<"=">> \o UrlEncode(p.value)
PairChar == CodeChar \cup {"="}
FormBodyChar == PairChar \cup {"&"}

LEMMA CharsApart == "&" \notin PairChar /\ "=" \notin CodeChar
<1>1. "&" \notin CodeChar /\ "=" \notin CodeChar
  BY CodeCharsArePlain
<1>2. "&" # "="
  OBVIOUS
<1>. QED
  BY <1>1, <1>2 DEF PairChar

LEMMA PairTextIs ==
  ASSUME NEW p \in Pair
  PROVE  LET t == PairText(p)
             k == Len(UrlEncode(p.name)) + 1
         IN /\ t \in Seq(PairChar) /\ t # <<>>
            /\ k \in Nat /\ Find(t, <<"=">>, 1) = k /\ k # npos
            /\ SubSeq(t, 1, k - 1) = UrlEncode(p.name)
            /\ From(t, k + 1) = UrlEncode(p.value)
<1>. DEFINE a == UrlEncode(p.name)
            b == UrlEncode(p.value)
            eq == "="
            n == Len(a)
            ae == a \o <<eq>>
            t == PairText(p)
<1>1. a \in Seq(CodeChar) /\ b \in Seq(CodeChar)
  BY EncodingReadsBack DEF ReadsBack, Pair
<1>2. a \in Seq(PairChar) /\ b \in Seq(PairChar) /\ eq \in PairChar /\ eq \notin CodeChar
  BY <1>1, CharsApart, SeqMonotonic DEF PairChar
<1>3. t = ae \o b
  BY DEF PairText
<1>. HIDE DEF a, b, eq, t
<1>4. n \in Nat /\ <<eq>> \in Seq(PairChar) /\ Len(<<eq>>) = 1 /\ <<eq>>[1] = eq /\ Len(b) \in Nat
  BY <1>2, LenProperties
<1>5. ae \in Seq(PairChar) /\ Len(ae) = n + 1
      /\ \A i \in 1 .. n + 1 : ae[i] = IF i <= n THEN a[i] ELSE <<eq>>[i - n]
  BY <1>2, <1>4, ConcatProperties
<1>6. SubSeq(ae, 1, n) = a
  BY <1>2, <1>4, PartsOfTwo
<1>. HIDE DEF ae, n
<1>7. t \in Seq(PairChar) /\ Len(t) = (n + 1) + Len(b)
      /\ \A i \in 1 .. (n + 1) + Len(b) : t[i] = IF i <= n + 1 THEN ae[i] ELSE b[i - (n + 1)]
  <2>1. /\ ae \o b \in Seq(PairChar) /\ Len(ae \o b) = Len(ae) + Len(b)
        /\ \A i \in 1 .. Len(ae) + Len(b) : (ae \o b)[i] = IF i <= Len(ae) THEN ae[i] ELSE b[i - Len(ae)]
    BY <1>2, <1>5, ConcatProperties
  <2>. QED
    BY <1>3, <1>5, <2>1
<1>8. SubSeq(t, 1, n + 1) = ae /\ From(t, n + 2) = b
  <2>1. SubSeq(t, 1, Len(ae)) = ae /\ SubSeq(t, Len(ae) + 1, Len(t)) = b
    BY <1>2, <1>3, <1>5, PartsOfTwo
  <2>2. (n + 1) + 1 = n + 2
    BY <1>4
  <2>. QED
    BY <1>5, <2>1, <2>2 DEF From
<1>9. (\A i \in 1 .. n : t[i] = a[i] /\ i \in 1 .. Len(t)) /\ t[n + 1] = eq /\ n + 1 \in 1 .. Len(t)
  <2>1. \A i \in 1 .. n + 1 : i \in 1 .. (n + 1) + Len(b) /\ i <= n + 1
    BY <1>4
  <2>2. n + 1 \in 1 .. n + 1 /\ (n + 1) - n = 1 /\ ~(n + 1 <= n) /\ \A i \in 1 .. n : i \in 1 .. n + 1 /\ i <= n
    BY <1>4
  <2>. QED
    BY <1>4, <1>5, <1>7, <2>1, <2>2
<1>10. \A i \in 1 .. n : t[i] # eq
  <2>1. \A i \in 1 .. n : a[i] \in CodeChar
    BY <1>1, ElementOfSeq DEF n
  <2>. QED
    BY <1>2, <1>9, <2>1
<1>11. (n + 1) - 1 = n /\ (n + 1) + 1 = n + 2 /\ n + 1 \in Nat /\ n + 1 # 0
  BY <1>4
<1>12. Find(t, <<eq>>, 1) = n + 1
  <2>. DEFINE k == n + 1
  <2>1. k \in 1 .. Len(t) /\ t[k] = eq /\ \A i \in 1 .. k - 1 : t[i] # eq
    BY <1>9, <1>10, <1>11
  <2>. HIDE DEF k
  <2>2. Find(t, <<eq>>, 1) = k
    BY <1>7, <2>1, FindChar
  <2>. QED
    BY <2>2 DEF k
<1>13. SubSeq(t, 1, n) = a
  <2>. DEFINE u == SubSeq(t, 1, n)
  <2>1. IsSeq(t) /\ n \in 0 .. Len(t)
    BY <1>4, <1>7, SeqIs
  <2>2. IsSeq(u) /\ Len(u) = n /\ \A i \in 1 .. n : u[i] = t[i]
    BY <2>1, FirstShape
  <2>. HIDE DEF u
  <2>3. u = a
    <3>1. u \in Seq(Range(u)) /\ Len(u) = Len(a) /\ \A i \in 1 .. Len(u) : u[i] = a[i]
      BY <1>9, <2>2 DEF IsSeq, n
    <3>. QED
      BY <1>1, <3>1, SameSequence
  <2>. QED
    BY <2>3 DEF u
<1>14. t # <<>>
  BY <1>4, <1>7
<1>. QED
  BY <1>7, <1>8, <1>11, <1>12, <1>13, <1>14 DEF a, b, eq, t, n, npos

(* One more field, unless it has no name. *)
FieldAdded(new, old, p) == new = IF p.name = <<>> THEN old ELSE With(old, p.name, p.value)

LEMMA AddPairIs ==
  ASSUME NEW p \in Pair, NEW fs
  PROVE  FieldAdded(AddPair(fs, PairText(p)), fs, p)
<1>. DEFINE t == PairText(p)
            k == Len(UrlEncode(p.name)) + 1
            eq == Find(t, <<"=">>, 1)
            key == UrlDecode(SubSeq(t, 1, OrEnd(eq, t) - 1))
<1>1. eq = k /\ k # npos /\ SubSeq(t, 1, k - 1) = UrlEncode(p.name) /\ From(t, k + 1) = UrlEncode(p.value)
  BY PairTextIs
<1>2. UrlDecode(UrlEncode(p.name)) = p.name /\ UrlDecode(UrlEncode(p.value)) = p.value
  BY EncodingReadsBack DEF ReadsBack, Pair
<1>3. AddPair(fs, t) = IF key = <<>> THEN fs
                       ELSE With(fs, key, IF eq = npos THEN <<>> ELSE UrlDecode(From(t, eq + 1)))
  BY DEF AddPair, IsEmpty
<1>. HIDE DEF t, k, eq
<1>4. key = p.name
  BY <1>1, <1>2 DEF OrEnd
<1>. HIDE DEF key
<1>5. eq # npos /\ UrlDecode(From(t, eq + 1)) = p.value
  BY <1>1, <1>2
<1>. QED
  BY <1>3, <1>4, <1>5 DEF FieldAdded, t

TextOfPair == [p \in Pair |-> PairText(p)]
Lines(ps) == Mapped(ps, TextOfPair)

LEMMA LinesAre ==
  ASSUME NEW ps \in Seq(Pair)
  PROVE  /\ Lines(ps) \in Seq(Seq(PairChar)) /\ Len(Lines(ps)) = Len(ps)
         /\ \A i \in 1 .. Len(ps) : Lines(ps)[i] = PairText(ps[i]) /\ Lines(ps)[i] # <<>>
<1>. DEFINE Row == Seq(PairChar)
            n == Len(ps)
            l == Lines(ps)
<1>1. n \in Nat /\ DOMAIN ps = 1 .. n /\ \A i \in 1 .. n : ps[i] \in Pair
  BY LenProperties, ElementOfSeq
<1>2. \A p \in Pair : PairText(p) \in Row /\ PairText(p) # <<>>
  BY PairTextIs
<1>. HIDE DEF Row, n
<1>3. l \in [1 .. n -> Row] /\ \A i \in 1 .. n : l[i] = PairText(ps[i])
  BY <1>1, <1>2 DEF Lines, Mapped, TextOfPair
<1>. HIDE DEF l
<1>4. l \in Seq(Row) /\ Len(l) = n
  BY <1>1, <1>3, SeqDef, LenProperties
<1>. QED
  BY <1>1, <1>2, <1>3, <1>4 DEF l, n, Row

LEMMA FormBodyIs ==
  ASSUME NEW ps \in Seq(Pair)
  PROVE  FormBody(ps) = Joined(Lines(ps), "&")
<1>. DEFINE n == Len(ps)
            amp == "&"
            Row(i) == (IF i = 1 THEN <<>> ELSE <<amp>>) \o UrlEncode(ps[i].name) \o <<"=">> \o UrlEncode(ps[i].value)
<1>1. n \in Nat /\ DOMAIN ps = 1 .. n /\ \A i \in 1 .. n : ps[i] \in Pair
  BY LenProperties, ElementOfSeq
<1>2. DOMAIN Lines(ps) = 1 .. n /\ \A i \in 1 .. n : Lines(ps)[i] = PairText(ps[i])
  BY LinesAre, LenProperties
<1>3. ASSUME NEW i \in 1 .. n PROVE Row(i) = Cell(i, PairText(ps[i]), amp)
  <2>. DEFINE a == UrlEncode(ps[i].name)
              b == UrlEncode(ps[i].value)
              e == <<"=">>
              s == <<amp>>
  <2>1. a \in Seq(FormBodyChar) /\ b \in Seq(FormBodyChar)
    <3>1. a \in Seq(CodeChar) /\ b \in Seq(CodeChar)
      BY <1>1, EncodingReadsBack DEF ReadsBack, Pair
    <3>. QED
      BY <3>1, SeqMonotonic DEF FormBodyChar, PairChar
  <2>2. e \in Seq(FormBodyChar) /\ s \in Seq(FormBodyChar) /\ <<>> \in Seq(FormBodyChar)
    BY DEF FormBodyChar, PairChar
  <2>3. PairText(ps[i]) = (a \o e) \o b
    BY DEF PairText
  <2>4. Row(i) = (((IF i = 1 THEN <<>> ELSE s) \o a) \o e) \o b
    OBVIOUS
  <2>. HIDE DEF a, b, e, s, Row
  <2>5. <<>> \o a = a /\ ((s \o a) \o e) \o b = s \o ((a \o e) \o b)
    <3>1. a \o e \in Seq(FormBodyChar)
      BY <2>1, <2>2, ConcatProperties
    <3>. DEFINE E == Seq(FormBodyChar)
    <3>0. \A x, y, z \in E : (x \o y) \o z = x \o (y \o z)
      BY ConcatAssociative, SMTT(30)
    <3>2. (s \o a) \o e = s \o (a \o e) /\ (s \o (a \o e)) \o b = s \o ((a \o e) \o b)
      <4>1. a \in E /\ b \in E /\ e \in E /\ s \in E /\ a \o e \in E
        BY <2>1, <2>2, <3>1
      <4>. HIDE DEF E
      <4>. QED
        BY <3>0, <4>1, ZenonT(30)
    <3>. QED
      BY <2>1, <3>2, ConcatEmptySeq
  <2>6. CASE i = 1
    BY <2>3, <2>4, <2>5, <2>6 DEF Cell
  <2>7. CASE i # 1
    <3>1. Row(i) = s \o ((a \o e) \o b)
      BY <2>4, <2>5, <2>7
    <3>2. Cell(i, PairText(ps[i]), amp) = s \o PairText(ps[i])
      BY <2>7 DEF Cell, s
    <3>. QED
      BY <2>3, <3>1, <3>2
  <2>. QED
    BY <2>6, <2>7
<1>4. FormBody(ps) = FlattenSeq([i \in DOMAIN ps |-> Row(i)])
  BY DEF FormBody
<1>. HIDE DEF Row, n
<1>5. [i \in DOMAIN ps |-> Row(i)] = Cells(Lines(ps), amp)
  <2>1. [i \in 1 .. n |-> Row(i)] = [i \in 1 .. n |-> Cell(i, Lines(ps)[i], amp)]
    BY <1>2, <1>3
  <2>. HIDE DEF amp
  <2>. QED
    BY <1>1, <1>2, <2>1 DEF Cells
<1>. QED
  BY <1>4, <1>5 DEF Joined

LEMMA LinesOfForm ==
  ASSUME NEW ps \in Seq(Pair)
  PROVE  GetLines(FormBody(ps), "&") = Lines(ps)
<1>. DEFINE l == Lines(ps)
            Row == Seq(PairChar)
            amp == "&"
<1>1. l \in Seq(Row) /\ Len(l) \in Nat /\ \A i \in 1 .. Len(l) : l[i] # <<>>
  BY LinesAre, LenProperties
<1>2. FormBody(ps) = Joined(l, amp) /\ amp \notin PairChar
  BY FormBodyIs, CharsApart
<1>. HIDE DEF l, amp
<1>3. CASE l = <<>>
  <2>1. SplitAt(FormBody(ps), amp) = << <<>> >>
    BY <1>2, <1>3, JoinedOfEmpty, SplitOfEmpty
  <2>2. Without(<< <<>> >>, <<>>) = <<>>
    <3>1. << <<>> >> = Append(<<>>, <<>>) /\ <<>> \in Seq({})
      OBVIOUS
    <3>. QED
      BY <3>1, WithoutIs
  <2>. QED
    BY <1>3, <2>1, <2>2 DEF GetLines, l, amp
<1>4. CASE l # <<>>
  <2>1. SplitAt(FormBody(ps), amp) = l
    BY <1>1, <1>2, <1>4, SplitOfJoined
  <2>2. ~EndsIn(l, <<>>)
    <3>1. Len(l) \in 1 .. Len(l)
      <4>1. Len(l) # 0
        <5>. HIDE DEF Row
        <5>. QED
          BY <1>1, <1>4, EmptySeq
      <4>. QED
        BY <1>1, <4>1
    <3>. QED
      BY <1>1, <3>1 DEF EndsIn
  <2>3. Without(l, <<>>) = l
    BY <2>2 DEF Without
  <2>. QED
    BY <2>1, <2>3 DEF GetLines, l, amp
<1>. QED
  BY <1>3, <1>4

(* The fields, after one pair and the next. *)
Filled(g, ps, n) == g[0] = NoFields /\ \A i \in 1 .. n : FieldAdded(g[i], g[i - 1], ps[i])

LEMMA FormDataIs ==
  ASSUME NEW ps \in Seq(Pair)
  PROVE  \E g : Filled(g, ps, Len(ps)) /\ ParseFormData(FormBody(ps)) = g[Len(ps)]
<1>. DEFINE n == Len(ps)
            V == FieldsOf(FormChar)
            l == Lines(ps)
            F == [i \in 1 .. n |-> [fs \in V |-> AddPair(fs, l[i])]]
<1>1. n \in Nat /\ (\A i \in 1 .. n : ps[i] \in Pair) /\ Len(l) = n /\ \A i \in 1 .. n : l[i] = PairText(ps[i])
  BY LenProperties, ElementOfSeq, LinesAre
<1>2. \A i \in 1 .. n : \A fs : FieldAdded(AddPair(fs, l[i]), fs, ps[i])
  BY <1>1, AddPairIs
<1>3. \A i \in 1 .. n : \A fs \in V : AddPair(fs, l[i]) \in V
  <2>1. \A i \in 1 .. n : ps[i].name \in Seq(FormChar) /\ ps[i].value \in Seq(FormChar)
    BY <1>1 DEF Pair
  <2>2. \A i \in 1 .. n : \A fs \in V : With(fs, ps[i].name, ps[i].value) \in V
    BY <2>1, WithType
  <2>. HIDE DEF V, l, n
  <2>. QED
    BY <1>2, <2>2 DEF FieldAdded
<1>4. NoFields \in V
  BY NoFieldsType
<1>. HIDE DEF n, V, l
<1>5. F \in [1 .. n -> [V -> V]]
  BY <1>3
<1>6. \A i \in 1 .. n : \A fs \in V : F[i][fs] = AddPair(fs, l[i])
  OBVIOUS
<1>. HIDE DEF F
<1>7. Course(n, V, NoFields, F) # {}
  BY <1>1, <1>4, <1>5, Recursion
<1>8. PICK g \in [0 .. n -> V] : g[0] = NoFields /\ \A i \in 1 .. n : g[i] = F[i][g[i - 1]]
  BY <1>7 DEF Course
<1>9. ASSUME NEW i \in 1 .. n PROVE g[i] = AddPair(g[i - 1], l[i])
  <2>1. g[i - 1] \in V
    <3>1. i - 1 \in 0 .. n
      BY <1>1
    <3>. QED
      BY <1>8, <3>1
  <2>. QED
    BY <1>6, <1>8, <2>1
<1>. DEFINE Is(f) == f = [i \in 0 .. n |-> IF i = 0 THEN NoFields ELSE AddPair(f[i - 1], l[i])]
            h == CHOOSE f : Is(f)
<1>10. Is(g)
  <2>1. \A i \in 0 .. n : i = 0 \/ i \in 1 .. n
    BY <1>1
  <2>2. \A i \in 0 .. n : g[i] = IF i = 0 THEN NoFields ELSE AddPair(g[i - 1], l[i])
    BY <1>8, <1>9, <2>1
  <2>3. g = [i \in 0 .. n |-> g[i]]
    BY <1>8
  <2>. QED
    BY <2>2, <2>3
<1>11. Is(h)
  BY <1>10
<1>12. ParseFormData(FormBody(ps)) = h[n]
  <2>1. GetLines(FormBody(ps), "&") = l
    BY LinesOfForm DEF l
  <2>. HIDE DEF h, Is
  <2>2. ParseFormData(FormBody(ps)) = (CHOOSE f : f = [i \in 0 .. Len(l) |-> IF i = 0 THEN NoFields ELSE AddPair(f[i - 1], l[i])])[Len(l)]
    BY <2>1 DEF ParseFormData
  <2>. QED
    BY <1>1, <2>2 DEF h, Is
<1>. HIDE DEF h
<1>13. h[0] = NoFields /\ \A i \in 1 .. n : h[i] = AddPair(h[i - 1], l[i])
  <2>1. 0 \in 0 .. n /\ \A i \in 1 .. n : i \in 0 .. n /\ i # 0
    BY <1>1
  <2>. QED
    BY <1>11, <2>1
<1>14. Alike(g, h, n)
  BY <1>8, <1>9, <1>13 DEF Alike
<1>15. g[n] = h[n]
  <2>1. \A i \in 0 .. n : g[i] = h[i]
    BY <1>1, <1>14, SameRecursion
  <2>2. n \in 0 .. n
    BY <1>1
  <2>. QED
    BY <2>1, <2>2
<1>16. Filled(g, ps, n)
  BY <1>2, <1>8, <1>9 DEF Filled
<1>. QED
  BY <1>12, <1>15, <1>16 DEF n

(* The fields of the first n pairs: all names, each with its last value. *)
NamedOf(ps, n) == {i \in 1 .. n : ps[i].name # <<>>}
Given(fs, ps, n) ==
  /\ DOMAIN fs = {ps[i].name : i \in NamedOf(ps, n)}
  /\ \A i \in NamedOf(ps, n) :
       (\A j \in NamedOf(ps, n) : j > i => ps[j].name # ps[i].name) => fs[ps[i].name] = ps[i].value

LEMMA OneMoreGiven ==
  ASSUME NEW ps, NEW n \in Nat, NEW old, Given(old, ps, n), NEW new, FieldAdded(new, old, ps[n + 1])
  PROVE  Given(new, ps, n + 1)
<1>. DEFINE A == NamedOf(ps, n)
            B == NamedOf(ps, n + 1)
            p == ps[n + 1]
<1>1. CASE p.name = <<>>
  <2>1. A = B
    BY <1>1 DEF NamedOf
  <2>2. new = old
    BY <1>1 DEF FieldAdded
  <2>. QED
    BY <2>1, <2>2 DEF Given
<1>2. CASE p.name # <<>>
  <2>1. B = A \cup {n + 1} /\ A \subseteq B /\ (\A i \in A : i \in Nat /\ n + 1 > i /\ i # n + 1) /\ n + 1 \in B
    BY <1>2 DEF NamedOf
  <2>2. Updated(new, old, p.name, p.value)
    <3>1. new = With(old, p.name, p.value)
      BY <1>2 DEF FieldAdded
    <3>. QED
      BY <3>1, WithIs
  <2>. HIDE DEF A, B
  <2>3. DOMAIN old = {ps[i].name : i \in A}
        /\ \A i \in A : (\A j \in A : j > i => ps[j].name # ps[i].name) => old[ps[i].name] = ps[i].value
    BY DEF Given, A
  <2>4. DOMAIN new = {ps[i].name : i \in B}
    BY <2>1, <2>2, <2>3 DEF Updated
  <2>5. ASSUME NEW i \in B, \A j \in B : j > i => ps[j].name # ps[i].name PROVE new[ps[i].name] = ps[i].value
    <3>1. CASE i = n + 1
      BY <2>2, <3>1 DEF Updated
    <3>2. CASE i \in A
      <4>1. ps[i].name # p.name
        BY <2>1, <2>5, <3>2
      <4>2. old[ps[i].name] = ps[i].value /\ ps[i].name \in DOMAIN old
        BY <2>1, <2>3, <2>5, <3>2
      <4>. QED
        BY <2>2, <4>1, <4>2 DEF Updated
    <3>. QED
      BY <2>1, <3>1, <3>2
  <2>. QED
    BY <2>4, <2>5 DEF Given, B
<1>. QED
  BY <1>1, <1>2

(* parse_form_data gives back the fields of every form. *)
LEMMA FormGivenBack ==
  ASSUME NEW ps \in Seq(Pair)
  PROVE  Given(ParseFormData(FormBody(ps)), ps, Len(ps))
<1>1. PICK g : Filled(g, ps, Len(ps)) /\ ParseFormData(FormBody(ps)) = g[Len(ps)]
  BY FormDataIs
<1>2. Len(ps) \in Nat
  BY LenProperties
<1>. DEFINE S == {n \in Nat : n <= Len(ps) => Given(g[n], ps, n)}
<1>3. 0 \in S
  <2>1. g[0] = NoFields /\ DOMAIN NoFields = {} /\ 1 .. 0 = {}
    BY <1>1, NoFieldsType DEF Filled
  <2>2. NamedOf(ps, 0) = {}
    BY <2>1 DEF NamedOf
  <2>. QED
    BY <2>1, <2>2 DEF Given
<1>4. ASSUME NEW n \in Nat, n \in S PROVE n + 1 \in S
  <2>. SUFFICES ASSUME n + 1 <= Len(ps) PROVE Given(g[n + 1], ps, n + 1)
    OBVIOUS
  <2>1. n + 1 \in 1 .. Len(ps) /\ (n + 1) - 1 = n /\ n <= Len(ps)
    BY <1>2
  <2>2. FieldAdded(g[n + 1], g[n], ps[n + 1])
    BY <1>1, <2>1 DEF Filled
  <2>. QED
    BY <1>4, <2>1, <2>2, OneMoreGiven
<1>5. Nat \subseteq S
  <2>. HIDE DEF S
  <2>. QED
    BY <1>3, <1>4, Induction
<1>. QED
  BY <1>1, <1>2, <1>5

-----------------------------------------------------------------------------
(* A request, and what parse_request makes of its text. *)

FirstLine(method, uri) == <<method, " ">> \o uri \o <<" ", "HTTP/1.1">>
HostLine == <<"Host", ":", " ", "b">>
HeaderOf(header, value) == <<header, ":", " ">> \o value

(* The lines before the content, each with its CR, and the content. *)
HeadOf(method, uri, header, value) ==
  <<Append(FirstLine(method, uri), CR), Append(HostLine, CR), Append(HeaderOf(header, value), CR), <<CR>> >>

(* What the parts of a request may be made of. *)
RequestChars(Elem, method, header) ==
  LF \notin Elem /\ {CR, " ", "HTTP/1.1", "Host", ":", "b", method, header} \subseteq Elem

LEMMA HeadType ==
  ASSUME NEW Elem, NEW method, NEW header, RequestChars(Elem, method, header),
         NEW uri \in Seq(Elem), NEW value \in Seq(Elem)
  PROVE  /\ FirstLine(method, uri) \in Seq(Elem) /\ HostLine \in Seq(Elem) /\ HostLine # <<>>
         /\ HeaderOf(header, value) \in Seq(Elem) /\ HeaderOf(header, value) # <<>>
<1>. DEFINE a == <<method, " ">>
            b == <<" ", "HTTP/1.1">>
            c == <<header, ":", " ">>
<1>1. a \in Seq(Elem) /\ b \in Seq(Elem) /\ c \in Seq(Elem) /\ HostLine \in Seq(Elem) /\ HostLine # <<>> /\ Len(c) = 3
  <2>. DEFINE colon == ":"
              blank == " "
              version == "HTTP/1.1"
              host == "Host"
              name == "b"
  <2>1. colon \in Elem /\ blank \in Elem /\ version \in Elem /\ host \in Elem /\ name \in Elem
        /\ method \in Elem /\ header \in Elem
    BY DEF RequestChars
  <2>2. a = <<method, blank>> /\ b = <<blank, version>> /\ c = <<header, colon, blank>>
        /\ HostLine = <<host, colon, blank, name>>
    BY DEF HostLine
  <2>. HIDE DEF colon, blank, version, host, name, a, b, c
  <2>. QED
    BY <2>1, <2>2
<1>. HIDE DEF a, b, c
<1>2. a \o uri \in Seq(Elem) /\ c \o value \in Seq(Elem) /\ Len(c \o value) = Len(c) + Len(value) /\ Len(value) \in Nat
  BY <1>1, ConcatProperties, LenProperties
<1>3. (a \o uri) \o b \in Seq(Elem)
  BY <1>1, <1>2, ConcatProperties
<1>4. c \o value # <<>>
  <2>1. Len(c \o value) # 0
    BY <1>1, <1>2
  <2>. QED
    BY <2>1
<1>. QED
  BY <1>1, <1>2, <1>3, <1>4 DEF FirstLine, HeaderOf, a, b, c

Associate(x, y, z) == (x \o y) \o z = x \o (y \o z)

LEMMA ConcatsAssociate ==
  ASSUME NEW Elem
  PROVE  \A x, y, z \in Seq(Elem) : Associate(x, y, z)
BY ConcatAssociative DEF Associate

(* A line y that a client ends, behind the text x. *)
LineEnded(x, y) == (x \o y) \o CRLF = Append(x \o Append(y, CR), LF)

LEMMA LineEndIs ==
  ASSUME NEW Wide, CR \in Wide, LF \in Wide
  PROVE  \A x, y \in Seq(Wide) : LineEnded(x, y)
<1>. SUFFICES ASSUME NEW x \in Seq(Wide), NEW y \in Seq(Wide) PROVE LineEnded(x, y)
  OBVIOUS
<1>. DEFINE cr == <<CR>>
            lf == <<LF>>
            xy == x \o y
            yc == y \o cr
            xyc == x \o yc
<1>1. cr \in Seq(Wide) /\ lf \in Seq(Wide)
  OBVIOUS
<1>2. CRLF = cr \o lf
  <2>1. CRLF = Append(cr, LF)
    BY DEF CRLF
  <2>2. Append(cr, LF) = cr \o lf
    BY <1>1, AppendIsConcat
  <2>. QED
    BY <2>1, <2>2
<1>3. xy \in Seq(Wide) /\ yc \in Seq(Wide)
  BY <1>1, ConcatProperties
<1>4. Append(y, CR) = yc
  BY AppendIsConcat
<1>5. xyc \in Seq(Wide)
  <2>. HIDE DEF yc
  <2>. QED
    BY <1>3, ConcatProperties
<1>6. xy \o cr = xyc
  BY <1>1, ConcatsAssociate DEF Associate
<1>7. Associate(xy, cr, lf)
  <2>. HIDE DEF xy, cr, lf
  <2>. QED
    BY <1>1, <1>3, ConcatsAssociate
<1>8. Append(xyc, LF) = xyc \o lf
  <2>. HIDE DEF xyc
  <2>. QED
    BY <1>5, AppendIsConcat
<1>. HIDE DEF xyc, yc, cr, lf
<1>9. xy \o CRLF = xyc \o lf
  BY <1>2, <1>6, <1>7 DEF Associate
<1>. QED
  BY <1>4, <1>8, <1>9 DEF LineEnded, xyc

MadeOf(text, head, content) == text = Joined(Append(head, content), LF)

LEMMA RequestIsJoined ==
  ASSUME NEW Elem, NEW method, NEW header, RequestChars(Elem, method, header),
         NEW uri \in Seq(Elem), NEW value \in Seq(Elem), NEW content \in Seq(Elem)
  PROVE  /\ HeadOf(method, uri, header, value) \in Seq(Seq(Elem))
         /\ MadeOf(RequestText(method, uri, header, value, content, CRLF),
                   HeadOf(method, uri, header, value), content)
<1>. DEFINE W == Seq(Elem \cup {LF})
            WW == Seq(Seq(Elem \cup {LF}))
            cr == <<CR>>
            lf == <<LF>>
            f == FirstLine(method, uri)
            g == HostLine
            k == <<header, ":", " ">>
            h == HeaderOf(header, value)
            r1 == Append(f, CR)
            r2 == Append(g, CR)
            r3 == Append(h, CR)
            t2 == Append(r1, LF) \o r2
            t3 == Append(t2, LF) \o r3
            t4 == Append(t3, LF) \o cr
            t5 == Append(t4, LF) \o content
            s1 == <<r1>>
            s2 == <<r1, r2>>
            s3 == <<r1, r2, r3>>
            s4 == <<r1, r2, r3, cr>>
            s5 == Append(s4, content)
<1>1. f \in Seq(Elem) /\ g \in Seq(Elem) /\ h \in Seq(Elem)
  BY HeadType
<1>2. cr \in Seq(Elem) /\ k \in Seq(Elem)
  <2>. DEFINE colon == ":"
              blank == " "
  <2>1. CR \in Elem /\ header \in Elem /\ colon \in Elem /\ blank \in Elem
    BY DEF RequestChars
  <2>2. k = <<header, colon, blank>>
    OBVIOUS
  <2>. HIDE DEF colon, blank, k
  <2>. QED
    BY <2>1, <2>2
<1>3. r1 \in Seq(Elem) /\ r2 \in Seq(Elem) /\ r3 \in Seq(Elem)
  <2>1. CR \in Elem
    BY DEF RequestChars
  <2>. HIDE DEF f, g, h
  <2>. QED
    BY <1>1, <2>1, AppendProperties
<1>4. s4 \in Seq(Seq(Elem))
  <2>. DEFINE Row == Seq(Elem)
  <2>1. r1 \in Row /\ r2 \in Row /\ r3 \in Row /\ cr \in Row
    BY <1>2, <1>3
  <2>. HIDE DEF r1, r2, r3, cr, Row
  <2>2. s4 \in Seq(Row)
    BY <2>1
  <2>. QED
    BY <2>2 DEF Row
<1>5. /\ f \in W /\ g \in W /\ h \in W /\ k \in W /\ cr \in W /\ lf \in W /\ r1 \in W /\ r2 \in W /\ r3 \in W
      /\ value \in W /\ content \in W
  <2>1. Seq(Elem) \subseteq W
    BY SeqMonotonic
  <2>2. lf \in W
    OBVIOUS
  <2>. HIDE DEF W, f, g, h, k, cr, lf, r1, r2, r3
  <2>. QED
    BY <1>1, <1>2, <1>3, <2>1, <2>2
<1>6. LF \in Elem \cup {LF} /\ CR \in Elem \cup {LF}
  BY DEF RequestChars
<1>23. \A x, y \in Seq(Elem \cup {LF}) : LineEnded(x, y)
  BY <1>6, LineEndIs
<1>24. \A x, y, z \in W : Associate(x, y, z)
  BY ConcatsAssociate
<1>25. \A rows \in WW : \A r \in W : MoreJoined(Append(rows, r), rows, r, LF)
  BY <1>6, JoinedGrows
<1>21. \A x, y \in W : x \o y \in W
  BY ConcatProperties
<1>22. \A x \in W : Append(x, CR) = x \o cr /\ Append(x, LF) = x \o lf /\ <<>> \o x = x /\ x \o <<>> = x
  <2>1. CR \in Elem \cup {LF} /\ LF \in Elem \cup {LF}
    BY DEF RequestChars
  <2>. QED
    BY <2>1, AppendIsConcat, ConcatEmptySeq
<1>7. CRLF = cr \o lf
  <2>1. CRLF = Append(cr, LF)
    BY DEF CRLF
  <2>. HIDE DEF W, cr, lf
  <2>. QED
    BY <1>5, <1>21, <1>22, <2>1
<1>8. RequestText(method, uri, header, value, content, CRLF)
        = (((((((((f \o CRLF) \o g) \o CRLF) \o k) \o value) \o CRLF) \o CRLF)) \o content)
  BY DEF RequestText, FirstLine, HostLine
<1>9. h = k \o value
  BY DEF HeaderOf
<1>10. r1 = f \o cr /\ r2 = g \o cr /\ r3 = h \o cr
  <2>. HIDE DEF W, f, g, h, cr
  <2>. QED
    BY <1>5, <1>21, <1>22
<1>. HIDE DEF W, f, g, h, k, cr, lf, r1, r2, r3
<1>11. t2 \in W /\ t3 \in W /\ t4 \in W /\ Append(r1, LF) \in W /\ Append(t2, LF) \in W /\ Append(t3, LF) \in W
  <2>1. Append(r1, LF) = r1 \o lf /\ r1 \o lf \in W
    BY <1>5, <1>21, <1>22
  <2>2. t2 \in W
    BY <1>5, <1>21, <1>22, <2>1
  <2>. HIDE DEF t2
  <2>3. Append(t2, LF) = t2 \o lf /\ t2 \o lf \in W
    BY <1>5, <1>21, <1>22, <2>2
  <2>4. t3 \in W
    BY <1>5, <1>21, <1>22, <2>3
  <2>. HIDE DEF t3
  <2>5. Append(t3, LF) = t3 \o lf /\ t3 \o lf \in W
    BY <1>5, <1>21, <1>22, <2>4
  <2>6. t4 \in W
    BY <1>5, <1>21, <1>22, <2>5
  <2>. QED
    BY <2>1, <2>2, <2>3, <2>4, <2>5, <2>6
(* A line end behind y, which stands behind x. *)
<1>12. ASSUME NEW x \in W, NEW y \in W PROVE (x \o y) \o CRLF = Append(x \o (y \o cr), LF)
  <2>1. Append(y, CR) = y \o cr
    BY <1>22
  <2>2. (x \o y) \o CRLF = Append(x \o Append(y, CR), LF)
    <3>1. LineEnded(x, y)
      BY <1>23 DEF W
    <3>. QED
      BY <3>1 DEF LineEnded
  <2>. QED
    BY <2>1, <2>2
<1>13. f \o CRLF = Append(r1, LF)
  <2>. DEFINE e == <<>>
  <2>1. e \in W /\ e \o f = f /\ e \o r1 = r1
    BY <1>5, <1>22 DEF W
  <2>. HIDE DEF e
  <2>2. (e \o f) \o CRLF = Append(e \o (f \o cr), LF)
    BY <1>5, <1>12, <2>1
  <2>. QED
    BY <1>10, <2>1, <2>2
<1>14. (Append(r1, LF) \o g) \o CRLF = Append(t2, LF)
  BY <1>5, <1>10, <1>11, <1>12
<1>15. ((Append(t2, LF) \o k) \o value) \o CRLF = Append(t3, LF)
  <2>. DEFINE u == Append(t2, LF)
  <2>1. u \in W
    BY <1>11
  <2>2. t3 = u \o r3
    OBVIOUS
  <2>. HIDE DEF u, t3
  <2>3. (u \o k) \o value = u \o h
    <3>1. (u \o k) \o value = u \o (k \o value)
      <4>1. Associate(u, k, value)
        BY <1>5, <1>24, <2>1
      <4>. QED
        BY <4>1 DEF Associate
    <3>. QED
      BY <1>9, <3>1
  <2>4. (u \o h) \o CRLF = Append(u \o (h \o cr), LF)
    BY <1>5, <1>12, <2>1
  <2>. QED
    BY <1>10, <2>2, <2>3, <2>4 DEF u
<1>16. Append(t3, LF) \o CRLF = Append(t4, LF)
  <2>. DEFINE u == Append(t3, LF)
  <2>1. u \in W /\ <<>> \in W /\ u \o <<>> = u /\ <<>> \o cr = cr
    BY <1>5, <1>11, ConcatEmptySeq DEF W
  <2>2. t4 = u \o cr
    OBVIOUS
  <2>. HIDE DEF u, t4
  <2>3. (u \o <<>>) \o CRLF = Append(u \o (<<>> \o cr), LF)
    BY <1>12, <2>1
  <2>. QED
    BY <2>1, <2>2, <2>3 DEF u
<1>17. RequestText(method, uri, header, value, content, CRLF) = t5
  <2>. HIDE DEF t2, t3, t4
  <2>. QED
    BY <1>8, <1>13, <1>14, <1>15, <1>16
<1>18. Joined(s5, LF) = t5
  <2>0. LF \in Elem \cup {LF}
    OBVIOUS
  <2>1. s1 = Append(<<>>, r1) /\ s2 = Append(s1, r2) /\ s3 = Append(s2, r3) /\ s4 = Append(s3, cr)
        /\ s1 # <<>> /\ s2 # <<>> /\ s3 # <<>> /\ s4 # <<>>
    OBVIOUS
  <2>2. <<>> \in WW /\ s1 \in WW /\ s2 \in WW /\ s3 \in WW /\ s4 \in WW
    <3>1. <<>> \in Seq(W) /\ s1 \in Seq(W) /\ s2 \in Seq(W) /\ s3 \in Seq(W) /\ s4 \in Seq(W)
      BY <1>5
    <3>. QED
      BY <3>1 DEF W
  <2>. HIDE DEF s1, s2, s3, s4, WW
  <2>4. Joined(s1, LF) = r1
    BY <1>5, <1>25, <2>1, <2>2 DEF MoreJoined
  <2>5. Joined(s2, LF) = Append(Joined(s1, LF), LF) \o r2
    BY <1>5, <1>25, <2>1, <2>2 DEF MoreJoined
  <2>6. Joined(s3, LF) = Append(Joined(s2, LF), LF) \o r3
    BY <1>5, <1>25, <2>1, <2>2 DEF MoreJoined
  <2>7. Joined(s4, LF) = Append(Joined(s3, LF), LF) \o cr
    BY <1>5, <1>25, <2>1, <2>2 DEF MoreJoined
  <2>8. Joined(s5, LF) = Append(Joined(s4, LF), LF) \o content
    BY <1>5, <1>25, <2>1, <2>2 DEF MoreJoined
  <2>. QED
    BY <2>4, <2>5, <2>6, <2>7, <2>8
<1>. QED
  BY <1>4, <1>17, <1>18 DEF MadeOf, HeadOf, r1, r2, r3, f, g, h, cr

LEMMA OneTuple == \A S : \A e \in S : <<e>> \in Seq(S)
OBVIOUS

LEMMA AppendToNone == \A x : Append(<<>>, x) = <<x>>
OBVIOUS

LEMMA AppendToOne == \A x, y : Append(<<x>>, y) = <<x, y>>
<1>. SUFFICES ASSUME NEW x, NEW y PROVE Append(<<x>>, y) = <<x, y>>
  OBVIOUS
<1>. DEFINE S == {x, y}
            s == Append(<<x>>, y)
            t == <<x, y>>
<1>1. <<x>> \in Seq(S) /\ t \in Seq(S) /\ y \in S /\ Len(<<x>>) = 1 /\ <<x>>[1] = x
      /\ Len(t) = 2 /\ t[1] = x /\ t[2] = y
  OBVIOUS
<1>2. s \in Seq(S) /\ Len(s) = 2 /\ s[1] = x /\ s[2] = y
  <2>. HIDE DEF S
  <2>. QED
    BY <1>1, AppendProperties
<1>3. \A i \in 1 .. 2 : i = 1 \/ i = 2
  OBVIOUS
<1>. HIDE DEF S, s, t
<1>4. s = t
  BY <1>1, <1>2, <1>3, SameSequence
<1>. QED
  BY <1>4 DEF s, t

(* The words of a request line. *)
SplitsIn(t, words, blank) == SplitAt(t, blank) = words

LEMMA ThreeWords ==
  ASSUME NEW Elem, NEW method \in Elem, NEW version \in Elem, NEW uri \in Seq(Elem), NEW blank, blank \notin Elem
  PROVE  SplitsIn(<<method, blank>> \o uri \o <<blank, version>>, << <<method>>, uri, <<version>> >>, blank)
<1>. DEFINE Wide == Elem \cup {blank}
            W == Seq(Elem \cup {blank})
            WW == Seq(Seq(Elem \cup {blank}))
            a == <<method>>
            b == <<blank>>
            c == <<version>>
            d == <<blank, version>>
            u == <<method, blank>>
            s1 == <<a>>
            s2 == <<a, uri>>
            s3 == <<a, uri, c>>
            x == u \o uri
<1>1. a \in Seq(Elem) /\ c \in Seq(Elem) /\ a \in W /\ b \in W /\ c \in W /\ u \in W /\ d \in W
  OBVIOUS
<1>2. uri \in W
  BY SeqMonotonic
<1>3. Append(a, blank) = u /\ Append(b, version) = d
  BY AppendToOne
<1>4. b \o c = d
  <2>1. Append(b, version) = b \o c
    BY AppendIsConcat
  <2>. QED
    BY <1>3, <2>1
<1>5. <<>> \in WW /\ s1 \in WW /\ s2 \in WW /\ s1 # <<>> /\ s2 # <<>>
      /\ s1 = Append(<<>>, a) /\ s2 = Append(s1, uri) /\ s3 = Append(s2, c)
  <2>. HIDE DEF W, a, c
  <2>1. <<>> \in Seq(W) /\ s1 \in Seq(W) /\ s2 \in Seq(W) /\ s1 # <<>> /\ s2 # <<>>
        /\ s1 = Append(<<>>, a) /\ s2 = Append(s1, uri) /\ s3 = Append(s2, c)
    BY <1>1, <1>2
  <2>. QED
    BY <2>1 DEF W
<1>6. \A rows \in WW : \A r \in W : MoreJoined(Append(rows, r), rows, r, blank)
  <2>1. blank \in Wide
    OBVIOUS
  <2>. QED
    BY <2>1, JoinedGrows
<1>7. x \in W
  <2>. HIDE DEF u
  <2>. QED
    BY <1>1, <1>2, ConcatProperties
<1>8. Append(x, blank) = x \o b
  <2>. HIDE DEF x
  <2>. QED
    BY <1>7, AppendIsConcat
<1>9. Associate(x, b, c)
  <2>. HIDE DEF x, b, c
  <2>. QED
    BY <1>1, <1>7, ConcatsAssociate
<1>10. s3 # <<>> /\ s3 \in Seq(Seq(Elem))
  <2>. DEFINE Row == Seq(Elem)
  <2>1. a \in Row /\ c \in Row /\ uri \in Row
    BY <1>1
  <2>. HIDE DEF Row, a, c
  <2>2. s3 \in Seq(Row)
    BY <2>1
  <2>. QED
    BY <2>2 DEF Row
<1>. HIDE DEF a, b, c, d, u, W, WW, s1, s2, s3
<1>11. Joined(s1, blank) = a
  BY <1>1, <1>5, <1>6 DEF MoreJoined
<1>12. Joined(s2, blank) = Append(Joined(s1, blank), blank) \o uri
  BY <1>2, <1>5, <1>6 DEF MoreJoined
<1>13. Joined(s3, blank) = Append(Joined(s2, blank), blank) \o c
  BY <1>1, <1>5, <1>6 DEF MoreJoined
<1>14. Joined(s2, blank) = x
  BY <1>3, <1>11, <1>12
<1>15. Joined(s3, blank) = x \o d
  BY <1>4, <1>8, <1>9, <1>13, <1>14 DEF Associate
<1>16. SplitAt(Joined(s3, blank), blank) = s3
  BY <1>10, SplitOfJoined
<1>. QED
  BY <1>15, <1>16 DEF u, d, s3, a, c, SplitsIn

LEMMA NothingDropped ==
  ASSUME NEW Row, NEW a \in Row, NEW b \in Row, NEW c \in Row, a # <<>>, b # <<>>, c # <<>>
  PROVE  Dropping(<<a, b, c>>, {<<>>}) = <<a, b, c>>
<1>. DEFINE none == {<<>>}
            s1 == <<a>>
            s2 == <<a, b>>
            s3 == <<a, b, c>>
<1>1. <<>> \in Seq(Row) /\ s1 \in Seq(Row) /\ s2 \in Seq(Row)
      /\ s1 = Append(<<>>, a) /\ s2 = Append(s1, b) /\ s3 = Append(s2, c)
  OBVIOUS
<1>2. \A t \in Seq(Row) : \A e \in Row : KeptOf(Dropping(Append(t, e), none), Dropping(t, none), e, none)
  BY DroppingGrows
<1>3. Dropping(<<>>, none) = <<>>
  BY <1>1, DroppingGrows
<1>4. a \notin none /\ b \notin none /\ c \notin none
  OBVIOUS
<1>. HIDE DEF s1, s2, s3, none
<1>5. Dropping(s1, none) = Append(Dropping(<<>>, none), a)
  BY <1>1, <1>2, <1>4 DEF KeptOf
<1>6. Dropping(s2, none) = Append(Dropping(s1, none), b)
  BY <1>1, <1>2, <1>4 DEF KeptOf
<1>7. Dropping(s3, none) = Append(Dropping(s2, none), c)
  BY <1>1, <1>2, <1>4 DEF KeptOf
<1>. QED
  BY <1>1, <1>3, <1>5, <1>6, <1>7 DEF s3, none

LEMMA FirstLineRead ==
  ASSUME NEW Elem, " " \notin Elem, NEW method \in Elem, "HTTP/1.1" \in Elem, NEW uri \in Seq(Elem), uri # <<>>
  PROVE  Words(FirstLine(method, uri))[1] = <<method>> /\ Words(FirstLine(method, uri))[2] = uri
<1>. DEFINE blank == " "
            version == "HTTP/1.1"
            a == <<method>>
            c == <<version>>
<1>1. blank \notin Elem /\ version \in Elem
  OBVIOUS
<1>2. FirstLine(method, uri) = <<method, blank>> \o uri \o <<blank, version>>
  BY DEF FirstLine
<1>. HIDE DEF blank, version
<1>3. SplitAt(FirstLine(method, uri), blank) = <<a, uri, c>>
  <2>1. SplitsIn(<<method, blank>> \o uri \o <<blank, version>>, <<a, uri, c>>, blank)
    BY <1>1, ThreeWords
  <2>. QED
    BY <1>2, <2>1 DEF SplitsIn
<1>4. Dropping(<<a, uri, c>>, {<<>>}) = <<a, uri, c>>
  <2>. DEFINE Row == Seq(Elem)
  <2>1. a \in Row /\ c \in Row
    <3>1. method \in Elem /\ version \in Elem
      BY <1>1
    <3>. QED
      BY <3>1, OneTuple
  <2>2. a # <<>> /\ c # <<>> /\ uri \in Row
    OBVIOUS
  <2>. HIDE DEF Row, a, c
  <2>. QED
    BY <2>1, <2>2, NothingDropped
<1>5. Words(FirstLine(method, uri)) = <<a, uri, c>>
  BY <1>3, <1>4 DEF Words, blank
<1>. QED
  <2>1. <<a, uri, c>>[1] = a /\ <<a, uri, c>>[2] = uri
    OBVIOUS
  <2>. QED
    BY <1>5, <2>1

(* The lines that parse_request reads: the content is one, if there is one. *)
LinesOf(head, content) == head \o (IF content = <<>> THEN <<>> ELSE <<content>>)

LinesRead(head, content, sep) == GetLines(Joined(Append(head, content), sep), sep) = LinesOf(head, content)

LEMMA LinesOfRequest ==
  ASSUME NEW Elem, NEW sep, sep \notin Elem, NEW head \in Seq(Seq(Elem)), NEW content \in Seq(Elem)
  PROVE  LinesRead(head, content, sep)
<1>. DEFINE Row == Seq(Elem)
            l == Append(head, content)
<1>1. l \in Seq(Row) /\ Len(l) = Len(head) + 1 /\ Len(head) \in Nat /\ l[Len(head) + 1] = content
  <2>1. head \in Seq(Row) /\ content \in Row
    OBVIOUS
  <2>. HIDE DEF Row
  <2>. QED
    BY <2>1, AppendProperties, LenProperties
<1>2. l # <<>>
  BY <1>1, SMTT(30)
<1>3. SplitAt(Joined(l, sep), sep) = l
  <2>. HIDE DEF l
  <2>. QED
    BY <1>1, <1>2, SplitOfJoined
<1>4. l = head \o <<content>> /\ head \o <<>> = head
  <2>1. head \in Seq(Row) /\ content \in Row
    OBVIOUS
  <2>. HIDE DEF Row
  <2>. QED
    BY <2>1, AppendIsConcat, ConcatEmptySeq
<1>5. content = <<>> => Without(l, <<>>) = head
  <2>1. head \in Seq(Row)
    OBVIOUS
  <2>2. Without(Append(head, <<>>), <<>>) = head
    <3>. HIDE DEF Row
    <3>. QED
      BY <2>1, WithoutIs
  <2>. QED
    BY <2>2
<1>6. content # <<>> => Without(l, <<>>) = l
  <2>. HIDE DEF l
  <2>. QED
    BY <1>1 DEF Without, EndsIn
<1>. HIDE DEF l
<1>7. GetLines(Joined(l, sep), sep) = Without(l, <<>>)
  BY <1>3 DEF GetLines
<1>. QED
  BY <1>4, <1>5, <1>6, <1>7 DEF LinesRead, LinesOf, l

LinesShaped(l, a, b, c, d, content) ==
  /\ Len(l) \in Nat /\ Len(l) >= 4 /\ l[1] = a /\ l[2] = b /\ l[3] = c /\ l[4] = d
  /\ SubSeq(l, 5, Len(l)) = IF content = <<>> THEN <<>> ELSE <<content>>

LEMMA LinesShape ==
  ASSUME NEW Row, NEW a \in Row, NEW b \in Row, NEW c \in Row, NEW d \in Row, NEW content \in Row
  PROVE  LinesShaped(LinesOf(<<a, b, c, d>>, content), a, b, c, d, content)
<1>. DEFINE head == <<a, b, c, d>>
            tail == IF content = <<>> THEN <<>> ELSE <<content>>
            l == head \o tail
<1>1. head \in Seq(Row) /\ Len(head) = 4 /\ head[1] = a /\ head[2] = b /\ head[3] = c /\ head[4] = d
  OBVIOUS
<1>2. tail \in Seq(Row)
  OBVIOUS
<1>3. LinesOf(<<a, b, c, d>>, content) = l
  BY DEF LinesOf
<1>. HIDE DEF head, tail
<1>4. Len(tail) \in Nat /\ Len(l) = 4 + Len(tail) /\ \A i \in 1 .. 4 + Len(tail) : i <= 4 => l[i] = head[i]
  <2>1. Len(tail) \in Nat
    BY <1>2, LenProperties
  <2>2. Len(l) = Len(head) + Len(tail)
        /\ \A i \in 1 .. Len(head) + Len(tail) : l[i] = IF i <= Len(head) THEN head[i] ELSE tail[i - Len(head)]
    BY <1>1, <1>2, ConcatProperties
  <2>. HIDE DEF l
  <2>. QED
    BY <1>1, <2>1, <2>2
<1>5. SubSeq(l, Len(head) + 1, Len(l)) = tail
  BY <1>1, <1>2, PartsOfTwo
<1>6. \A i \in 1 .. 4 : i \in 1 .. 4 + Len(tail) /\ i <= 4
  BY <1>4
<1>7. l[1] = a /\ l[2] = b /\ l[3] = c /\ l[4] = d
  <2>1. 1 \in 1 .. 4 /\ 2 \in 1 .. 4 /\ 3 \in 1 .. 4 /\ 4 \in 1 .. 4
    OBVIOUS
  <2>. HIDE DEF l
  <2>. QED
    BY <1>1, <1>4, <1>6, <2>1
<1>8. Len(head) + 1 = 5
  BY <1>1
<1>. HIDE DEF l
<1>9. SubSeq(l, 5, Len(l)) = tail
  BY <1>5, <1>8
<1>. QED
  <2>1. Len(l) >= 4 /\ Len(l) \in Nat
    BY <1>4
  <2>. QED
    BY <1>3, <1>7, <1>9, <2>1 DEF tail, LinesShaped

LEMMA BlankLineRead ==
  ASSUME NEW l, Len(l) \in Nat, Len(l) >= 4, ~IsEmpty(Without(l[2], CR)), ~IsEmpty(Without(l[3], CR)),
         IsEmpty(Without(l[4], CR))
  PROVE  BlankLine(l) = 4
<1>. DEFINE S == {i \in 2 .. Len(l) : IsEmpty(Without(l[i], CR))}
<1>1. 4 \in S /\ S \in SUBSET Nat /\ S # {}
  OBVIOUS
<1>2. \A i \in S : i >= 4
  <2>1. \A i \in 2 .. Len(l) : ~(i >= 4) => i = 2 \/ i = 3
    OBVIOUS
  <2>. QED
    BY <2>1
<1>. HIDE DEF S
<1>3. Min(S) \in S /\ Min(S) <= 4 /\ Min(S) \in Nat
  BY <1>1, MinIs
<1>4. Min(S) = 4
  BY <1>2, <1>3
<1>. QED
  BY <1>1, <1>4 DEF BlankLine, S, FirstOrNpos, OrEnd, npos

LEMMA BodyRead ==
  ASSUME NEW Elem, NEW content \in Seq(Elem), NEW l, BlankLine(l) = 4,
         SubSeq(l, 5, Len(l)) = IF content = <<>> THEN <<>> ELSE <<content>>
  PROVE  BodyOf(l) = content
<1>. DEFINE behind == SubSeq(l, BlankLine(l) + 1, Len(l))
            ended == [i \in DOMAIN behind |-> behind[i] \o <<LF>>]
<1>1. behind = IF content = <<>> THEN <<>> ELSE <<content>>
  <2>1. BlankLine(l) + 1 = 5
    OBVIOUS
  <2>. QED
    BY <2>1
<1>2. BodyOf(l) = Without(FlattenSeq(ended), LF)
  BY DEF BodyOf
<1>. HIDE DEF behind
<1>3. CASE content = <<>>
  <2>1. ended = <<>>
    BY <1>1, <1>3
  <2>2. Without(<<>>, LF) = <<>>
    BY DEF Without, EndsIn, IsEmpty
  <2>. QED
    BY <1>2, <1>3, <2>1, <2>2, FlattenOfEmpty
<1>4. CASE content # <<>>
  <2>. DEFINE t == content \o <<LF>>
  <2>1. behind = <<content>>
    BY <1>1, <1>4
  <2>2. ended = <<t>>
    <3>. HIDE DEF t
    <3>1. <<content>>[1] \o <<LF>> = t
      BY DEF t
    <3>2. DOMAIN <<content>> = {1} /\ DOMAIN <<t>> = {1} /\ <<t>>[1] = t
      OBVIOUS
    <3>3. ended = [i \in {1} |-> t] /\ <<t>> = [i \in {1} |-> t]
      BY <2>1, <3>1, <3>2
    <3>. QED
      BY <3>3
  <2>3. t \in Seq(Elem \cup {LF}) /\ t = Append(content, LF)
    <3>1. content \in Seq(Elem \cup {LF}) /\ LF \in Elem \cup {LF}
      BY SeqMonotonic
    <3>2. Append(content, LF) \in Seq(Elem \cup {LF}) /\ Append(content, LF) = t
      BY <3>1, AppendProperties, AppendIsConcat
    <3>. QED
      BY <3>2
  <2>4. FlattenSeq(<<t>>) = t
    <3>. HIDE DEF t
    <3>. QED
      BY <2>3, FlattenWithNone
  <2>5. Without(Append(content, LF), LF) = content
    BY WithoutIs
  <2>. QED
    BY <1>2, <2>2, <2>3, <2>4, <2>5
<1>. QED
  BY <1>3, <1>4

(* parse_request gets the method, the path and the body that were sent. *)
ReadFrom(text, method, uri, content) ==
  LET request == ParseRequest(text)
  IN request.method = <<method>> /\ request.uri = uri /\ request.body = content

LEMMA RequestIsRead ==
  ASSUME NEW Elem, NEW method, NEW header, RequestChars(Elem, method, header), method # " ",
         NEW uri \in Seq(Elem \ {" "}), uri # <<>>, NEW value \in Seq(Elem), NEW content \in Seq(Elem)
  PROVE  ReadFrom(RequestText(method, uri, header, value, content, CRLF), method, uri, content)
<1>. DEFINE text == RequestText(method, uri, header, value, content, CRLF)
            Row == Seq(Elem)
            f == FirstLine(method, uri)
            h == HeaderOf(header, value)
            r1 == Append(f, CR)
            r2 == Append(HostLine, CR)
            r3 == Append(h, CR)
            r4 == <<CR>>
            head == HeadOf(method, uri, header, value)
            l == LinesOf(head, content)
<1>1. uri \in Seq(Elem)
  <2>1. Seq(Elem \ {" "}) \subseteq Seq(Elem)
    BY SeqMonotonic
  <2>. QED
    BY <2>1
<1>2. LF \notin Elem /\ CR \in Elem /\ method \in Elem /\ "HTTP/1.1" \in Elem
  BY DEF RequestChars
<1>3. f \in Seq(Elem) /\ HostLine \in Seq(Elem) /\ HostLine # <<>> /\ h \in Seq(Elem) /\ h # <<>>
  BY <1>1, HeadType
<1>4. head \in Seq(Seq(Elem)) /\ MadeOf(text, head, content)
  BY <1>1, RequestIsJoined
<1>5. GetLines(text, LF) = l
  <2>. HIDE DEF text, head
  <2>. QED
    <3>1. LinesRead(head, content, LF)
      BY <1>2, <1>4, LinesOfRequest
    <3>2. text = Joined(Append(head, content), LF)
      BY <1>4 DEF MadeOf
    <3>. QED
      BY <3>1, <3>2 DEF LinesRead
<1>6. r1 \in Row /\ r2 \in Row /\ r3 \in Row /\ r4 \in Row /\ content \in Row
  <2>1. r4 \in Row
    BY <1>2, OneTuple
  <2>. HIDE DEF f, h
  <2>. QED
    BY <1>2, <1>3, <2>1, AppendProperties
<1>7. Without(r1, CR) = f /\ Without(r2, CR) = HostLine /\ Without(r3, CR) = h /\ Without(r4, CR) = <<>>
  <2>0. r4 = Append(<<>>, CR)
    BY AppendToNone
  <2>1. <<>> \in Seq(Elem)
    BY EmptySeq
  <2>2. Without(Append(<<>>, CR), CR) = <<>>
    BY <2>1, WithoutIs
  <2>. HIDE DEF f, h, r4
  <2>. QED
    BY <1>3, <2>0, <2>2, WithoutIs
<1>8. head = <<r1, r2, r3, r4>>
  BY DEF HeadOf
<1>. HIDE DEF text, Row, f, h, r1, r2, r3, r4, head
<1>9. /\ Len(l) \in Nat /\ Len(l) >= 4 /\ l[1] = r1 /\ l[2] = r2 /\ l[3] = r3 /\ l[4] = r4
      /\ SubSeq(l, 5, Len(l)) = IF content = <<>> THEN <<>> ELSE <<content>>
  <2>1. LinesShaped(LinesOf(<<r1, r2, r3, r4>>, content), r1, r2, r3, r4, content)
    BY <1>6, LinesShape
  <2>. HIDE DEF l
  <2>. QED
    BY <1>8, <2>1 DEF LinesShaped, l
<1>. HIDE DEF l
<1>10. BlankLine(l) = 4
  <2>1. ~IsEmpty(Without(l[2], CR)) /\ ~IsEmpty(Without(l[3], CR)) /\ IsEmpty(Without(l[4], CR))
    BY <1>3, <1>7, <1>9 DEF IsEmpty
  <2>. QED
    BY <1>9, <2>1, BlankLineRead
<1>11. BodyOf(l) = content
  BY <1>9, <1>10, BodyRead
<1>12. Words(f)[1] = <<method>> /\ Words(f)[2] = uri
  <2>. DEFINE E == Elem \ {" "}
  <2>1. " " \notin E /\ method \in E /\ "HTTP/1.1" \in E /\ uri \in Seq(E)
    BY <1>2
  <2>. HIDE DEF E
  <2>. QED
    BY <2>1, FirstLineRead DEF f
<1>13. Without(l[1], CR) = f
  BY <1>7, <1>9
<1>14. ParseRequest(text) = [method |-> Words(f)[1], uri |-> Words(f)[2], headers |-> HeadersOf(l), body |-> BodyOf(l)]
  BY <1>5, <1>13 DEF ParseRequest
<1>. QED
  <2>. DEFINE q == ParseRequest(text)
              m == <<method>>
  <2>0. q.method = m /\ q.uri = uri /\ q.body = content
    <3>. DEFINE w1 == Words(f)[1]
                w2 == Words(f)[2]
                b == BodyOf(l)
                hs == HeadersOf(l)
    <3>1. q = [method |-> w1, uri |-> w2, headers |-> hs, body |-> b]
      BY <1>14
    <3>2. w1 = m /\ w2 = uri /\ b = content
      BY <1>11, <1>12
    <3>. HIDE DEF q, m, w1, w2, b, hs
    <3>. QED
      BY <3>1, <3>2
  <2>. HIDE DEF m
  <2>1. ReadFrom(text, method, uri, content)
    BY <2>0 DEF ReadFrom, m
  <2>. QED
    BY <2>1 DEF text

-----------------------------------------------------------------------------
(* A request to shorten: what its form says comes to the service. *)

ShortenChar ==
  FormBodyChar \cup {CR, " ", "HTTP/1.1", "Host", ":", "b", "POST", "Content-Type", "/shorten", "urlencoded"}

LEMMA FormBodyType ==
  ASSUME NEW ps \in Seq(Pair)
  PROVE  FormBody(ps) \in Seq(ShortenChar)
<1>. DEFINE amp == "&"
            l == Lines(ps)
<1>1. l \in Seq(Seq(FormBodyChar))
  <2>. DEFINE Narrow == Seq(PairChar)
              Row == Seq(FormBodyChar)
  <2>1. Narrow \subseteq Row
    BY SeqMonotonic DEF FormBodyChar
  <2>2. l \in Seq(Narrow)
    BY LinesAre
  <2>. HIDE DEF Narrow, Row, l
  <2>3. l \in Seq(Row)
    BY <2>1, <2>2, SeqMonotonic
  <2>. QED
    BY <2>3 DEF Row
<1>2. amp \in FormBodyChar /\ FormBody(ps) = Joined(l, amp)
  BY FormBodyIs DEF FormBodyChar
<1>. HIDE DEF amp, l
<1>3. Joined(l, amp) \in Seq(FormBodyChar)
  <2>1. <<>> \in Seq(FormBodyChar)
    OBVIOUS
  <2>. QED
    BY <1>1, <1>2, <2>1, JoinedGrows
<1>. QED
  BY <1>2, <1>3, SeqMonotonic DEF ShortenChar

LEMMA ShortenIsRead ==
  ASSUME NEW ps \in Seq(Pair)
  PROVE  ReadFrom(RequestText("POST", <<"/shorten">>, "Content-Type", <<"urlencoded">>, FormBody(ps), CRLF),
                  "POST", <<"/shorten">>, FormBody(ps))
<1>. DEFINE body_ == FormBody(ps)
            method == "POST"
            path == "/shorten"
            header == "Content-Type"
            type == "urlencoded"
            uri == <<path>>
            value == <<type>>
<1>1. LF \notin ShortenChar
  <2>1. LF \notin CodeChar
    BY CodeCharsArePlain
  <2>2. LF \notin {"=", "&", CR, " ", "HTTP/1.1", "Host", ":", "b", "POST", "Content-Type", "/shorten", "urlencoded"}
    BY DEF LF, CR
  <2>. QED
    BY <2>1, <2>2 DEF ShortenChar, FormBodyChar, PairChar
<1>2. RequestChars(ShortenChar, method, header)
  BY <1>1 DEF RequestChars, ShortenChar
<1>3. path \in ShortenChar \ {" "} /\ type \in ShortenChar /\ method # " "
  BY DEF ShortenChar
<1>. HIDE DEF method, path, header, type
<1>4. uri \in Seq(ShortenChar \ {" "}) /\ uri # <<>> /\ value \in Seq(ShortenChar)
  BY <1>3, OneTuple
<1>5. body_ \in Seq(ShortenChar)
  BY FormBodyType
<1>. HIDE DEF body_, uri, value
<1>6. ReadFrom(RequestText(method, uri, header, value, body_, CRLF), method, uri, body_)
  BY <1>2, <1>3, <1>4, <1>5, RequestIsRead
<1>. QED
  BY <1>6 DEF body_, uri, value, method, path, header, type

(***************************************************************************)
(* The path of a form: what the client asked is the text that is parsed,   *)
(* whose body is the one of the form, whose fields the service gets.       *)
(***************************************************************************)
ShortenSteps ==
  /\ pc \in {"handle_request", "parse_form_data", "shorten_url", "done"}
  /\ pc = "handle_request" => raw = TextOf(ask)
  /\ pc = "parse_form_data" => body = FormBody(ask.pairs)
  /\ pc \in {"shorten_url", "done"} => fields = ParseFormData(FormBody(ask.pairs))

FormInv ==
  /\ pc = "compose" => ask.route = "none"
  /\ pc # "compose" => ask \in Asks
  /\ ask.route = "shorten" => ShortenSteps

LEMMA ShortenPairs ==
  ASSUME NEW a \in Asks, a.route = "shorten"
  PROVE  /\ a.pairs \in Seq(Pair)
         /\ TextOf(a) = RequestText("POST", <<"/shorten">>, "Content-Type", <<"urlencoded">>, FormBody(a.pairs), CRLF)
<1>1. a.pairs \in Seq([name : Seq(FormChar), value : Seq(FormChar)])
  BY AsksAssumption
<1>2. TextOf(a) = RequestText("POST", <<"/shorten">>, "Content-Type", <<"urlencoded">>, FormBody(a.pairs), CRLF)
  BY DEF TextOf
<1>. QED
  BY <1>1, <1>2 DEF Pair

LEMMA FormSteps ==
  ASSUME FormInv, [Next]_vars
  PROVE  FormInv'
<1>1. CASE Compose
  <2>1. pc' = "handle_request" /\ raw' = TextOf(ask') /\ ask' \in Asks
    BY <1>1 DEF Compose
  <2>. QED
    BY <2>1 DEF FormInv, ShortenSteps
<1>2. CASE HandleRequest
  <2>0. pc = "handle_request" /\ ask' = ask /\ raw' = raw /\ fields' = fields /\ ask \in Asks /\ pc' # "compose"
    BY <1>2 DEF HandleRequest, FormInv, Fail, Respond
  <2>1. ASSUME ask.route = "shorten" PROVE pc' = "parse_form_data" /\ body' = FormBody(ask.pairs)
    <3>. DEFINE request == ParseRequest(raw)
    <3>1. ask.pairs \in Seq(Pair) /\ raw = TextOf(ask)
      BY <2>0, <2>1, ShortenPairs DEF FormInv, ShortenSteps
    <3>2. ReadFrom(raw, "POST", <<"/shorten">>, FormBody(ask.pairs))
      BY <2>0, <2>1, <3>1, ShortenPairs, ShortenIsRead
    <3>3. request.method = <<"POST">> /\ request.uri = <<"/shorten">> /\ request.body = FormBody(ask.pairs)
      BY <3>2 DEF ReadFrom
    <3>4. /\ body' = request.body
          /\ \/ /\ request.uri = <<"/shorten">>
                /\ \/ ~(request.method = <<"POST">>) /\ Fail(405, <<"Method not allowed">>)
                   \/ pc' = "parse_form_data"
             \/ request.uri = <<"/upload">>
             \/ request.uri[1] = "/stats/"
             \/ request.uri[1] = "/qr/"
             \/ request.uri \notin {<<"/shorten">>, <<"/upload">>}
      BY <1>2 DEF HandleRequest
    <3>5. <<"/shorten">> # <<"/upload">> /\ <<"/shorten">>[1] = "/shorten"
      OBVIOUS
    <3>. HIDE DEF request
    <3>. QED
      BY <3>3, <3>4, <3>5
  <2>. QED
    BY <2>0, <2>1 DEF FormInv, ShortenSteps
<1>3. CASE ParseForm
  <2>1. pc = "parse_form_data" /\ ask' = ask /\ fields' = ParseFormData(body) /\ pc' \in {"shorten_url", "done"}
    BY <1>3 DEF ParseForm, Fail, Respond
  <2>. QED
    BY <2>1 DEF FormInv, ShortenSteps
<1>4. CASE ShortenUrl
  <2>1. pc = "shorten_url" /\ ask' = ask /\ fields' = fields /\ pc' = "done"
    BY <1>4 DEF ShortenUrl, Succeed, Fail, Respond
  <2>. QED
    BY <2>1 DEF FormInv, ShortenSteps
<1>5. CASE FindFirstBoundary \/ ParsePart \/ UploadFile \/ HandleStats \/ HandleQrCode
  <2>1. pc \in {"extract_uploaded_file", "parse_part", "file_of_form", "handle_stats", "handle_qr_code"} /\ ask' = ask
    BY <1>5 DEF FindFirstBoundary, ParsePart, UploadFile, HandleStats, HandleQrCode
  <2>2. pc' # "compose"
    BY <1>5 DEF FindFirstBoundary, ParsePart, UploadFile, HandleStats, HandleQrCode, NoFileUploaded, Succeed, Fail, Respond
  <2>. QED
    BY <2>1, <2>2 DEF FormInv, ShortenSteps
<1>6. CASE UNCHANGED vars
  BY <1>6 DEF vars, FormInv, ShortenSteps
<1>. QED
  BY <1>1, <1>2, <1>3, <1>4, <1>5, <1>6 DEF Next

LEMMA FormHolds ==
  ASSUME FormInv
  PROVE  FormAsSent
<1>. SUFFICES ASSUME ask.route = "shorten", pc \in {"shorten_url", "done"} PROVE FormAsSent
  BY DEF FormAsSent
<1>. DEFINE ps == ask.pairs
            named == {i \in DOMAIN ps : ~IsEmpty(ps[i].name)}
<1>1. ask \in Asks /\ fields = ParseFormData(FormBody(ps))
  BY DEF FormInv, ShortenSteps
<1>2. ps \in Seq(Pair)
  BY <1>1, ShortenPairs
<1>. HIDE DEF ps
<1>3. Given(fields, ps, Len(ps))
  BY <1>1, <1>2, FormGivenBack
<1>4. named = NamedOf(ps, Len(ps))
  <2>1. DOMAIN ps = 1 .. Len(ps)
    BY <1>2, LenProperties
  <2>. QED
    BY <2>1 DEF NamedOf, IsEmpty
<1>. QED
  BY <1>3, <1>4 DEF FormAsSent, Given, ps

(***************************************************************************)
(* FormAsSent, for every form and every request that carries one: when the *)
(* service gets the fields, they are those that the client encoded.        *)
(***************************************************************************)
THEOREM FormsAreReadAsSent == Spec => []FormAsSent
<1>1. Init => FormInv
  BY DEF Init, FormInv
<1>2. FormInv /\ [Next]_vars => FormInv'
  BY FormSteps
<1>3. FormInv => FormAsSent
  BY FormHolds
<1>. QED
  BY <1>1, <1>2, <1>3, PTL DEF Spec

-----------------------------------------------------------------------------
(***************************************************************************)
(* UrlTargetKept: where the characters stand that normalize_url looks for. *)
(***************************************************************************)
LEMMA FindOneIs ==
  ASSUME NEW t, IsSeq(t), NEW c, NEW from \in Nat, from >= 1
  PROVE  Find(t, <<c>>, from) = FindFirstOf(t, {c}, from)
<1>1. \A i \in from .. Len(t) : StartsWith(t, i, <<c>>) <=> t[i] \in {c}
  <2>1. \A i \in from .. Len(t) : i \in 1 .. Len(t)
    BY SeqShape
  <2>. QED
    BY <2>1, CharAt
<1>2. {i \in from .. Len(t) : StartsWith(t, i, <<c>>)} = {i \in from .. Len(t) : t[i] \in {c}}
  BY <1>1
<1>. QED
  BY <1>2 DEF Find, FindFirstOf

LEMMA FirstOfIs ==
  ASSUME NEW t, IsSeq(t), NEW chars, NEW from \in Nat, from >= 1
  PROVE  LET p == FindFirstOf(t, chars, from)
         IN /\ p \in Nat
            /\ p # npos => p \in from .. Len(t) /\ t[p] \in chars /\ \A i \in from .. p - 1 : t[i] \notin chars
            /\ p = npos => \A i \in from .. Len(t) : t[i] \notin chars
<1>. DEFINE S == {i \in from .. Len(t) : t[i] \in chars}
            p == FindFirstOf(t, chars, from)
<1>1. Len(t) \in Nat /\ S \in SUBSET Nat /\ p = FirstOrNpos(S)
      /\ S = {i \in from .. Len(t) : t[i] \in chars}
  BY SeqShape DEF FindFirstOf
<1>. HIDE DEF S, p
<1>2. CASE S = {}
  BY <1>1, <1>2 DEF FirstOrNpos, npos, p
<1>3. CASE S # {}
  <2>1. p \in S /\ \A y \in S : p <= y
    BY <1>1, <1>3, MinIs DEF FirstOrNpos
  <2>2. p \in from .. Len(t) /\ t[p] \in chars /\ p # npos
    BY <1>1, <2>1 DEF npos
  <2>3. ASSUME NEW i \in from .. p - 1 PROVE t[i] \notin chars
    <3>1. i \in from .. Len(t) /\ ~(p <= i)
      BY <1>1, <2>2
    <3>. QED
      BY <1>1, <2>1, <3>1
  <2>. QED
    BY <2>2, <2>3 DEF p
<1>. QED
  BY <1>2, <1>3

(* The first of some characters, where it is known which one that is. *)
LEMMA FirstOfAt ==
  ASSUME NEW t, IsSeq(t), NEW chars, NEW from \in Nat, from >= 1
  PROVE  /\ \A p \in from .. Len(t) :
              t[p] \in chars /\ (\A i \in from .. p - 1 : t[i] \notin chars) => FindFirstOf(t, chars, from) = p
         /\ (\A i \in from .. Len(t) : t[i] \notin chars) => FindFirstOf(t, chars, from) = npos
<1>. DEFINE f == FindFirstOf(t, chars, from)
<1>1. /\ f \in Nat
      /\ f # npos => f \in from .. Len(t) /\ t[f] \in chars /\ \A i \in from .. f - 1 : t[i] \notin chars
      /\ f = npos => \A i \in from .. Len(t) : t[i] \notin chars
  BY FirstOfIs
<1>2. Len(t) \in Nat
  BY SeqShape
<1>. HIDE DEF f
<1>3. ASSUME NEW p \in from .. Len(t), t[p] \in chars, \A i \in from .. p - 1 : t[i] \notin chars PROVE f = p
  <2>1. f # npos
    BY <1>1, <1>3
  <2>2. ~(f \in from .. p - 1) /\ ~(p \in from .. f - 1)
    BY <1>1, <1>3, <2>1
  <2>. QED
    BY <1>1, <1>2, <2>1, <2>2
<1>4. ASSUME \A i \in from .. Len(t) : t[i] \notin chars PROVE f = npos
  BY <1>1, <1>4
<1>. QED
  BY <1>3, <1>4 DEF f

(* A piece of a text has no delimiter, or begins with one. *)
Lacks(t, chars) == \A i \in 1 .. Len(t) : t[i] \notin chars
Opens(t, chars) == t = <<>> \/ (Len(t) > 0 /\ t[1] \in chars)

LEMMA LacksOfTwo ==
  ASSUME NEW x, IsSeq(x), NEW y, IsSeq(y), NEW chars
  PROVE  Lacks(x \o y, chars) <=> Lacks(x, chars) /\ Lacks(y, chars)
<1>. DEFINE z == x \o y
<1>1. /\ Len(x) \in Nat /\ Len(y) \in Nat /\ Len(z) = Len(x) + Len(y)
      /\ \A i \in 1 .. Len(x) + Len(y) : z[i] = IF i <= Len(x) THEN x[i] ELSE y[i - Len(x)]
  BY ConcatShape, SeqShape
<1>. HIDE DEF z
<1>2. ASSUME Lacks(z, chars) PROVE Lacks(x, chars) /\ Lacks(y, chars)
  <2>1. ASSUME NEW i \in 1 .. Len(x) PROVE x[i] \notin chars
    <3>1. i \in 1 .. Len(z) /\ i <= Len(x) /\ z[i] = x[i]
      BY <1>1
    <3>. QED
      BY <1>2, <3>1 DEF Lacks
  <2>2. ASSUME NEW i \in 1 .. Len(y) PROVE y[i] \notin chars
    <3>1. Len(x) + i \in 1 .. Len(z) /\ ~(Len(x) + i <= Len(x)) /\ Len(x) + i - Len(x) = i
      BY <1>1
    <3>2. z[Len(x) + i] = y[i]
      BY <1>1, <3>1
    <3>. QED
      BY <1>2, <3>1, <3>2 DEF Lacks
  <2>. QED
    BY <2>1, <2>2 DEF Lacks
<1>3. ASSUME Lacks(x, chars), Lacks(y, chars) PROVE Lacks(z, chars)
  <2>1. ASSUME NEW i \in 1 .. Len(z) PROVE z[i] \notin chars
    <3>1. CASE i <= Len(x)
      <4>1. i \in 1 .. Len(x) /\ z[i] = x[i]
        BY <1>1, <3>1
      <4>. QED
        BY <1>3, <4>1 DEF Lacks
    <3>2. CASE ~(i <= Len(x))
      <4>1. i - Len(x) \in 1 .. Len(y) /\ z[i] = y[i - Len(x)]
        BY <1>1, <3>2
      <4>. QED
        BY <1>3, <4>1 DEF Lacks
    <3>. QED
      BY <3>1, <3>2
  <2>. QED
    BY <2>1 DEF Lacks
<1>. QED
  BY <1>2, <1>3 DEF z

LEMMA OpensOfTwo ==
  ASSUME NEW x, IsSeq(x), NEW y, IsSeq(y), NEW chars, Opens(x, chars), Opens(y, chars)
  PROVE  Opens(x \o y, chars)
<1>1. Len(x) \in Nat /\ Len(y) \in Nat /\ Len(x \o y) = Len(x) + Len(y) /\ <<>> \o y = y
      /\ \A i \in 1 .. Len(x) + Len(y) : (x \o y)[i] = IF i <= Len(x) THEN x[i] ELSE y[i - Len(x)]
  BY ConcatShape, SeqShape, ConcatOfNone
<1>2. CASE x = <<>>
  BY <1>1, <1>2
<1>3. CASE x # <<>>
  <2>1. Len(x) > 0 /\ x[1] \in chars
    BY <1>3 DEF Opens
  <2>2. 1 \in 1 .. Len(x) + Len(y) /\ 1 <= Len(x)
    BY <1>1, <2>1
  <2>3. (x \o y)[1] = x[1] /\ Len(x \o y) > 0
    BY <1>1, <2>1, <2>2
  <2>. QED
    BY <2>1, <2>3 DEF Opens
<1>. QED
  BY <1>2, <1>3

(***************************************************************************)
(* In x, w and y one behind the other, the first of some characters behind *)
(* x is where y begins, if w has none of them and y begins with one.       *)
(***************************************************************************)
StopFound(x, w, y, chars) ==
  LET t == x \o (w \o y)
      p == FindFirstOf(t, chars, Len(x) + 1)
  IN /\ p = IF y = <<>> THEN npos ELSE Len(x) + Len(w) + 1
     /\ OrEnd(p, t) = Len(x) + Len(w) + 1
     /\ Len(x) \in Nat /\ Len(w) \in Nat /\ Len(y) \in Nat /\ Len(t) = Len(x) + Len(w) + Len(y)

LEMMA StopBehind ==
  ASSUME NEW x, IsSeq(x), NEW w, IsSeq(w), NEW y, IsSeq(y), NEW chars, Lacks(w, chars), Opens(y, chars)
  PROVE  StopFound(x, w, y, chars)
<1>. DEFINE t == x \o (w \o y)
            from == Len(x) + 1
            stop == Len(x) + Len(w) + 1
            p == FindFirstOf(t, chars, from)
<1>1. /\ Len(x) \in Nat /\ Len(w) \in Nat /\ Len(y) \in Nat /\ IsSeq(w \o y)
      /\ Len(w \o y) = Len(w) + Len(y)
      /\ \A i \in 1 .. Len(w) + Len(y) : (w \o y)[i] = IF i <= Len(w) THEN w[i] ELSE y[i - Len(w)]
  BY SeqShape, ConcatShape
<1>2. /\ IsSeq(t) /\ Len(t) = Len(x) + Len(w) + Len(y)
      /\ \A i \in 1 .. Len(t) : t[i] = IF i <= Len(x) THEN x[i] ELSE (w \o y)[i - Len(x)]
  <2>1. IsSeq(t) /\ Len(t) = Len(x) + Len(w \o y)
        /\ \A i \in 1 .. Len(x) + Len(w \o y) : t[i] = IF i <= Len(x) THEN x[i] ELSE (w \o y)[i - Len(x)]
    BY <1>1, ConcatShape
  <2>. QED
    BY <1>1, <2>1
<1>3. from \in Nat /\ from >= 1
  BY <1>1
<1>. HIDE DEF t
<1>4. \A i \in from .. stop - 1 : t[i] \notin chars
  <2>. TAKE i \in from .. stop - 1
  <2>1. i \in 1 .. Len(t) /\ ~(i <= Len(x)) /\ i - Len(x) \in 1 .. Len(w) /\ i - Len(x) \in 1 .. Len(w) + Len(y)
        /\ i - Len(x) <= Len(w)
    BY <1>1, <1>2
  <2>2. t[i] = (w \o y)[i - Len(x)] /\ (w \o y)[i - Len(x)] = w[i - Len(x)]
    BY <1>1, <1>2, <2>1
  <2>. QED
    BY <2>1, <2>2 DEF Lacks
<1>5. CASE y = <<>>
  <2>1. Len(y) = 0 /\ stop - 1 = Len(t)
    BY <1>1, <1>2, <1>5
  <2>2. p = npos
    BY <1>2, <1>3, <1>4, <2>1, FirstOfAt
  <2>. QED
    BY <1>1, <1>2, <1>5, <2>1, <2>2 DEF OrEnd, npos, t, StopFound
<1>6. CASE y # <<>>
  <2>1. Len(y) > 0 /\ y[1] \in chars
    BY <1>6 DEF Opens
  <2>2. stop \in from .. Len(t) /\ stop \in 1 .. Len(t) /\ ~(stop <= Len(x)) /\ stop - Len(x) = Len(w) + 1
        /\ Len(w) + 1 \in 1 .. Len(w) + Len(y) /\ ~(Len(w) + 1 <= Len(w)) /\ Len(w) + 1 - Len(w) = 1
    BY <1>1, <1>2, <2>1
  <2>3. t[stop] = (w \o y)[stop - Len(x)] /\ (w \o y)[Len(w) + 1] = y[Len(w) + 1 - Len(w)]
    BY <1>1, <1>2, <2>2
  <2>4. t[stop] = y[1]
    BY <2>2, <2>3
  <2>5. p = stop
    BY <1>2, <1>3, <1>4, <2>1, <2>2, <2>4, FirstOfAt
  <2>. QED
    BY <1>1, <1>2, <1>6, <2>2, <2>5 DEF OrEnd, npos, t, StopFound
<1>. QED
  BY <1>5, <1>6 DEF StopFound

(* Three pieces one behind the other, and what is cut out of them again. *)
ThreePieces(t, x, w, y) ==
  /\ IsSeq(t) /\ Len(t) = Len(x) + Len(w) + Len(y)
  /\ Len(x) \in Nat /\ Len(w) \in Nat /\ Len(y) \in Nat
  /\ \A i \in 1 .. Len(x) : t[i] = x[i]
  /\ \A i \in 1 .. Len(w) : t[Len(x) + i] = w[i]
  /\ \A i \in 1 .. Len(y) : t[Len(x) + Len(w) + i] = y[i]

CutInThree(t, x, w, y) ==
  /\ SubSeq(t, 1, Len(x)) = x
  /\ SubSeq(t, Len(x) + 1, Len(x) + Len(w)) = w
  /\ SubSeq(t, 1, Len(x) + Len(w)) = x \o w
  /\ SubSeq(t, Len(x) + Len(w) + 1, Len(t)) = y
  /\ t = (x \o w) \o y

LEMMA ThreeShape ==
  ASSUME NEW x, IsSeq(x), NEW w, IsSeq(w), NEW y, IsSeq(y)
  PROVE  ThreePieces(x \o (w \o y), x, w, y) /\ CutInThree(x \o (w \o y), x, w, y)
<1>. DEFINE t == x \o (w \o y)
            r == w \o y
<1>1. /\ Len(x) \in Nat /\ Len(w) \in Nat /\ Len(y) \in Nat /\ IsSeq(r) /\ Len(r) = Len(w) + Len(y)
      /\ \A i \in 1 .. Len(w) + Len(y) : r[i] = IF i <= Len(w) THEN w[i] ELSE y[i - Len(w)]
  BY SeqShape, ConcatShape
<1>2. t = x \o r /\ t = (x \o w) \o y
  BY ConcatOfThree
<1>. HIDE DEF t, r
<1>3. /\ IsSeq(t) /\ Len(t) = Len(x) + Len(w) + Len(y)
      /\ \A i \in 1 .. Len(t) : t[i] = IF i <= Len(x) THEN x[i] ELSE r[i - Len(x)]
  <2>1. IsSeq(t) /\ Len(t) = Len(x) + Len(r)
        /\ \A i \in 1 .. Len(x) + Len(r) : t[i] = IF i <= Len(x) THEN x[i] ELSE r[i - Len(x)]
    BY <1>1, <1>2, ConcatShape
  <2>. QED
    BY <1>1, <2>1
<1>4. \A i \in 1 .. Len(x) : t[i] = x[i]
  BY <1>1, <1>3
<1>5. ASSUME NEW i \in 1 .. Len(w) PROVE t[Len(x) + i] = w[i]
  <2>1. Len(x) + i \in 1 .. Len(t) /\ ~(Len(x) + i <= Len(x)) /\ Len(x) + i - Len(x) = i
        /\ i \in 1 .. Len(w) + Len(y) /\ i <= Len(w)
    BY <1>1, <1>3
  <2>2. t[Len(x) + i] = r[Len(x) + i - Len(x)] /\ r[i] = w[i]
    BY <1>1, <1>3, <2>1
  <2>. QED
    BY <2>1, <2>2
<1>6. ASSUME NEW i \in 1 .. Len(y) PROVE t[Len(x) + Len(w) + i] = y[i]
  <2>1. /\ Len(x) + Len(w) + i \in 1 .. Len(t) /\ ~(Len(x) + Len(w) + i <= Len(x))
        /\ Len(x) + Len(w) + i - Len(x) = Len(w) + i
        /\ Len(w) + i \in 1 .. Len(w) + Len(y) /\ ~(Len(w) + i <= Len(w)) /\ Len(w) + i - Len(w) = i
    BY <1>1, <1>3
  <2>2. t[Len(x) + Len(w) + i] = r[Len(x) + Len(w) + i - Len(x)] /\ r[Len(w) + i] = y[Len(w) + i - Len(w)]
    BY <1>1, <1>3, <2>1
  <2>. QED
    BY <2>1, <2>2
<1>7. SubSeq(t, 1, Len(x)) = x
  <2>1. At(t, 1, x)
    BY <1>1, <1>3, <1>4 DEF At
  <2>2. 1 + Len(x) - 1 = Len(x)
    BY <1>1
  <2>. QED
    BY <1>3, <2>1, <2>2, AtCut
<1>8. SubSeq(t, Len(x) + 1, Len(x) + Len(w)) = w
  <2>0. \A k \in 1 .. Len(w) : Len(x) + 1 + k - 1 = Len(x) + k
    BY <1>1
  <2>1. At(t, Len(x) + 1, w)
    BY <1>1, <1>3, <1>5, <2>0 DEF At
  <2>2. Len(x) + 1 \in Nat /\ Len(x) + 1 >= 1 /\ Len(x) + 1 + Len(w) - 1 = Len(x) + Len(w)
    BY <1>1
  <2>3. SubSeq(t, Len(x) + 1, Len(x) + 1 + Len(w) - 1) = w
    BY <1>3, <2>1, <2>2, AtCut
  <2>. QED
    BY <2>2, <2>3
<1>9. SubSeq(t, Len(x) + Len(w) + 1, Len(t)) = y
  <2>. DEFINE p == Len(x) + Len(w) + 1
  <2>0. \A k \in 1 .. Len(y) : p + k - 1 = Len(x) + Len(w) + k
    BY <1>1
  <2>1. At(t, p, y)
    BY <1>1, <1>3, <1>6, <2>0 DEF At
  <2>2. p \in Nat /\ p >= 1 /\ p + Len(y) - 1 = Len(t)
    BY <1>1, <1>3
  <2>3. SubSeq(t, p, p + Len(y) - 1) = y
    BY <1>3, <2>1, <2>2, AtCut
  <2>. QED
    BY <2>2, <2>3
<1>10. SubSeq(t, 1, Len(x) + Len(w)) = x \o w
  <2>. DEFINE v == x \o w
  <2>1. /\ IsSeq(v) /\ Len(v) = Len(x) + Len(w)
        /\ \A i \in 1 .. Len(x) + Len(w) : v[i] = IF i <= Len(x) THEN x[i] ELSE w[i - Len(x)]
    BY ConcatShape
  <2>. HIDE DEF v
  <2>2. ASSUME NEW k \in 1 .. Len(v) PROVE t[1 + k - 1] = v[k]
    <3>1. CASE k <= Len(x)
      <4>1. k \in 1 .. Len(x) /\ 1 + k - 1 = k /\ v[k] = x[k]
        BY <1>1, <2>1, <3>1
      <4>. QED
        BY <1>4, <4>1
    <3>2. CASE ~(k <= Len(x))
      <4>1. k - Len(x) \in 1 .. Len(w) /\ 1 + k - 1 = Len(x) + (k - Len(x)) /\ v[k] = w[k - Len(x)]
        BY <1>1, <2>1, <3>2
      <4>. QED
        BY <1>5, <4>1
    <3>. QED
      BY <3>1, <3>2
  <2>3. At(t, 1, v) /\ 1 + Len(v) - 1 = Len(x) + Len(w)
    BY <1>1, <1>3, <2>1, <2>2 DEF At
  <2>4. SubSeq(t, 1, Len(x) + Len(w)) = v
    <3>1. IsSeq(t) /\ IsSeq(v) /\ At(t, 1, v) /\ 1 + Len(v) - 1 = Len(x) + Len(w)
      BY <1>3, <2>1, <2>3
    <3>. QED
      BY <3>1, AtCut
  <2>. QED
    BY <2>4 DEF v
<1>. QED
  BY <1>1, <1>2, <1>3, <1>4, <1>5, <1>6, <1>7, <1>8, <1>9, <1>10 DEF t, ThreePieces, CutInThree

LEMMA SeparatorIs ==
  /\ IsSeq(Separator) /\ Len(Separator) = 3
  /\ Separator[1] = ":" /\ Separator[2] = "/" /\ Separator[3] = "/"
BY TupleShape DEF Separator

LEMMA SeparatorFound ==
  ASSUME NEW s, IsSeq(s), Lacks(s, {":"}), NEW r, IsSeq(r)
  PROVE  LET t == s \o (Separator \o r)
         IN Find(t, Separator, 1) = Len(s) + 1 /\ HasWord(t, Separator)
<1>. DEFINE t == s \o (Separator \o r)
            p == Len(s) + 1
            one == 1
<1>1. /\ IsSeq(t) /\ Len(t) = Len(s) + Len(Separator) + Len(r)
      /\ Len(s) \in Nat /\ Len(r) \in Nat /\ Len(Separator) = 3 /\ IsSeq(Separator)
      /\ \A i \in 1 .. Len(s) : t[i] = s[i]
      /\ \A i \in 1 .. Len(Separator) : t[Len(s) + i] = Separator[i]
  <2>1. IsSeq(Separator)
    BY SeparatorIs
  <2>2. ThreePieces(t, s, Separator, r)
    BY <2>1, ThreeShape
  <2>. QED
    BY <2>2, SeparatorIs DEF ThreePieces
<1>. HIDE DEF t
<1>2. At(t, p, Separator)
  <2>1. \A k \in 1 .. Len(Separator) : p + k - 1 = Len(s) + k
    BY <1>1
  <2>2. p + Len(Separator) - 1 <= Len(t)
    BY <1>1
  <2>. QED
    BY <1>1, <2>1, <2>2 DEF At
<1>3. ASSUME NEW i \in one .. p - 1, At(t, i, Separator) PROVE FALSE
  <2>1. i \in 1 .. Len(s) /\ 1 \in 1 .. Len(Separator) /\ i + 1 - 1 = i
    BY <1>1
  <2>2. t[i + 1 - 1] = Separator[1]
    BY <1>3, <2>1 DEF At
  <2>. QED
    BY <1>1, <2>1, <2>2, SeparatorIs DEF Lacks
<1>4. one \in Nat /\ one >= 1 /\ p \in Nat /\ one <= p /\ Len(Separator) > 0
  BY <1>1
<1>. HIDE DEF one
<1>5. Find(t, Separator, one) = p
  BY <1>1, <1>2, <1>3, <1>4, FindAt
<1>. QED
  BY <1>1, <1>4, <1>5 DEF HasWord, npos, one, t

(* What stands before the host: nothing, or a user that ends with the only @. *)
UserPart(user) ==
  user = <<>> \/ (Len(user) > 0 /\ user[Len(user)] = "@" /\ \A i \in 1 .. Len(user) - 1 : user[i] # "@")

LEMMA UserSkipped ==
  ASSUME NEW x, IsSeq(x), NEW user, IsSeq(user), UserPart(user), NEW y, IsSeq(y), NEW z, IsSeq(z),
         NEW stops, "@" \notin stops, Lacks(user, stops), Lacks(y, {"@"}),
         user # <<>> \/ Opens(z, stops) \/ Lacks(z, {"@"})
  PROVE  SkipUser(x \o (user \o (y \o z)), Len(x) + 1, stops) = Len(x) + Len(user) + 1
<1>. DEFINE r == y \o z
            t == x \o (user \o r)
            from == Len(x) + 1
            at == Find(t, <<"@">>, from)
            stop == FindFirstOf(t, stops, from)
<1>1. IsSeq(r)
  BY ConcatShape
<1>2. /\ IsSeq(t) /\ Len(t) = Len(x) + Len(user) + Len(r)
      /\ Len(x) \in Nat /\ Len(user) \in Nat /\ Len(r) \in Nat
      /\ \A i \in 1 .. Len(user) : t[Len(x) + i] = user[i]
  <2>1. ThreePieces(t, x, user, r)
    BY <1>1, ThreeShape
  <2>. QED
    BY <2>1 DEF ThreePieces
<1>3. from \in Nat /\ from >= 1
  BY <1>2
<1>4. at = FindFirstOf(t, {"@"}, from)
  BY <1>2, <1>3, FindOneIs
<1>5. /\ stop \in Nat
      /\ stop # npos => stop \in from .. Len(t) /\ t[stop] \in stops /\ \A i \in from .. stop - 1 : t[i] \notin stops
      /\ stop = npos => \A i \in from .. Len(t) : t[i] \notin stops
  BY <1>2, <1>3, FirstOfIs
<1>6. SkipUser(t, from, stops) = IF at # npos /\ (stop = npos \/ at < stop) THEN at + 1 ELSE from
  BY DEF SkipUser
<1>7. CASE user # <<>>
  <2>. DEFINE e == Len(x) + Len(user)
  <2>1. Len(user) > 0 /\ user[Len(user)] = "@" /\ \A i \in 1 .. Len(user) - 1 : user[i] # "@"
    BY <1>7 DEF UserPart
  <2>2. e \in from .. Len(t) /\ t[e] = "@"
    BY <1>2, <2>1
  <2>3. ASSUME NEW i \in from .. e PROVE t[i] \notin stops /\ (i < e => t[i] # "@")
    <3>1. i - Len(x) \in 1 .. Len(user) /\ i = Len(x) + (i - Len(x))
      BY <1>2
    <3>2. t[Len(x) + (i - Len(x))] = user[i - Len(x)]
      BY <1>2, <3>1
    <3>3. i < e => i - Len(x) \in 1 .. Len(user) - 1
      BY <1>2, <3>1
    <3>. QED
      BY <2>1, <3>1, <3>2, <3>3 DEF Lacks
  <2>4. \A i \in from .. e - 1 : t[i] \notin {"@"}
    <3>1. \A i \in from .. e - 1 : i \in from .. e /\ i < e
      BY <1>2
    <3>. QED
      BY <2>3, <3>1
  <2>5. at = e
    <3>. HIDE DEF t, e, at
    <3>1. t[e] \in {"@"}
      BY <2>2
    <3>. QED
      BY <1>2, <1>3, <1>4, <2>2, <2>4, <3>1, FirstOfAt
  <2>6. stop = npos \/ e < stop
    <3>. HIDE DEF t, stop
    <3>1. stop # npos => ~(stop \in from .. e)
      BY <1>5, <2>3
    <3>. QED
      BY <1>2, <1>5, <3>1
  <2>7. at # npos
    BY <1>2, <2>1, <2>5 DEF npos
  <2>. QED
    BY <1>6, <2>5, <2>6, <2>7
<1>8. CASE user = <<>>
  <2>1. Len(user) = 0 /\ t = x \o r
    <3>1. <<>> \o r = r
      BY <1>1, ConcatOfNone
    <3>. QED
      BY <1>2, <1>8, <3>1, SeqShape
  <2>2. /\ Len(y) \in Nat /\ Len(z) \in Nat /\ Len(t) = Len(x) + Len(y) + Len(z)
        /\ \A i \in 1 .. Len(y) : t[Len(x) + i] = y[i]
        /\ \A i \in 1 .. Len(z) : t[Len(x) + Len(y) + i] = z[i]
    <3>1. ThreePieces(x \o (y \o z), x, y, z)
      BY ThreeShape
    <3>. QED
      BY <2>1, <3>1 DEF ThreePieces
  <2>3. ASSUME at # npos, stop = npos \/ at < stop PROVE FALSE
    <3>. HIDE DEF t, at, stop
    <3>1. at \in from .. Len(t) /\ t[at] \in {"@"}
      BY <1>2, <1>3, <1>4, <2>3, FirstOfIs
    <3>2. ~(at - Len(x) \in 1 .. Len(y))
      <4>1. ASSUME at - Len(x) \in 1 .. Len(y) PROVE FALSE
        <5>1. t[Len(x) + (at - Len(x))] = y[at - Len(x)] /\ Len(x) + (at - Len(x)) = at
          BY <1>2, <2>2, <3>1, <4>1
        <5>. QED
          BY <3>1, <4>1, <5>1 DEF Lacks
      <4>. QED
        BY <4>1
    <3>3. at - Len(x) - Len(y) \in 1 .. Len(z) /\ Len(x) + Len(y) + (at - Len(x) - Len(y)) = at
      BY <1>2, <2>2, <3>1, <3>2
    <3>4. t[at] = z[at - Len(x) - Len(y)]
      BY <2>2, <3>3
    <3>5. ~Lacks(z, {"@"})
      BY <3>1, <3>3, <3>4 DEF Lacks
    <3>6. Len(z) > 0 /\ z[1] \in stops
      <4>1. Len(z) > 0
        BY <2>2, <3>3
      <4>2. z # <<>>
        BY <4>1, SeqShape
      <4>. QED
        BY <1>8, <3>5, <4>2 DEF Opens
    <3>7. Len(x) + Len(y) + 1 \in from .. Len(t) /\ t[Len(x) + Len(y) + 1] \in stops
      <4>1. 1 \in 1 .. Len(z)
        BY <2>2, <3>6
      <4>. QED
        BY <1>2, <2>2, <3>6, <4>1
    <3>8. stop # npos /\ ~(Len(x) + Len(y) + 1 \in from .. stop - 1)
      BY <1>5, <3>7
    <3>9. stop <= Len(x) + Len(y) + 1
      BY <1>2, <1>5, <2>2, <3>7, <3>8
    <3>10. at < stop
      BY <2>3, <3>8
    <3>. QED
      BY <1>2, <1>5, <2>2, <3>1, <3>3, <3>8, <3>9, <3>10
  <2>4. Len(x) + Len(user) + 1 = from
    BY <1>2, <2>1
  <2>. QED
    BY <1>6, <2>3, <2>4
<1>. QED
  BY <1>7, <1>8 DEF t, r

-----------------------------------------------------------------------------
(* What ToLower makes of a text, whose delimiters it leaves. *)
Delimiters == {":", "/", "?", "#", "@", "[", "]", "."}

LEMMA LowerCaseIs ==
  \A c \in DOMAIN LowerCase :
    /\ LowerCase[c] \notin DOMAIN LowerCase
    /\ c \notin Delimiters /\ LowerCase[c] \notin Delimiters
BY DEF LowerCase, Delimiters

Lowered(new, old) ==
  /\ IsSeq(new) /\ Len(new) = Len(old)
  /\ \A i \in 1 .. Len(old) : \A d \in Delimiters : new[i] = d <=> old[i] = d
  /\ \A i \in 1 .. Len(old) : new[i] \notin DOMAIN LowerCase
  /\ (\A i \in 1 .. Len(old) : old[i] \notin DOMAIN LowerCase) => new = old

LEMMA LowerIs ==
  ASSUME NEW t, IsSeq(t)
  PROVE  Lowered(ToLower(t), t) /\ ToLower(ToLower(t)) = ToLower(t)
<1>1. ASSUME NEW u, IsSeq(u) PROVE Lowered(ToLower(u), u)
  <2>. DEFINE n == Len(u)
              v == ToLower(u)
  <2>1. n \in Nat /\ DOMAIN u = 1 .. n
    BY <1>1, SeqShape
  <2>2. DOMAIN v = 1 .. n /\ v = [i \in 1 .. n |-> IF u[i] \in DOMAIN LowerCase THEN LowerCase[u[i]] ELSE u[i]]
    BY <2>1 DEF ToLower, Change
  <2>. HIDE DEF v
  <2>3. \A i \in 1 .. n : v[i] = IF u[i] \in DOMAIN LowerCase THEN LowerCase[u[i]] ELSE u[i]
    BY <2>2
  <2>4. v = [i \in 1 .. n |-> v[i]]
    BY <2>2, <2>3
  <2>. HIDE DEF n
  <2>5. IsSeq(v) /\ Len(v) = n
    BY <2>1, <2>2, <2>4, MadeShape
  <2>6. \A i \in 1 .. n : v[i] \notin DOMAIN LowerCase /\ \A d \in Delimiters : v[i] = d <=> u[i] = d
    BY <2>3, LowerCaseIs
  <2>7. ASSUME \A i \in 1 .. n : u[i] \notin DOMAIN LowerCase PROVE v = u
    <3>1. \A i \in 1 .. n : v[i] = u[i]
      BY <2>3, <2>7
    <3>2. Len(u) = n
      BY DEF n
    <3>. QED
      BY <1>1, <2>5, <3>1, <3>2, SameShape
  <2>. QED
    BY <2>5, <2>6, <2>7 DEF Lowered, n, v
<1>2. Lowered(ToLower(t), t)
  BY <1>1
<1>3. IsSeq(ToLower(t)) /\ \A i \in 1 .. Len(ToLower(t)) : ToLower(t)[i] \notin DOMAIN LowerCase
  BY <1>2 DEF Lowered
<1>4. Lowered(ToLower(ToLower(t)), ToLower(t))
  BY <1>1, <1>3
<1>. QED
  BY <1>2, <1>3, <1>4 DEF Lowered

LEMMA LacksLowered ==
  ASSUME NEW new, NEW old, Lowered(new, old), NEW chars, chars \subseteq Delimiters
  PROVE  Lacks(new, chars) <=> Lacks(old, chars)
BY DEF Lowered, Lacks

(* A text that has a character, cut where it is first. *)
LEMMA CutAtFirst ==
  ASSUME NEW t, IsSeq(t), NEW c, ~Lacks(t, {c})
  PROVE  \E a, b : /\ IsSeq(a) /\ IsSeq(b) /\ t = a \o b
                   /\ Lacks(a, {c}) /\ b # <<>> /\ Opens(b, {c})
<1>. DEFINE p == FindFirstOf(t, {c}, 1)
            a == SubSeq(t, 1, p - 1)
            b == SubSeq(t, p, Len(t))
            v == a \o b
<1>1. Len(t) \in Nat
  BY SeqShape
<1>2. p \in 1 .. Len(t) /\ t[p] = c /\ \A i \in 1 .. p - 1 : t[i] # c
  <2>. DEFINE one == 1
  <2>1. one \in Nat /\ one >= 1
    OBVIOUS
  <2>2. p = FindFirstOf(t, {c}, one)
    OBVIOUS
  <2>. HIDE DEF one, p
  <2>3. /\ p # npos => p \in one .. Len(t) /\ t[p] \in {c} /\ \A i \in one .. p - 1 : t[i] \notin {c}
        /\ p = npos => \A i \in one .. Len(t) : t[i] \notin {c}
    BY <2>1, <2>2, FirstOfIs
  <2>4. p # npos
    BY <2>3 DEF one, Lacks
  <2>. QED
    BY <2>3, <2>4 DEF one
<1>. HIDE DEF p
<1>3. /\ IsSeq(a) /\ Len(a) = p - 1 /\ \A k \in 1 .. p - 1 : a[k] = t[k]
  <2>. DEFINE n == p - 1
  <2>1. n \in 0 .. Len(t)
    BY <1>1, <1>2
  <2>. HIDE DEF n
  <2>2. IsSeq(SubSeq(t, 1, n)) /\ Len(SubSeq(t, 1, n)) = n /\ \A i \in 1 .. n : SubSeq(t, 1, n)[i] = t[i]
    BY <2>1, FirstShape
  <2>. QED
    BY <2>2 DEF n
<1>4. /\ IsSeq(b) /\ Len(b) = Len(t) - p + 1 /\ \A k \in 1 .. Len(t) - p + 1 : b[k] = t[p + k - 1]
  BY <1>1, <1>2, CutIs
<1>. HIDE DEF a, b
<1>5. /\ IsSeq(v) /\ Len(v) = Len(a) + Len(b)
      /\ \A i \in 1 .. Len(a) + Len(b) : v[i] = IF i <= Len(a) THEN a[i] ELSE b[i - Len(a)]
  BY <1>3, <1>4, ConcatShape
<1>. HIDE DEF v
<1>6. ASSUME NEW i \in 1 .. Len(t) PROVE v[i] = t[i]
  <2>0. i \in 1 .. Len(a) + Len(b)
    BY <1>1, <1>2, <1>3, <1>4
  <2>1. CASE i <= Len(a)
    <3>1. i \in 1 .. p - 1 /\ v[i] = a[i]
      BY <1>1, <1>2, <1>3, <1>5, <2>0, <2>1
    <3>. QED
      BY <1>3, <3>1
  <2>2. CASE ~(i <= Len(a))
    <3>1. i - Len(a) \in 1 .. Len(t) - p + 1 /\ p + (i - Len(a)) - 1 = i
      BY <1>1, <1>2, <1>3, <2>2
    <3>2. v[i] = b[i - Len(a)] /\ b[i - Len(a)] = t[p + (i - Len(a)) - 1]
      BY <1>4, <1>5, <2>0, <2>2, <3>1
    <3>. QED
      BY <3>1, <3>2
  <2>. QED
    BY <2>1, <2>2
<1>7. t = v
  <2>1. Len(v) = Len(t)
    BY <1>1, <1>2, <1>3, <1>4, <1>5
  <2>. QED
    BY <1>5, <1>6, <2>1, SameShape
<1>8. Lacks(a, {c})
  <2>1. \A i \in 1 .. Len(a) : i \in 1 .. p - 1
    BY <1>3
  <2>. QED
    BY <1>2, <1>3, <2>1 DEF Lacks
<1>9. b # <<>> /\ Opens(b, {c})
  <2>1. Len(b) > 0 /\ 1 \in 1 .. Len(t) - p + 1 /\ p + 1 - 1 = p
    BY <1>1, <1>2, <1>4
  <2>2. b[1] = t[p + 1 - 1]
    BY <1>4, <2>1
  <2>3. b # <<>>
    BY <1>4, <2>1, SeqShape
  <2>. QED
    BY <1>2, <2>1, <2>2, <2>3 DEF Opens
<1>. QED
  BY <1>3, <1>4, <1>7, <1>8, <1>9 DEF v

LEMMA WithoutShape ==
  ASSUME NEW t, IsSeq(t), NEW c
  PROVE  LET w == Without(t, c)
         IN /\ IsSeq(w) /\ Len(w) <= Len(t) /\ \A i \in 1 .. Len(w) : w[i] = t[i]
            /\ Len(w) \in Nat /\ Len(t) \in Nat /\ Len(w) >= Len(t) - 1
            /\ Len(t) > 0 /\ t[Len(t)] # c => w = t
            /\ Len(t) > 0 /\ t[Len(t)] = c => Len(w) = Len(t) - 1
<1>. DEFINE w == Without(t, c)
            n == Len(t) - 1
<1>1. Len(t) \in Nat /\ (t = <<>> <=> ~(Len(t) > 0))
  BY SeqShape
<1>2. CASE EndsIn(t, c)
  <2>1. Len(t) > 0 /\ t[Len(t)] = c /\ w = SubSeq(t, 1, n)
    BY <1>1, <1>2 DEF EndsIn, IsEmpty, Without
  <2>2. n \in 0 .. Len(t)
    BY <1>1, <2>1
  <2>. HIDE DEF n, w
  <2>3. IsSeq(w) /\ Len(w) = n /\ \A i \in 1 .. n : w[i] = t[i]
    BY <2>1, <2>2, FirstShape
  <2>. QED
    BY <1>1, <2>1, <2>2, <2>3 DEF n, w
<1>3. CASE ~EndsIn(t, c)
  <2>1. w = t /\ ~(Len(t) > 0 /\ t[Len(t)] = c)
    BY <1>1, <1>3 DEF EndsIn, IsEmpty, Without
  <2>. HIDE DEF w
  <2>. QED
    BY <1>1, <2>1 DEF w
<1>. QED
  BY <1>2, <1>3

(* A text with the delimiters of another one where they are in that one. *)
SameDelimiters(new, old) ==
  /\ IsSeq(new) /\ Len(new) = Len(old)
  /\ \A i \in 1 .. Len(old) : \A d \in Delimiters : new[i] = d <=> old[i] = d

Bracketed(host) == Len(host) > 0 /\ host[1] = "["

LEMMA BracketedNormal ==
  ASSUME NEW h, IsSeq(h), Bracketed(h)
  PROVE  SameDelimiters(NormalHost(h), h) /\ (Lacks(h, {"]"}) => NormalHost(h) = h)
<1>. DEFINE one == 1
            close == Find(h, <<"]">>, one)
            a == SubSeq(h, 1, close)
            b == SubSeq(h, close + 1, Len(h))
<1>1. Len(h) \in Nat /\ ~IsEmpty(h) /\ h[1] = "[" /\ one \in Nat /\ one >= 1
  BY SeqShape DEF Bracketed, IsEmpty
<1>2. NormalHost(h) = IF close = npos THEN h ELSE ToLower(a) \o b
  BY <1>1 DEF NormalHost, From
<1>3. close = FindFirstOf(h, {"]"}, one)
  BY <1>1, FindOneIs
<1>. HIDE DEF one, close
<1>4. /\ close \in Nat
      /\ close # npos => close \in one .. Len(h) /\ h[close] \in {"]"}
      /\ close = npos => \A i \in one .. Len(h) : h[i] \notin {"]"}
  BY <1>1, <1>3, FirstOfIs
<1>5. CASE close = npos
  BY <1>2, <1>5 DEF SameDelimiters
<1>6. CASE close # npos
  <2>1. close \in 1 .. Len(h) /\ h[close] = "]"
    BY <1>4, <1>6 DEF one
  <2>2. ~Lacks(h, {"]"})
    BY <2>1 DEF Lacks
  <2>3. IsSeq(a) /\ Len(a) = close /\ \A i \in 1 .. close : a[i] = h[i]
    <3>1. close \in 0 .. Len(h)
      BY <1>1, <2>1
    <3>. QED
      BY <3>1, FirstShape
  <2>4. IsSeq(b) /\ Len(b) = Len(h) - close /\ \A k \in 1 .. Len(h) - close : b[k] = h[close + k]
    <3>. DEFINE p == close + 1
    <3>1. p \in Nat /\ p >= 1 /\ Len(h) \in Int /\ Len(h) >= p - 1 /\ Len(h) - p + 1 = Len(h) - close
          /\ \A k \in 1 .. Len(h) - close : p + k - 1 = close + k
      BY <1>1, <2>1
    <3>2. IsSeq(b) /\ Len(b) = Len(h) - p + 1 /\ \A k \in 1 .. Len(h) - p + 1 : b[k] = h[p + k - 1]
      BY <1>1, <3>1, CutIs
    <3>. QED
      BY <3>1, <3>2
  <2>. HIDE DEF a, b
  <2>. DEFINE l == ToLower(a)
              v == l \o b
  <2>5. IsSeq(l) /\ Len(l) = close /\ \A i \in 1 .. close : \A d \in Delimiters : l[i] = d <=> a[i] = d
    BY <2>3, LowerIs DEF Lowered
  <2>. HIDE DEF l
  <2>6. /\ IsSeq(v) /\ Len(v) = Len(l) + Len(b)
        /\ \A i \in 1 .. Len(l) + Len(b) : v[i] = IF i <= Len(l) THEN l[i] ELSE b[i - Len(l)]
    BY <2>4, <2>5, ConcatShape
  <2>7. NormalHost(h) = v
    BY <1>2, <1>6 DEF l
  <2>. HIDE DEF v
  <2>8. Len(v) = Len(h)
    BY <1>1, <2>1, <2>4, <2>5, <2>6
  <2>9. ASSUME NEW i \in 1 .. Len(h) PROVE \A d \in Delimiters : v[i] = d <=> h[i] = d
    <3>0. i \in 1 .. Len(l) + Len(b)
      BY <2>6, <2>8
    <3>1. CASE i <= close
      <4>1. i \in 1 .. close /\ v[i] = l[i]
        BY <1>1, <2>1, <2>5, <2>6, <3>0, <3>1
      <4>. QED
        BY <2>3, <2>5, <4>1
    <3>2. CASE ~(i <= close)
      <4>1. i - close \in 1 .. Len(h) - close /\ close + (i - close) = i /\ v[i] = b[i - close]
        BY <1>1, <2>1, <2>5, <2>6, <3>0, <3>2
      <4>2. b[i - close] = h[close + (i - close)]
        BY <2>4, <4>1
      <4>. QED
        BY <4>1, <4>2
    <3>. QED
      BY <3>1, <3>2
  <2>. QED
    BY <2>2, <2>6, <2>7, <2>8, <2>9 DEF SameDelimiters
<1>. QED
  BY <1>5, <1>6

LEMMA PlainNormal ==
  ASSUME NEW h, IsSeq(h), ~Bracketed(h)
  PROVE  NormalHost(h) = Without(ToLower(h), ".")
<1>1. ~(~IsEmpty(h) /\ h[1] = "[")
  BY SeqShape DEF Bracketed, IsEmpty
<1>. QED
  BY <1>1 DEF NormalHost, NormalizeDomain, DropDot

LEMMA NormalHostShape ==
  ASSUME NEW h, IsSeq(h)
  PROVE  /\ IsSeq(NormalHost(h))
         /\ \A chars \in SUBSET Delimiters : Lacks(h, chars) => Lacks(NormalHost(h), chars)
<1>1. CASE Bracketed(h)
  BY <1>1, BracketedNormal DEF SameDelimiters, Lacks
<1>2. CASE ~Bracketed(h)
  <2>. DEFINE l == ToLower(h)
              w == Without(l, ".")
  <2>1. Lowered(l, h)
    BY LowerIs
  <2>. HIDE DEF l
  <2>2. IsSeq(w) /\ Len(w) <= Len(l) /\ (\A i \in 1 .. Len(w) : w[i] = l[i]) /\ Len(w) \in Nat /\ Len(l) \in Nat
    BY <2>1, WithoutShape DEF Lowered
  <2>3. NormalHost(h) = w
    BY <1>2, PlainNormal DEF l
  <2>. HIDE DEF w
  <2>4. ASSUME NEW chars \in SUBSET Delimiters, Lacks(h, chars) PROVE Lacks(w, chars)
    <3>1. Lacks(l, chars)
      BY <2>1, <2>4, LacksLowered
    <3>2. \A i \in 1 .. Len(w) : i \in 1 .. Len(l)
      BY <2>2
    <3>. QED
      BY <2>2, <3>1, <3>2 DEF Lacks
  <2>. QED
    BY <2>2, <2>3, <2>4
<1>. QED
  BY <1>1, <1>2

-----------------------------------------------------------------------------
(***************************************************************************)
(* A URL without its fragment, by its parts, each apart from the next.     *)
(***************************************************************************)
UrlText(scheme, user, host, port, path, query) ==
  scheme \o (Separator \o (user \o (host \o (port \o (path \o query)))))

AreSeqs(scheme, user, host, port, path, query) ==
  IsSeq(scheme) /\ IsSeq(user) /\ IsSeq(host) /\ IsSeq(port) /\ IsSeq(path) /\ IsSeq(query)

PartsApart(scheme, user, host, port, path, query) ==
  /\ AreSeqs(scheme, user, host, port, path, query)
  /\ Lacks(scheme, {":", "/", "?", "#", "@"})
  /\ UserPart(user) /\ Lacks(user, {"/", "?", "#"})
  /\ Lacks(host, {"/", "?", "#", "@"})
  /\ Opens(port, {":"}) /\ Lacks(port, {"/", "?", "#", "@"})
  /\ Opens(path, {"/"}) /\ Lacks(path, {"?", "#"})
  /\ Opens(query, {"?"}) /\ Lacks(query, {"#"})

(* A host has colons only within brackets, of which the last may be missing. *)
ColonsBracketed(host) ==
  \/ Lacks(host, {":"})
  \/ Bracketed(host) /\ \A i, j \in 1 .. Len(host) : host[i] = "]" /\ host[j] = ":" => j < i

(* No @ behind the host can be taken for the one of the user. *)
UserPlain(path, query) == path # <<>> \/ Lacks(query, {"@"})

LEMMA LacksFewer ==
  ASSUME NEW t, NEW chars, Lacks(t, chars), NEW few, few \subseteq chars
  PROVE  Lacks(t, few)
BY DEF Lacks

LEMMA OpensMore ==
  ASSUME NEW t, NEW chars, Opens(t, chars), NEW more, chars \subseteq more
  PROVE  Opens(t, more)
BY DEF Opens

(* The pieces before the host, and the host with what is behind it. *)
Regrouped(t, scheme, user, w) ==
  /\ t = (scheme \o Separator) \o (user \o w)
  /\ t = scheme \o ((Separator \o user) \o w)
  /\ t = (scheme \o (Separator \o user)) \o w
  /\ IsSeq(scheme \o Separator) /\ Len(scheme \o Separator) = Len(scheme) + 3
  /\ IsSeq(Separator \o user) /\ Len(Separator \o user) = 3 + Len(user)
  /\ IsSeq(scheme \o (Separator \o user))
  /\ Len(scheme \o (Separator \o user)) = Len(scheme) + 3 + Len(user)
  /\ IsSeq(t) /\ Len(scheme) \in Nat /\ Len(user) \in Nat

LEMMA TextRegrouped ==
  ASSUME NEW scheme, IsSeq(scheme), NEW user, IsSeq(user), NEW w, IsSeq(w)
  PROVE  Regrouped(scheme \o (Separator \o (user \o w)), scheme, user, w)
<1>. DEFINE a == scheme \o Separator
            b == Separator \o user
            c == scheme \o b
            r == user \o w
<1>1. IsSeq(Separator) /\ Len(Separator) = 3
  BY SeparatorIs
<1>2. IsSeq(a) /\ Len(a) = Len(scheme) + 3 /\ IsSeq(b) /\ Len(b) = 3 + Len(user) /\ IsSeq(r)
  BY <1>1, ConcatShape
<1>3. IsSeq(c) /\ Len(c) = Len(scheme) + Len(b) /\ Len(scheme) \in Nat /\ Len(user) \in Nat
  BY <1>2, ConcatShape, SeqShape
<1>4. Separator \o r = b \o w
  BY <1>1, ConcatOfThree
<1>5. c \o w = scheme \o (b \o w)
  BY <1>2, ConcatOfThree
<1>. HIDE DEF r
<1>6. a \o r = scheme \o (Separator \o r)
  <2>1. IsSeq(scheme) /\ IsSeq(Separator) /\ IsSeq(r)
    BY <1>1, <1>2
  <2>. QED
    BY <2>1, ConcatOfThree
<1>. HIDE DEF a
<1>7. IsSeq(a \o r)
  BY <1>2, ConcatShape
<1>. QED
  BY <1>2, <1>3, <1>4, <1>5, <1>6, <1>7 DEF Regrouped, a, r

(* SkipUser steps behind the user, and no further. *)
LEMMA HostFound ==
  ASSUME NEW s, IsSeq(s), NEW user, IsSeq(user), UserPart(user), NEW y, IsSeq(y), NEW z, IsSeq(z),
         NEW stops, "@" \notin stops, Lacks(user, stops), Lacks(y, {"@"}),
         user # <<>> \/ Opens(z, stops) \/ Lacks(z, {"@"})
  PROVE  SkipUser(s \o (Separator \o (user \o (y \o z))), Len(s) + 4, stops) = Len(s) + 3 + Len(user) + 1
<1>. DEFINE a == s \o Separator
            w == y \o z
            t == s \o (Separator \o (user \o w))
<1>1. IsSeq(w)
  BY ConcatShape
<1>2. t = a \o (user \o w) /\ IsSeq(a) /\ Len(a) = Len(s) + 3
  <2>1. Regrouped(t, s, user, w)
    BY <1>1, TextRegrouped
  <2>. QED
    BY <2>1 DEF Regrouped
<1>3. Len(s) \in Nat /\ Len(user) \in Nat
  BY SeqShape
<1>. HIDE DEF a
<1>4. SkipUser(a \o (user \o (y \o z)), Len(a) + 1, stops) = Len(a) + Len(user) + 1
  <2>1. IsSeq(a)
    BY <1>2
  <2>. QED
    BY <2>1, UserSkipped
<1>5. Len(a) + 1 = Len(s) + 4 /\ Len(a) + Len(user) + 1 = Len(s) + 3 + Len(user) + 1
  BY <1>2, <1>3
<1>. QED
  BY <1>2, <1>4, <1>5

Grouped(a, b, c) == (a \o b) \o c = a \o (b \o c)

LEMMA GroupedIs ==
  ASSUME NEW a, IsSeq(a), NEW b, IsSeq(b), NEW c, IsSeq(c)
  PROVE  Grouped(a, b, c)
BY ConcatOfThree DEF Grouped

FiveGrouped(a, user, c, d) ==
  ((a \o (Separator \o user)) \o c) \o d = a \o (Separator \o (user \o (c \o d)))

LEMMA FivePieces ==
  ASSUME NEW a, IsSeq(a), NEW user, IsSeq(user), NEW c, IsSeq(c), NEW d, IsSeq(d)
  PROVE  FiveGrouped(a, user, c, d)
<1>. DEFINE b == Separator \o user
            ab == a \o b
            v == c \o d
<1>1. IsSeq(b) /\ IsSeq(v) /\ IsSeq(ab)
  <2>1. IsSeq(b) /\ IsSeq(v)
    BY ConcatShape, SeparatorIs
  <2>. HIDE DEF b
  <2>. QED
    BY <2>1, ConcatShape
<1>2. Regrouped(a \o (Separator \o (user \o v)), a, user, v)
  <2>. HIDE DEF v
  <2>. QED
    BY <1>1, TextRegrouped
<1>3. a \o (Separator \o (user \o v)) = ab \o v
  BY <1>2 DEF Regrouped
<1>4. Grouped(ab, c, d)
  <2>. HIDE DEF ab
  <2>. QED
    BY <1>1, GroupedIs
<1>. QED
  BY <1>3, <1>4 DEF Grouped, FiveGrouped

(* to_lower of the scheme and of the host, in the text and by its parts. *)
LEMMA LoweredText ==
  ASSUME NEW s, IsSeq(s), Lacks(s, {":"}), NEW user, IsSeq(user), NEW h, IsSeq(h), Lacks(h, {":", "/", "?"}),
         NEW y, IsSeq(y), Opens(y, {":", "/", "?"}),
         SkipUser(s \o (Separator \o (user \o (h \o y))), Len(s) + 4, {"/"}) = Len(s) + 3 + Len(user) + 1
  PROVE  LowerSchemeAndHost(s \o (Separator \o (user \o (h \o y))))
           = ToLower(s) \o (Separator \o (user \o (NormalHost(h) \o y)))
<1>. DEFINE w == h \o y
            r == user \o w
            t == s \o (Separator \o r)
            front == Separator \o user
            x == s \o front
            e == Find(t, Separator, 1)
            start == SkipUser(t, e + 3, {"/"})
            stop == OrEnd(FindFirstOf(t, {":", "/", "?"}, start), t)
            made == NormalHost(h)
            low == ToLower(s)
<1>1. IsSeq(w) /\ IsSeq(r) /\ IsSeq(Separator) /\ Len(s) \in Nat /\ Len(user) \in Nat /\ Len(h) \in Nat
  BY ConcatShape, SeparatorIs, SeqShape
<1>2. Regrouped(t, s, user, w)
  BY <1>1, TextRegrouped
<1>3. t = s \o (front \o w) /\ t = x \o w /\ IsSeq(front) /\ Len(front) = 3 + Len(user) /\ IsSeq(x) /\ Len(x) = Len(s) + 3 + Len(user)
  BY <1>2 DEF Regrouped
<1>4. IsSeq(made) /\ IsSeq(low)
  BY NormalHostShape, LowerIs DEF Lowered
<1>5. e = Len(s) + 1
  <2>. HIDE DEF r
  <2>1. Find(s \o (Separator \o r), Separator, 1) = Len(s) + 1
    BY <1>1, SeparatorFound
  <2>. QED
    BY <2>1
<1>6. start = Len(x) + 1
  <2>1. e + 3 = Len(s) + 4
    BY <1>1, <1>5
  <2>2. SkipUser(t, Len(s) + 4, {"/"}) = Len(s) + 3 + Len(user) + 1
    OBVIOUS
  <2>. HIDE DEF t, e, x
  <2>. QED
    BY <1>3, <2>1, <2>2
<1>7. stop = Len(x) + Len(h) + 1 /\ Len(t) \in Nat
  <2>1. OrEnd(FindFirstOf(x \o (h \o y), {":", "/", "?"}, Len(x) + 1), x \o (h \o y)) = Len(x) + Len(h) + 1
    <3>. HIDE DEF x
    <3>1. IsSeq(x)
      BY <1>3
    <3>2. StopFound(x, h, y, {":", "/", "?"})
      BY <3>1, StopBehind
    <3>. QED
      BY <3>2 DEF StopFound
  <2>2. IsSeq(t)
    BY <1>2 DEF Regrouped
  <2>. HIDE DEF x, t, start
  <2>. QED
    BY <1>3, <1>6, <2>1, <2>2, SeqShape DEF w
<1>. HIDE DEF e, start, stop
<1>8. LowerSchemeAndHost(t) =
        ((ToLower(SubSeq(t, 1, e - 1)) \o SubSeq(t, e, start - 1)) \o NormalHost(SubSeq(t, start, stop - 1))) \o From(t, stop)
  <2>1. e # npos
    BY <1>1, <1>5 DEF npos
  <2>. QED
    BY <2>1 DEF LowerSchemeAndHost, e, start, stop
<1>9. SubSeq(t, 1, e - 1) = s /\ SubSeq(t, e, start - 1) = front
  <2>1. CutInThree(s \o (front \o w), s, front, w)
    BY <1>1, <1>3, ThreeShape
  <2>2. e - 1 = Len(s) /\ start - 1 = Len(s) + Len(front)
    BY <1>1, <1>3, <1>5, <1>6
  <2>. HIDE DEF t, front, w
  <2>. QED
    BY <1>3, <1>5, <2>1, <2>2 DEF CutInThree
<1>10. SubSeq(t, start, stop - 1) = h /\ From(t, stop) = y
  <2>1. CutInThree(x \o (h \o y), x, h, y)
    BY <1>3, ThreeShape
  <2>2. stop - 1 = Len(x) + Len(h) /\ stop = Len(x) + Len(h) + 1
    BY <1>1, <1>3, <1>7
  <2>3. t = x \o (h \o y)
    BY <1>3
  <2>. HIDE DEF t, x
  <2>. QED
    BY <1>6, <2>1, <2>2, <2>3 DEF CutInThree, From
<1>11. LowerSchemeAndHost(t) = ((low \o front) \o made) \o y
  BY <1>8, <1>9, <1>10
<1>12. ((low \o front) \o made) \o y = low \o (Separator \o (user \o (made \o y)))
  <2>1. FiveGrouped(low, user, made, y)
    <3>. HIDE DEF low, made
    <3>. QED
      BY <1>4, FivePieces
  <2>. QED
    BY <2>1 DEF FiveGrouped
<1>. QED
  BY <1>11, <1>12

(* The host that LowerSchemeAndHost leaves: one with colons stays as it is. *)
HostMade(host) == IF Lacks(host, {":"}) THEN NormalHost(host) ELSE host

LEMMA LowerStage ==
  ASSUME NEW s, NEW user, NEW host, NEW port, NEW path, NEW query,
         PartsApart(s, user, host, port, path, query), ColonsBracketed(host), UserPlain(path, query)
  PROVE  LowerSchemeAndHost(UrlText(s, user, host, port, path, query))
           = UrlText(ToLower(s), user, HostMade(host), port, path, query)
<1>. DEFINE z == path \o query
            r == port \o z
<1>1. AreSeqs(s, user, host, port, path, query)
  BY DEF PartsApart
<1>2. IsSeq(z) /\ IsSeq(r) /\ IsSeq(host \o r) /\ IsSeq(host \o port)
  BY <1>1, ConcatShape DEF AreSeqs
<1>3. Opens(z, {"/", "?"}) /\ Opens(r, {":", "/", "?"})
  <2>1. Opens(path, {"/", "?"}) /\ Opens(query, {"/", "?"}) /\ Opens(port, {":", "/", "?"})
    BY OpensMore DEF PartsApart
  <2>2. Opens(z, {"/", "?"})
    BY <1>1, <2>1, OpensOfTwo DEF AreSeqs
  <2>. HIDE DEF z
  <2>3. Opens(z, {":", "/", "?"})
    BY <2>2, OpensMore
  <2>. QED
    BY <1>1, <1>2, <2>1, <2>2, <2>3, OpensOfTwo DEF AreSeqs
<1>4. SkipUser(s \o (Separator \o (user \o ((host \o port) \o z))), Len(s) + 4, {"/"}) = Len(s) + 3 + Len(user) + 1
  <2>1. Lacks(host, {"@"}) /\ Lacks(port, {"@"}) /\ Lacks(user, {"/"}) /\ UserPart(user)
    BY LacksFewer DEF PartsApart
  <2>2. Lacks(host \o port, {"@"})
    BY <1>1, <2>1, LacksOfTwo DEF AreSeqs
  <2>3. Opens(z, {"/"}) \/ Lacks(z, {"@"})
    <3>1. CASE path # <<>>
      <4>1. Len(path) > 0 /\ path[1] = "/"
        BY <3>1 DEF PartsApart, Opens
      <4>2. Len(z) = Len(path) + Len(query) /\ z[1] = path[1] /\ Len(path) \in Nat /\ Len(query) \in Nat
        <5>1. /\ Len(z) = Len(path) + Len(query) /\ Len(path) \in Nat /\ Len(query) \in Nat
              /\ \A i \in 1 .. Len(path) + Len(query) : z[i] = IF i <= Len(path) THEN path[i] ELSE query[i - Len(path)]
          BY <1>1, ConcatShape, SeqShape DEF AreSeqs
        <5>2. 1 \in 1 .. Len(path) + Len(query) /\ 1 <= Len(path)
          BY <4>1, <5>1
        <5>. HIDE DEF z
        <5>. QED
          BY <5>1, <5>2
      <4>. QED
        BY <4>1, <4>2 DEF Opens
    <3>2. CASE path = <<>>
      <4>1. z = query
        BY <1>1, <3>2, ConcatOfNone DEF AreSeqs
      <4>. QED
        BY <3>2, <4>1 DEF UserPlain
    <3>. QED
      BY <3>1, <3>2
  <2>. DEFINE y == host \o port
  <2>. HIDE DEF y, z
  <2>4. IsSeq(s) /\ IsSeq(user) /\ IsSeq(y) /\ "@" \notin {"/"}
    BY <1>1, <1>2 DEF AreSeqs, y
  <2>5. Lacks(y, {"@"})
    BY <2>2 DEF y
  <2>6. SkipUser(s \o (Separator \o (user \o (y \o z))), Len(s) + 4, {"/"}) = Len(s) + 3 + Len(user) + 1
    BY <1>2, <2>1, <2>3, <2>4, <2>5, HostFound
  <2>. QED
    BY <2>6 DEF y
<1>5. (host \o port) \o z = host \o r
  <2>. HIDE DEF z
  <2>1. IsSeq(host) /\ IsSeq(port) /\ IsSeq(z)
    BY <1>1, <1>2 DEF AreSeqs
  <2>2. (host \o port) \o z = host \o (port \o z)
    BY <2>1, ConcatOfThree
  <2>. QED
    BY <2>2
<1>6. Lacks(s, {":"}) /\ Lacks(host, {"/", "?"})
  BY LacksFewer DEF PartsApart
<1>7. CASE Lacks(host, {":"})
  <2>1. Lacks(host, {":", "/", "?"})
    BY <1>6, <1>7 DEF Lacks
  <2>. HIDE DEF r
  <2>2. LowerSchemeAndHost(s \o (Separator \o (user \o (host \o r))))
           = ToLower(s) \o (Separator \o (user \o (NormalHost(host) \o r)))
    BY <1>1, <1>2, <1>3, <1>4, <1>5, <1>6, <2>1, LoweredText DEF AreSeqs
  <2>. QED
    BY <1>7, <2>2 DEF UrlText, HostMade, r
<1>8. CASE ~Lacks(host, {":"})
  <2>1. PICK a, b : IsSeq(a) /\ IsSeq(b) /\ host = a \o b /\ Lacks(a, {":"}) /\ b # <<>> /\ Opens(b, {":"})
    BY <1>1, <1>8, CutAtFirst DEF AreSeqs
  <2>2. /\ Len(a) \in Nat /\ Len(b) \in Nat /\ Len(b) > 0 /\ b[1] = ":" /\ Len(host) = Len(a) + Len(b)
        /\ \A i \in 1 .. Len(a) + Len(b) : host[i] = IF i <= Len(a) THEN a[i] ELSE b[i - Len(a)]
    BY <2>1, ConcatShape, SeqShape DEF Opens
  <2>3. host[Len(a) + 1] = ":" /\ Len(a) + 1 \in 1 .. Len(host)
    <3>1. Len(a) + 1 \in 1 .. Len(a) + Len(b) /\ ~(Len(a) + 1 <= Len(a)) /\ Len(a) + 1 - Len(a) = 1
      BY <2>2
    <3>. QED
      BY <2>2, <3>1
  <2>4. Bracketed(host) /\ \A i, j \in 1 .. Len(host) : host[i] = "]" /\ host[j] = ":" => j < i
    BY <1>8 DEF ColonsBracketed
  <2>5. Lacks(a, {"]"})
    <3>1. ASSUME NEW i \in 1 .. Len(a), a[i] = "]" PROVE FALSE
      <4>1. i \in 1 .. Len(host) /\ host[i] = "]"
        BY <2>2, <3>1
      <4>2. Len(a) + 1 < i
        BY <2>3, <2>4, <4>1
      <4>. QED
        BY <2>2, <4>2
    <3>. QED
      BY <3>1 DEF Lacks
  <2>6. Bracketed(a)
    <3>1. 1 \in 1 .. Len(a) + Len(b)
      BY <2>2
    <3>2. Len(a) # 0
      <4>1. ASSUME Len(a) = 0 PROVE FALSE
        <5>1. ~(1 <= Len(a)) /\ 1 - Len(a) = 1
          BY <4>1
        <5>2. host[1] = b[1]
          BY <2>2, <3>1, <5>1
        <5>. QED
          BY <2>2, <2>4, <5>2 DEF Bracketed
      <4>. QED
        BY <4>1
    <3>3. 1 <= Len(a) /\ Len(a) > 0
      BY <2>2, <3>2
    <3>4. host[1] = a[1]
      BY <2>2, <3>1, <3>3
    <3>. QED
      BY <2>4, <3>3, <3>4 DEF Bracketed
  <2>7. NormalHost(a) = a
    BY <2>1, <2>5, <2>6, BracketedNormal
  <2>. DEFINE y == b \o r
  <2>8. IsSeq(y) /\ Opens(y, {":", "/", "?"})
    <3>1. Opens(b, {":", "/", "?"})
      BY <2>1, OpensMore
    <3>. HIDE DEF r
    <3>. QED
      BY <1>2, <1>3, <2>1, <3>1, ConcatShape, OpensOfTwo
  <2>9. Lacks(a, {":", "/", "?"})
    <3>1. Lacks(a, {"/", "?"})
      BY <1>6, <2>1, LacksOfTwo
    <3>. QED
      BY <2>1, <3>1 DEF Lacks
  <2>10. host \o r = a \o y
    <3>. HIDE DEF r
    <3>. QED
      BY <1>2, <2>1, ConcatOfThree
  <2>. HIDE DEF r, y
  <2>11. LowerSchemeAndHost(s \o (Separator \o (user \o (a \o y))))
           = ToLower(s) \o (Separator \o (user \o (NormalHost(a) \o y)))
    <3>1. SkipUser(s \o (Separator \o (user \o (a \o y))), Len(s) + 4, {"/"}) = Len(s) + 3 + Len(user) + 1
      BY <1>4, <1>5, <2>10
    <3>2. IsSeq(s) /\ IsSeq(user) /\ IsSeq(a) /\ IsSeq(y) /\ Lacks(s, {":"})
      BY <1>1, <1>6, <2>1, <2>8 DEF AreSeqs
    <3>. QED
      BY <2>8, <2>9, <3>1, <3>2, LoweredText
  <2>. QED
    BY <1>8, <2>7, <2>10, <2>11 DEF UrlText, HostMade, r
<1>. QED
  BY <1>7, <1>8

(* Nothing of some characters from a piece on. *)
LEMMA NoneBehind ==
  ASSUME NEW x, IsSeq(x), NEW r, IsSeq(r), NEW chars
  PROVE  FindFirstOf(x \o r, chars, Len(x) + 1) = npos <=> Lacks(r, chars)
<1>. DEFINE t == x \o r
            from == Len(x) + 1
<1>1. /\ IsSeq(t) /\ Len(t) = Len(x) + Len(r) /\ Len(x) \in Nat /\ Len(r) \in Nat
      /\ \A i \in 1 .. Len(x) + Len(r) : t[i] = IF i <= Len(x) THEN x[i] ELSE r[i - Len(x)]
  BY ConcatShape, SeqShape
<1>. HIDE DEF t
<1>2. \A k \in 1 .. Len(r) : t[Len(x) + k] = r[k] /\ Len(x) + k \in from .. Len(t)
  <2>. TAKE k \in 1 .. Len(r)
  <2>1. Len(x) + k \in 1 .. Len(x) + Len(r) /\ ~(Len(x) + k <= Len(x)) /\ Len(x) + k - Len(x) = k
    BY <1>1
  <2>. QED
    BY <1>1, <2>1
<1>3. \A i \in from .. Len(t) : i - Len(x) \in 1 .. Len(r) /\ t[i] = r[i - Len(x)]
  <2>. TAKE i \in from .. Len(t)
  <2>1. i \in 1 .. Len(x) + Len(r) /\ ~(i <= Len(x)) /\ i - Len(x) \in 1 .. Len(r)
    BY <1>1
  <2>. QED
    BY <1>1, <2>1
<1>4. from \in Nat /\ from >= 1
  BY <1>1
<1>. HIDE DEF from
<1>5. CASE Lacks(r, chars)
  <2>1. \A i \in from .. Len(t) : t[i] \notin chars
    BY <1>3, <1>5 DEF Lacks
  <2>2. FindFirstOf(t, chars, from) = npos
    BY <1>1, <1>4, <2>1, FirstOfAt
  <2>. QED
    BY <1>5, <2>2 DEF t, from
<1>6. CASE ~Lacks(r, chars)
  <2>1. PICK k \in 1 .. Len(r) : r[k] \in chars
    BY <1>6 DEF Lacks
  <2>2. FindFirstOf(t, chars, from) # npos
    BY <1>1, <1>2, <1>4, <2>1, FirstOfIs
  <2>. QED
    BY <1>6, <2>2 DEF t, from
<1>. QED
  BY <1>5, <1>6

LEMMA RestOfPiece ==
  ASSUME NEW x, IsSeq(x), NEW w, IsSeq(w), NEW y, IsSeq(y), Len(w) > 0
  PROVE  SubSeq(x \o (w \o y), Len(x) + 2, Len(x) + Len(w)) = SubSeq(w, 2, Len(w))
<1>. DEFINE t == x \o (w \o y)
            v == SubSeq(t, Len(x) + 2, Len(x) + Len(w))
            u == SubSeq(w, 2, Len(w))
<1>1. /\ IsSeq(t) /\ Len(t) = Len(x) + Len(w) + Len(y)
      /\ Len(x) \in Nat /\ Len(w) \in Nat /\ Len(y) \in Nat
      /\ \A i \in 1 .. Len(w) : t[Len(x) + i] = w[i]
  <2>1. ThreePieces(t, x, w, y)
    BY ThreeShape
  <2>. HIDE DEF t
  <2>. QED
    BY <2>1 DEF ThreePieces
<1>. HIDE DEF t
<1>2. IsSeq(v) /\ Len(v) = Len(w) - 1 /\ \A k \in 1 .. Len(w) - 1 : v[k] = t[Len(x) + 2 + k - 1]
  <2>. DEFINE a == Len(x) + 2
              b == Len(x) + Len(w)
  <2>1. a \in Nat /\ a >= 1 /\ b \in Int /\ b >= a - 1 /\ b - a + 1 = Len(w) - 1 /\ b <= Len(t)
    BY <1>1
  <2>. HIDE DEF a, b
  <2>2. IsSeq(SubSeq(t, a, b)) /\ Len(SubSeq(t, a, b)) = b - a + 1
        /\ \A k \in 1 .. b - a + 1 : SubSeq(t, a, b)[k] = t[a + k - 1]
    BY <1>1, <2>1, CutIs
  <2>. QED
    BY <2>1, <2>2 DEF a, b
<1>3. IsSeq(u) /\ Len(u) = Len(w) - 1 /\ \A k \in 1 .. Len(w) - 1 : u[k] = w[2 + k - 1]
  <2>. DEFINE a == 2
  <2>1. a \in Nat /\ a >= 1 /\ Len(w) \in Int /\ Len(w) >= a - 1 /\ Len(w) - a + 1 = Len(w) - 1 /\ Len(w) <= Len(w)
    BY <1>1
  <2>. HIDE DEF a
  <2>2. IsSeq(SubSeq(w, a, Len(w))) /\ Len(SubSeq(w, a, Len(w))) = Len(w) - a + 1
        /\ \A k \in 1 .. Len(w) - a + 1 : SubSeq(w, a, Len(w))[k] = w[a + k - 1]
    BY <2>1, CutIs
  <2>. QED
    BY <2>1, <2>2 DEF a
<1>. HIDE DEF v, u
<1>4. \A k \in 1 .. Len(w) - 1 : v[k] = u[k]
  <2>. TAKE k \in 1 .. Len(w) - 1
  <2>1. Len(x) + 2 + k - 1 = Len(x) + (k + 1) /\ k + 1 \in 1 .. Len(w) /\ 2 + k - 1 = k + 1
    BY <1>1
  <2>. QED
    BY <1>1, <1>2, <1>3, <2>1
<1>5. v = u
  BY <1>2, <1>3, <1>4, SameShape
<1>. QED
  BY <1>5 DEF v, u, t

(* What is before the first colon of the authority, and what is behind it. *)
Colon(w) == Find(w, <<":">>, 1)
BeforeColon(w) == SubSeq(w, 1, Colon(w) - 1)
BehindColon(w) == From(w, Colon(w) + 1)

CutAtColon(w, g, d) ==
  /\ IsSeq(g) /\ IsSeq(d) /\ w = g \o d /\ Lacks(g, {":"}) /\ Len(d) > 0 /\ d[1] = ":"
  /\ Colon(w) = Len(g) + 1 /\ BeforeColon(w) = g /\ BehindColon(w) = SubSeq(d, 2, Len(d))

LEMMA ColonAt ==
  ASSUME NEW g, IsSeq(g), Lacks(g, {":"}), NEW d, IsSeq(d), d # <<>>, Opens(d, {":"})
  PROVE  CutAtColon(g \o d, g, d)
<1>. DEFINE one == 1
            w == g \o d
            p == Len(g) + 1
<1>0. one \in Nat /\ one >= 1 /\ IsSeq(w)
  BY ConcatShape
<1>2. /\ Len(w) = Len(g) + Len(d) /\ Len(g) \in Nat /\ Len(d) \in Nat /\ Len(d) > 0 /\ d[1] = ":"
      /\ \A i \in 1 .. Len(g) + Len(d) : w[i] = IF i <= Len(g) THEN g[i] ELSE d[i - Len(g)]
  BY ConcatShape, SeqShape DEF Opens
<1>10. CutInThree(g \o (d \o <<>>), g, d, <<>>) /\ d \o <<>> = d
  <2>. DEFINE none == <<>>
  <2>1. IsSeq(none) /\ d \o none = d
    BY ConcatOfNone, TupleShape
  <2>. HIDE DEF none
  <2>2. CutInThree(g \o (d \o none), g, d, none)
    BY <2>1, ThreeShape
  <2>. QED
    BY <2>1, <2>2 DEF none
<1>11. SubSeq(w, 1, Len(g)) = g
  BY <1>10 DEF CutInThree
<1>. HIDE DEF w, one
<1>1. Find(w, <<":">>, one) = FindFirstOf(w, {":"}, one)
  BY <1>0, FindOneIs
<1>3. w[Len(g) + 1] = ":"
  <2>1. Len(g) + 1 \in 1 .. Len(g) + Len(d) /\ ~(Len(g) + 1 <= Len(g)) /\ Len(g) + 1 - Len(g) = 1
    BY <1>2
  <2>. QED
    BY <1>2, <2>1
<1>4. \A i \in one .. Len(g) : w[i] # ":"
  <2>. TAKE i \in one .. Len(g)
  <2>1. i \in 1 .. Len(g) + Len(d) /\ i <= Len(g) /\ i \in 1 .. Len(g)
    BY <1>2 DEF one
  <2>. QED
    BY <1>2, <2>1 DEF Lacks
<1>5. p \in one .. Len(w) /\ w[p] \in {":"} /\ \A i \in one .. p - 1 : w[i] \notin {":"}
  <2>1. p - 1 = Len(g) /\ p \in one .. Len(w)
    BY <1>2 DEF one
  <2>. QED
    BY <1>3, <1>4, <2>1
<1>. HIDE DEF p
<1>6. FindFirstOf(w, {":"}, one) = p
  BY <1>0, <1>5, FirstOfAt
<1>7. Colon(w) = Len(g) + 1
  BY <1>1, <1>6 DEF Colon, one, p
<1>8. BeforeColon(w) = g
  <2>1. Colon(w) - 1 = Len(g)
    BY <1>2, <1>7
  <2>. QED
    BY <1>11, <2>1 DEF BeforeColon
<1>9. BehindColon(w) = SubSeq(d, 2, Len(d))
  <2>1. SubSeq(w, Len(g) + 2, Len(g) + Len(d)) = SubSeq(d, 2, Len(d))
    <3>. DEFINE none == <<>>
    <3>1. IsSeq(none)
      BY TupleShape
    <3>. HIDE DEF none
    <3>2. SubSeq(g \o (d \o none), Len(g) + 2, Len(g) + Len(d)) = SubSeq(d, 2, Len(d))
      BY <1>2, <3>1, RestOfPiece
    <3>. QED
      BY <1>10, <3>2 DEF none, w
  <2>2. Colon(w) + 1 = Len(g) + 2
    BY <1>2, <1>7
  <2>. QED
    BY <1>2, <2>1, <2>2 DEF BehindColon, From
<1>. QED
  BY <1>2, <1>7, <1>8, <1>9 DEF CutAtColon, w

LEMMA ColonCut ==
  ASSUME NEW w, IsSeq(w)
  PROVE  /\ Lacks(w, {":"}) => Colon(w) = npos
         /\ ~Lacks(w, {":"}) => \E g, d : CutAtColon(w, g, d)
<1>. DEFINE one == 1
<1>0. one \in Nat /\ one >= 1
  OBVIOUS
<1>. HIDE DEF one
<1>1. Find(w, <<":">>, one) = FindFirstOf(w, {":"}, one)
  BY <1>0, FindOneIs
<1>2. CASE Lacks(w, {":"})
  <2>1. \A i \in one .. Len(w) : w[i] \notin {":"}
    BY <1>2 DEF Lacks, one
  <2>2. FindFirstOf(w, {":"}, one) = npos
    BY <1>0, <2>1, FirstOfAt
  <2>. QED
    BY <1>1, <1>2, <2>2 DEF Colon, one
<1>3. CASE ~Lacks(w, {":"})
  <2>1. PICK g, d : /\ IsSeq(g) /\ IsSeq(d) /\ w = g \o d /\ Lacks(g, {":"}) /\ d # <<>> /\ Opens(d, {":"})
    BY <1>3, CutAtFirst
  <2>2. CutAtColon(g \o d, g, d)
    BY <2>1, ColonAt
  <2>. QED
    BY <1>3, <2>1, <2>2
<1>. QED
  BY <1>2, <1>3

(***************************************************************************)
(* RemoveDefaultPort, for an authority and what is behind it: the first    *)
(* colon is the authority's, unless an @ behind it is taken for a user's.  *)
(***************************************************************************)
Reached(user, z) == user # <<>> \/ Lacks(z, {"@"})
PortGoes(s, w) == BehindColon(w) # <<>> /\ BehindColon(w) = DefaultPort(ToLower(s))
Unported(s, user, w, z) == IF Reached(user, z) /\ ~Lacks(w, {":"}) /\ PortGoes(s, w) THEN BeforeColon(w) ELSE w

PortRemoved(s, user, w, z) ==
  RemoveDefaultPort(s \o (Separator \o (user \o (w \o z)))) = s \o (Separator \o (user \o (Unported(s, user, w, z) \o z)))

LEMMA PortCut ==
  ASSUME NEW s, IsSeq(s), Lacks(s, {":"}), NEW user, IsSeq(user), NEW w, IsSeq(w), NEW z, IsSeq(z),
         Opens(z, {"/", "?"}), Lacks(w, {"/", "?", "#"}), ~Lacks(w, {":"}), Reached(user, z),
         SkipUser(s \o (Separator \o (user \o (w \o z))), Len(s) + 4, {}) = Len(s) + 3 + Len(user) + 1
  PROVE  PortRemoved(s, user, w, z)
<1>. DEFINE stops == {"/", "?", "#"}
            x == s \o (Separator \o user)
            t == s \o (Separator \o (user \o (w \o z)))
            e == Find(t, Separator, 1)
            start == SkipUser(t, e + 3, {})
            colon == Find(t, <<":">>, start)
            end == OrEnd(FindFirstOf(t, stops, colon), t)
            port == SubSeq(t, colon + 1, end - 1)
<1>0. PICK g, d : CutAtColon(w, g, d)
  BY ColonCut
<1>1. /\ IsSeq(g) /\ IsSeq(d) /\ w = g \o d /\ Lacks(g, {":"}) /\ d # <<>> /\ Opens(d, {":"})
      /\ Colon(w) = Len(g) + 1 /\ BeforeColon(w) = g /\ BehindColon(w) = SubSeq(d, 2, Len(d))
  BY <1>0, SeqShape DEF CutAtColon, Opens
<1>. DEFINE y == d \o z
            xg == x \o g
<1>2. IsSeq(x) /\ Len(x) = Len(s) + 3 + Len(user) /\ t = x \o (w \o z) /\ IsSeq(t) /\ Len(s) \in Nat /\ Len(user) \in Nat
  <2>1. IsSeq(w \o z)
    BY ConcatShape
  <2>2. Regrouped(t, s, user, w \o z)
    BY <2>1, TextRegrouped
  <2>. QED
    BY <2>2 DEF Regrouped
<1>3. e = Len(s) + 1
  <2>. DEFINE r == user \o (w \o z)
  <2>1. IsSeq(r)
    <3>1. IsSeq(w \o z)
      BY ConcatShape
    <3>. QED
      BY <3>1, ConcatShape
  <2>. HIDE DEF r
  <2>2. Find(s \o (Separator \o r), Separator, 1) = Len(s) + 1
    BY <2>1, SeparatorFound
  <2>. QED
    BY <2>2 DEF r
<1>. HIDE DEF e
<1>4. start = Len(x) + 1
  <2>1. e + 3 = Len(s) + 4 /\ Len(s) + 3 + Len(user) + 1 = Len(x) + 1
    BY <1>2, <1>3
  <2>2. SkipUser(t, Len(s) + 4, {}) = Len(s) + 3 + Len(user) + 1
    OBVIOUS
  <2>. HIDE DEF t, x
  <2>. QED
    BY <2>1, <2>2
<1>5. IsSeq(y) /\ IsSeq(xg) /\ Len(xg) = Len(x) + Len(g) /\ Len(x) \in Nat /\ Len(g) \in Nat /\ Len(d) \in Nat
      /\ Len(d) > 0 /\ IsSeq(g \o z)
  <2>. HIDE DEF x
  <2>1. IsSeq(x) /\ IsSeq(g) /\ IsSeq(d) /\ d # <<>>
    BY <1>1, <1>2
  <2>. QED
    BY <2>1, ConcatShape, SeqShape
<1>6. t = x \o (g \o y) /\ t = xg \o (d \o z)
  <2>1. Grouped(g, d, z)
    BY <1>1, GroupedIs
  <2>2. w \o z = g \o y
    BY <1>1, <2>1 DEF Grouped
  <2>3. Grouped(x, g, y)
    <3>. HIDE DEF x, y
    <3>. QED
      BY <1>1, <1>2, <1>5, GroupedIs
  <2>. HIDE DEF t, x
  <2>. QED
    BY <1>2, <2>2, <2>3 DEF Grouped
<1>. HIDE DEF t, x, start
<1>7. colon = Len(xg) + 1 /\ Len(t) \in Nat /\ colon # npos
  <2>1. Opens(y, {":"})
    <3>1. Len(d) > 0 /\ d[1] = ":"
      BY <1>1, <1>5 DEF Opens
    <3>2. 1 \in 1 .. Len(d) + Len(z) /\ 1 <= Len(d) /\ Len(z) \in Nat
      BY <1>5, <3>1, SeqShape
    <3>3. Len(y) = Len(d) + Len(z) /\ \A i \in 1 .. Len(d) + Len(z) : y[i] = IF i <= Len(d) THEN d[i] ELSE z[i - Len(d)]
      BY <1>1, ConcatShape
    <3>. HIDE DEF y
    <3>4. y[1] = d[1] /\ Len(y) > 0
      BY <1>5, <3>1, <3>2, <3>3
    <3>. QED
      BY <3>1, <3>4 DEF Opens
  <2>2. y # <<>>
    <3>1. Len(y) = Len(d) + Len(z) /\ Len(z) \in Nat
      BY <1>1, ConcatShape, SeqShape
    <3>. HIDE DEF y
    <3>. QED
      BY <1>5, <3>1, SeqShape
  <2>3. StopFound(x, g, y, {":"})
    <3>. HIDE DEF y
    <3>1. IsSeq(x) /\ IsSeq(g) /\ IsSeq(y) /\ Lacks(g, {":"})
      BY <1>1, <1>2, <1>5
    <3>. QED
      BY <2>1, <3>1, StopBehind
  <2>4. FindFirstOf(t, {":"}, Len(x) + 1) = Len(x) + Len(g) + 1
    <3>. HIDE DEF y
    <3>. QED
      BY <1>6, <2>2, <2>3 DEF StopFound
  <2>5. colon = FindFirstOf(t, {":"}, start)
    <3>1. start \in Nat /\ start >= 1
      BY <1>4, <1>5
    <3>. QED
      BY <1>2, <3>1, FindOneIs
  <2>6. Len(x) + Len(g) + 1 = Len(xg) + 1 /\ Len(xg) \in Nat
    BY <1>5
  <2>. HIDE DEF xg, colon
  <2>. QED
    BY <1>2, <1>4, <2>4, <2>5, <2>6, SeqShape DEF npos
<1>. HIDE DEF colon, xg
<1>8. end = Len(xg) + Len(d) + 1
  <2>1. Lacks(d, stops)
    BY <1>1, LacksOfTwo
  <2>2. Opens(z, stops)
    BY OpensMore
  <2>3. StopFound(xg, d, z, stops)
    <3>. HIDE DEF stops
    <3>1. IsSeq(xg) /\ IsSeq(d)
      BY <1>1, <1>5
    <3>. QED
      BY <2>1, <2>2, <3>1, StopBehind
  <2>. HIDE DEF stops
  <2>. QED
    BY <1>6, <1>7, <2>3 DEF StopFound
<1>. HIDE DEF end, y
<1>9. port = BehindColon(w)
  <2>1. SubSeq(xg \o (d \o z), Len(xg) + 2, Len(xg) + Len(d)) = SubSeq(d, 2, Len(d))
    <3>1. IsSeq(xg) /\ IsSeq(d) /\ Len(d) > 0
      BY <1>1, <1>5
    <3>. QED
      BY <3>1, RestOfPiece
  <2>2. Len(xg) \in Nat
    BY <1>5
  <2>3. colon + 1 = Len(xg) + 2 /\ end - 1 = Len(xg) + Len(d)
    BY <1>5, <1>7, <1>8, <2>2
  <2>. QED
    BY <1>1, <1>6, <2>1, <2>3
<1>10. SubSeq(t, 1, colon - 1) = xg /\ From(t, end) = z
  <2>1. CutInThree(xg \o (d \o z), xg, d, z)
    <3>1. IsSeq(xg) /\ IsSeq(d)
      BY <1>1, <1>5
    <3>. QED
      BY <3>1, ThreeShape
  <2>2. colon - 1 = Len(xg) /\ Len(xg) \in Nat
    BY <1>5, <1>7
  <2>. QED
    BY <1>6, <1>8, <2>1, <2>2 DEF CutInThree, From
<1>11. xg \o z = s \o (Separator \o (user \o (g \o z)))
  <2>1. Regrouped(s \o (Separator \o (user \o (g \o z))), s, user, g \o z)
    BY <1>5, TextRegrouped
  <2>2. Grouped(x, g, z)
    BY <1>1, <1>2, GroupedIs
  <2>. QED
    BY <2>1, <2>2 DEF Regrouped, Grouped, x, xg
<1>12. RemoveDefaultPort(t) = IF ~IsEmpty(port) /\ port = DefaultPort(ToLower(SubSeq(t, 1, e - 1)))
                              THEN SubSeq(t, 1, colon - 1) \o From(t, end) ELSE t
  <2>1. e # npos
    BY <1>2, <1>3 DEF npos
  <2>. HIDE DEF port
  <2>2. RemoveDefaultPort(t) = IF e # npos /\ colon # npos /\ ~IsEmpty(port) /\ port = DefaultPort(ToLower(SubSeq(t, 1, e - 1)))
                              THEN SubSeq(t, 1, colon - 1) \o From(t, end) ELSE t
    BY DEF RemoveDefaultPort, e, start, colon, end, port
  <2>. QED
    BY <1>7, <2>1, <2>2
<1>13. SubSeq(t, 1, e - 1) = s
  <2>. DEFINE r == user \o (w \o z)
  <2>1. IsSeq(r) /\ t = s \o (Separator \o r) /\ IsSeq(Separator)
    <3>1. IsSeq(w \o z)
      BY ConcatShape
    <3>2. IsSeq(r)
      BY <3>1, ConcatShape
    <3>. QED
      BY <3>2, SeparatorIs DEF t
  <2>. HIDE DEF r
  <2>2. CutInThree(s \o (Separator \o r), s, Separator, r)
    BY <2>1, ThreeShape
  <2>3. e - 1 = Len(s)
    BY <1>2, <1>3
  <2>. QED
    BY <2>1, <2>2, <2>3 DEF CutInThree
<1>. HIDE DEF port
<1>14. RemoveDefaultPort(t) = IF PortGoes(s, w) THEN s \o (Separator \o (user \o (g \o z))) ELSE t
  BY <1>9, <1>10, <1>11, <1>12, <1>13 DEF PortGoes, IsEmpty
<1>15. Unported(s, user, w, z) = IF PortGoes(s, w) THEN g ELSE w
  BY <1>1 DEF Unported
<1>. QED
  BY <1>14, <1>15 DEF PortRemoved, t

LEMMA RemoveStage ==
  ASSUME NEW s, IsSeq(s), Lacks(s, {":"}), NEW user, IsSeq(user), UserPart(user), Lacks(user, {"/", "?", "#"}),
         NEW w, IsSeq(w), Lacks(w, {"/", "?", "#", "@"}), NEW z, IsSeq(z), Opens(z, {"/", "?"}),
         Lacks(z, {":"}) \/ (~Lacks(w, {":"}) /\ Lacks(z, {"@"}))
  PROVE  PortRemoved(s, user, w, z)
<1>. DEFINE x == s \o (Separator \o user)
            t == s \o (Separator \o (user \o (w \o z)))
            e == Find(t, Separator, 1)
            start == SkipUser(t, e + 3, {})
            colon == Find(t, <<":">>, start)
<1>1. IsSeq(x) /\ Len(x) = Len(s) + 3 + Len(user) /\ t = x \o (w \o z) /\ IsSeq(t) /\ Len(s) \in Nat /\ Len(user) \in Nat
  <2>1. IsSeq(w \o z)
    BY ConcatShape
  <2>2. Regrouped(t, s, user, w \o z)
    BY <2>1, TextRegrouped
  <2>. QED
    BY <2>2 DEF Regrouped
<1>2. e = Len(s) + 1
  <2>. DEFINE r == user \o (w \o z)
  <2>1. IsSeq(r)
    <3>1. IsSeq(w \o z)
      BY ConcatShape
    <3>. QED
      BY <3>1, ConcatShape
  <2>. HIDE DEF r
  <2>2. Find(s \o (Separator \o r), Separator, 1) = Len(s) + 1
    BY <2>1, SeparatorFound
  <2>. QED
    BY <2>2 DEF r
<1>. HIDE DEF e
<1>3. e + 3 = Len(s) + 4 /\ IsSeq(w \o z)
  BY <1>1, <1>2, ConcatShape
<1>4. ASSUME colon = npos PROVE RemoveDefaultPort(t) = t
  BY <1>4 DEF RemoveDefaultPort, colon, start, e
<1>5. CASE Reached(user, z)
  <2>1. SkipUser(t, Len(s) + 4, {}) = Len(s) + 3 + Len(user) + 1
    <3>1. Lacks(w, {"@"})
      BY LacksFewer
    <3>2. user # <<>> \/ Opens(z, {}) \/ Lacks(z, {"@"})
      BY <1>5 DEF Reached
    <3>3. "@" \notin {} /\ Lacks(user, {})
      BY DEF Lacks
    <3>. QED
      BY <3>1, <3>2, <3>3, HostFound
  <2>2. CASE ~Lacks(w, {":"})
    <3>1. Lacks(w, {"/", "?", "#"})
      BY LacksFewer
    <3>. QED
      BY <1>5, <2>1, <2>2, <3>1, PortCut
  <2>3. CASE Lacks(w, {":"})
    <3>1. Lacks(w \o z, {":"})
      BY <2>3, LacksOfTwo
    <3>2. FindFirstOf(x \o (w \o z), {":"}, Len(x) + 1) = npos
      <4>. HIDE DEF x
      <4>. DEFINE r == w \o z
      <4>1. IsSeq(x) /\ IsSeq(r) /\ Lacks(r, {":"})
        BY <1>1, <1>3, <3>1
      <4>. HIDE DEF r
      <4>2. FindFirstOf(x \o r, {":"}, Len(x) + 1) = npos
        BY <4>1, NoneBehind
      <4>. QED
        BY <4>2 DEF r
    <3>3. start = Len(x) + 1 /\ Len(x) \in Nat
      <4>. HIDE DEF t, x
      <4>. QED
        BY <1>1, <1>3, <2>1 DEF start
    <3>. HIDE DEF t, x, start
    <3>4. colon = npos
      <4>1. start \in Nat /\ start >= 1
        BY <3>3
      <4>2. colon = FindFirstOf(t, {":"}, start)
        BY <1>1, <4>1, FindOneIs
      <4>. QED
        BY <1>1, <3>2, <3>3, <4>2
    <3>5. Unported(s, user, w, z) = w
      BY <2>3 DEF Unported
    <3>. HIDE DEF colon
    <3>. QED
      BY <1>4, <3>4, <3>5 DEF PortRemoved, t
  <2>. QED
    BY <2>2, <2>3
<1>6. CASE ~Reached(user, z)
  <2>1. user = <<>> /\ ~Lacks(z, {"@"}) /\ Lacks(z, {":"})
    BY <1>6 DEF Reached
  <2>. DEFINE from == Len(x) + 1
              at == Find(t, <<"@">>, from)
  <2>2. from = Len(s) + 4 /\ from \in Nat /\ from >= 1 /\ Len(x) \in Nat
    <3>1. Len(user) = 0
      BY <2>1, SeqShape
    <3>. HIDE DEF x
    <3>. QED
      BY <1>1, <3>1
  <2>3. ThreePieces(t, x, w, z)
    <3>. HIDE DEF x, t
    <3>1. IsSeq(x)
      BY <1>1
    <3>. QED
      BY <1>1, <3>1, ThreeShape
  <2>. HIDE DEF x, t
  <2>4. /\ Len(t) = Len(x) + Len(w) + Len(z) /\ Len(w) \in Nat /\ Len(z) \in Nat
        /\ \A i \in 1 .. Len(w) : t[Len(x) + i] = w[i]
        /\ \A i \in 1 .. Len(z) : t[Len(x) + Len(w) + i] = z[i]
    BY <2>3 DEF ThreePieces
  <2>. HIDE DEF from
  <2>5. at = FindFirstOf(t, {"@"}, from)
    BY <1>1, <2>2, FindOneIs
  <2>6. PICK k \in 1 .. Len(z) : z[k] = "@"
    BY <2>1 DEF Lacks
  <2>7. Len(x) + Len(w) + k \in from .. Len(t) /\ t[Len(x) + Len(w) + k] = "@"
    <3>1. Len(x) + Len(w) + k \in from .. Len(t)
      BY <2>2, <2>4, <2>6 DEF from
    <3>. QED
      BY <2>4, <2>6, <3>1
  <2>8. at # npos /\ at \in from .. Len(t) /\ t[at] = "@"
    <3>. DEFINE first == FindFirstOf(t, {"@"}, from)
    <3>0. IsSeq(t) /\ from \in Nat /\ from >= 1
      BY <1>1, <2>2
    <3>1. /\ first # npos => first \in from .. Len(t) /\ t[first] \in {"@"}
          /\ first = npos => \A i \in from .. Len(t) : t[i] \notin {"@"}
      BY <3>0, FirstOfIs
    <3>. HIDE DEF first, at
    <3>2. at = first
      BY <2>5 DEF first
    <3>3. first # npos
      BY <2>7, <3>1
    <3>. QED
      BY <3>1, <3>2, <3>3
  <2>. HIDE DEF at
  <2>9. at > Len(x) + Len(w)
    <3>1. ASSUME at <= Len(x) + Len(w) PROVE FALSE
      <4>1. at - Len(x) \in 1 .. Len(w) /\ Len(x) + (at - Len(x)) = at
        BY <2>2, <2>4, <2>8, <3>1 DEF from
      <4>2. w[at - Len(x)] = "@"
        BY <2>4, <2>8, <4>1
      <4>. QED
        BY <4>1, <4>2 DEF Lacks
    <3>2. at \in Nat
      BY <2>2, <2>8
    <3>. QED
      BY <2>2, <2>4, <3>1, <3>2
  <2>10. start = at + 1
    <3>1. FindFirstOf(t, {}, from) = npos
      <4>1. \A i \in from .. Len(t) : t[i] \notin {}
        OBVIOUS
      <4>. QED
        BY <1>1, <2>2, <4>1, FirstOfAt
    <3>2. SkipUser(t, from, {}) = at + 1
      BY <2>8, <3>1 DEF SkipUser, at
    <3>. QED
      BY <1>3, <2>2, <3>2 DEF start
  <2>. HIDE DEF start
  <2>11. \A i \in start .. Len(t) : t[i] \notin {":"}
    <3>. TAKE i \in start .. Len(t)
    <3>1. i - Len(x) - Len(w) \in 1 .. Len(z) /\ Len(x) + Len(w) + (i - Len(x) - Len(w)) = i
      BY <2>2, <2>4, <2>8, <2>9, <2>10
    <3>2. t[i] = z[i - Len(x) - Len(w)]
      BY <2>4, <3>1
    <3>. QED
      BY <2>1, <3>1, <3>2 DEF Lacks
  <2>12. start \in Nat /\ start >= 1
    BY <2>2, <2>8, <2>10
  <2>13. colon = npos
    <3>1. colon = FindFirstOf(t, {":"}, start)
      BY <1>1, <2>12, FindOneIs
    <3>. QED
      BY <1>1, <2>11, <2>12, <3>1, FirstOfAt
  <2>14. Unported(s, user, w, z) = w
    BY <1>6 DEF Unported
  <2>. HIDE DEF colon
  <2>. QED
    BY <1>4, <2>13, <2>14 DEF PortRemoved, t
<1>. QED
  BY <1>5, <1>6

(* WithPath: a path / before the query, unless there is a / somewhere. *)
PathMade(path, query) == IF path = <<>> /\ Lacks(query, {"/"}) THEN <<"/">> ELSE path

PathAdded(s, user, w, path, query) ==
  WithPath(s \o (Separator \o (user \o (w \o (path \o query)))))
    = s \o (Separator \o (user \o (w \o (PathMade(path, query) \o query))))

LEMMA PathStage ==
  ASSUME NEW s, IsSeq(s), Lacks(s, {":", "/", "?", "#", "@"}), NEW user, IsSeq(user), Lacks(user, {"/", "?", "#"}),
         NEW w, IsSeq(w), Lacks(w, {"/", "?", "#", "@"}),
         NEW path, IsSeq(path), Opens(path, {"/"}), NEW query, IsSeq(query), Opens(query, {"?"})
  PROVE  PathAdded(s, user, w, path, query)
<1>. DEFINE z == path \o query
            x == s \o Separator
            front == s \o (Separator \o user)
            t == s \o (Separator \o (user \o (w \o z)))
            e == Find(t, Separator, 1)
            mark == OrEnd(Find(t, <<"?">>, 1), t)
<1>0. IsSeq(z) /\ IsSeq(w \o z)
  <2>1. IsSeq(z)
    BY ConcatShape
  <2>. HIDE DEF z
  <2>. QED
    BY <2>1, ConcatShape
<1>1. /\ IsSeq(x) /\ Len(x) = Len(s) + 3 /\ t = x \o (user \o (w \o z)) /\ IsSeq(t) /\ Len(s) \in Nat /\ Len(user) \in Nat
      /\ IsSeq(front) /\ t = front \o (w \o z)
  <2>. HIDE DEF z
  <2>1. Regrouped(t, s, user, w \o z)
    BY <1>0, TextRegrouped
  <2>. QED
    BY <2>1 DEF Regrouped
<1>2. e = Len(s) + 1 /\ IsSeq(user \o (w \o z))
  <2>. DEFINE r == user \o (w \o z)
  <2>1. IsSeq(r)
    <3>. DEFINE v == w \o z
    <3>1. IsSeq(v)
      BY <1>0
    <3>. HIDE DEF v
    <3>. QED
      BY <3>1, ConcatShape DEF v
  <2>. HIDE DEF r
  <2>2. Find(s \o (Separator \o r), Separator, 1) = Len(s) + 1
    <3>1. Lacks(s, {":"})
      BY LacksFewer
    <3>. QED
      BY <2>1, <3>1, SeparatorFound
  <2>. QED
    BY <2>1, <2>2 DEF r
<1>3. Find(t, <<"/">>, e + 3) = npos <=> Lacks(z, {"/"})
  <2>. DEFINE r == user \o (w \o z)
  <2>1. Lacks(user, {"/"}) /\ Lacks(w, {"/"})
    BY LacksFewer
  <2>2. Lacks(r, {"/"}) <=> Lacks(z, {"/"})
    <3>. DEFINE v == w \o z
    <3>. HIDE DEF z
    <3>1. Lacks(v, {"/"}) <=> Lacks(z, {"/"})
      BY <1>0, <2>1, LacksOfTwo
    <3>2. IsSeq(v)
      BY <1>0
    <3>. HIDE DEF v
    <3>3. Lacks(user \o v, {"/"}) <=> Lacks(v, {"/"})
      BY <2>1, <3>2, LacksOfTwo
    <3>. QED
      BY <3>1, <3>3 DEF v
  <2>3. e + 3 = Len(x) + 1 /\ Len(x) + 1 \in Nat /\ Len(x) + 1 >= 1
    BY <1>1, <1>2
  <2>4. IsSeq(r)
    BY <1>2
  <2>5. t = x \o r
    BY <1>1
  <2>6. IsSeq(x) /\ IsSeq(t)
    BY <1>1
  <2>. HIDE DEF r, x, t, e
  <2>7. FindFirstOf(x \o r, {"/"}, Len(x) + 1) = npos <=> Lacks(r, {"/"})
    BY <2>4, <2>6, NoneBehind
  <2>. DEFINE from == Len(x) + 1
  <2>8. from \in Nat /\ from >= 1
    BY <2>3
  <2>. HIDE DEF from
  <2>9. Find(t, <<"/">>, from) = FindFirstOf(t, {"/"}, from)
    BY <2>6, <2>8, FindOneIs
  <2>. QED
    BY <2>2, <2>3, <2>5, <2>7, <2>9 DEF from
<1>4. Lacks(z, {"/"}) <=> path = <<>> /\ Lacks(query, {"/"})
  <2>1. Lacks(z, {"/"}) <=> Lacks(path, {"/"}) /\ Lacks(query, {"/"})
    BY LacksOfTwo
  <2>2. Lacks(path, {"/"}) <=> path = <<>>
    <3>1. ASSUME path # <<>> PROVE ~Lacks(path, {"/"})
      <4>1. Len(path) > 0 /\ path[1] = "/" /\ Len(path) \in Nat
        BY <3>1, SeqShape DEF Opens
      <4>2. 1 \in 1 .. Len(path)
        BY <4>1
      <4>. QED
        BY <4>1, <4>2 DEF Lacks
    <3>2. ASSUME path = <<>> PROVE Lacks(path, {"/"})
      <4>1. Len(path) = 0
        BY <3>2
      <4>. QED
        BY <4>1 DEF Lacks
    <3>. QED
      BY <3>1, <3>2
  <2>. QED
    BY <2>1, <2>2
<1>5. CASE ~Lacks(z, {"/"})
  <2>1. WithPath(t) = t
    BY <1>3, <1>5 DEF WithPath
  <2>2. PathMade(path, query) = path
    BY <1>4, <1>5 DEF PathMade
  <2>. QED
    BY <2>1, <2>2 DEF PathAdded
<1>6. CASE Lacks(z, {"/"})
  <2>. DEFINE v == front \o w
              none == <<>>
  <2>1. path = <<>> /\ z = query /\ PathMade(path, query) = <<"/">>
    BY <1>4, <1>6, ConcatOfNone DEF PathMade
  <2>2. IsSeq(v) /\ IsSeq(none)
    <3>. HIDE DEF front
    <3>. QED
      BY <1>1, ConcatShape, TupleShape
  <2>3. t = v \o query
    <3>1. Grouped(front, w, query)
      <4>. HIDE DEF front
      <4>. QED
        BY <1>1, GroupedIs
    <3>. HIDE DEF front, t, z
    <3>. QED
      BY <1>1, <2>1, <3>1 DEF Grouped
  <2>4. Lacks(v, {"?"})
    <3>1. Lacks(s, {"?"}) /\ Lacks(user, {"?"}) /\ Lacks(w, {"?"})
      BY LacksFewer
    <3>2. Lacks(Separator, {"?"})
      <4>1. 1 .. Len(Separator) = {1, 2, 3}
        BY SeparatorIs
      <4>. QED
        BY <4>1, SeparatorIs DEF Lacks
    <3>3. IsSeq(Separator) /\ IsSeq(Separator \o user)
      BY SeparatorIs, ConcatShape
    <3>4. Lacks(Separator \o user, {"?"})
      BY <3>1, <3>2, <3>3, LacksOfTwo
    <3>5. Lacks(front, {"?"})
      <4>. DEFINE y == Separator \o user
      <4>1. IsSeq(y) /\ Lacks(y, {"?"})
        BY <3>3, <3>4
      <4>. HIDE DEF y
      <4>2. Lacks(s \o y, {"?"})
        BY <3>1, <4>1, LacksOfTwo
      <4>. QED
        BY <4>2 DEF y
    <3>. HIDE DEF front
    <3>. QED
      BY <1>1, <3>1, <3>5, LacksOfTwo
  <2>. HIDE DEF v, t, front
  <2>5. mark = Len(v) + 1 /\ Len(v) \in Nat
    <3>. HIDE DEF none
    <3>1. StopFound(none, v, query, {"?"})
      BY <2>2, <2>4, StopBehind
    <3>2. Len(none) = 0 /\ none \o (v \o query) = v \o query
      <4>1. IsSeq(v \o query)
        BY <2>2, ConcatShape
      <4>2. Len(none) = 0
        BY DEF none
      <4>. DEFINE y == v \o query
      <4>. HIDE DEF y
      <4>3. <<>> \o y = y
        BY <4>1, ConcatOfNone DEF y
      <4>. QED
        BY <4>2, <4>3 DEF y, none
    <3>3. Len(v) \in Nat /\ 0 + 1 = 1 /\ 0 + Len(v) + 1 = Len(v) + 1
      BY <2>2, SeqShape
    <3>4. OrEnd(FindFirstOf(t, {"?"}, 1), t) = Len(v) + 1
      BY <2>3, <3>1, <3>2, <3>3 DEF StopFound
    <3>. DEFINE one == 1
    <3>5. one \in Nat /\ one >= 1
      OBVIOUS
    <3>. HIDE DEF one
    <3>6. Find(t, <<"?">>, one) = FindFirstOf(t, {"?"}, one)
      BY <1>1, <3>5, FindOneIs
    <3>. QED
      BY <3>3, <3>4, <3>6 DEF one
  <2>6. SubSeq(t, 1, mark - 1) = v /\ From(t, mark) = query
    <3>. DEFINE y == v \o query
    <3>1. CutInThree(none \o (v \o query), none, v, query)
      <4>. HIDE DEF none
      <4>. QED
        BY <2>2, ThreeShape
    <3>2. IsSeq(y)
      BY <2>2, ConcatShape
    <3>3. none \o (v \o query) = v \o query
      <4>. HIDE DEF y
      <4>1. <<>> \o y = y
        BY <3>2, ConcatOfNone
      <4>. QED
        BY <4>1 DEF y
    <3>4. Len(none) = 0 /\ 0 + 1 = 1 /\ 0 + Len(v) = Len(v) /\ mark - 1 = Len(v)
      BY <2>5
    <3>. HIDE DEF none, mark
    <3>. QED
      BY <2>3, <2>5, <3>1, <3>3, <3>4 DEF CutInThree, From
  <2>7. WithPath(t) = (v \o <<"/">>) \o query
    <3>1. Find(t, <<"/">>, e + 3) = npos
      BY <1>3, <1>6
    <3>2. WithPath(t) = (SubSeq(t, 1, mark - 1) \o <<"/">>) \o From(t, mark)
      BY <3>1 DEF WithPath, e, mark
    <3>. QED
      BY <2>6, <3>2
  <2>8. (v \o <<"/">>) \o query = s \o (Separator \o (user \o (w \o (<<"/">> \o query))))
    <3>. DEFINE y == <<"/">> \o query
                slash == <<"/">>
    <3>1. IsSeq(slash) /\ IsSeq(y) /\ IsSeq(w \o y)
      <4>1. IsSeq(slash)
        BY TupleShape
      <4>2. IsSeq(y)
        BY <4>1, ConcatShape
      <4>. HIDE DEF y
      <4>. QED
        BY <4>1, <4>2, ConcatShape
    <3>2. Grouped(v, slash, query)
      <4>. HIDE DEF slash
      <4>. QED
        BY <2>2, <3>1, GroupedIs
    <3>. HIDE DEF y
    <3>3. Grouped(front, w, y)
      BY <1>1, <3>1, GroupedIs
    <3>4. Regrouped(s \o (Separator \o (user \o (w \o y))), s, user, w \o y)
      BY <3>1, TextRegrouped
    <3>5. (v \o slash) \o query = v \o y
      BY <3>2 DEF Grouped, y
    <3>6. v \o y = front \o (w \o y)
      BY <3>3 DEF Grouped, v
    <3>7. front \o (w \o y) = s \o (Separator \o (user \o (w \o y)))
      BY <3>4 DEF Regrouped, front
    <3>. QED
      BY <3>5, <3>6, <3>7 DEF y
  <2>. QED
    BY <2>1, <2>7, <2>8 DEF PathAdded, t
<1>. QED
  BY <1>5, <1>6

LEMMA LacksInText ==
  ASSUME NEW s, IsSeq(s), NEW r, IsSeq(r), NEW chars, Lacks(s, chars), Lacks(r, chars),
         ":" \notin chars, "/" \notin chars
  PROVE  Lacks(s \o (Separator \o r), chars)
<1>. DEFINE y == Separator \o r
<1>1. IsSeq(Separator) /\ IsSeq(y)
  BY SeparatorIs, ConcatShape
<1>2. Lacks(Separator, chars)
  <2>1. 1 .. Len(Separator) = {1, 2, 3}
    BY SeparatorIs
  <2>. QED
    BY <2>1, SeparatorIs DEF Lacks
<1>3. Lacks(y, chars)
  BY <1>1, <1>2, LacksOfTwo
<1>. HIDE DEF y
<1>4. Lacks(s \o y, chars)
  BY <1>1, <1>3, LacksOfTwo
<1>. QED
  BY <1>4 DEF y

(* The fragment is cut off. *)
WithoutFragment(u) == SubSeq(u, 1, OrEnd(Find(u, <<"#">>, 1), u) - 1)

LEMMA FragmentCut ==
  ASSUME NEW v, IsSeq(v), Lacks(v, {"#"}), NEW f, IsSeq(f), Opens(f, {"#"})
  PROVE  WithoutFragment(v \o f) = v
<1>. DEFINE none == <<>>
            t == v \o f
            one == 1
            mark == OrEnd(FindFirstOf(t, {"#"}, one), t)
<1>1. IsSeq(t) /\ IsSeq(none) /\ Len(none) = 0 /\ Len(v) \in Nat /\ one \in Nat /\ one >= 1
  BY ConcatShape, TupleShape, SeqShape
<1>2. none \o t = t
  <2>. HIDE DEF t
  <2>. QED
    BY <1>1, ConcatOfNone
<1>3. StopFound(none, v, f, {"#"}) /\ CutInThree(none \o (v \o f), none, v, f)
  <2>. HIDE DEF none
  <2>. QED
    BY <1>1, StopBehind, ThreeShape
<1>. HIDE DEF none
<1>4. Len(none) + 1 = one /\ Len(none) + Len(v) + 1 = Len(v) + 1 /\ Len(none) + Len(v) = Len(v)
  BY <1>1
<1>5. mark = Len(v) + 1
  BY <1>2, <1>3, <1>4 DEF StopFound
<1>6. Find(t, <<"#">>, one) = FindFirstOf(t, {"#"}, one)
  <2>. HIDE DEF t, one
  <2>. QED
    BY <1>1, FindOneIs
<1>7. SubSeq(t, 1, Len(v)) = v
  BY <1>2, <1>3, <1>4 DEF CutInThree
<1>8. OrEnd(Find(t, <<"#">>, 1), t) - 1 = Len(v)
  <2>1. OrEnd(Find(t, <<"#">>, 1), t) = mark
    BY <1>6
  <2>. HIDE DEF mark
  <2>. QED
    BY <1>1, <1>5, <2>1
<1>. HIDE DEF t
<1>. QED
  BY <1>7, <1>8 DEF WithoutFragment, t

(* What the port leaves of the authority is its beginning. *)
LEMMA UnportedIs ==
  ASSUME NEW s, NEW user, NEW w, IsSeq(w), NEW z
  PROVE  LET v == Unported(s, user, w, z)
         IN IsSeq(v) /\ \A chars : Lacks(w, chars) => Lacks(v, chars)
<1>. DEFINE v == Unported(s, user, w, z)
<1>1. CASE ~Lacks(w, {":"})
  <2>1. PICK g, d : CutAtColon(w, g, d)
    BY <1>1, ColonCut
  <2>2. IsSeq(g) /\ IsSeq(d) /\ w = g \o d /\ BeforeColon(w) = g
    BY <2>1 DEF CutAtColon
  <2>3. \A chars : Lacks(w, chars) => Lacks(g, chars)
    BY <2>2, LacksOfTwo
  <2>4. v = g \/ v = w
    BY <2>2 DEF Unported
  <2>. HIDE DEF v
  <2>. QED
    BY <2>2, <2>3, <2>4 DEF v
<1>2. CASE Lacks(w, {":"})
  <2>1. v = w
    BY <1>2 DEF Unported
  <2>. QED
    BY <2>1
<1>. QED
  BY <1>1, <1>2

(* No colon behind the authority is taken for the one of the port. *)
ColonsPlain(w, z) == Lacks(z, {":"}) \/ (~Lacks(w, {":"}) /\ Lacks(z, {"@"}))

LEMMA PartsLowered ==
  ASSUME NEW s, NEW user, NEW host, NEW port, NEW path, NEW query, PartsApart(s, user, host, port, path, query)
  PROVE  PartsApart(ToLower(s), user, HostMade(host), port, path, query)
<1>1. IsSeq(s) /\ IsSeq(host) /\ Lacks(s, {":", "/", "?", "#", "@"}) /\ Lacks(host, {"/", "?", "#", "@"})
  BY DEF PartsApart, AreSeqs
<1>2. IsSeq(ToLower(s)) /\ Lacks(ToLower(s), {":", "/", "?", "#", "@"})
  <2>1. Lowered(ToLower(s), s)
    BY <1>1, LowerIs
  <2>2. {":", "/", "?", "#", "@"} \subseteq Delimiters
    BY DEF Delimiters
  <2>. QED
    BY <1>1, <2>1, <2>2, LacksLowered DEF Lowered
<1>3. IsSeq(HostMade(host)) /\ Lacks(HostMade(host), {"/", "?", "#", "@"})
  <2>1. {"/", "?", "#", "@"} \in SUBSET Delimiters
    BY DEF Delimiters
  <2>2. IsSeq(NormalHost(host)) /\ Lacks(NormalHost(host), {"/", "?", "#", "@"})
    BY <1>1, <2>1, NormalHostShape
  <2>. QED
    BY <1>1, <2>2 DEF HostMade
<1>. QED
  BY <1>2, <1>3 DEF PartsApart, AreSeqs

NormalText(s, user, host, port, path, query) ==
  ToLower(s) \o (Separator \o (user \o (
    Unported(ToLower(s), user, HostMade(host) \o port, path \o query) \o (PathMade(path, query) \o query))))

LEMMA NormalIs ==
  ASSUME NEW s, NEW user, NEW host, NEW port, NEW path, NEW query, NEW fragment,
         PartsApart(s, user, host, port, path, query), ColonsBracketed(host), UserPlain(path, query),
         ColonsPlain(HostMade(host) \o port, path \o query), IsSeq(fragment), Opens(fragment, {"#"})
  PROVE  NormalizeUrl(UrlText(s, user, host, port, path, query) \o fragment)
           = NormalText(s, user, host, port, path, query)
<1>. DEFINE u == UrlText(s, user, host, port, path, query)
            low == ToLower(s)
            made == HostMade(host)
            w == made \o port
            z == path \o query
            v == Unported(low, user, w, z)
<1>1. AreSeqs(s, user, host, port, path, query)
  BY DEF PartsApart
<1>2. PartsApart(low, user, made, port, path, query)
  BY PartsLowered
<1>3. WithoutFragment(u \o fragment) = u
  <2>. DEFINE r4 == path \o query
              r3 == port \o r4
              r2 == host \o r3
              r1 == user \o r2
  <2>1. /\ Lacks(s, {"#"}) /\ Lacks(user, {"#"}) /\ Lacks(host, {"#"}) /\ Lacks(port, {"#"})
        /\ Lacks(path, {"#"}) /\ Lacks(query, {"#"})
    BY LacksFewer DEF PartsApart
  <2>2. IsSeq(r4) /\ Lacks(r4, {"#"})
    BY <1>1, <2>1, ConcatShape, LacksOfTwo DEF AreSeqs
  <2>. HIDE DEF r4
  <2>3. IsSeq(r3) /\ Lacks(r3, {"#"})
    BY <1>1, <2>1, <2>2, ConcatShape, LacksOfTwo DEF AreSeqs
  <2>. HIDE DEF r3
  <2>4. IsSeq(r2) /\ Lacks(r2, {"#"})
    BY <1>1, <2>1, <2>3, ConcatShape, LacksOfTwo DEF AreSeqs
  <2>. HIDE DEF r2
  <2>5. IsSeq(r1) /\ Lacks(r1, {"#"})
    BY <1>1, <2>1, <2>4, ConcatShape, LacksOfTwo DEF AreSeqs
  <2>. HIDE DEF r1
  <2>6. u = s \o (Separator \o r1)
    BY DEF UrlText, r1, r2, r3, r4
  <2>. HIDE DEF u
  <2>7. IsSeq(u)
    <3>. DEFINE y == Separator \o r1
    <3>1. IsSeq(y) /\ IsSeq(s)
      BY <1>1, <2>5, SeparatorIs, ConcatShape DEF AreSeqs
    <3>. HIDE DEF y
    <3>. QED
      BY <2>6, <3>1, ConcatShape DEF y
  <2>8. Lacks(u, {"#"})
    <3>1. IsSeq(s)
      BY <1>1 DEF AreSeqs
    <3>2. Lacks(s \o (Separator \o r1), {"#"})
      BY <2>1, <2>5, <3>1, LacksInText
    <3>. QED
      BY <2>6, <3>2
  <2>. QED
    BY <2>7, <2>8, FragmentCut
<1>4. LowerSchemeAndHost(u) = UrlText(low, user, made, port, path, query)
  BY LowerStage
<1>5. IsSeq(low) /\ IsSeq(user) /\ IsSeq(made) /\ IsSeq(port) /\ IsSeq(path) /\ IsSeq(query)
  BY <1>2 DEF PartsApart, AreSeqs
<1>. HIDE DEF u, low, made
<1>6. UrlText(low, user, made, port, path, query) = low \o (Separator \o (user \o (w \o z)))
  <2>1. Grouped(made, port, z)
    <3>1. IsSeq(z)
      BY <1>5, ConcatShape
    <3>. HIDE DEF z
    <3>. QED
      BY <1>5, <3>1, GroupedIs
  <2>. QED
    BY <2>1 DEF UrlText, Grouped
<1>7. IsSeq(w) /\ IsSeq(z) /\ Lacks(w, {"/", "?", "#", "@"}) /\ Opens(z, {"/", "?"})
  <2>1. Lacks(made, {"/", "?", "#", "@"}) /\ Lacks(port, {"/", "?", "#", "@"})
    BY <1>2 DEF PartsApart
  <2>2. Opens(path, {"/", "?"}) /\ Opens(query, {"/", "?"})
    BY OpensMore DEF PartsApart
  <2>3. IsSeq(w) /\ IsSeq(z)
    BY <1>5, ConcatShape
  <2>4. Lacks(w, {"/", "?", "#", "@"})
    BY <1>5, <2>1, LacksOfTwo
  <2>5. Opens(z, {"/", "?"})
    BY <1>5, <2>2, OpensOfTwo
  <2>. QED
    BY <2>3, <2>4, <2>5
<1>8. PortRemoved(low, user, w, z)
  <2>1. Lacks(low, {":"}) /\ UserPart(user) /\ Lacks(user, {"/", "?", "#"})
    BY <1>2, LacksFewer DEF PartsApart
  <2>2. Lacks(z, {":"}) \/ (~Lacks(w, {":"}) /\ Lacks(z, {"@"}))
    BY DEF ColonsPlain, made
  <2>. HIDE DEF w, z
  <2>. QED
    BY <1>5, <1>7, <2>1, <2>2, RemoveStage
<1>9. IsSeq(v) /\ Lacks(v, {"/", "?", "#", "@"})
  <2>. HIDE DEF w, z
  <2>. QED
    BY <1>7, UnportedIs
<1>10. PathAdded(low, user, v, path, query)
  <2>1. Lacks(low, {":", "/", "?", "#", "@"}) /\ Lacks(user, {"/", "?", "#"}) /\ Opens(path, {"/"}) /\ Opens(query, {"?"})
    BY <1>2 DEF PartsApart
  <2>. HIDE DEF v
  <2>. QED
    BY <1>5, <1>9, <2>1, PathStage
<1>11. NormalizeUrl(u \o fragment) = WithPath(RemoveDefaultPort(LowerSchemeAndHost(u)))
  BY <1>3 DEF NormalizeUrl, WithoutFragment
<1>12. RemoveDefaultPort(LowerSchemeAndHost(u)) = low \o (Separator \o (user \o (v \o z)))
  <2>. HIDE DEF w, z
  <2>. QED
    BY <1>4, <1>6, <1>8 DEF PortRemoved, v
<1>13. WithPath(low \o (Separator \o (user \o (v \o z)))) = low \o (Separator \o (user \o (v \o (PathMade(path, query) \o query))))
  <2>. HIDE DEF v
  <2>. QED
    BY <1>10 DEF PathAdded
<1>. QED
  BY <1>11, <1>12, <1>13 DEF NormalText, u, low, made

(* The first ] of a host, with a colon before it. *)
PairedIn(w) ==
  \E c \in 1 .. Len(w) : /\ w[c] = "]" /\ \A i \in 1 .. c - 1 : w[i] # "]"
                         /\ \E j \in 1 .. c - 1 : w[j] = ":"

(* What the format and the domain say of a text in which a host opens a bracket. *)
LEMMA BracketChars ==
  /\ ~HostChar("[") /\ ~Ipv6Char("[") /\ ~Ipv6Char("]") /\ ~Ipv6Char("/") /\ ~Ipv6Char("?")
  /\ ~Ipv6Char(".") /\ ~Ipv6Char("localhost")
BY DEF HostChar, Ipv6Char, IsLetterOrDigit, IsLetter, Punctuation, Digit

ClosedAt(t, start, close) ==
  /\ close \in start + 1 .. Len(t) /\ t[close] = "]"
  /\ \A i \in start + 1 .. close - 1 : Ipv6Char(t[i])

(* Where a bracket closes that the format takes for the one of the host. *)
LEMMA HostCloses ==
  ASSUME NEW t, IsSeq(t), NEW start \in Nat, start >= 1, start <= Len(t), t[start] = "[",
         start = SkipUser(t, Find(t, Separator, 1) + 3, {"/", "?", "#"}), IsValidFormat(t)
  PROVE  ClosedAt(t, start, Find(t, <<"]">>, start))
<1>. DEFINE close == Find(t, <<"]">>, start)
            port == IF start <= Len(t) /\ t[start] = "[" /\ close # npos THEN close + 1
                    ELSE OrEnd(FindFirstOf(t, {":", "/", "?", "#"}, start), t)
            host == SubSeq(t, start, port - 1)
<1>1. \/ ~IsEmpty(host) /\ All(host, HostChar)
      \/ Len(host) > 2 /\ host[1] = "[" /\ host[Len(host)] = "]" /\ All(SubSeq(host, 2, Len(host) - 1), Ipv6Char)
  BY DEF IsValidFormat
<1>2. Len(t) \in Nat
  BY SeqShape
<1>3. close = FindFirstOf(t, {"]"}, start)
  BY FindOneIs
<1>4. /\ close \in Nat
      /\ close # npos => close \in start .. Len(t) /\ t[close] = "]" /\ \A i \in start .. close - 1 : t[i] # "]"
      /\ close = npos => \A i \in start .. Len(t) : t[i] # "]"
  <2>. DEFINE first == FindFirstOf(t, {"]"}, start)
  <2>1. /\ first \in Nat
        /\ first # npos => first \in start .. Len(t) /\ t[first] \in {"]"} /\ \A i \in start .. first - 1 : t[i] \notin {"]"}
        /\ first = npos => \A i \in start .. Len(t) : t[i] \notin {"]"}
    BY FirstOfIs
  <2>. HIDE DEF first, close
  <2>2. close = first
    BY <1>3 DEF first
  <2>. QED
    BY <2>1, <2>2
<1>5. port \in Nat /\ port > start /\ port <= Len(t) + 1 /\ (close # npos => port = close + 1)
  <2>. DEFINE stop == FindFirstOf(t, {":", "/", "?", "#"}, start)
  <2>1. stop \in Nat /\ (stop # npos => stop \in start .. Len(t) /\ t[stop] \in {":", "/", "?", "#"})
    BY FirstOfIs
  <2>. HIDE DEF stop, close
  <2>2. port = IF close # npos THEN close + 1 ELSE IF stop = npos THEN Len(t) + 1 ELSE stop
    BY DEF OrEnd, stop
  <2>3. stop # npos => stop # start
    BY <2>1
  <2>. HIDE DEF port
  <2>. QED
    BY <1>2, <1>4, <2>1, <2>2, <2>3
<1>. HIDE DEF close, port
<1>6. IsSeq(host) /\ Len(host) = port - start /\ \A k \in 1 .. port - start : host[k] = t[start + k - 1]
  <2>. DEFINE b == port - 1
  <2>1. b \in Int /\ b <= Len(t) /\ b >= start - 1 /\ b - start + 1 = port - start
    BY <1>2, <1>5
  <2>. HIDE DEF b
  <2>2. IsSeq(SubSeq(t, start, b)) /\ Len(SubSeq(t, start, b)) = b - start + 1
        /\ \A k \in 1 .. b - start + 1 : SubSeq(t, start, b)[k] = t[start + k - 1]
    BY <2>1, CutIs
  <2>. QED
    BY <2>1, <2>2 DEF b
<1>. HIDE DEF host
<1>7. ~All(host, HostChar)
  <2>1. 1 \in 1 .. port - start /\ start + 1 - 1 = start
    BY <1>5
  <2>2. host[1] = "[" /\ 1 \in DOMAIN host
    BY <1>6, <2>1, SeqShape
  <2>. QED
    BY <2>2, BracketChars DEF All
<1>8. Len(host) > 2 /\ host[Len(host)] = "]" /\ All(SubSeq(host, 2, Len(host) - 1), Ipv6Char)
  BY <1>1, <1>7
<1>9. t[port - 1] = "]" /\ port - 1 \in start .. Len(t)
  <2>1. port - start \in 1 .. port - start /\ start + (port - start) - 1 = port - 1 /\ port - 1 \in start .. Len(t)
    BY <1>2, <1>5
  <2>. QED
    BY <1>6, <1>8, <2>1
<1>10. close # npos /\ port = close + 1 /\ close # start
  BY <1>4, <1>5, <1>9
<1>11. \A i \in start + 1 .. close - 1 : Ipv6Char(t[i])
  <2>. TAKE i \in start + 1 .. close - 1
  <2>. DEFINE two == 2
              b == Len(host) - 1
              inner == SubSeq(host, two, b)
              k == i - start
  <2>0. Len(host) \in Nat /\ port = close + 1 /\ close \in Nat /\ Len(host) = port - start
    BY <1>4, <1>6, <1>10, SeqShape
  <2>1. two \in Nat /\ two >= 1 /\ b \in Int /\ b <= Len(host) /\ b >= two - 1 /\ b - two + 1 = Len(host) - 2
    BY <1>8, <2>0
  <2>. HIDE DEF two, b
  <2>2. IsSeq(inner) /\ Len(inner) = b - two + 1 /\ \A j \in 1 .. b - two + 1 : inner[j] = host[two + j - 1]
    BY <1>6, <2>1, CutIs
  <2>. HIDE DEF inner
  <2>3. k \in 1 .. Len(host) - 2 /\ two + k - 1 \in 1 .. port - start /\ start + (two + k - 1) - 1 = i
    <3>1. i \in Int /\ start + 1 <= i /\ i <= close - 1
      BY <2>0
    <3>2. k \in Int /\ 1 <= k /\ k <= Len(host) - 2 /\ start + k = i
      BY <2>0, <3>1
    <3>. HIDE DEF k
    <3>. QED
      BY <2>0, <3>2 DEF two
  <2>. HIDE DEF k
  <2>4. inner[k] = t[i] /\ k \in DOMAIN inner
    BY <1>6, <2>1, <2>2, <2>3, SeqShape
  <2>5. All(inner, Ipv6Char)
    BY <1>8 DEF inner, two, b
  <2>. QED
    BY <2>4, <2>5 DEF All
<1>. QED
  BY <1>4, <1>10, <1>11 DEF ClosedAt, close

(* A domain that is cut at a bracket and is valid has a colon in it. *)
LEMMA DomainPaired ==
  ASSUME NEW t, IsSeq(t), NEW start \in Nat, start >= 1, start <= Len(t), t[start] = "[", NEW close, ClosedAt(t, start, close),
         HasWord(t, Separator), start = HostStart(t), IsValidDomain(ExtractDomain(t))
  PROVE  \E j \in start + 1 .. close - 1 : t[j] = ":"
<1>. DEFINE from == start + 1
            last == close - 1
            domain == SubSeq(t, from, last)
            one == 1
<1>1. Len(t) \in Nat /\ close \in from .. Len(t) /\ t[close] = "]" /\ from \in Nat /\ from >= 1
      /\ \A i \in from .. last : Ipv6Char(t[i])
  BY SeqShape DEF ClosedAt
<1>2. Find(t, <<"]">>, from) = close
  <2>. HIDE DEF from
  <2>1. Find(t, <<"]">>, from) = FindFirstOf(t, {"]"}, from)
    BY <1>1, FindOneIs
  <2>2. \A i \in from .. close - 1 : t[i] \notin {"]"}
    BY <1>1, BracketChars
  <2>3. FindFirstOf(t, {"]"}, from) = close
    <3>1. close \in from .. Len(t) /\ t[close] \in {"]"}
      BY <1>1
    <3>. QED
      BY <1>1, <2>2, <3>1, FirstOfAt
  <2>. QED
    BY <2>1, <2>3
<1>3. ExtractDomain(t) = domain
  <2>1. close # npos
    BY <1>1 DEF npos
  <2>. QED
    BY <1>2, <2>1 DEF ExtractDomain
<1>4. /\ IsSeq(domain) /\ Len(domain) \in Nat /\ Len(domain) = close - from
      /\ \A k \in 1 .. close - from : domain[k] = t[from + k - 1]
  <2>1. last \in Int /\ last <= Len(t) /\ last >= from - 1 /\ last - from + 1 = close - from
    BY <1>1
  <2>. HIDE DEF from, last
  <2>2. IsSeq(domain) /\ Len(domain) = last - from + 1
        /\ \A k \in 1 .. last - from + 1 : domain[k] = t[from + k - 1]
    BY <1>1, <2>1, CutIs
  <2>. HIDE DEF domain
  <2>. QED
    BY <2>1, <2>2, SeqShape
<1>. HIDE DEF from, last, domain
<1>5. \A k \in 1 .. Len(domain) : Ipv6Char(domain[k]) /\ \E j \in from .. last : domain[k] = t[j]
  <2>. TAKE k \in 1 .. Len(domain)
  <2>1. k \in 1 .. close - from /\ from + k - 1 \in from .. last
    BY <1>1, <1>4 DEF last
  <2>. QED
    BY <1>1, <1>4, <2>1
<1>6. SUFFICES ASSUME \A j \in from .. last : t[j] # ":" PROVE FALSE
  BY DEF from, last
<1>7. \A k \in 1 .. Len(domain) : domain[k] # ":" /\ domain[k] # "." /\ domain[k] # "localhost"
  BY <1>5, <1>6, BracketChars
<1>8. one \in Nat /\ one >= 1
  OBVIOUS
<1>. HIDE DEF one
<1>9. ~HasWord(domain, <<".">>) /\ ~HasWord(domain, <<":">>)
  <2>1. Find(domain, <<".">>, one) = FindFirstOf(domain, {"."}, one)
        /\ Find(domain, <<":">>, one) = FindFirstOf(domain, {":"}, one)
    BY <1>4, <1>8, FindOneIs
  <2>2. \A i \in one .. Len(domain) : domain[i] \notin {"."} /\ domain[i] \notin {":"}
    BY <1>7 DEF one
  <2>3. FindFirstOf(domain, {"."}, one) = npos
    BY <1>4, <1>8, <2>2, FirstOfAt
  <2>4. FindFirstOf(domain, {":"}, one) = npos
    BY <1>4, <1>8, <2>2, FirstOfAt
  <2>. QED
    BY <2>1, <2>3, <2>4 DEF HasWord, one
<1>10. Len(domain) \in 1 .. MaxDomain /\ (IsIpAddress(domain) \/ domain = <<"localhost">>)
  BY <1>3, <1>9 DEF IsValidDomain
<1>11. 1 \in 1 .. Len(domain)
  BY <1>4, <1>10
<1>12. domain # <<"localhost">>
  <2>1. ASSUME domain = <<"localhost">> PROVE FALSE
    <3>1. domain[1] = "localhost"
      BY <2>1
    <3>. QED
      BY <1>7, <1>11, <3>1
  <2>. QED
    BY <2>1
<1>13. Cardinality(Dots(domain)) = 3
  BY <1>9, <1>10, <1>12 DEF IsIpAddress
<1>14. Dots(domain) = {}
  <2>1. DOMAIN domain = 1 .. Len(domain)
    BY <1>4, SeqShape
  <2>. QED
    BY <1>7, <2>1 DEF Dots
<1>. QED
  BY <1>13, <1>14, FS_EmptySet

(* So a host that opens a bracket is paired, if both checks take the text. *)
LEMMA BracketPaired ==
  ASSUME NEW s, IsSeq(s), Lacks(s, {":"}), NEW user, IsSeq(user), UserPart(user), Lacks(user, {"/", "?", "#"}),
         NEW w, IsSeq(w), Lacks(w, {"/", "?", "#", "@"}), Bracketed(w), NEW z, IsSeq(z), Opens(z, {"/", "?"}),
         IsValidFormat(s \o (Separator \o (user \o (w \o z)))),
         IsValidDomain(ExtractDomain(s \o (Separator \o (user \o (w \o z)))))
  PROVE  PairedIn(w)
<1>. DEFINE x == s \o (Separator \o user)
            t == s \o (Separator \o (user \o (w \o z)))
            start == Len(x) + 1
            close == Find(t, <<"]">>, start)
            stops == {"/", "?", "#"}
<1>1. IsSeq(x) /\ Len(x) = Len(s) + 3 + Len(user) /\ t = x \o (w \o z) /\ IsSeq(t) /\ Len(s) \in Nat /\ Len(user) \in Nat
  <2>1. IsSeq(w \o z)
    BY ConcatShape
  <2>2. Regrouped(t, s, user, w \o z)
    BY <2>1, TextRegrouped
  <2>. QED
    BY <2>2 DEF Regrouped
<1>2. Find(t, Separator, 1) = Len(s) + 1 /\ HasWord(t, Separator)
  <2>. DEFINE r == user \o (w \o z)
  <2>1. IsSeq(r)
    <3>1. IsSeq(w \o z)
      BY ConcatShape
    <3>. QED
      BY <3>1, ConcatShape
  <2>. HIDE DEF r
  <2>2. Find(s \o (Separator \o r), Separator, 1) = Len(s) + 1 /\ HasWord(s \o (Separator \o r), Separator)
    BY <2>1, SeparatorFound
  <2>. QED
    BY <2>2 DEF r
<1>3. SkipUser(t, Len(s) + 4, stops) = Len(s) + 3 + Len(user) + 1
  <2>1. Lacks(w, {"@"}) /\ Opens(z, stops)
    BY LacksFewer, OpensMore
  <2>2. "@" \notin stops /\ Lacks(user, stops)
    OBVIOUS
  <2>. HIDE DEF stops
  <2>. QED
    BY <2>1, <2>2, HostFound
<1>4. ThreePieces(t, x, w, z)
  <2>. HIDE DEF x, t
  <2>1. IsSeq(x)
    BY <1>1
  <2>. QED
    BY <1>1, <2>1, ThreeShape
<1>5. IsValidFormat(t) /\ IsValidDomain(ExtractDomain(t))
  OBVIOUS
<1>. HIDE DEF x, t
<1>6. /\ Len(t) = Len(x) + Len(w) + Len(z) /\ Len(x) \in Nat /\ Len(w) \in Nat /\ Len(z) \in Nat
      /\ \A i \in 1 .. Len(w) : t[Len(x) + i] = w[i]
      /\ \A i \in 1 .. Len(z) : t[Len(x) + Len(w) + i] = z[i]
  BY <1>4 DEF ThreePieces
<1>7. start \in Nat /\ start >= 1 /\ start <= Len(t) /\ t[start] = "["
  <2>1. Len(w) > 0 /\ w[1] = "["
    BY DEF Bracketed
  <2>2. 1 \in 1 .. Len(w)
    BY <1>6, <2>1
  <2>. QED
    BY <1>6, <2>1, <2>2
<1>8. start = SkipUser(t, Find(t, Separator, 1) + 3, stops) /\ start = HostStart(t)
  <2>1. Find(t, Separator, 1) + 3 = Len(s) + 4 /\ start = Len(s) + 3 + Len(user) + 1
    BY <1>1, <1>2
  <2>. QED
    BY <1>3, <2>1 DEF HostStart
<1>. HIDE DEF start
<1>9. ClosedAt(t, start, close)
  BY <1>1, <1>5, <1>7, <1>8, HostCloses
<1>. HIDE DEF close
<1>10. close \in start + 1 .. Len(t) /\ t[close] = "]" /\ \A i \in start + 1 .. close - 1 : Ipv6Char(t[i])
  BY <1>9 DEF ClosedAt
<1>11. PICK j \in start + 1 .. close - 1 : t[j] = ":"
  BY <1>1, <1>2, <1>5, <1>7, <1>8, <1>9, DomainPaired
<1>12. close <= Len(x) + Len(w)
  <2>1. ASSUME close > Len(x) + Len(w) PROVE FALSE
    <3>. DEFINE p == Len(x) + Len(w) + 1
    <3>1. p \in start .. Len(t) /\ p <= close /\ Len(z) > 0
      BY <1>6, <1>7, <1>10, <2>1 DEF start
    <3>2. z[1] \in {"/", "?"} /\ 1 \in 1 .. Len(z)
      <4>1. z # <<>>
        BY <3>1, SeqShape
      <4>. QED
        BY <1>6, <3>1, <4>1 DEF Opens
    <3>3. t[p] = z[1]
      BY <1>6, <3>2
    <3>4. p # close /\ p # start
      BY <1>7, <1>10, <3>2, <3>3
    <3>5. p \in start + 1 .. close - 1
      BY <1>7, <1>10, <3>1, <3>4
    <3>. HIDE DEF p
    <3>. QED
      BY <1>10, <3>2, <3>3, <3>5, BracketChars
  <2>. QED
    BY <1>6, <1>7, <1>10, <2>1
<1>. DEFINE c == close - Len(x)
<1>13. c \in 1 .. Len(w) /\ Len(x) + c = close
  BY <1>6, <1>7, <1>10, <1>12 DEF start
<1>14. w[c] = "]"
  BY <1>6, <1>10, <1>13
<1>15. j - Len(x) \in 1 .. c - 1 /\ w[j - Len(x)] = ":"
  <2>1. j - Len(x) \in 1 .. c - 1 /\ j - Len(x) \in 1 .. Len(w) /\ Len(x) + (j - Len(x)) = j
    BY <1>6, <1>7, <1>10, <1>12 DEF start
  <2>. QED
    BY <1>6, <1>11, <2>1
<1>16. \A i \in 1 .. c - 1 : w[i] # "]"
  <2>. TAKE i \in 1 .. c - 1
  <2>1. i \in 1 .. Len(w) /\ Len(x) + i \in start .. close - 1
    BY <1>6, <1>7, <1>10, <1>12 DEF start
  <2>2. t[Len(x) + i] = w[i]
    BY <1>6, <2>1
  <2>3. CASE Len(x) + i = start
    BY <1>7, <2>2, <2>3
  <2>4. CASE Len(x) + i # start
    <3>1. Len(x) + i \in start + 1 .. close - 1
      BY <1>7, <1>10, <2>1, <2>4
    <3>. QED
      BY <1>10, <2>2, <3>1, BracketChars
  <2>. QED
    BY <2>3, <2>4
<1>. QED
  BY <1>13, <1>14, <1>15, <1>16 DEF PairedIn

(* A port goes whole, and only the default one. *)
IsDefaultPort(s, port) == port # <<>> /\ Tail(port) = DefaultPort(ToLower(s))

(* What is behind the first character. *)
LEMMA TailIs ==
  ASSUME NEW t, IsSeq(t), Len(t) > 0
  PROVE  Tail(t) = SubSeq(t, 2, Len(t))
<1>. DEFINE none == 0
<1>1. none \in 0 .. Len(t) /\ none < Len(t) /\ none + 1 = 1 /\ none + 2 = 2 /\ Len(t) \in Nat
  BY SeqShape
<1>. HIDE DEF none
<1>2. Tail(SubSeq(t, none + 1, Len(t))) = SubSeq(t, none + 2, Len(t))
  BY <1>1, RestShape
<1>3. SubSeq(t, 1, Len(t)) = t
  <2>. DEFINE n == Len(t)
              v == SubSeq(t, 1, n)
  <2>1. n \in 0 .. Len(t)
    BY <1>1
  <2>. HIDE DEF n
  <2>2. IsSeq(SubSeq(t, 1, n)) /\ Len(SubSeq(t, 1, n)) = n /\ \A i \in 1 .. n : SubSeq(t, 1, n)[i] = t[i]
    BY <2>1, FirstShape
  <2>. HIDE DEF v
  <2>3. v = t
    BY <2>2, SameShape DEF v, n
  <2>. QED
    BY <2>3 DEF v, n
<1>. QED
  BY <1>1, <1>2, <1>3

PortKept(v, s, host, port) == v = host \o port \/ (v = host /\ IsDefaultPort(s, port))

(* What is left of a host without colons and its port. *)
LEMMA UnportedPlain ==
  ASSUME NEW s, NEW user, NEW host, IsSeq(host), Lacks(host, {":"}), NEW port, IsSeq(port), Opens(port, {":"}), NEW z
  PROVE  PortKept(Unported(s, user, host \o port, z), s, host, port)
<1>. DEFINE w == host \o port
            v == Unported(s, user, w, z)
<1>1. CASE port = <<>>
  <2>1. w = host
    BY <1>1, ConcatOfNone
  <2>2. v = w
    BY <2>1 DEF Unported
  <2>. QED
    BY <2>2 DEF PortKept
<1>2. CASE port # <<>>
  <2>1. CutAtColon(w, host, port)
    BY <1>2, ColonAt
  <2>2. BeforeColon(w) = host /\ BehindColon(w) = SubSeq(port, 2, Len(port)) /\ Len(port) > 0
    BY <2>1 DEF CutAtColon
  <2>3. Tail(port) = SubSeq(port, 2, Len(port))
    BY <2>2, TailIs
  <2>4. v = w \/ (v = host /\ IsDefaultPort(s, port))
    <3>. HIDE DEF w
    <3>. QED
      BY <1>2, <2>2, <2>3 DEF Unported, PortGoes, IsDefaultPort
  <2>. QED
    BY <2>4 DEF PortKept
<1>. QED
  BY <1>1, <1>2

(* A bracket that opens stays open, if the authority is cut at a colon. *)
LEMMA NoLookalike ==
  ASSUME NEW host, IsSeq(host), Bracketed(host), ~Lacks(host, {":"}), ColonsBracketed(host), NEW port, IsSeq(port),
         NEW g, NEW d, CutAtColon(host \o port, g, d)
  PROVE  Bracketed(g) /\ ~PairedIn(g)
<1>. DEFINE w == host \o port
<1>1. /\ Len(host) \in Nat /\ Len(port) \in Nat /\ Len(host) > 0 /\ host[1] = "["
      /\ \A i \in 1 .. Len(host) + Len(port) : w[i] = IF i <= Len(host) THEN host[i] ELSE port[i - Len(host)]
      /\ Len(w) = Len(host) + Len(port)
  BY ConcatShape, SeqShape DEF Bracketed
<1>. HIDE DEF w
<1>2. CutAtColon(w, g, d)
  BY DEF w
<1>3. IsSeq(g) /\ IsSeq(d) /\ w = g \o d /\ Lacks(g, {":"}) /\ Len(d) > 0 /\ d[1] = ":"
  BY <1>2 DEF CutAtColon
<1>4. /\ Len(g) \in Nat /\ Len(d) \in Nat /\ Len(w) = Len(g) + Len(d)
      /\ \A i \in 1 .. Len(g) + Len(d) : w[i] = IF i <= Len(g) THEN g[i] ELSE d[i - Len(g)]
  <2>1. /\ Len(g \o d) = Len(g) + Len(d) /\ Len(g) \in Nat /\ Len(d) \in Nat
        /\ \A i \in 1 .. Len(g) + Len(d) : (g \o d)[i] = IF i <= Len(g) THEN g[i] ELSE d[i - Len(g)]
    BY <1>3, ConcatShape, SeqShape
  <2>. QED
    BY <1>3, <2>1
<1>5. PICK j \in 1 .. Len(host) : host[j] = ":"
  BY DEF Lacks
<1>6. j > Len(g)
  <2>1. ASSUME j <= Len(g) PROVE FALSE
    <3>1. j \in 1 .. Len(g) /\ j \in 1 .. Len(g) + Len(d) /\ j \in 1 .. Len(host) + Len(port) /\ j <= Len(host)
      BY <1>1, <1>4, <1>5, <2>1
    <3>2. g[j] = ":"
      BY <1>1, <1>4, <1>5, <2>1, <3>1
    <3>. QED
      BY <1>3, <3>1, <3>2 DEF Lacks
  <2>. QED
    BY <1>4, <2>1
<1>7. \A i \in 1 .. Len(g) : g[i] = host[i] /\ i \in 1 .. Len(host) /\ i < j
  <2>. TAKE i \in 1 .. Len(g)
  <2>1. i \in 1 .. Len(host) /\ i < j /\ i \in 1 .. Len(g) + Len(d) /\ i \in 1 .. Len(host) + Len(port)
        /\ i <= Len(g) /\ i <= Len(host)
    BY <1>1, <1>4, <1>5, <1>6
  <2>2. g[i] = w[i] /\ w[i] = host[i]
    BY <1>1, <1>4, <2>1
  <2>. QED
    BY <2>1, <2>2
<1>8. Bracketed(g)
  <2>1. Len(g) # 0
    <3>1. ASSUME Len(g) = 0 PROVE FALSE
      <4>1. 1 \in 1 .. Len(g) + Len(d) /\ ~(1 <= Len(g)) /\ 1 - Len(g) = 1
            /\ 1 \in 1 .. Len(host) + Len(port) /\ 1 <= Len(host)
        BY <1>1, <1>3, <1>4, <3>1
      <4>2. w[1] = d[1] /\ w[1] = host[1]
        BY <1>1, <1>4, <4>1
      <4>. QED
        BY <1>1, <1>3, <4>2
    <3>. QED
      BY <3>1
  <2>2. 1 \in 1 .. Len(g) /\ Len(g) > 0
    BY <1>4, <2>1
  <2>. QED
    BY <1>1, <1>7, <2>2 DEF Bracketed
<1>9. \A i, k \in 1 .. Len(host) : host[i] = "]" /\ host[k] = ":" => k < i
  BY DEF ColonsBracketed
<1>10. \A i \in 1 .. Len(g) : g[i] # "]"
  <2>. SUFFICES ASSUME NEW i \in 1 .. Len(g), g[i] = "]" PROVE FALSE
    OBVIOUS
  <2>1. host[i] = "]" /\ i \in 1 .. Len(host) /\ i < j
    BY <1>7
  <2>2. j < i
    BY <1>5, <1>9, <2>1
  <2>. QED
    BY <1>5, <2>1, <2>2
<1>. QED
  BY <1>8, <1>10 DEF PairedIn

(***************************************************************************)
(* What is left of host and port, if a bracket that opens is paired: the   *)
(* normal host, and the port unless it is the default one.                 *)
(***************************************************************************)
AuthorityKept(s, host, port, v) ==
  /\ HostMade(host) = NormalHostOf(host) /\ ColonsBracketed(HostMade(host))
  /\ \/ v = HostMade(host) \o port
     \/ v = HostMade(host) /\ Lacks(HostMade(host), {":"}) /\ IsDefaultPort(s, port)
  /\ TrailingDots(host) < 2 => HostMade(HostMade(host)) = HostMade(host)

(* A text that ends in two dots has two trailing dots at least. *)
LEMMA FewDots ==
  ASSUME NEW host, IsSeq(host), Len(host) > 1, host[Len(host)] = ".", host[Len(host) - 1] = "."
  PROVE  ~(TrailingDots(host) < 2)
<1>. DEFINE S == {i \in DOMAIN host : \A j \in i .. Len(host) : host[j] = "."}
            n == Len(host)
            one == 1
<1>1. /\ n \in Nat /\ n > one /\ one \in Int /\ DOMAIN host = one .. n /\ host[n] = "." /\ host[n - 1] = "."
      /\ S = {i \in one .. n : \A j \in i .. n : host[j] = "."}
  BY SeqShape
<1>0. one = 1
  OBVIOUS
<1>6. TrailingDots(host) = Cardinality(S)
  BY DEF TrailingDots
<1>. HIDE DEF S, n, one
<1>2. IsFiniteSet(S)
  <2>1. n \in Int
    BY <1>1
  <2>2. IsFiniteSet(one .. n)
    BY <1>1, <2>1, FS_Interval
  <2>3. S \in SUBSET (one .. n)
    BY <1>1
  <2>. QED
    BY <2>2, <2>3, FS_Subset
<1>3. {n - 1, n} \in SUBSET S
  <2>1. n - 1 \in one .. n /\ n \in one .. n
    BY <1>0, <1>1
  <2>2. \A j \in n - 1 .. n : j = n - 1 \/ j = n
    BY <1>1
  <2>3. \A j \in n .. n : j = n
    BY <1>1
  <2>. QED
    BY <1>1, <2>1, <2>2, <2>3
<1>4. Cardinality({n - 1, n}) = 2
  <2>1. n - 1 # n
    BY <1>1
  <2>2. IsFiniteSet({n - 1}) /\ Cardinality({n - 1}) = 1
    BY FS_Singleton
  <2>3. {n - 1} \cup {n} = {n - 1, n} /\ n \notin {n - 1}
    BY <2>1
  <2>4. Cardinality({n - 1} \cup {n}) = Cardinality({n - 1}) + 1
    BY <2>2, <2>3, FS_AddElement
  <2>. QED
    BY <2>2, <2>3, <2>4
<1>5. Cardinality({n - 1, n}) <= Cardinality(S)
  BY <1>2, <1>3, FS_Subset
<1>7. Cardinality(S) \in Nat
  BY <1>2, FS_CardinalityType
<1>. QED
  BY <1>4, <1>5, <1>6, <1>7

(* A host without brackets. *)
LEMMA PlainHostKept ==
  ASSUME NEW host, IsSeq(host), ~Bracketed(host), Lacks(host, {":"})
  PROVE  LET made == HostMade(host)
         IN /\ made = NormalHostOf(host) /\ Lacks(made, {":"}) /\ IsSeq(made)
            /\ TrailingDots(host) < 2 => HostMade(made) = made
<1>. DEFINE low == ToLower(host)
            made == Without(low, ".")
<1>1. Lowered(low, host) /\ Len(host) \in Nat /\ (host = <<>> <=> ~(Len(host) > 0))
  BY LowerIs, SeqShape
<1>2. /\ IsSeq(low) /\ Len(low) = Len(host)
      /\ \A i \in 1 .. Len(host) : low[i] \notin DOMAIN LowerCase
      /\ \A i \in 1 .. Len(host) : (low[i] = "." <=> host[i] = ".") /\ (low[i] = "[" <=> host[i] = "[")
  BY <1>1 DEF Lowered, Delimiters
<1>3. HostMade(host) = made
  BY PlainNormal DEF HostMade
<1>. HIDE DEF low
<1>4. /\ IsSeq(made) /\ Len(made) <= Len(low) /\ \A i \in 1 .. Len(made) : made[i] = low[i]
      /\ Len(made) \in Nat
      /\ Len(low) > 0 /\ low[Len(low)] # "." => made = low
      /\ Len(low) > 0 /\ low[Len(low)] = "." => Len(made) = Len(low) - 1
  BY <1>2, WithoutShape
<1>. HIDE DEF made
<1>5. \A i \in 1 .. Len(made) : i \in 1 .. Len(host)
  BY <1>1, <1>2, <1>4
<1>6. made = NormalHostOf(host)
  <2>1. CASE host = <<>>
    <3>1. Len(made) = 0
      BY <1>1, <1>2, <1>4, <2>1
    <3>2. made = <<>>
      BY <1>4, <3>1, SeqShape
    <3>. QED
      BY <2>1, <3>2 DEF NormalHostOf, made, low
  <2>2. CASE host # <<>>
    <3>1. host[1] # "["
      BY <1>1, <2>2 DEF Bracketed
    <3>. QED
      BY <3>1 DEF NormalHostOf, made, low
  <2>. QED
    BY <2>1, <2>2
<1>7. Lacks(made, {":"})
  <2>1. {":"} \in SUBSET Delimiters
    BY DEF Delimiters
  <2>2. Lacks(NormalHost(host), {":"})
    BY <2>1, NormalHostShape
  <2>. QED
    BY <1>3, <2>2 DEF HostMade
<1>8. ASSUME TrailingDots(host) < 2 PROVE HostMade(made) = made
  <2>1. ~Bracketed(made)
    <3>1. ASSUME Bracketed(made) PROVE FALSE
      <4>1. 1 \in 1 .. Len(made) /\ made[1] = "["
        BY <1>4, <3>1 DEF Bracketed
      <4>2. host[1] = "[" /\ Len(host) > 0
        BY <1>1, <1>2, <1>4, <1>5, <4>1
      <4>. QED
        BY <4>2 DEF Bracketed
    <3>. QED
      BY <3>1
  <2>2. HostMade(made) = Without(ToLower(made), ".")
    BY <1>4, <1>7, <2>1, PlainNormal DEF HostMade
  <2>3. ToLower(made) = made
    <3>1. \A i \in 1 .. Len(made) : made[i] \notin DOMAIN LowerCase
      BY <1>2, <1>4, <1>5
    <3>. QED
      BY <1>4, <3>1, LowerIs DEF Lowered
  <2>4. Without(made, ".") = made
    <3>1. CASE Len(made) = 0
      <4>1. made = <<>>
        BY <1>4, <3>1, SeqShape
      <4>. QED
        BY <4>1 DEF Without, EndsIn, IsEmpty
    <3>2. CASE Len(made) > 0
      <4>. DEFINE n == Len(made)
      <4>1. made[n] # "."
        <5>1. ASSUME made[n] = "." PROVE FALSE
          <6>1. n \in 1 .. Len(made) /\ n \in 1 .. Len(host)
            BY <1>4, <1>5, <3>2
          <6>. HIDE DEF n
          <6>2. host[n] = "."
            BY <1>2, <1>4, <5>1, <6>1
          <6>3. CASE low[Len(low)] # "."
            <7>1. made = low
              BY <1>1, <1>2, <1>4, <6>1, <6>3
            <7>. QED
              BY <5>1, <6>3, <7>1 DEF n
          <6>4. CASE low[Len(low)] = "."
            <7>1. n = Len(host) - 1 /\ Len(host) > 1
              BY <1>1, <1>2, <1>4, <6>1, <6>4 DEF n
            <7>2. Len(host) \in 1 .. Len(host)
              BY <1>1, <7>1
            <7>3. host[Len(host)] = "."
              BY <1>2, <6>4, <7>2
            <7>. QED
              BY <1>8, <6>2, <7>1, <7>3, FewDots
          <6>. QED
            BY <6>3, <6>4
        <5>. QED
          BY <5>1
      <4>. QED
        BY <4>1 DEF Without, EndsIn
    <3>. QED
      BY <1>4, <3>1, <3>2
  <2>. QED
    BY <2>2, <2>3, <2>4
<1>. QED
  BY <1>3, <1>4, <1>6, <1>7, <1>8

(* The same of every host. *)
LEMMA AuthorityIs ==
  ASSUME NEW s, NEW user, NEW host, IsSeq(host), ColonsBracketed(host), NEW port, IsSeq(port), Opens(port, {":"}), NEW z,
         LET v == Unported(s, user, HostMade(host) \o port, z) IN Bracketed(v) => PairedIn(v)
  PROVE  AuthorityKept(s, host, port, Unported(s, user, HostMade(host) \o port, z))
<1>. DEFINE made == HostMade(host)
            w == made \o port
            v == Unported(s, user, w, z)
<1>0. Bracketed(v) => PairedIn(v)
  OBVIOUS
<1>1. CASE ~Bracketed(host)
  <2>1. Lacks(host, {":"})
    BY <1>1 DEF ColonsBracketed
  <2>2. made = NormalHostOf(host) /\ Lacks(made, {":"}) /\ IsSeq(made) /\ (TrailingDots(host) < 2 => HostMade(made) = made)
    BY <1>1, <2>1, PlainHostKept
  <2>3. v = w \/ (v = made /\ IsDefaultPort(s, port))
    <3>1. PortKept(v, s, made, port)
      <4>. HIDE DEF made
      <4>. QED
        BY <2>2, UnportedPlain
    <3>. QED
      BY <3>1 DEF PortKept
  <2>4. ColonsBracketed(made)
    BY <2>2 DEF ColonsBracketed
  <2>. HIDE DEF made, v
  <2>5. AuthorityKept(s, host, port, v)
    BY <2>2, <2>3, <2>4 DEF AuthorityKept, made
  <2>. QED
    BY <2>5 DEF v, made
<1>2. CASE Bracketed(host) /\ ~Lacks(host, {":"})
  <2>1. made = host
    BY <1>2 DEF HostMade
  <2>2. NormalHostOf(host) = host /\ HostMade(made) = made
    BY <1>2, <2>1 DEF NormalHostOf, Bracketed, HostMade
  <2>. HIDE DEF made, v
  <2>3. v = w
    <3>1. CASE Lacks(w, {":"})
      BY <3>1 DEF Unported, v
    <3>2. CASE ~Lacks(w, {":"})
      <4>0. IsSeq(w)
        BY <2>1, ConcatShape
      <4>1. PICK g, d : CutAtColon(w, g, d)
        BY <3>2, <4>0, ColonCut
      <4>2. Bracketed(g) /\ ~PairedIn(g)
        <5>1. CutAtColon(host \o port, g, d)
          BY <2>1, <4>1
        <5>. QED
          BY <1>2, <5>1, NoLookalike
      <4>3. v = w \/ v = g
        BY <4>1 DEF Unported, CutAtColon, v
      <4>. QED
        BY <1>0, <4>2, <4>3
    <3>. QED
      BY <3>1, <3>2
  <2>4. AuthorityKept(s, host, port, v)
    BY <2>1, <2>2, <2>3 DEF AuthorityKept, made
  <2>. QED
    BY <2>4 DEF v, made
<1>3. CASE Bracketed(host) /\ Lacks(host, {":"})
  <2>1. made = NormalHost(host) /\ SameDelimiters(made, host)
    BY <1>3, BracketedNormal DEF HostMade
  <2>. HIDE DEF made, v
  <2>2. /\ IsSeq(made) /\ Len(made) = Len(host) /\ Len(host) \in Nat
        /\ \A i \in 1 .. Len(host) : /\ made[i] = "]" <=> host[i] = "]"
                                     /\ made[i] = ":" <=> host[i] = ":"
                                     /\ made[i] = "[" <=> host[i] = "["
    BY <2>1, SeqShape DEF SameDelimiters, Delimiters
  <2>3. Lacks(made, {":"})
    BY <1>3, <2>2 DEF Lacks
  <2>4. Bracketed(made)
    <3>1. Len(host) > 0 /\ host[1] = "[" /\ 1 \in 1 .. Len(host)
      BY <1>3, <2>2 DEF Bracketed
    <3>. QED
      BY <2>2, <3>1 DEF Bracketed
  <2>5. v = w \/ (v = made /\ IsDefaultPort(s, port))
    <3>1. PortKept(v, s, made, port)
      BY <2>2, <2>3, UnportedPlain DEF v
    <3>. QED
      BY <3>1 DEF PortKept
  <2>6. Lacks(host, {"]"})
    <3>1. ASSUME ~Lacks(host, {"]"}) PROVE FALSE
      <4>1. PICK k \in 1 .. Len(host) : host[k] = "]"
        BY <3>1 DEF Lacks
      <4>2. k \in 1 .. Len(made) /\ made[k] = "]" /\ Len(made) \in Nat
        BY <2>2, <4>1
      <4>3. /\ IsSeq(v) /\ Len(v) \in Nat /\ Len(v) >= Len(made) /\ \A i \in 1 .. Len(made) : v[i] = made[i]
        <5>1. CASE v = made
          BY <2>2, <5>1
        <5>2. CASE v = w
          <6>1. /\ IsSeq(w) /\ Len(w) = Len(made) + Len(port) /\ Len(port) \in Nat
                /\ \A i \in 1 .. Len(made) + Len(port) : w[i] = IF i <= Len(made) THEN made[i] ELSE port[i - Len(made)]
            BY <2>2, ConcatShape, SeqShape
          <6>2. \A i \in 1 .. Len(made) : i \in 1 .. Len(made) + Len(port) /\ i <= Len(made)
            BY <4>2, <6>1
          <6>. HIDE DEF w
          <6>. QED
            BY <4>2, <5>2, <6>1, <6>2
        <5>. QED
          BY <2>5, <5>1, <5>2
      <4>4. Bracketed(v)
        <5>1. 1 \in 1 .. Len(made) /\ made[1] = "["
          BY <2>4, <4>2 DEF Bracketed
        <5>. QED
          BY <4>2, <4>3, <5>1 DEF Bracketed
      <4>5. PICK c \in 1 .. Len(v) : v[c] = "]" /\ (\A i \in 1 .. c - 1 : v[i] # "]") /\ \E j \in 1 .. c - 1 : v[j] = ":"
        BY <1>0, <4>4 DEF PairedIn
      <4>6. PICK j \in 1 .. c - 1 : v[j] = ":"
        BY <4>5
      <4>7. c <= k
        <5>1. v[k] = "]"
          BY <4>2, <4>3
        <5>2. ~(k \in 1 .. c - 1)
          BY <4>5, <5>1
        <5>. QED
          BY <4>2, <4>3, <4>5, <5>2
      <4>8. j \in 1 .. Len(made)
        BY <4>2, <4>3, <4>5, <4>6, <4>7
      <4>9. made[j] = ":"
        BY <4>3, <4>6, <4>8
      <4>. QED
        BY <2>3, <4>8, <4>9 DEF Lacks
    <3>. QED
      BY <3>1
  <2>7. made = host
    BY <1>3, <2>1, <2>6, BracketedNormal
  <2>8. NormalHostOf(host) = host /\ HostMade(made) = made
    BY <1>3, <2>7 DEF NormalHostOf, Bracketed, made
  <2>9. ColonsBracketed(made)
    BY <2>3 DEF ColonsBracketed
  <2>10. AuthorityKept(s, host, port, v)
    BY <2>3, <2>5, <2>7, <2>8, <2>9 DEF AuthorityKept, made
  <2>. QED
    BY <2>10 DEF v, made
<1>. QED
  BY <1>1, <1>2, <1>3

(* The path that is made is a path, and is made only once. *)
LEMMA PathMadeIs ==
  ASSUME NEW path, IsSeq(path), Opens(path, {"/"}), Lacks(path, {"?", "#"}), NEW query, IsSeq(query)
  PROVE  LET made == PathMade(path, query)
         IN /\ IsSeq(made) /\ Opens(made, {"/"}) /\ Lacks(made, {"?", "#"})
            /\ PathMade(made, query) = made
            /\ (made = path \/ (path = <<>> /\ made = <<"/">>))
            /\ \A c \in {":", "@"} : Lacks(made \o query, {c}) <=> Lacks(path \o query, {c})
<1>. DEFINE slash == <<"/">>
            made == PathMade(path, query)
<1>1. IsSeq(slash) /\ Len(slash) = 1 /\ slash[1] = "/"
  BY TupleShape
<1>2. CASE path = <<>> /\ Lacks(query, {"/"})
  <2>1. made = slash
    BY <1>2 DEF PathMade
  <2>2. slash # <<>>
    BY <1>1, SeqShape
  <2>3. 1 .. Len(slash) = {1}
    BY <1>1
  <2>4. Opens(slash, {"/"}) /\ Lacks(slash, {"?", "#"}) /\ \A c \in {":", "@"} : Lacks(slash, {c})
    BY <1>1, <2>3 DEF Opens, Lacks
  <2>5. PathMade(slash, query) = slash
    BY <2>2 DEF PathMade
  <2>6. path \o query = query
    BY <1>2, ConcatOfNone
  <2>. HIDE DEF slash
  <2>7. \A c \in {":", "@"} : Lacks(slash \o query, {c}) <=> Lacks(query, {c})
    BY <1>1, <2>4, LacksOfTwo
  <2>. HIDE DEF made
  <2>. QED
    BY <1>1, <1>2, <2>1, <2>4, <2>5, <2>6, <2>7 DEF made, slash
<1>3. CASE ~(path = <<>> /\ Lacks(query, {"/"}))
  <2>1. made = path
    BY <1>3 DEF PathMade
  <2>. HIDE DEF made
  <2>. QED
    BY <2>1 DEF made
<1>. QED
  BY <1>2, <1>3

UrlParts(x, s, user, host, port, path, query) ==
  /\ x = s \o (Separator \o (user \o ((host \o port) \o (path \o query))))
  /\ x = UrlText(s, user, host, port, path, query)

(* The text of a URL, grouped from the right. *)
LEMMA PartsGrouped ==
  ASSUME NEW s, NEW user, NEW host, NEW port, NEW path, NEW query, AreSeqs(s, user, host, port, path, query)
  PROVE  UrlParts(UrlText(s, user, host, port, path, query), s, user, host, port, path, query)
<1>. DEFINE z == path \o query
<1>1. IsSeq(z) /\ IsSeq(host) /\ IsSeq(port)
  BY ConcatShape DEF AreSeqs
<1>2. Grouped(host, port, z)
  <2>. HIDE DEF z
  <2>. QED
    BY <1>1, GroupedIs
<1>. QED
  BY <1>2 DEF UrlText, UrlParts, Grouped

(* A default port with a colon behind the authority is misread. *)
PortPlain(s, port, z) == IsDefaultPort(s, port) => Lacks(z, {":"})

(***************************************************************************)
(* The normal text of a URL that the checks take for one: what its parts   *)
(* become, and that it is in normal form already.                          *)
(***************************************************************************)
KeptParts(x, s, user, host, port, path, query, p, q) ==
  /\ x = UrlText(ToLower(s), user, NormalHostOf(host), p, q, query)
  /\ p = port \/ (p = <<>> /\ IsDefaultPort(ToLower(s), port))
  /\ q = path \/ (q = <<"/">> /\ path = <<>>)
  /\ TrailingDots(host) < 2 => NormalizeUrl(x) = x

LEMMA TargetKept ==
  ASSUME NEW s, NEW user, NEW host, NEW port, NEW path, NEW query,
         PartsApart(s, user, host, port, path, query), ColonsBracketed(host), UserPlain(path, query),
         ColonsPlain(HostMade(host) \o port, path \o query), PortPlain(ToLower(s), port, path \o query),
         IsValidFormat(NormalText(s, user, host, port, path, query)),
         IsValidDomain(ExtractDomain(NormalText(s, user, host, port, path, query)))
  PROVE  \E p, q : KeptParts(NormalText(s, user, host, port, path, query), s, user, host, port, path, query, p, q)
<1>. DEFINE x == NormalText(s, user, host, port, path, query)
            low == ToLower(s)
            made == HostMade(host)
            w == made \o port
            z == path \o query
            v == Unported(low, user, w, z)
            way == PathMade(path, query)
            y == way \o query
<1>1. PartsApart(low, user, made, port, path, query) /\ IsSeq(s)
  BY PartsLowered DEF PartsApart, AreSeqs
<1>2. /\ IsSeq(low) /\ IsSeq(user) /\ IsSeq(made) /\ IsSeq(port) /\ IsSeq(path) /\ IsSeq(query)
      /\ Lacks(low, {":", "/", "?", "#", "@"}) /\ UserPart(user) /\ Lacks(user, {"/", "?", "#"})
      /\ Lacks(made, {"/", "?", "#", "@"}) /\ Opens(port, {":"}) /\ Lacks(port, {"/", "?", "#", "@"})
      /\ Opens(path, {"/"}) /\ Lacks(path, {"?", "#"}) /\ Opens(query, {"?"}) /\ Lacks(query, {"#"})
  <2>. HIDE DEF low, made
  <2>. QED
    BY <1>1 DEF PartsApart, AreSeqs
<1>3. x = low \o (Separator \o (user \o (v \o y)))
  BY DEF NormalText
<1>4. ToLower(low) = low
  BY <1>1, LowerIs
<1>5. IsSeq(host)
  BY DEF PartsApart, AreSeqs
<1>6. /\ IsSeq(way) /\ Opens(way, {"/"}) /\ Lacks(way, {"?", "#"}) /\ PathMade(way, query) = way
      /\ way = path \/ (path = <<>> /\ way = <<"/">>)
      /\ (Lacks(y, {":"}) <=> Lacks(z, {":"})) /\ (Lacks(y, {"@"}) <=> Lacks(z, {"@"}))
  <2>1. LET m == PathMade(path, query)
        IN /\ IsSeq(m) /\ Opens(m, {"/"}) /\ Lacks(m, {"?", "#"}) /\ PathMade(m, query) = m
           /\ m = path \/ (path = <<>> /\ m = <<"/">>)
           /\ \A c \in {":", "@"} : Lacks(m \o query, {c}) <=> Lacks(path \o query, {c})
    BY <1>2, PathMadeIs
  <2>2. \A c \in {":", "@"} : Lacks(y, {c}) <=> Lacks(z, {c})
    BY <2>1
  <2>3. ":" \in {":", "@"} /\ "@" \in {":", "@"}
    OBVIOUS
  <2>4. (Lacks(y, {":"}) <=> Lacks(z, {":"})) /\ (Lacks(y, {"@"}) <=> Lacks(z, {"@"}))
    <3>. HIDE DEF y, z
    <3>. QED
      BY <2>2, <2>3
  <2>. HIDE DEF y, z
  <2>. QED
    BY <2>1, <2>4
<1>. HIDE DEF way, x, low
<1>7. IsSeq(w) /\ Lacks(w, {"/", "?", "#", "@"}) /\ IsSeq(y) /\ Opens(y, {"/", "?"})
  <2>. HIDE DEF made
  <2>1. IsSeq(w) /\ IsSeq(y)
    BY <1>2, <1>6, ConcatShape
  <2>2. Lacks(w, {"/", "?", "#", "@"})
    BY <1>2, LacksOfTwo
  <2>3. Opens(way, {"/", "?"}) /\ Opens(query, {"/", "?"})
    BY <1>2, <1>6, OpensMore
  <2>4. Opens(y, {"/", "?"})
    BY <1>2, <1>6, <2>3, OpensOfTwo
  <2>. QED
    BY <2>1, <2>2, <2>4
<1>8. IsSeq(v) /\ Lacks(v, {"/", "?", "#", "@"})
  <2>. HIDE DEF w, z
  <2>. QED
    BY <1>7, UnportedIs
<1>9. Bracketed(v) => PairedIn(v)
  <2>1. Lacks(low, {":"})
    BY <1>2, LacksFewer
  <2>2. IsValidFormat(x) /\ IsValidDomain(ExtractDomain(x))
    BY DEF x
  <2>. HIDE DEF v, y
  <2>3. IsValidFormat(low \o (Separator \o (user \o (v \o y)))) /\ IsValidDomain(ExtractDomain(low \o (Separator \o (user \o (v \o y)))))
    BY <1>3, <2>2
  <2>. QED
    BY <1>2, <1>7, <1>8, <2>1, <2>3, BracketPaired
<1>10. AuthorityKept(low, host, port, v)
  <2>. HIDE DEF low, z
  <2>. QED
    BY <1>2, <1>5, <1>9, AuthorityIs
<1>11. /\ made = NormalHostOf(host) /\ ColonsBracketed(made)
       /\ v = w \/ (v = made /\ Lacks(made, {":"}) /\ IsDefaultPort(low, port))
       /\ TrailingDots(host) < 2 => HostMade(made) = made
  <2>. HIDE DEF v, made
  <2>. QED
    BY <1>10 DEF AuthorityKept, made
<1>. HIDE DEF v, made
<1>12. PICK p : /\ v = made \o p
                /\ p = port \/ (p = <<>> /\ Lacks(made, {":"}) /\ IsDefaultPort(low, port))
  <2>1. CASE v = w
    BY <2>1
  <2>2. CASE v = made /\ Lacks(made, {":"}) /\ IsDefaultPort(low, port)
    <3>1. made \o <<>> = made
      BY <1>2, ConcatOfNone
    <3>. QED
      BY <2>2, <3>1
  <2>. QED
    BY <1>11, <2>1, <2>2
<1>13. /\ IsSeq(p) /\ Opens(p, {":"}) /\ Lacks(p, {"/", "?", "#", "@"})
  <2>1. CASE p = port
    BY <1>2, <2>1
  <2>2. CASE p = <<>>
    <3>1. IsSeq(<<>>) /\ Len(<<>>) = 0
      BY TupleShape
    <3>. QED
      BY <2>2, <3>1 DEF Opens, Lacks
  <2>. QED
    BY <1>12, <2>1, <2>2
<1>14. PartsApart(low, user, made, p, way, query)
  BY <1>2, <1>6, <1>13 DEF PartsApart, AreSeqs
<1>15. x = UrlText(low, user, made, p, way, query)
  <2>1. UrlParts(UrlText(low, user, made, p, way, query), low, user, made, p, way, query)
    BY <1>14, PartsGrouped DEF PartsApart
  <2>. QED
    BY <1>3, <1>12, <2>1 DEF UrlParts
<1>16. ASSUME TrailingDots(host) < 2 PROVE NormalizeUrl(x) = x
  <2>. DEFINE none == <<>>
  <2>1. HostMade(made) = made
    BY <1>11, <1>16
  <2>2. UserPlain(way, query)
    BY <1>6 DEF UserPlain
  <2>3. ColonsPlain(v, y) /\ Unported(low, user, v, y) = v
    <3>0. ColonsPlain(w, z) /\ PortPlain(low, port, z)
      BY DEF made, low
    <3>. HIDE DEF w, y, z
    <3>1. CASE v = w
      <4>1. ColonsPlain(v, y)
        BY <1>6, <3>0, <3>1 DEF ColonsPlain
      <4>2. Unported(low, user, v, y) = v
        <5>1. Reached(user, y) <=> Reached(user, z)
          BY <1>6 DEF Reached
        <5>2. Unported(low, user, w, z) = w
          BY <3>1 DEF v
        <5>. QED
          BY <3>1, <5>1, <5>2 DEF Unported
      <4>. QED
        BY <4>1, <4>2
    <3>2. CASE v = made /\ Lacks(made, {":"}) /\ IsDefaultPort(low, port)
      <4>1. Lacks(y, {":"})
        BY <1>6, <3>0, <3>2 DEF PortPlain
      <4>. QED
        BY <3>2, <4>1 DEF ColonsPlain, Unported
    <3>. QED
      BY <1>11, <3>1, <3>2
  <2>4. IsSeq(none) /\ Opens(none, {"#"})
    BY TupleShape DEF Opens
  <2>5. ColonsPlain(HostMade(made) \o p, way \o query)
    BY <1>12, <2>1, <2>3
  <2>6. NormalizeUrl(UrlText(low, user, made, p, way, query) \o none) = NormalText(low, user, made, p, way, query)
    <3>. HIDE DEF none
    <3>. QED
      BY <1>11, <1>14, <2>2, <2>4, <2>5, NormalIs
  <2>7. IsSeq(x)
    <3>1. IsSeq(v \o y)
      <4>. HIDE DEF y
      <4>. QED
        BY <1>7, <1>8, ConcatShape
    <3>. DEFINE r == v \o y
    <3>. HIDE DEF r
    <3>2. Regrouped(low \o (Separator \o (user \o r)), low, user, r)
      BY <1>2, <3>1, TextRegrouped DEF r
    <3>. QED
      BY <1>3, <3>2 DEF Regrouped, r
  <2>8. x \o none = x
    BY <2>7, ConcatOfNone
  <2>9. NormalText(low, user, made, p, way, query) = low \o (Separator \o (user \o (v \o y)))
    <3>1. made \o p = v
      BY <1>12
    <3>. QED
      BY <1>4, <1>6, <2>1, <2>3, <3>1 DEF NormalText
  <2>. QED
    BY <1>3, <1>15, <2>6, <2>8, <2>9
<1>17. KeptParts(x, s, user, host, port, path, query, p, way)
  BY <1>6, <1>11, <1>12, <1>15, <1>16 DEF KeptParts, low
<1>. QED
  BY <1>17 DEF x

(* Six texts, joined from the left and from the right. *)
SixGrouped(a, b, c, d, e, f) ==
  (((((a \o b) \o c) \o d) \o e) \o f) = a \o (b \o (c \o (d \o (e \o f))))

LEMMA SixPieces ==
  ASSUME NEW a, IsSeq(a), NEW b, IsSeq(b), NEW c, IsSeq(c), NEW d, IsSeq(d), NEW e, IsSeq(e), NEW f, IsSeq(f)
  PROVE  SixGrouped(a, b, c, d, e, f)
<1>. DEFINE l2 == a \o b
            l3 == l2 \o c
            l4 == l3 \o d
            r2 == e \o f
            r3 == d \o r2
            r4 == c \o r3
<1>1. IsSeq(l2) /\ IsSeq(r2)
  BY ConcatShape
<1>2. IsSeq(l3) /\ IsSeq(r3)
  <2>. HIDE DEF l2, r2
  <2>. QED
    BY <1>1, ConcatShape
<1>3. IsSeq(l4) /\ IsSeq(r4)
  <2>. HIDE DEF l3, r3
  <2>. QED
    BY <1>2, ConcatShape
<1>4. Grouped(l4, e, f)
  <2>. HIDE DEF l4
  <2>. QED
    BY <1>3, GroupedIs
<1>5. Grouped(l3, d, r2)
  <2>. HIDE DEF l3, r2
  <2>. QED
    BY <1>1, <1>2, GroupedIs
<1>6. Grouped(l2, c, r3)
  <2>. HIDE DEF l2, r3
  <2>. QED
    BY <1>1, <1>2, GroupedIs
<1>7. Grouped(a, b, r4)
  <2>. HIDE DEF r4
  <2>. QED
    BY <1>3, GroupedIs
<1>. QED
  BY <1>4, <1>5, <1>6, <1>7 DEF Grouped, SixGrouped

(* The parts as sets of characters, and as texts. *)
LEMMA FreeIsLacking ==
  ASSUME NEW t, IsSeq(t), NEW chars
  PROVE  FreeOf(t, chars) <=> Lacks(t, chars)
<1>1. DOMAIN t = 1 .. Len(t)
  BY SeqShape
<1>. QED
  BY <1>1 DEF FreeOf, Elements, Lacks

LEMMA BeginsIsOpening ==
  ASSUME NEW t, IsSeq(t), NEW c, Begins(t, c)
  PROVE  Opens(t, {c})
<1>1. t = <<>> <=> ~(Len(t) > 0)
  BY SeqShape
<1>. QED
  BY <1>1 DEF Begins, Opens, IsEmpty

(* The scheme that a URL has, or is given. *)
SchemeOf(url) == IF IsEmpty(url.scheme) THEN <<"https">> ELSE SubSeq(url.scheme, 1, Len(url.scheme) - 3)

ReadAsParts(url) ==
  /\ PartsApart(SchemeOf(url), url.user, url.host, url.port, url.path, url.query)
  /\ ColonsBracketed(url.host) /\ IsSeq(url.fragment) /\ Opens(url.fragment, {"#"})
  /\ SchemeWord(url) = ToLower(SchemeOf(url))

LEMMA PartsAreRead ==
  ASSUME NEW url, WellFormedUrl(url)
  PROVE  ReadAsParts(url) /\ IsSeq(url.scheme)
<1>. DEFINE word == SubSeq(url.scheme, 1, Len(url.scheme) - 3)
            https == <<"https">>
<1>1. /\ IsSeq(url.scheme) /\ IsSeq(url.user) /\ IsSeq(url.host) /\ IsSeq(url.port)
      /\ IsSeq(url.path) /\ IsSeq(url.query) /\ IsSeq(url.fragment)
  <2>1. /\ url.scheme \in Seq(STRING) /\ url.user \in Seq(STRING) /\ url.host \in Seq(STRING)
        /\ url.port \in Seq(STRING) /\ url.path \in Seq(STRING) /\ url.query \in Seq(STRING)
        /\ url.fragment \in Seq(STRING)
    BY DEF WellFormedUrl
  <2>. QED
    BY <2>1, SeqIs
<1>2. /\ Lacks(url.user, {"/", "?", "#"}) /\ Lacks(url.host, {"/", "?", "#", "@"})
      /\ Lacks(url.port, {"/", "?", "#", "@"}) /\ Lacks(url.path, {"?", "#"}) /\ Lacks(url.query, {"#"})
  BY <1>1, FreeIsLacking DEF WellFormedUrl, WellFormedHost
<1>3. /\ Opens(url.port, {":"}) /\ Opens(url.path, {"/"}) /\ Opens(url.query, {"?"}) /\ Opens(url.fragment, {"#"})
  BY <1>1, BeginsIsOpening DEF WellFormedUrl
<1>4. UserPart(url.user)
  <2>1. url.user = <<>> <=> ~(Len(url.user) > 0)
    BY <1>1, SeqShape
  <2>. QED
    BY <2>1 DEF WellFormedUrl, UserPart, IsEmpty, EndsIn
<1>5. ColonsBracketed(url.host)
  <2>1. DOMAIN url.host = 1 .. Len(url.host) /\ (url.host = <<>> <=> ~(Len(url.host) > 0))
    BY <1>1, SeqShape
  <2>2. CASE ":" \notin Elements(url.host)
    BY <2>1, <2>2 DEF Elements, Lacks, ColonsBracketed
  <2>3. CASE ":" \in Elements(url.host)
    <3>1. url.host[1] = "[" /\ \A i, j \in 1 .. Len(url.host) : url.host[i] = "]" /\ url.host[j] = ":" => j < i
      BY <2>1, <2>3 DEF WellFormedUrl, WellFormedHost
    <3>2. Len(url.host) > 0
      <4>1. PICK i \in 1 .. Len(url.host) : url.host[i] = ":"
        BY <2>1, <2>3 DEF Elements
      <4>2. Len(url.host) \in Nat
        BY <1>1, SeqShape
      <4>. QED
        BY <4>1, <4>2
    <3>. QED
      BY <3>1, <3>2 DEF ColonsBracketed, Bracketed
  <2>. QED
    BY <2>2, <2>3
<1>6. IsSeq(SchemeOf(url)) /\ Lacks(SchemeOf(url), {":", "/", "?", "#", "@"}) /\ SchemeWord(url) = ToLower(SchemeOf(url))
  <2>1. CASE IsEmpty(url.scheme)
    <3>1. IsSeq(https) /\ Len(https) = 1 /\ 1 .. Len(https) = {1} /\ https[1] = "https"
      BY TupleShape
    <3>2. "https" \notin DOMAIN LowerCase
      BY DEF LowerCase
    <3>3. ToLower(https) = https
      <4>1. \A i \in 1 .. Len(https) : https[i] \notin DOMAIN LowerCase
        BY <3>1, <3>2
      <4>. HIDE DEF https
      <4>. QED
        BY <3>1, <4>1, LowerIs DEF Lowered
    <3>4. Lacks(https, {":", "/", "?", "#", "@"})
      BY <3>1 DEF Lacks
    <3>5. SchemeOf(url) = https /\ SchemeWord(url) = https
      BY <2>1 DEF SchemeOf, SchemeWord
    <3>. HIDE DEF https
    <3>. QED
      BY <3>1, <3>3, <3>4, <3>5
  <2>2. CASE ~IsEmpty(url.scheme)
    <3>1. IsSeq(word)
      <4>1. 1 \in Int /\ Len(url.scheme) - 3 \in Int
        BY <1>1, SeqShape
      <4>. QED
        BY <1>1, <4>1, CutShape
    <3>2. FreeOf(word, {":", "/", "?", "#", "@"})
      BY <2>2 DEF WellFormedUrl
    <3>3. SchemeOf(url) = word /\ SchemeWord(url) = ToLower(word)
      BY <2>2 DEF SchemeOf, SchemeWord
    <3>. HIDE DEF word
    <3>4. Lacks(word, {":", "/", "?", "#", "@"})
      BY <3>1, <3>2, FreeIsLacking
    <3>. QED
      BY <3>1, <3>3, <3>4
  <2>. QED
    BY <2>1, <2>2
<1>. QED
  BY <1>1, <1>2, <1>3, <1>4, <1>5, <1>6 DEF ReadAsParts, PartsApart, AreSeqs

(* With its scheme, the text that the client sends is the one of the parts. *)
LEMMA UrlIsSent ==
  ASSUME NEW url, WellFormedUrl(url)
  PROVE  AddDefaultScheme(PartsOf(url))
           = UrlText(SchemeOf(url), url.user, url.host, url.port, url.path, url.query) \o url.fragment
<1>. DEFINE s == SchemeOf(url)
            f == url.fragment
            rest == url.user \o (url.host \o (url.port \o (url.path \o url.query)))
            more == rest \o f
            y == Separator \o rest
            lead == s \o Separator
            t == s \o (Separator \o more)
            word == SubSeq(url.scheme, 1, Len(url.scheme) - 3)
<1>1. PartsApart(s, url.user, url.host, url.port, url.path, url.query) /\ IsSeq(f) /\ IsSeq(url.scheme)
  BY PartsAreRead DEF ReadAsParts
<1>2. /\ IsSeq(s) /\ IsSeq(url.user) /\ IsSeq(url.host) /\ IsSeq(url.port) /\ IsSeq(url.path) /\ IsSeq(url.query)
      /\ Lacks(s, {":"})
  <2>1. Lacks(s, {":"})
    BY <1>1, LacksFewer DEF PartsApart
  <2>. QED
    BY <1>1, <2>1 DEF PartsApart, AreSeqs
<1>. HIDE DEF s, f
<1>3. PartsOf(url) = (url.scheme \o rest) \o f
  <2>1. SixGrouped(url.scheme, url.user, url.host, url.port, url.path, url.query)
    BY <1>1, <1>2, SixPieces
  <2>. QED
    BY <2>1 DEF SixGrouped, PartsOf, f
<1>4. IsSeq(rest)
  <2>. DEFINE r4 == url.path \o url.query
              r3 == url.port \o r4
              r2 == url.host \o r3
  <2>1. IsSeq(r4)
    BY <1>2, ConcatShape
  <2>2. IsSeq(r3)
    <3>. HIDE DEF r4
    <3>. QED
      BY <1>2, <2>1, ConcatShape
  <2>3. IsSeq(r2)
    <3>. HIDE DEF r3
    <3>. QED
      BY <1>2, <2>2, ConcatShape
  <2>. HIDE DEF r2
  <2>. QED
    BY <1>2, <2>3, ConcatShape
<1>5. UrlText(s, url.user, url.host, url.port, url.path, url.query) = s \o y
  BY DEF UrlText
<1>. HIDE DEF rest
<1>6. IsSeq(Separator) /\ IsSeq(more) /\ IsSeq(y) /\ IsSeq(lead)
  BY <1>1, <1>2, <1>4, ConcatShape, SeparatorIs
<1>7. (s \o y) \o f = t
  <2>1. Grouped(Separator, rest, f)
    BY <1>1, <1>4, <1>6, GroupedIs
  <2>2. Grouped(s, y, f)
    <3>. HIDE DEF y
    <3>. QED
      BY <1>1, <1>2, <1>6, GroupedIs
  <2>. QED
    BY <2>1, <2>2 DEF Grouped
<1>8. HasWord(t, Separator)
  <2>. HIDE DEF more
  <2>. QED
    BY <1>2, <1>6, SeparatorFound
<1>9. AddDefaultScheme(PartsOf(url)) = t
  <2>1. CASE IsEmpty(url.scheme)
    <3>1. url.scheme \o rest = rest
      BY <1>4, <2>1, ConcatOfNone DEF IsEmpty
    <3>2. ~HasWord(PartsOf(url), Separator) /\ s = <<"https">>
      BY <2>1 DEF WellFormedUrl, SchemeOf, s
    <3>3. AddDefaultScheme(PartsOf(url)) = lead \o more
      BY <1>3, <3>1, <3>2 DEF AddDefaultScheme
    <3>4. Grouped(s, Separator, more)
      <4>. HIDE DEF more
      <4>. QED
        BY <1>2, <1>6, GroupedIs
    <3>. QED
      BY <3>3, <3>4 DEF Grouped
  <2>2. CASE ~IsEmpty(url.scheme)
    <3>1. url.scheme = lead
      BY <2>2 DEF WellFormedUrl, SchemeOf, s
    <3>2. lead \o rest = s \o y
      <4>1. Grouped(s, Separator, rest)
        BY <1>2, <1>4, <1>6, GroupedIs
      <4>. QED
        BY <4>1 DEF Grouped
    <3>3. PartsOf(url) = t
      BY <1>3, <1>7, <3>1, <3>2
    <3>. QED
      BY <1>8, <3>3 DEF AddDefaultScheme
  <2>. QED
    BY <2>1, <2>2
<1>. QED
  BY <1>5, <1>7, <1>9 DEF s, f

(* What Misread excludes, of the parts. *)
LEMMA ReadPlainly ==
  ASSUME NEW url, WellFormedUrl(url), ~Misread(url)
  PROVE  /\ UserPlain(url.path, url.query)
         /\ ColonsPlain(HostMade(url.host) \o url.port, url.path \o url.query)
         /\ PortPlain(SchemeWord(url), url.port, url.path \o url.query)
<1>. DEFINE z == url.path \o url.query
            made == HostMade(url.host)
            word == SchemeWord(url)
<1>1. PartsApart(SchemeOf(url), url.user, url.host, url.port, url.path, url.query) /\ word = ToLower(SchemeOf(url))
  BY PartsAreRead DEF ReadAsParts
<1>2. /\ IsSeq(SchemeOf(url)) /\ IsSeq(url.port) /\ IsSeq(url.path) /\ IsSeq(url.query) /\ IsSeq(made)
      /\ Opens(url.port, {":"})
  <2>1. PartsApart(ToLower(SchemeOf(url)), url.user, made, url.port, url.path, url.query)
    BY <1>1, PartsLowered
  <2>2. IsSeq(made)
    BY <2>1 DEF PartsApart, AreSeqs
  <2>. QED
    BY <1>1, <2>2 DEF PartsApart, AreSeqs
<1>3. ToLower(word) = word
  BY <1>1, <1>2, LowerIs
<1>4. IsSeq(z)
  BY <1>2, ConcatShape
<1>5. \A c : c \in Elements(z) <=> ~Lacks(z, {c})
  <2>1. DOMAIN z = 1 .. Len(z)
    BY <1>4, SeqShape
  <2>. HIDE DEF z
  <2>. QED
    BY <2>1 DEF Elements, Lacks
<1>6. ":" \in Elements(z) => ~HasDefaultPort(url) /\ "@" \notin Elements(z)
  BY DEF Misread
<1>7. UserPlain(url.path, url.query)
  <2>1. "@" \in Elements(url.query) => ~IsEmpty(url.path)
    BY DEF Misread
  <2>2. "@" \in Elements(url.query) <=> ~Lacks(url.query, {"@"})
    <3>1. DOMAIN url.query = 1 .. Len(url.query)
      BY <1>2, SeqShape
    <3>. QED
      BY <3>1 DEF Elements, Lacks
  <2>. QED
    BY <2>1, <2>2 DEF UserPlain, IsEmpty
<1>. HIDE DEF z, made, word
<1>8. ColonsPlain(made \o url.port, z)
  <2>1. CASE Lacks(z, {":"})
    BY <2>1 DEF ColonsPlain
  <2>2. CASE ~Lacks(z, {":"})
    <3>1. ~HasDefaultPort(url) /\ Lacks(z, {"@"})
      BY <1>5, <1>6, <2>2
    <3>2. url.port # <<>>
      BY <3>1 DEF HasDefaultPort, IsEmpty
    <3>3. ~Lacks(url.port, {":"})
      <4>1. Len(url.port) > 0 /\ url.port[1] = ":" /\ Len(url.port) \in Nat
        BY <1>2, <3>2, SeqShape DEF Opens
      <4>2. 1 \in 1 .. Len(url.port)
        BY <4>1
      <4>. QED
        BY <4>1, <4>2 DEF Lacks
    <3>4. ~Lacks(made \o url.port, {":"})
      BY <1>2, <3>3, LacksOfTwo
    <3>. QED
      BY <3>1, <3>4 DEF ColonsPlain
  <2>. QED
    BY <2>1, <2>2
<1>9. PortPlain(word, url.port, z)
  <2>1. IsDefaultPort(word, url.port) => HasDefaultPort(url)
    BY <1>3 DEF IsDefaultPort, HasDefaultPort, word
  <2>. QED
    BY <1>5, <1>6, <2>1 DEF PortPlain
<1>. QED
  BY <1>7, <1>8, <1>9 DEF z, made, word

LEMMA NormalHostIsText ==
  ASSUME NEW host, IsSeq(host)
  PROVE  IsSeq(NormalHostOf(host))
<1>. DEFINE low == ToLower(host)
<1>1. IsSeq(low)
  BY LowerIs DEF Lowered
<1>. HIDE DEF low
<1>2. IsSeq(Without(low, "."))
  BY <1>1, WithoutShape
<1>. QED
  BY <1>2 DEF NormalHostOf, low

(* The checks of validate_and_normalize, as far as they are needed. *)
LEMMA ValidIs ==
  ASSUME NEW text, ValidateAndNormalize(text).is_valid
  PROVE  LET u == ValidateAndNormalize(text).normalized_url
         IN /\ u = NormalizeUrl(AddDefaultScheme(text))
            /\ IsValidFormat(u) /\ IsValidDomain(ExtractDomain(u))
BY DEF ValidateAndNormalize

(* What is accepted of a URL is one of its spellings, and the normal one. *)
KeptUrl(url, u) ==
  /\ u \in Spellings(url)
  /\ TrailingDots(url.host) < 2 => NormalizeUrl(u) = u

LEMMA UrlIsKept ==
  ASSUME NEW url, WellFormedUrl(url), ~Misread(url), ValidateAndNormalize(PartsOf(url)).is_valid
  PROVE  KeptUrl(url, ValidateAndNormalize(PartsOf(url)).normalized_url)
<1>. DEFINE s == SchemeOf(url)
            low == ToLower(s)
            u == ValidateAndNormalize(PartsOf(url)).normalized_url
            x == NormalText(s, url.user, url.host, url.port, url.path, url.query)
            normal == NormalHostOf(url.host)
<1>1. /\ PartsApart(s, url.user, url.host, url.port, url.path, url.query) /\ ColonsBracketed(url.host)
      /\ IsSeq(url.fragment) /\ Opens(url.fragment, {"#"}) /\ SchemeWord(url) = low
  BY PartsAreRead DEF ReadAsParts
<1>2. /\ UserPlain(url.path, url.query)
      /\ ColonsPlain(HostMade(url.host) \o url.port, url.path \o url.query)
      /\ PortPlain(low, url.port, url.path \o url.query)
  BY <1>1, ReadPlainly
<1>3. u = NormalizeUrl(AddDefaultScheme(PartsOf(url))) /\ IsValidFormat(u) /\ IsValidDomain(ExtractDomain(u))
  BY ValidIs
<1>. HIDE DEF u, s
<1>4. u = x
  <2>1. AddDefaultScheme(PartsOf(url))
          = UrlText(s, url.user, url.host, url.port, url.path, url.query) \o url.fragment
    BY UrlIsSent DEF s
  <2>2. NormalizeUrl(UrlText(s, url.user, url.host, url.port, url.path, url.query) \o url.fragment) = x
    BY <1>1, <1>2, NormalIs
  <2>. QED
    BY <1>3, <2>1, <2>2
<1>5. PICK p, q : KeptParts(x, s, url.user, url.host, url.port, url.path, url.query, p, q)
  <2>1. IsValidFormat(x) /\ IsValidDomain(ExtractDomain(x))
    BY <1>3, <1>4
  <2>. QED
    BY <1>1, <1>2, <2>1, TargetKept
<1>. HIDE DEF x
<1>6. /\ x = UrlText(low, url.user, normal, p, q, url.query)
      /\ p = url.port \/ (p = <<>> /\ IsDefaultPort(low, url.port))
      /\ q = url.path \/ (q = <<"/">> /\ url.path = <<>>)
      /\ TrailingDots(url.host) < 2 => NormalizeUrl(x) = x
  BY <1>5 DEF KeptParts
<1>7. /\ IsSeq(s) /\ IsSeq(url.user) /\ IsSeq(url.host) /\ IsSeq(url.port) /\ IsSeq(url.path) /\ IsSeq(url.query)
  BY <1>1 DEF PartsApart, AreSeqs
<1>8. IsSeq(low) /\ ToLower(low) = low
  BY <1>7, LowerIs DEF Lowered
<1>. HIDE DEF low
<1>9. IsSeq(p) /\ IsSeq(q) /\ IsSeq(normal) /\ IsSeq(Separator)
  BY <1>6, <1>7, TupleShape, NormalHostIsText, SeparatorIs
<1>. HIDE DEF normal
<1>10. x = low \o Separator \o url.user \o normal \o p \o q \o url.query
  <2>. DEFINE lead == low \o Separator
              rest == url.user \o (normal \o (p \o (q \o url.query)))
  <2>1. IsSeq(lead)
    BY <1>8, <1>9, ConcatShape
  <2>2. SixGrouped(lead, url.user, normal, p, q, url.query)
    <3>. HIDE DEF lead
    <3>. QED
      BY <1>7, <1>9, <2>1, SixPieces
  <2>3. IsSeq(rest)
    <3>. DEFINE r4 == q \o url.query
                r3 == p \o r4
                r2 == normal \o r3
    <3>1. IsSeq(r4)
      BY <1>7, <1>9, ConcatShape
    <3>2. IsSeq(r3)
      <4>. HIDE DEF r4
      <4>. QED
        BY <1>9, <3>1, ConcatShape
    <3>3. IsSeq(r2)
      <4>. HIDE DEF r3
      <4>. QED
        BY <1>9, <3>2, ConcatShape
    <3>. HIDE DEF r2
    <3>4. IsSeq(url.user \o r2)
      BY <1>7, <3>3, ConcatShape
    <3>. QED
      BY <3>4 DEF r2
  <2>4. Grouped(low, Separator, rest)
    <3>. HIDE DEF rest
    <3>. QED
      BY <1>8, <1>9, <2>3, GroupedIs
  <2>. QED
    BY <1>6, <2>2, <2>4 DEF Grouped, SixGrouped, UrlText
<1>11. p \in {url.port} \cup (IF HasDefaultPort(url) THEN {<<>>} ELSE {})
  <2>1. IsDefaultPort(low, url.port) => HasDefaultPort(url)
    BY <1>1, <1>8 DEF IsDefaultPort, HasDefaultPort
  <2>. QED
    BY <1>6, <2>1
<1>12. q \in {url.path} \cup (IF IsEmpty(url.path) THEN {<<"/">>} ELSE {})
  BY <1>6 DEF IsEmpty
<1>13. x \in Spellings(url)
  <2>. DEFINE Spelled(a, b) == SchemeWord(url) \o Separator \o url.user \o NormalHostOf(url.host) \o a \o b \o url.query
              ports == {url.port} \cup (IF HasDefaultPort(url) THEN {<<>>} ELSE {})
              paths == {url.path} \cup (IF IsEmpty(url.path) THEN {<<"/">>} ELSE {})
  <2>1. x = Spelled(p, q)
    BY <1>1, <1>10 DEF normal, low
  <2>2. Spellings(url) = {Spelled(a, b) : a \in ports, b \in paths}
    BY DEF Spellings
  <2>3. p \in ports /\ q \in paths
    BY <1>11, <1>12
  <2>. HIDE DEF Spelled, ports, paths
  <2>. QED
    BY <2>1, <2>2, <2>3
<1>. QED
  BY <1>4, <1>6, <1>13 DEF KeptUrl, u

(***************************************************************************)
(* Nothing is stored before shorten_url, which stores what the checks      *)
(* accept of the field url.                                                *)
(***************************************************************************)
UrlStored ==
  \/ stored = Nothing
  \/ /\ ValidateAndNormalize(fields[<<"url">>]).is_valid
     /\ stored.url = ValidateAndNormalize(fields[<<"url">>]).normalized_url

UrlInv ==
  /\ pc = "compose" => stored = Nothing
  /\ ask.route = "shorten" => (pc # "done" => stored = Nothing) /\ (pc = "done" => UrlStored)

LEMMA UrlSteps ==
  ASSUME FormInv, UrlInv, [Next]_vars
  PROVE  UrlInv'
<1>1. CASE Compose
  BY <1>1 DEF Compose, UrlInv, UrlStored
<1>2. CASE HandleRequest
  <2>1. pc = "handle_request" /\ ask' = ask /\ stored' = stored /\ pc' # "compose"
    BY <1>2 DEF HandleRequest, Fail, Respond
  <2>. QED
    BY <2>1 DEF UrlInv, UrlStored
<1>3. CASE ParseForm
  <2>1. pc = "parse_form_data" /\ ask' = ask /\ stored' = stored /\ pc' # "compose"
    BY <1>3 DEF ParseForm, Fail, Respond
  <2>. QED
    BY <2>1 DEF UrlInv, UrlStored
<1>4. CASE ShortenUrl
  <2>. DEFINE result == ValidateAndNormalize(fields[<<"url">>])
  <2>1. pc = "shorten_url" /\ ask' = ask /\ fields' = fields /\ pc' = "done"
    BY <1>4 DEF ShortenUrl, Succeed, Fail, Respond
  <2>2. \/ result.is_valid /\ stored' = [kind |-> "url", url |-> result.normalized_url]
        \/ stored' = stored
    BY <1>4 DEF ShortenUrl
  <2>3. CASE stored' = stored
    BY <2>1, <2>3 DEF UrlInv, UrlStored
  <2>4. CASE result.is_valid /\ stored' = [kind |-> "url", url |-> result.normalized_url]
    <3>1. UrlStored'
      BY <2>1, <2>4 DEF UrlStored
    <3>. QED
      BY <2>1, <3>1 DEF UrlInv
  <2>. QED
    BY <2>2, <2>3, <2>4
<1>5. CASE FindFirstBoundary \/ ParsePart \/ UploadFile \/ HandleStats \/ HandleQrCode
  <2>1. pc \in {"extract_uploaded_file", "parse_part", "file_of_form", "handle_stats", "handle_qr_code"} /\ ask' = ask
    BY <1>5 DEF FindFirstBoundary, ParsePart, UploadFile, HandleStats, HandleQrCode
  <2>2. pc' # "compose"
    BY <1>5 DEF FindFirstBoundary, ParsePart, UploadFile, HandleStats, HandleQrCode, NoFileUploaded, Succeed, Fail, Respond
  <2>3. ask.route # "shorten"
    BY <2>1 DEF FormInv, ShortenSteps
  <2>. QED
    BY <2>1, <2>2, <2>3 DEF UrlInv
<1>6. CASE UNCHANGED vars
  BY <1>6 DEF vars, UrlInv, UrlStored
<1>. QED
  BY <1>1, <1>2, <1>3, <1>4, <1>5, <1>6 DEF Next

LEMMA UrlHolds ==
  ASSUME WellFormedUrls, FormInv, UrlInv
  PROVE  UrlTargetKept
<1>. SUFFICES ASSUME UrlAsked, Accepted, ~Misread(ask.url)
              PROVE  KeptUrl(ask.url, stored.url)
  BY DEF UrlTargetKept, KeptUrl
<1>. DEFINE url == ask.url
            pair == [name |-> <<"url">>, value |-> PartsOf(url)]
<1>1. pc = "done" /\ ask.route = "shorten" /\ "url" \in DOMAIN ask /\ ask \in Asks
  BY DEF UrlAsked, Done, FormInv
<1>2. ask.pairs = <<pair>> /\ WellFormedUrl(url)
  BY <1>1 DEF WellFormedUrls
<1>3. fields[<<"url">>] = PartsOf(url)
  <2>. DEFINE ps == ask.pairs
              named == {i \in DOMAIN ps : ~IsEmpty(ps[i].name)}
  <2>1. FormAsSent
    BY FormHolds
  <2>2. DOMAIN ps = {1} /\ ps[1] = pair
    BY <1>2
  <2>3. pair.name = <<"url">> /\ pair.value = PartsOf(url) /\ ~IsEmpty(<<"url">>)
    BY DEF IsEmpty
  <2>4. named = {1}
    BY <2>2, <2>3
  <2>5. \A i \in named : (\A j \in named : j > i => ps[j].name # ps[i].name) => fields[ps[i].name] = ps[i].value
    BY <1>1, <2>1 DEF FormAsSent
  <2>. QED
    BY <2>2, <2>3, <2>4, <2>5
<1>4. ValidateAndNormalize(PartsOf(url)).is_valid /\ stored.url = ValidateAndNormalize(PartsOf(url)).normalized_url
  BY <1>1, <1>3 DEF UrlInv, UrlStored, Accepted
<1>5. KeptUrl(url, ValidateAndNormalize(PartsOf(url)).normalized_url)
  BY <1>2, <1>4, UrlIsKept
<1>. QED
  BY <1>4, <1>5

(***************************************************************************)
(* UrlTargetKept, for every URL whose parts are what a reader takes them   *)
(* for: whatever the checks accept and nothing misreads is stored in one   *)
(* of its spellings, and normalize_url leaves that as it is.               *)
(***************************************************************************)
THEOREM UrlsLeadWhereTheyLed ==
  ASSUME WellFormedUrls
  PROVE  Spec => []UrlTargetKept
<1>1. Init => FormInv /\ UrlInv
  BY DEF Init, FormInv, UrlInv
<1>2. (FormInv /\ UrlInv) /\ [Next]_vars => (FormInv /\ UrlInv)'
  BY FormSteps, UrlSteps
<1>3. FormInv /\ UrlInv => UrlTargetKept
  BY UrlHolds
<1>. QED
  BY <1>1, <1>2, <1>3, PTL DEF Spec

=============================================================================
